---------------------------- MODULE WatcherProofs ----------------------------
(***************************************************************************)
(* Proofs about Watcher, for any callers, numbers of restarts, handles,    *)
(* generations, executions and faults.                                     *)
(***************************************************************************)
EXTENDS Watcher, TLAPS

USE NoneAssumption, CallerAssumption, BoundAssumption

-----------------------------------------------------------------------------
(* The invariant.                                                          *)

DogPoints == {"none", "sleep", "check", "take", "fail", "close", "join", "spawn",
              "store", "ended"}
Intakes == {"none", "reading", "stuck", "hung", "leaving", "ended", "killed"}
CallerPoints == {"idle", "take", "close", "join", "join dog", "start", "gone"}
Stops == {"take", "close", "join", "join dog"}
Joining == {"close", "join"}
Apart == {"sleep", "check", "take", "fail", "ended"}

HandleT ==
    [stop : BOOLEAN, inner : {None} \cup Generations, lock : {None} \cup Threads,
     note : {"none", "restarted", "overflow", "failed open"}]
DogT == [at : DogPoints, restarts : Nat, old : {None} \cup Generations]
GenT == [handle : {None} \cup Handles, fd : {"none", "open", "closed"}, intake : Intakes]
CallerT ==
    [at : CallerPoints, handle : {None} \cup Handles, old : {None} \cup Generations,
     enabled : BOOLEAN]

HandlesOK == handle \in [Handles -> HandleT]
DogsOK ==
    /\ dog \in [Handles -> DogT]
    /\ \A h \in Handles : dog[h].at \in {"close", "join", "store"} => dog[h].old # None
GensOK == gen \in [Generations -> GenT]
CallersOK ==
    /\ caller \in [Threads -> CallerT]
    /\ \A t \in Threads : /\ caller[t].at \in Stops => caller[t].handle # None
                          /\ caller[t].at \in Joining => caller[t].old # None
RestOK ==
    /\ slot \in {None} \cup Handles /\ slotLock \in {None} \cup Callers
    /\ waits \subseteq Generations /\ down \in BOOLEAN
    /\ used \in [handles : 0..MaxHandles, gens : 0..MaxGenerations, execs : Nat,
                 faults : Nat]
Shapes == HandlesOK /\ DogsOK /\ GensOK /\ CallersOK /\ RestOK

(* A handle exists from its start on, and its watchdog with it; a watchdog *)
(* counts one restart too many before it gives up.                         *)
Started ==
    /\ slot # None => slot <= used.handles
    /\ \A h \in Handles : h <= used.handles <=> dog[h].at # "none"
    /\ \A h \in Handles : handle[h].stop => h <= used.handles
    /\ \A h \in Handles : dog[h].restarts <= MAX_RESTARTS + 1
    /\ \A h \in Handles :
          dog[h].at \notin {"fail", "ended"} => dog[h].restarts <= MAX_RESTARTS
    /\ \A h \in Handles : dog[h].at = "fail" => dog[h].restarts > MAX_RESTARTS

(* A generation exists from its spawn on; it reads, or could, only while   *)
(* its group is open, and only an open group holds programs up.            *)
Made ==
    /\ \A g \in Generations : g > used.gens => gen[g].handle = None
    /\ \A g \in Generations : g > used.gens => gen[g].fd = "none"
    /\ \A g \in Generations : g > used.gens => gen[g].intake = "none"
    /\ \A g \in Generations :
          g <= used.gens => gen[g].handle \in Handles /\ gen[g].handle <= used.handles
    /\ \A g \in Generations : g <= used.gens => gen[g].fd # "none"
    /\ \A g \in Generations : g <= used.gens => gen[g].intake # "none"
    /\ \A g \in Generations :
          gen[g].fd = "open" => gen[g].intake \in {"reading", "stuck", "hung"}
    /\ \A g \in Generations : g \in waits => gen[g].fd = "open"

(* Nothing is left to step when the process has exited.                    *)
Dead ==
    /\ down => \A g \in Generations : gen[g].intake \in {"none", "ended", "killed"}
    /\ down => \A h \in Handles : dog[h].at \in {"none", "ended"}
    /\ down => \A t \in Threads : caller[t].at = "gone"

(* The started handles but the one in the slot have been told to stop, and *)
(* the slot is empty while a connection is at work on it.                  *)
Slots ==
    /\ slot # None => slotLock = None
    /\ \A h \in Handles : h <= used.handles => (handle[h].stop <=> h # slot)
    /\ \A t \in Callers : slotLock = t <=> caller[t].at # "idle"

(* A handle that is being stopped is stopped by one thread.                *)
Held ==
    /\ \A t \in Threads : caller[t].at # "gone"
    /\ \A t \in Threads : caller[t].handle # None <=> caller[t].at \in Stops
    /\ \A t \in Threads : caller[t].handle # None => caller[t].handle <= used.handles
    /\ \A t \in Threads : caller[t].handle # None => handle[caller[t].handle].stop
    /\ \A t, u \in Threads :
          caller[t].handle = caller[u].handle /\ caller[t].handle # None => t = u

(* Its mutex is held while the old generation is joined, and the inner     *)
(* slot is empty then.                                                     *)
Locks ==
    /\ \A t \in Threads, h \in Handles :
          handle[h].lock = t => caller[t].handle = h /\ caller[t].at \in Joining
    /\ \A t \in Threads :
          caller[t].at \in Joining => handle[caller[t].handle].lock = t
Joins ==
    /\ \A t \in Threads : caller[t].at \in Joining => caller[t].old # None
    /\ \A t \in Threads : caller[t].at \in Joining => caller[t].old <= used.gens
    /\ \A t \in Threads :
          caller[t].at \in Joining => gen[caller[t].old].handle = caller[t].handle
    /\ \A t \in Threads :
          caller[t].at \in Joining => handle[caller[t].handle].inner = None
    /\ \A t \in Threads :
          caller[t].at \in Joining => dog[caller[t].handle].at \in Apart
    /\ \A t \in Threads : caller[t].at = "join" => gen[caller[t].old].fd = "closed"

(* The inner slot and the watchdog hold generations of their handle, and   *)
(* never both one.                                                         *)
Owns ==
    /\ \A h \in Handles : handle[h].inner # None => handle[h].inner <= used.gens
    /\ \A h \in Handles : handle[h].inner # None => gen[handle[h].inner].handle = h
    /\ \A h \in Handles : dog[h].old # None <=> dog[h].at \in {"close", "join", "store"}
    /\ \A h \in Handles : dog[h].old # None => dog[h].old <= used.gens
    /\ \A h \in Handles : dog[h].old # None => gen[dog[h].old].handle = h
    /\ \A h \in Handles : dog[h].at = "join" => gen[dog[h].old].fd = "closed"
    /\ \A h \in Handles :
          dog[h].at \in {"close", "join", "spawn", "store"} => handle[h].inner = None

(* A watchdog ends when its handle is stopped or when it has given up; the *)
(* stop of a handle waits for it.                                          *)
Ends ==
    /\ \A h \in Handles :
          dog[h].at = "ended" /\ ~handle[h].stop =>
               handle[h].note = "failed open" \/ h \in muted
    /\ \A h \in Handles :
          dog[h].at = "ended" /\ ~handle[h].stop => handle[h].inner = None
    /\ \A h \in Handles : handle[h].note = "failed open" => dog[h].at = "ended"
    /\ \A h \in Handles :
          \/ ~handle[h].stop
          \/ \E t \in Threads : caller[t].handle = h
          \/ dog[h].at = "ended"

(* A restart that failed left no thread that could write a note.           *)
Left ==
    \A h \in Handles, g \in Generations :
       handle[h].note = "failed open" /\ dog[h].restarts <= MAX_RESTARTS
          /\ gen[g].handle = h => ~Alive(g)

(* Sweeps are those of generations that run, and a note was written over   *)
(* only where the watchdog gave up.                                        *)
Sweeps == \A g \in sweeps : g \in Generations /\ gen[g].intake \notin {"none", "ended"}
Muted ==
    \A h \in muted :
       h \in Handles /\ h <= used.handles /\ dog[h].restarts > MAX_RESTARTS

(* An intake that runs belongs to a group somebody knows of.               *)
Where(g) ==
    \/ handle[gen[g].handle].inner = g
    \/ dog[gen[g].handle].old = g
    \/ \E t \in Threads : caller[t].old = g /\ caller[t].at \in Joining
    \/ GivenUp(g)
Found == \A g \in Generations : Alive(g) => Where(g)

(* The inner slot names a generation that was made, also after the exit.   *)
Named == \A h \in Handles : handle[h].inner # None => handle[h].inner <= used.gens

Living == Slots /\ Held /\ Locks /\ Joins /\ Owns /\ Ends /\ Found /\ Left
WatchInv ==
    Shapes /\ Started /\ Made /\ Named /\ Dead /\ Sweeps /\ Muted /\ (~down => Living)

-----------------------------------------------------------------------------
(* What the actions do, field by field.                                    *)

(* A program is executed.                                                  *)
LEMMA ExecDoes ==
    ASSUME Shapes, Exec
    PROVE  /\ ~down
           /\ waits' = waits \cup {g \in Generations : gen[g].fd = "open"}
           /\ used'.handles = used.handles /\ used'.gens = used.gens
           /\ UNCHANGED <<slot, slotLock, handle, dog, gen, caller, down>>
  BY DEF Exec, Shapes, RestOK

(* An answer.                                                              *)
LEMMA AnswerDoes ==
    ASSUME Shapes, NEW g \in Generations, Answer(g)
    PROVE  /\ gen[g].intake = "reading"
           /\ waits' = waits \ {g}
           /\ UNCHANGED <<slot, slotLock, handle, dog, gen, caller, used, down>>
  BY DEF Answer, Reads, Shapes

(* The intake stalls.                                                      *)
LEMMA StallDoes ==
    ASSUME Shapes, NEW g \in Generations, Stall(g)
    PROVE  /\ gen[g].intake = "reading"
           /\ \A x \in Generations : x # g => gen'[x] = gen[x]
           /\ \A x \in Generations : gen'[x].handle = gen[x].handle
           /\ \A x \in Generations : gen'[x].fd = gen[x].fd
           /\ gen'[g].intake \in {"stuck", "hung"}
           /\ used'.handles = used.handles /\ used'.gens = used.gens
           /\ UNCHANGED <<slot, slotLock, handle, dog, waits, caller, down>>
  BY DEF Stall, Faulty, Shapes, GensOK, GenT, RestOK

(* The intake goes on.                                                     *)
LEMMA RecoverDoes ==
    ASSUME Shapes, NEW g \in Generations, Recover(g)
    PROVE  /\ gen[g].intake = "stuck"
           /\ \A x \in Generations : x # g => gen'[x] = gen[x]
           /\ \A x \in Generations : gen'[x].handle = gen[x].handle
           /\ \A x \in Generations : gen'[x].fd = gen[x].fd
           /\ gen'[g].intake = "reading"
           /\ UNCHANGED <<slot, slotLock, handle, dog, waits, caller, used, down>>
  BY DEF Recover, Shapes, GensOK, GenT

(* The intake leaves its loop.                                             *)
LEMMA LeaveDoes ==
    ASSUME Shapes, NEW g \in Generations, Leave(g)
    PROVE  /\ gen[g].intake = "reading"
           /\ \A x \in Generations : x # g => gen'[x] = gen[x]
           /\ \A x \in Generations : gen'[x].handle = gen[x].handle
           /\ gen'[g].fd = "closed"
           /\ gen'[g].intake = "leaving"
           /\ waits' = waits \ {g}
           /\ used'.handles = used.handles /\ used'.gens = used.gens
           /\ UNCHANGED <<slot, slotLock, handle, dog, caller, down>>
  BY DEF Leave, Faulty, Reads, Closed, Shapes, GensOK, GenT, RestOK

(* The intake ends.                                                        *)
LEMMA WindUpDoes ==
    ASSUME Shapes, NEW g \in Generations, WindUp(g)
    PROVE  /\ gen[g].intake = "leaving"
           /\ \A x \in Generations : x # g => gen'[x] = gen[x]
           /\ \A x \in Generations : gen'[x].handle = gen[x].handle
           /\ \A x \in Generations : gen'[x].fd = gen[x].fd
           /\ gen'[g].intake = "ended"
           /\ UNCHANGED <<slot, slotLock, handle, dog, waits, caller, used, down>>
  BY DEF WindUp, Shapes, GensOK, GenT

(* The watchdog wakes up.                                                  *)
LEMMA DogWakesDoes ==
    ASSUME Shapes, NEW h \in Handles, DogWakes(h)
    PROVE  /\ dog[h].at = "sleep"
           /\ \A x \in Handles : x # h => dog'[x] = dog[x]
           /\ dog'[h].at = IF handle[h].stop THEN "ended" ELSE "check"
           /\ \A x \in Handles : dog'[x].restarts = dog[x].restarts
           /\ \A x \in Handles : dog'[x].old = dog[x].old
           /\ UNCHANGED <<slot, slotLock, handle, gen, waits, caller, used, down>>
  BY DEF DogWakes, DogAt, Shapes, DogsOK, DogT

(* All is well.                                                            *)
LEMMA DogSeesHealthyDoes ==
    ASSUME Shapes, NEW h \in Handles, DogSeesHealthy(h)
    PROVE  /\ dog[h].at = "check"
           /\ handle[h].lock = None
           /\ \A x \in Handles : x # h => dog'[x] = dog[x]
           /\ dog'[h].at = "sleep"
           /\ \A x \in Handles : dog'[x].restarts = dog[x].restarts
           /\ \A x \in Handles : dog'[x].old = dog[x].old
           /\ \A x \in Handles : x # h => handle'[x] = handle[x]
           /\ \A x \in Handles : handle'[x].stop <=> handle[x].stop
           /\ \A x \in Handles : handle'[x].inner = handle[x].inner
           /\ \A x \in Handles : handle'[x].lock = handle[x].lock
           /\ handle'[h].note \in {handle[h].note, "none"}
           /\ handle'[h].note # handle[h].note => handle[h].note = "restarted"
           /\ UNCHANGED <<slot, slotLock, gen, waits, caller, used, down>>
  <1>1. /\ dog[h].at = "check"
        /\ handle[h].lock = None
        /\ dog' = [dog EXCEPT ![h].at = "sleep"]
        /\ \/ handle' = handle
           \/ handle[h].note = "restarted" /\ Notes(h, "none")
        /\ UNCHANGED <<slot, slotLock, gen, waits, caller, used, down>>
    BY DEF DogSeesHealthy, DogAt
  <1>2. /\ \A x \in Handles : x # h => dog'[x] = dog[x]
        /\ dog'[h].at = "sleep"
        /\ dog'[h].restarts = dog[h].restarts
        /\ dog'[h].old = dog[h].old
    BY <1>1 DEF Shapes, DogsOK, DogT
  <1>3. CASE handle' = handle
    BY <1>1, <1>2, <1>3
  <1>4. CASE handle[h].note = "restarted" /\ Notes(h, "none")
    <2>1. /\ \A x \in Handles : x # h => handle'[x] = handle[x]
          /\ handle'[h].stop <=> handle[h].stop
          /\ handle'[h].inner = handle[h].inner
          /\ handle'[h].lock = handle[h].lock
          /\ handle'[h].note \in {handle[h].note, "none"}
      BY ZenonT(30), <1>4 DEF Notes, Noted, Shapes, HandlesOK, HandleT
    <2> QED BY <1>1, <1>2, <1>4, <2>1
  <1> QED BY <1>1, <1>3, <1>4

(* The heartbeat is stale.                                                 *)
LEMMA DogSeesStallDoes ==
    ASSUME Shapes, NEW h \in Handles, DogSeesStall(h)
    PROVE  /\ dog[h].at = "check"
           /\ handle[h].lock = None
           /\ handle[h].inner # None
           /\ \A x \in Handles : x # h => dog'[x] = dog[x]
           /\ dog'[h].at = IF dog[h].restarts < MAX_RESTARTS THEN "take" ELSE "fail"
           /\ dog'[h].restarts = dog[h].restarts + 1
           /\ \A x \in Handles : dog'[x].old = dog[x].old
           /\ UNCHANGED <<slot, slotLock, handle, gen, waits, caller, used, down>>
  BY DEF DogSeesStall, MaySeeStale, MustSeeStale, Shapes, DogsOK, DogT

(* Too many restarts.                                                      *)
LEMMA DogGivesUpDoes ==
    ASSUME Shapes, NEW h \in Handles, DogGivesUp(h)
    PROVE  /\ dog[h].at = "fail"
           /\ handle[h].lock = None
           /\ \A x \in Handles : x # h => dog'[x] = dog[x]
           /\ dog'[h].at = "ended"
           /\ \A x \in Handles : dog'[x].restarts = dog[x].restarts
           /\ \A x \in Handles : dog'[x].old = dog[x].old
           /\ \A x \in Handles : x # h => handle'[x] = handle[x]
           /\ \A x \in Handles : handle'[x].stop <=> handle[x].stop
           /\ handle'[h].inner = None
           /\ \A x \in Handles : handle'[x].lock = handle[x].lock
           /\ handle'[h].note \in {handle[h].note, "failed open"}
           /\ ~handle[h].stop => handle'[h].note = "failed open"
           /\ UNCHANGED <<slot, slotLock, gen, waits, caller, used, down>>
  BY ZenonT(30) DEF DogGivesUp, Noted, DogAt, Shapes, DogsOK, DogT, HandlesOK, HandleT

(* The old generation is taken.                                            *)
LEMMA DogTakesDoes ==
    ASSUME Shapes, NEW h \in Handles, DogTakes(h)
    PROVE  /\ dog[h].at = "take"
           /\ handle[h].lock = None
           /\ \A x \in Handles : x # h => dog'[x] = dog[x]
           /\ dog'[h].at = IF handle[h].inner = None THEN "spawn" ELSE "close"
           /\ \A x \in Handles : dog'[x].restarts = dog[x].restarts
           /\ dog'[h].old = handle[h].inner
           /\ \A x \in Handles : x # h => handle'[x] = handle[x]
           /\ \A x \in Handles : handle'[x].stop <=> handle[x].stop
           /\ handle'[h].inner = None
           /\ \A x \in Handles : handle'[x].lock = handle[x].lock
           /\ \A x \in Handles : handle'[x].note = handle[x].note
           /\ UNCHANGED <<slot, slotLock, gen, waits, caller, used, down>>
  BY ZenonT(30) DEF DogTakes, Shapes, DogsOK, DogT, HandlesOK, HandleT

(* The old generation's group is closed.                                   *)
LEMMA DogClosesDoes ==
    ASSUME Shapes, NEW h \in Handles, DogCloses(h)
    PROVE  /\ dog[h].at = "close"
           /\ dog[h].old \in Generations
           /\ \A x \in Handles : x # h => dog'[x] = dog[x]
           /\ dog'[h].at = "join"
           /\ \A x \in Handles : dog'[x].restarts = dog[x].restarts
           /\ \A x \in Handles : dog'[x].old = dog[x].old
           /\ \A x \in Generations : x # dog[h].old => gen'[x] = gen[x]
           /\ \A x \in Generations : gen'[x].handle = gen[x].handle
           /\ gen'[dog[h].old].fd = "closed"
           /\ \A x \in Generations : gen'[x].intake = gen[x].intake
           /\ waits' = waits \ {dog[h].old}
           /\ UNCHANGED <<slot, slotLock, handle, caller, used, down>>
  BY DEF DogCloses, CloseFd, Closed, DogAt, Shapes, DogsOK, DogT, GensOK, GenT

(* The old generation has ended.                                           *)
LEMMA DogJoinsDoes ==
    ASSUME Shapes, NEW h \in Handles, DogJoins(h)
    PROVE  /\ dog[h].at = "join"
           /\ gen[dog[h].old].intake = "ended"
           /\ \A x \in Handles : x # h => dog'[x] = dog[x]
           /\ dog'[h].at = "spawn"
           /\ \A x \in Handles : dog'[x].restarts = dog[x].restarts
           /\ dog'[h].old = None
           /\ UNCHANGED <<slot, slotLock, handle, gen, waits, caller, used, down>>
  BY DEF DogJoins, Shapes, DogsOK, DogT

(* A new generation.                                                       *)
LEMMA DogSpawnsDoes ==
    ASSUME Shapes, NEW h \in Handles, DogSpawns(h)
    PROVE  /\ dog[h].at = "spawn"
           /\ \A x \in Handles : x # h => dog'[x] = dog[x]
           /\ dog'[h].at = "store"
           /\ \A x \in Handles : dog'[x].restarts = dog[x].restarts
           /\ dog'[h].old = used.gens + 1
           /\ used.gens + 1 \in Generations
           /\ gen'[used.gens + 1].fd = "open" /\ gen'[used.gens + 1].intake = "reading"
           /\ \A x \in Generations : x # used.gens + 1 => gen'[x] = gen[x]
           /\ gen'[used.gens + 1].handle = h
           /\ used'.gens = used.gens + 1 /\ used'.handles = used.handles
           /\ UNCHANGED <<slot, slotLock, handle, waits, caller, down>>
  <1>1. /\ dog[h].at = "spawn"
        /\ used.gens + 1 \in Generations
        /\ gen' = [gen EXCEPT ![used.gens + 1] =
                     [handle |-> h, fd |-> "open", intake |-> "reading"]]
        /\ dog' = [dog EXCEPT ![h].at = "store", ![h].old = used.gens + 1]
        /\ used'.gens = used.gens + 1 /\ used'.handles = used.handles
        /\ UNCHANGED <<slot, slotLock, handle, waits, caller, down>>
    BY DEF DogSpawns, Spawned, Shapes, RestOK, Generations
  <1>2. /\ \A x \in Handles : x # h => dog'[x] = dog[x]
        /\ dog'[h].at = "store"
        /\ dog'[h].restarts = dog[h].restarts
        /\ dog'[h].old = used.gens + 1
    BY <1>1 DEF Shapes, DogsOK, DogT
  <1>3. /\ gen'[used.gens + 1].fd = "open" /\ gen'[used.gens + 1].intake = "reading"
        /\ \A x \in Generations : x # used.gens + 1 => gen'[x] = gen[x]
        /\ gen'[used.gens + 1].handle = h
    BY <1>1 DEF Shapes, GensOK, GenT
  <1> QED BY <1>1, <1>2, <1>3

(* The restart fails.                                                      *)
LEMMA DogCannotSpawnDoes ==
    ASSUME Shapes, NEW h \in Handles, DogCannotSpawn(h)
    PROVE  /\ dog[h].at = "spawn"
           /\ \A x \in Handles : x # h => dog'[x] = dog[x]
           /\ dog'[h].at = "ended"
           /\ \A x \in Handles : dog'[x].restarts = dog[x].restarts
           /\ \A x \in Handles : dog'[x].old = dog[x].old
           /\ \A x \in Handles : x # h => handle'[x] = handle[x]
           /\ \A x \in Handles : handle'[x].stop <=> handle[x].stop
           /\ \A x \in Handles : handle'[x].inner = handle[x].inner
           /\ \A x \in Handles : handle'[x].lock = handle[x].lock
           /\ handle'[h].note \in {handle[h].note, "failed open"}
           /\ ~handle[h].stop => handle'[h].note = "failed open"
           /\ used'.handles = used.handles /\ used'.gens = used.gens
           /\ UNCHANGED <<slot, slotLock, gen, waits, caller, down>>
  <1>1. /\ dog[h].at = "spawn"
        /\ dog' = [dog EXCEPT ![h].at = "ended"]
        /\ Notes(h, "failed open")
        /\ used'.handles = used.handles /\ used'.gens = used.gens
        /\ UNCHANGED <<slot, slotLock, gen, waits, caller, down>>
    BY DEF DogCannotSpawn, Faulty, DogAt, Shapes, RestOK
  <1>2. /\ \A x \in Handles : x # h => dog'[x] = dog[x]
        /\ dog'[h].at = "ended"
        /\ dog'[h].restarts = dog[h].restarts
        /\ dog'[h].old = dog[h].old
    BY <1>1 DEF Shapes, DogsOK, DogT
  <1>3. /\ \A x \in Handles : x # h => handle'[x] = handle[x]
        /\ handle'[h].stop <=> handle[h].stop
        /\ handle'[h].inner = handle[h].inner
        /\ handle'[h].lock = handle[h].lock
        /\ handle'[h].note \in {handle[h].note, "failed open"}
        /\ ~handle[h].stop => handle'[h].note = "failed open"
    BY ZenonT(30), <1>1 DEF Notes, Noted, Shapes, HandlesOK, HandleT
  <1> QED BY <1>1, <1>2, <1>3

(* The new generation is in the slot.                                      *)
LEMMA DogStoresDoes ==
    ASSUME Shapes, NEW h \in Handles, DogStores(h)
    PROVE  /\ dog[h].at = "store"
           /\ handle[h].lock = None
           /\ \A x \in Handles : x # h => dog'[x] = dog[x]
           /\ dog'[h].at = "sleep"
           /\ \A x \in Handles : dog'[x].restarts = dog[x].restarts
           /\ dog'[h].old = None
           /\ \A x \in Handles : x # h => handle'[x] = handle[x]
           /\ \A x \in Handles : handle'[x].stop <=> handle[x].stop
           /\ handle'[h].inner = dog[h].old
           /\ \A x \in Handles : handle'[x].lock = handle[x].lock
           /\ handle'[h].note \in {handle[h].note, "restarted"}
           /\ ~handle[h].stop => handle'[h].note = "restarted"
           /\ UNCHANGED <<slot, slotLock, gen, waits, caller, used, down>>
  BY ZenonT(30) DEF DogStores, Noted, Shapes, DogsOK, DogT, HandlesOK, HandleT

(* The handle is taken out of the slot.                                    *)
LEMMA TakeHandleDoes ==
    ASSUME Shapes, NEW t \in Threads, TakeHandle(t)
    PROVE  /\ caller[t].at = "idle"
           /\ slotLock = None
           /\ \A x \in Threads : x # t => caller'[x] = caller[x]
           /\ caller'[t].at = IF slot = None THEN "start" ELSE "take"
           /\ caller'[t].handle = slot
           /\ caller'[t].old = None
           /\ slot' = None
           /\ slotLock' = IF t = Signal THEN None ELSE t
           /\ \A x \in Handles : handle'[x].stop <=> (handle[x].stop \/ x = slot)
           /\ \A x \in Handles : handle'[x].inner = handle[x].inner
           /\ \A x \in Handles : handle'[x].lock = handle[x].lock
           /\ \A x \in Handles : handle'[x].note = IF x = slot THEN "none" ELSE handle[x].note
           /\ UNCHANGED <<dog, gen, waits, used, down>>
  <1>1. handle' = [x \in Handles |->
           IF x = slot THEN [handle[x] EXCEPT !.stop = TRUE, !.note = "none"]
           ELSE handle[x]]
    BY DEF TakeHandle
  <1>2. ASSUME NEW x \in Handles
        PROVE  /\ handle'[x].stop <=> (handle[x].stop \/ x = slot)
               /\ handle'[x].inner = handle[x].inner
               /\ handle'[x].lock = handle[x].lock
               /\ handle'[x].note = IF x = slot THEN "none" ELSE handle[x].note
    BY <1>1 DEF Shapes, HandlesOK, HandleT
  <1>3. /\ caller[t].at = "idle"
        /\ slotLock = None
        /\ slot' = None
        /\ slotLock' = IF t = Signal THEN None ELSE t
        /\ UNCHANGED <<dog, gen, waits, used, down>>
    BY DEF TakeHandle
  <1>4. PICK on \in BOOLEAN :
           caller' = [caller EXCEPT ![t] =
              [IdleCaller EXCEPT !.at = IF slot = None THEN "start" ELSE "take",
                                 !.handle = slot, !.enabled = on]]
    BY DEF TakeHandle
  <1>5. /\ \A x \in Threads : x # t => caller'[x] = caller[x]
        /\ caller'[t].at = IF slot = None THEN "start" ELSE "take"
        /\ caller'[t].handle = slot
        /\ caller'[t].old = None
    BY <1>4 DEF IdleCaller, Shapes, CallersOK, CallerT
  <1> QED BY <1>2, <1>3, <1>5

(* The generation is taken out of its slot.                                *)
LEMMA TakeInnerDoes ==
    ASSUME Shapes, NEW t \in Threads, TakeInner(t)
    PROVE  /\ caller[t].at = "take"
           /\ caller[t].handle \in Handles
           /\ handle[caller[t].handle].lock = None
           /\ \A x \in Threads : x # t => caller'[x] = caller[x]
           /\ \A x \in Threads : caller'[x].handle = caller[x].handle
           /\ caller'[t].old = handle[caller[t].handle].inner
           /\ \A x \in Threads : caller'[x].enabled <=> caller[x].enabled
           /\ \A x \in Handles : x # caller[t].handle => handle'[x] = handle[x]
           /\ \A x \in Handles : handle'[x].stop <=> handle[x].stop
           /\ handle'[caller[t].handle].inner = None
           /\ \A x \in Handles : handle'[x].note = handle[x].note
           /\ handle[caller[t].handle].inner = None => caller'[t].at = "join dog"
           /\ handle[caller[t].handle].inner # None => caller'[t].at = "close"
           /\ handle[caller[t].handle].inner = None
                => handle'[caller[t].handle].lock = None
           /\ handle[caller[t].handle].inner # None => handle'[caller[t].handle].lock = t
           /\ UNCHANGED <<slot, slotLock, dog, gen, waits, used, down>>
  <1>1. /\ caller[t].at = "take"
        /\ caller[t].handle \in Handles
        /\ handle[caller[t].handle].lock = None
        /\ caller' = [caller EXCEPT
              ![t].at = IF handle[caller[t].handle].inner = None THEN "join dog"
                        ELSE "close",
              ![t].old = handle[caller[t].handle].inner]
        /\ handle' = [handle EXCEPT ![caller[t].handle].inner = None,
              ![caller[t].handle].lock = IF handle[caller[t].handle].inner = None THEN None
                                         ELSE t]
        /\ UNCHANGED <<slot, slotLock, dog, gen, waits, used, down>>
    BY DEF TakeInner, Shapes, CallersOK, CallerT, Stops
  <1>2. /\ \A x \in Threads : x # t => caller'[x] = caller[x]
        /\ caller'[t].handle = caller[t].handle
        /\ caller'[t].old = handle[caller[t].handle].inner
        /\ caller'[t].enabled <=> caller[t].enabled
        /\ handle[caller[t].handle].inner = None => caller'[t].at = "join dog"
        /\ handle[caller[t].handle].inner # None => caller'[t].at = "close"
    BY <1>1 DEF Shapes, CallersOK, CallerT
  <1>3. /\ \A x \in Handles : x # caller[t].handle => handle'[x] = handle[x]
        /\ handle'[caller[t].handle].stop <=> handle[caller[t].handle].stop
        /\ handle'[caller[t].handle].inner = None
        /\ handle'[caller[t].handle].note = handle[caller[t].handle].note
        /\ handle[caller[t].handle].inner = None => handle'[caller[t].handle].lock = None
        /\ handle[caller[t].handle].inner # None => handle'[caller[t].handle].lock = t
    BY ZenonT(30), <1>1 DEF Shapes, HandlesOK, HandleT
  <1> QED BY <1>1, <1>2, <1>3

(* Its group is closed.                                                    *)
LEMMA StopClosesDoes ==
    ASSUME Shapes, NEW t \in Threads, StopCloses(t)
    PROVE  /\ caller[t].at = "close"
           /\ caller[t].old \in Generations
           /\ \A x \in Threads : x # t => caller'[x] = caller[x]
           /\ caller'[t].at = "join"
           /\ \A x \in Threads : caller'[x].handle = caller[x].handle
           /\ \A x \in Threads : caller'[x].old = caller[x].old
           /\ \A x \in Threads : caller'[x].enabled <=> caller[x].enabled
           /\ \A x \in Generations : x # caller[t].old => gen'[x] = gen[x]
           /\ \A x \in Generations : gen'[x].handle = gen[x].handle
           /\ gen'[caller[t].old].fd = "closed"
           /\ \A x \in Generations : gen'[x].intake = gen[x].intake
           /\ waits' = waits \ {caller[t].old}
           /\ UNCHANGED <<slot, slotLock, handle, dog, used, down>>
  <1>1. /\ caller[t].at = "close"
        /\ caller[t].old \in Generations
        /\ caller' = [caller EXCEPT ![t].at = "join"]
        /\ gen' = [gen EXCEPT ![caller[t].old].fd = "closed"]
        /\ waits' = waits \ {caller[t].old}
        /\ UNCHANGED <<slot, slotLock, handle, dog, used, down>>
    BY DEF StopCloses, CloseFd, Closed, At, Shapes, CallersOK, CallerT, Joining
  <1>2. /\ \A x \in Threads : x # t => caller'[x] = caller[x]
        /\ caller'[t].at = "join"
        /\ caller'[t].handle = caller[t].handle
        /\ caller'[t].old = caller[t].old
        /\ caller'[t].enabled <=> caller[t].enabled
    BY <1>1 DEF Shapes, CallersOK, CallerT
  <1>3. /\ \A x \in Generations : x # caller[t].old => gen'[x] = gen[x]
        /\ gen'[caller[t].old].handle = gen[caller[t].old].handle
        /\ gen'[caller[t].old].fd = "closed"
        /\ gen'[caller[t].old].intake = gen[caller[t].old].intake
    BY <1>1 DEF Shapes, GensOK, GenT
  <1> QED BY <1>1, <1>2, <1>3

(* It has ended.                                                           *)
LEMMA StopJoinsDoes ==
    ASSUME Shapes, NEW t \in Threads, StopJoins(t)
    PROVE  /\ caller[t].at = "join"
           /\ caller[t].handle \in Handles
           /\ gen[caller[t].old].intake = "ended"
           /\ \A x \in Threads : x # t => caller'[x] = caller[x]
           /\ caller'[t].at = "join dog"
           /\ \A x \in Threads : caller'[x].handle = caller[x].handle
           /\ \A x \in Threads : caller'[x].old = caller[x].old
           /\ \A x \in Threads : caller'[x].enabled <=> caller[x].enabled
           /\ \A x \in Handles : x # caller[t].handle => handle'[x] = handle[x]
           /\ \A x \in Handles : handle'[x].stop <=> handle[x].stop
           /\ \A x \in Handles : handle'[x].inner = handle[x].inner
           /\ handle'[caller[t].handle].lock = None
           /\ \A x \in Handles : handle'[x].note = handle[x].note
           /\ UNCHANGED <<slot, slotLock, dog, gen, waits, used, down>>
  <1>1. /\ caller[t].at = "join"
        /\ caller[t].handle \in Handles
        /\ gen[caller[t].old].intake = "ended"
        /\ caller' = [caller EXCEPT ![t].at = "join dog"]
        /\ handle' = [handle EXCEPT ![caller[t].handle].lock = None]
        /\ UNCHANGED <<slot, slotLock, dog, gen, waits, used, down>>
    BY DEF StopJoins, At, Shapes, CallersOK, CallerT, Stops
  <1>2. /\ \A x \in Threads : x # t => caller'[x] = caller[x]
        /\ caller'[t].at = "join dog"
        /\ caller'[t].handle = caller[t].handle
        /\ caller'[t].old = caller[t].old
        /\ caller'[t].enabled <=> caller[t].enabled
    BY <1>1 DEF Shapes, CallersOK, CallerT
  <1>3. /\ \A x \in Handles : x # caller[t].handle => handle'[x] = handle[x]
        /\ handle'[caller[t].handle].stop <=> handle[caller[t].handle].stop
        /\ handle'[caller[t].handle].inner = handle[caller[t].handle].inner
        /\ handle'[caller[t].handle].lock = None
        /\ handle'[caller[t].handle].note = handle[caller[t].handle].note
    BY <1>1 DEF Shapes, HandlesOK, HandleT
  <1> QED BY <1>1, <1>2, <1>3

(* The watchdog has ended.                                                 *)
LEMMA StopJoinsDogDoes ==
    ASSUME Shapes, NEW t \in Threads, StopJoinsDog(t)
    PROVE  /\ caller[t].at = "join dog"
           /\ caller[t].handle \in Handles
           /\ dog[caller[t].handle].at = "ended"
           /\ \A x \in Threads : x # t => caller'[x] = caller[x]
           /\ caller'[t].at = "start"
           /\ caller'[t].handle = None
           /\ caller'[t].old = None
           /\ \A x \in Threads : caller'[x].enabled <=> caller[x].enabled
           /\ UNCHANGED <<slot, slotLock, handle, dog, gen, waits, used, down>>
  <1>1. /\ caller[t].at = "join dog"
        /\ caller[t].handle \in Handles
        /\ dog[caller[t].handle].at = "ended"
        /\ caller' = [caller EXCEPT ![t].at = "start", ![t].handle = None, ![t].old = None]
        /\ UNCHANGED <<slot, slotLock, handle, dog, gen, waits, used, down>>
    BY DEF StopJoinsDog, Shapes, CallersOK, CallerT, Stops
  <1>2. /\ \A x \in Threads : x # t => caller'[x] = caller[x]
        /\ caller'[t].at = "start"
        /\ caller'[t].handle = None
        /\ caller'[t].old = None
        /\ caller'[t].enabled <=> caller[t].enabled
    BY <1>1 DEF Shapes, CallersOK, CallerT
  <1> QED BY <1>1, <1>2

(* A new handle.                                                           *)
LEMMA StartDoes ==
    ASSUME Shapes, NEW t \in Threads, Start(t)
    PROVE  /\ caller[t].at = "start"
           /\ t \in Callers
           /\ used.handles + 1 \in Handles
           /\ \A x \in Threads : x # t => caller'[x] = caller[x]
           /\ caller'[t].at = "idle"
           /\ caller'[t].handle = None
           /\ caller'[t].old = None
           /\ \A x \in Handles : x # used.handles + 1 => dog'[x] = dog[x]
           /\ dog'[used.handles + 1].at = "sleep"
           /\ \A x \in Handles : dog'[x].restarts = dog[x].restarts
           /\ \A x \in Handles : dog'[x].old = dog[x].old
           /\ \A x \in Handles : x # used.handles + 1 => handle'[x] = handle[x]
           /\ \A x \in Handles : handle'[x].stop <=> handle[x].stop
           /\ handle'[used.handles + 1].inner = used.gens + 1
           /\ \A x \in Handles : handle'[x].lock = handle[x].lock
           /\ \A x \in Handles : handle'[x].note = handle[x].note
           /\ used.gens + 1 \in Generations
           /\ gen'[used.gens + 1].fd = "open" /\ gen'[used.gens + 1].intake = "reading"
           /\ \A x \in Generations : x # used.gens + 1 => gen'[x] = gen[x]
           /\ gen'[used.gens + 1].handle = used.handles + 1
           /\ used'.gens = used.gens + 1 /\ used'.handles = used.handles + 1
           /\ slot' = used.handles + 1 /\ slotLock' = None
           /\ UNCHANGED <<waits, down>>
  <1>1. /\ caller[t].at = "start"
        /\ t \in Callers
        /\ used.handles + 1 \in Handles
        /\ used.gens + 1 \in Generations
        /\ gen' = [gen EXCEPT ![used.gens + 1] =
                     [handle |-> used.handles + 1, fd |-> "open", intake |-> "reading"]]
        /\ handle' = [handle EXCEPT ![used.handles + 1].inner = used.gens + 1]
        /\ dog' = [dog EXCEPT ![used.handles + 1].at = "sleep"]
        /\ caller' = [caller EXCEPT ![t] = IdleCaller]
        /\ used'.gens = used.gens + 1 /\ used'.handles = used.handles + 1
        /\ slot' = used.handles + 1 /\ slotLock' = None
        /\ UNCHANGED <<waits, down>>
    BY DEF Start, Spawned, Shapes, RestOK, Generations, Handles, Threads
  <1>2. /\ \A x \in Threads : x # t => caller'[x] = caller[x]
        /\ caller'[t].at = "idle"
        /\ caller'[t].handle = None
        /\ caller'[t].old = None
    BY <1>1 DEF Shapes, CallersOK, CallerT, IdleCaller
  <1>3. /\ gen'[used.gens + 1].fd = "open" /\ gen'[used.gens + 1].intake = "reading"
        /\ \A x \in Generations : x # used.gens + 1 => gen'[x] = gen[x]
        /\ gen'[used.gens + 1].handle = used.handles + 1
    BY <1>1 DEF Shapes, GensOK, GenT
  <1>4. /\ \A x \in Handles : x # used.handles + 1 => dog'[x] = dog[x]
        /\ dog'[used.handles + 1].at = "sleep"
        /\ dog'[used.handles + 1].restarts = dog[used.handles + 1].restarts
        /\ dog'[used.handles + 1].old = dog[used.handles + 1].old
    BY <1>1 DEF Shapes, DogsOK, DogT
  <1>5. /\ \A x \in Handles : x # used.handles + 1 => handle'[x] = handle[x]
        /\ handle'[used.handles + 1].stop <=> handle[used.handles + 1].stop
        /\ handle'[used.handles + 1].inner = used.gens + 1
        /\ handle'[used.handles + 1].lock = handle[used.handles + 1].lock
        /\ handle'[used.handles + 1].note = handle[used.handles + 1].note
    BY <1>1 DEF Shapes, HandlesOK, HandleT
  <1> QED BY <1>1, <1>2, <1>3, <1>4, <1>5

(* Nothing is started.                                                     *)
LEMMA NoStartDoes ==
    ASSUME Shapes, NEW t \in Threads, NoStart(t)
    PROVE  /\ caller[t].at = "start"
           /\ t \in Callers
           /\ \A x \in Threads : x # t => caller'[x] = caller[x]
           /\ caller'[t].at = "idle"
           /\ caller'[t].handle = None
           /\ caller'[t].old = None
           /\ slotLock' = None
           /\ used'.handles = used.handles /\ used'.gens = used.gens
           /\ UNCHANGED <<slot, handle, dog, gen, waits, down>>
  <1>1. /\ caller[t].at = "start"
        /\ t \in Callers
        /\ caller' = [caller EXCEPT ![t] = IdleCaller]
        /\ slotLock' = None
        /\ used'.handles = used.handles /\ used'.gens = used.gens
        /\ UNCHANGED <<slot, handle, dog, gen, waits, down>>
    BY DEF NoStart, Faulty, Shapes, RestOK, Threads
  <1>2. /\ \A x \in Threads : x # t => caller'[x] = caller[x]
        /\ caller'[t].at = "idle"
        /\ caller'[t].handle = None
        /\ caller'[t].old = None
    BY <1>1 DEF Shapes, CallersOK, CallerT, IdleCaller
  <1> QED BY <1>1, <1>2

(* The process ends.                                                       *)
LEMMA ExitDoes ==
    ASSUME Shapes, Exit
    PROVE  /\ caller[Signal].at = "start" /\ down' /\ waits' = {}
           /\ \A g \in Generations : g > used.gens => gen'[g] = gen[g]
           /\ \A g \in Generations : ~(g > used.gens) => gen'[g].handle = gen[g].handle
           /\ \A g \in Generations : ~(g > used.gens) => gen'[g].fd = "closed"
           /\ \A g \in Generations :
                 ~(g > used.gens) => gen'[g].intake \in {"ended", "killed"}
           /\ \A h \in Handles : h > used.handles => dog'[h] = dog[h]
           /\ \A h \in Handles : ~(h > used.handles) => dog'[h].at = "ended"
           /\ \A h \in Handles : dog'[h].restarts = dog[h].restarts
           /\ \A t \in Threads : caller'[t].at = "gone"
           /\ UNCHANGED <<slot, slotLock, handle, used>>
  <1>1. /\ caller[Signal].at = "start" /\ down' /\ waits' = {}
        /\ UNCHANGED <<slot, slotLock, handle, used>>
    BY DEF Exit, Shapes, RestOK
  <1>2. /\ \A g \in Generations : g > used.gens => gen'[g] = gen[g]
        /\ \A g \in Generations : ~(g > used.gens) => gen'[g].handle = gen[g].handle
        /\ \A g \in Generations : ~(g > used.gens) => gen'[g].fd = "closed"
        /\ \A g \in Generations :
              ~(g > used.gens) => gen'[g].intake \in {"ended", "killed"}
    BY DEF Exit, Shapes, GensOK, GenT
  <1>3. /\ \A h \in Handles : h > used.handles => dog'[h] = dog[h]
        /\ \A h \in Handles : ~(h > used.handles) => dog'[h].at = "ended"
        /\ \A h \in Handles : dog'[h].restarts = dog[h].restarts
    BY DEF Exit, Shapes, DogsOK, DogT
  <1>4. \A t \in Threads : caller'[t].at = "gone"
    BY DEF Exit, IdleCaller
  <1> QED BY <1>1, <1>2, <1>3, <1>4

(* A generation writes its note over the one its handle has.              *)
LEMMA WritesOverDoes ==
    ASSUME Shapes, NEW g \in Generations, Overflow(g) \/ SweepEnds(g)
    PROVE  /\ Alive(g)
           /\ \A x \in Handles : x # gen[g].handle => handle'[x] = handle[x]
           /\ \A x \in Handles : handle'[x].stop <=> handle[x].stop
           /\ \A x \in Handles : handle'[x].inner = handle[x].inner
           /\ \A x \in Handles : handle'[x].lock = handle[x].lock
           /\ \A x \in Handles : handle'[x].note \in {handle[x].note, "none", "overflow"}
           /\ muted' = muted \cup {x \in {gen[g].handle} : handle[x].note = "failed open"}
           /\ sweeps' \subseteq sweeps \cup {g}
           /\ UNCHANGED <<slot, slotLock, dog, gen, waits, caller, used, down>>
  <1> DEFINE h == gen[g].handle
  <1>1. PICK text \in {"none", "overflow"} : WritesOver(h, text)
    BY DEF Overflow, SweepEnds
  <1>2. /\ Alive(g)
        /\ sweeps' \subseteq sweeps \cup {g}
        /\ UNCHANGED <<slot, slotLock, dog, gen, waits, caller, used, down>>
    BY DEF Overflow, SweepEnds, Reads, Alive
  <1>3. /\ handle' = [handle EXCEPT ![h] = Noted(h, text)]
        /\ muted' = muted \cup {x \in {h} : handle[x].note = "failed open"}
    BY <1>1 DEF WritesOver, Notes
  <1>4. \A x \in Handles : x # h => handle'[x] = handle[x]
    BY <1>3 DEF Shapes, HandlesOK
  <1>5. ASSUME h \in Handles
        PROVE  /\ handle'[h].stop <=> handle[h].stop
               /\ handle'[h].inner = handle[h].inner
               /\ handle'[h].lock = handle[h].lock
               /\ handle'[h].note \in {handle[h].note, text}
    BY ZenonT(30), <1>3, <1>5 DEF Noted, Shapes, HandlesOK, HandleT
  <1> QED BY <1>1, <1>2, <1>3, <1>4, <1>5

(* Handles and generations are numbers, and None is none of them.          *)
LEMMA Numbers ==
    /\ Handles \subseteq Nat \ {0} /\ Generations \subseteq Nat \ {0}
    /\ None \notin Handles /\ None \notin Generations
  BY DEF Handles, Generations


(* A handle with another note, and perhaps another generation, is one.     *)
LEMMA NotedFits ==
    ASSUME Shapes, NEW h \in Handles, NEW i \in {None} \cup Generations,
           NEW text \in {"none", "restarted", "overflow", "failed open"}
    PROVE  /\ Noted(h, text) \in HandleT
           /\ [Noted(h, text) EXCEPT !.inner = i] \in HandleT
  <1>1. handle[h] \in HandleT
    BY DEF Shapes, HandlesOK
  <1>2. Noted(h, text) \in HandleT
    BY <1>1 DEF Noted, HandleT
  <1> QED BY <1>2 DEF HandleT

(* Every step keeps HandlesOK.                                             *)
LEMMA HandlesStay ==
    ASSUME Shapes, [Next]_vars
    PROVE  HandlesOK'
  <1>1. CASE Exec
    <2>1. handle' = handle
      BY <1>1, ExecDoes
    <2> QED BY <2>1 DEF Shapes, HandlesOK
  <1>2. ASSUME NEW g \in Generations, Answer(g) PROVE HandlesOK'
    <2>1. handle' = handle
      BY <1>2, AnswerDoes
    <2> QED BY <2>1 DEF Shapes, HandlesOK
  <1>3. ASSUME NEW g \in Generations, Stall(g) PROVE HandlesOK'
    <2>1. handle' = handle
      BY <1>3, StallDoes
    <2> QED BY <2>1 DEF Shapes, HandlesOK
  <1>4. ASSUME NEW g \in Generations, Recover(g) PROVE HandlesOK'
    <2>1. handle' = handle
      BY <1>4, RecoverDoes
    <2> QED BY <2>1 DEF Shapes, HandlesOK
  <1>5. ASSUME NEW g \in Generations, Leave(g) PROVE HandlesOK'
    <2>1. handle' = handle
      BY <1>5, LeaveDoes
    <2> QED BY <2>1 DEF Shapes, HandlesOK
  <1>6. ASSUME NEW g \in Generations, WindUp(g) PROVE HandlesOK'
    <2>1. handle' = handle
      BY <1>6, WindUpDoes
    <2> QED BY <2>1 DEF Shapes, HandlesOK
  <1>7. ASSUME NEW h \in Handles, DogWakes(h) PROVE HandlesOK'
    <2>1. handle' = handle
      BY <1>7, DogWakesDoes
    <2> QED BY <2>1 DEF Shapes, HandlesOK
  <1>8. ASSUME NEW h \in Handles, DogSeesHealthy(h) PROVE HandlesOK'
    <2>1. \/ handle' = handle
          \/ handle' = [handle EXCEPT ![h] = Noted(h, "none")]
      BY <1>8 DEF DogSeesHealthy, Notes
    <2>2. Noted(h, "none") \in HandleT
      BY NotedFits
    <2> QED BY <2>1, <2>2 DEF Shapes, HandlesOK
  <1>9. ASSUME NEW h \in Handles, DogSeesStall(h) PROVE HandlesOK'
    <2>1. handle' = handle
      BY <1>9, DogSeesStallDoes
    <2> QED BY <2>1 DEF Shapes, HandlesOK
  <1>10. ASSUME NEW h \in Handles, DogGivesUp(h) PROVE HandlesOK'
    <2>1. handle' = [handle EXCEPT ![h] =
            [Noted(h, "failed open") EXCEPT !.inner = None]]
      BY <1>10 DEF DogGivesUp
    <2>2. [Noted(h, "failed open") EXCEPT !.inner = None] \in HandleT
      BY NotedFits
    <2> QED BY <2>1, <2>2 DEF Shapes, HandlesOK
  <1>11. ASSUME NEW h \in Handles, DogTakes(h) PROVE HandlesOK'
    <2>1. handle' = [handle EXCEPT ![h] =
            [handle[h] EXCEPT !.inner = None]]
      BY <1>11 DEF DogTakes, Shapes, HandlesOK
    <2>2. handle[h] \in HandleT
      BY DEF Shapes, HandlesOK
    <2>3. [handle[h] EXCEPT !.inner = None] \in HandleT
      BY <2>2, DogTakesDoes, <1>11 DEF HandleT, Shapes, HandlesOK, HandleT
    <2> QED BY <2>1, <2>3 DEF Shapes, HandlesOK
  <1>12. ASSUME NEW h \in Handles, DogCloses(h) PROVE HandlesOK'
    <2>1. handle' = handle
      BY <1>12, DogClosesDoes
    <2> QED BY <2>1 DEF Shapes, HandlesOK
  <1>13. ASSUME NEW h \in Handles, DogJoins(h) PROVE HandlesOK'
    <2>1. handle' = handle
      BY <1>13, DogJoinsDoes
    <2> QED BY <2>1 DEF Shapes, HandlesOK
  <1>14. ASSUME NEW h \in Handles, DogSpawns(h) PROVE HandlesOK'
    <2>1. handle' = handle
      BY <1>14, DogSpawnsDoes
    <2> QED BY <2>1 DEF Shapes, HandlesOK
  <1>15. ASSUME NEW h \in Handles, DogCannotSpawn(h) PROVE HandlesOK'
    <2>1. handle' = [handle EXCEPT ![h] = Noted(h, "failed open")]
      BY <1>15 DEF DogCannotSpawn, Notes
    <2>2. Noted(h, "failed open") \in HandleT
      BY NotedFits
    <2> QED BY <2>1, <2>2 DEF Shapes, HandlesOK
  <1>16. ASSUME NEW h \in Handles, DogStores(h) PROVE HandlesOK'
    <2>1. handle' = [handle EXCEPT ![h] =
            [Noted(h, "restarted") EXCEPT !.inner = dog[h].old]]
      BY <1>16 DEF DogStores
    <2>2. dog[h].old \in {None} \cup Generations
      BY DEF Shapes, DogsOK, DogT
    <2>3. [Noted(h, "restarted") EXCEPT !.inner = dog[h].old] \in HandleT
      BY <2>2, NotedFits
    <2> QED BY <2>1, <2>3 DEF Shapes, HandlesOK
  <1>17. ASSUME NEW t \in Threads, TakeHandle(t) PROVE HandlesOK'
    <2>1. handle' = [x \in Handles |->
             IF x = slot THEN [handle[x] EXCEPT !.stop = TRUE, !.note = "none"]
             ELSE handle[x]]
      BY <1>17 DEF TakeHandle
    <2>2. \A x \in Handles : [handle[x] EXCEPT !.stop = TRUE, !.note = "none"] \in HandleT
      BY DEF Shapes, HandlesOK, HandleT
    <2> QED BY <2>1, <2>2 DEF Shapes, HandlesOK
  <1>18. ASSUME NEW t \in Threads, TakeInner(t) PROVE HandlesOK'
    <2>1. caller[t].handle \in Handles
      BY <1>18, TakeInnerDoes DEF Shapes, CallersOK, CallerT, Stops, HandlesOK, HandleT
    <2>2. handle' = [handle EXCEPT ![caller[t].handle] =
            [handle[caller[t].handle] EXCEPT !.inner = None,
                !.lock = IF handle[caller[t].handle].inner = None THEN None ELSE t]]
      BY <2>1, <1>18 DEF TakeInner, Shapes, HandlesOK
    <2>3. handle[caller[t].handle] \in HandleT
      BY <2>1 DEF Shapes, HandlesOK
    <2>4. [handle[caller[t].handle] EXCEPT !.inner = None,
                !.lock = IF handle[caller[t].handle].inner = None THEN None
                         ELSE t] \in HandleT
      BY <2>3, <2>1, TakeInnerDoes, <1>18 DEF HandleT, Shapes, CallersOK, CallerT,
         Stops, HandlesOK, HandleT
    <2> QED BY <2>1, <2>2, <2>4 DEF Shapes, HandlesOK
  <1>19. ASSUME NEW t \in Threads, StopCloses(t) PROVE HandlesOK'
    <2>1. handle' = handle
      BY <1>19, StopClosesDoes
    <2> QED BY <2>1 DEF Shapes, HandlesOK
  <1>20. ASSUME NEW t \in Threads, StopJoins(t) PROVE HandlesOK'
    <2>1. caller[t].handle \in Handles
      BY <1>20, StopJoinsDoes DEF Shapes, CallersOK, CallerT, Stops
    <2>2. handle' = [handle EXCEPT ![caller[t].handle] =
            [handle[caller[t].handle] EXCEPT !.lock = None]]
      BY <2>1, <1>20 DEF StopJoins, At, Shapes, HandlesOK
    <2>3. handle[caller[t].handle] \in HandleT
      BY <2>1 DEF Shapes, HandlesOK
    <2>4. [handle[caller[t].handle] EXCEPT !.lock = None] \in HandleT
      BY <2>3, <2>1, StopJoinsDoes, <1>20 DEF HandleT, Shapes, CallersOK, CallerT, Stops
    <2> QED BY <2>1, <2>2, <2>4 DEF Shapes, HandlesOK
  <1>21. ASSUME NEW t \in Threads, StopJoinsDog(t) PROVE HandlesOK'
    <2>1. handle' = handle
      BY <1>21, StopJoinsDogDoes
    <2> QED BY <2>1 DEF Shapes, HandlesOK
  <1>22. ASSUME NEW t \in Threads, Start(t) PROVE HandlesOK'
    <2>1. used.handles + 1 \in Handles
      BY <1>22, StartDoes DEF Shapes, RestOK, Generations, Handles
    <2>2. handle' = [handle EXCEPT ![used.handles + 1] =
            [handle[used.handles + 1] EXCEPT !.inner = used.gens + 1]]
      BY <2>1, <1>22 DEF Start, Spawned, IdleCaller, Shapes, HandlesOK
    <2>3. handle[used.handles + 1] \in HandleT
      BY <2>1 DEF Shapes, HandlesOK
    <2>4. [handle[used.handles + 1] EXCEPT !.inner = used.gens + 1] \in HandleT
      BY <2>3, <2>1, StartDoes, <1>22 DEF HandleT, Shapes, RestOK, Generations, Handles
    <2> QED BY <2>1, <2>2, <2>4 DEF Shapes, HandlesOK
  <1>23. ASSUME NEW t \in Threads, NoStart(t) PROVE HandlesOK'
    <2>1. handle' = handle
      BY <1>23, NoStartDoes
    <2> QED BY <2>1 DEF Shapes, HandlesOK
  <1>24. CASE Exit
    BY <1>24 DEF Exit, Shapes, HandlesOK
  <1>26. ASSUME NEW g \in Generations, Overflow(g) \/ SweepEnds(g) PROVE HandlesOK'
    <2>1. PICK text \in {"none", "overflow"} :
             handle' = [handle EXCEPT ![gen[g].handle] = Noted(gen[g].handle, text)]
      BY <1>26 DEF Overflow, SweepEnds, WritesOver, Notes
    <2>2. gen[g].handle \in Handles => Noted(gen[g].handle, text) \in HandleT
      BY NotedFits
    <2> QED BY <2>1, <2>2 DEF Shapes, HandlesOK
  <1>25. CASE UNCHANGED vars
    BY <1>25 DEF vars, Shapes, HandlesOK
  <1> QED
    BY <1>1, <1>2, <1>3, <1>4, <1>5, <1>6, <1>7, <1>8, <1>9, <1>10, <1>11, <1>12,
       <1>13, <1>14, <1>15, <1>16, <1>17, <1>18, <1>19, <1>20, <1>21, <1>22, <1>23,
       <1>24, <1>25, <1>26 DEF Next, DogStep, CallerStep, StopStep

(* Every step keeps DogsOK.                                                *)
LEMMA DogsStay ==
    ASSUME Shapes, [Next]_vars
    PROVE  DogsOK'
  <1>1. CASE Exec
    <2>1. dog' = dog
      BY <1>1, ExecDoes
    <2> QED BY <2>1 DEF Shapes, DogsOK
  <1>2. ASSUME NEW g \in Generations, Answer(g) PROVE DogsOK'
    <2>1. dog' = dog
      BY <1>2, AnswerDoes
    <2> QED BY <2>1 DEF Shapes, DogsOK
  <1>3. ASSUME NEW g \in Generations, Stall(g) PROVE DogsOK'
    <2>1. dog' = dog
      BY <1>3, StallDoes
    <2> QED BY <2>1 DEF Shapes, DogsOK
  <1>4. ASSUME NEW g \in Generations, Recover(g) PROVE DogsOK'
    <2>1. dog' = dog
      BY <1>4, RecoverDoes
    <2> QED BY <2>1 DEF Shapes, DogsOK
  <1>5. ASSUME NEW g \in Generations, Leave(g) PROVE DogsOK'
    <2>1. dog' = dog
      BY <1>5, LeaveDoes
    <2> QED BY <2>1 DEF Shapes, DogsOK
  <1>6. ASSUME NEW g \in Generations, WindUp(g) PROVE DogsOK'
    <2>1. dog' = dog
      BY <1>6, WindUpDoes
    <2> QED BY <2>1 DEF Shapes, DogsOK
  <1>7. ASSUME NEW h \in Handles, DogWakes(h) PROVE DogsOK'
    <2>1. dog' = [dog EXCEPT ![h] =
            [dog[h] EXCEPT !.at = IF handle[h].stop THEN "ended" ELSE "check"]]
      BY <1>7 DEF DogWakes, DogAt, Shapes, DogsOK
    <2>2. dog[h] \in DogT
      BY DEF Shapes, DogsOK
    <2>3. [dog[h] EXCEPT !.at = IF handle[h].stop THEN "ended" ELSE "check"] \in DogT
      BY <2>2 DEF DogT, DogPoints, Shapes
    <2> QED BY <2>1, <2>3, DogWakesDoes, <1>7 DEF Shapes, DogsOK, DogT
  <1>8. ASSUME NEW h \in Handles, DogSeesHealthy(h) PROVE DogsOK'
    <2>1. dog' = [dog EXCEPT ![h] =
            [dog[h] EXCEPT !.at = "sleep"]]
      BY <1>8 DEF DogSeesHealthy, DogAt, Notes, MustSeeStale, Shapes, DogsOK
    <2>2. dog[h] \in DogT
      BY DEF Shapes, DogsOK
    <2>3. [dog[h] EXCEPT !.at = "sleep"] \in DogT
      BY <2>2, DogSeesHealthyDoes, <1>8 DEF DogT, DogPoints, Shapes
    <2> QED BY <2>1, <2>3, DogSeesHealthyDoes, <1>8 DEF Shapes, DogsOK, DogT
  <1>9. ASSUME NEW h \in Handles, DogSeesStall(h) PROVE DogsOK'
    <2>1. PICK at \in {"take", "fail"} : at = dog'[h].at
      BY DogSeesStallDoes, <1>9
    <2>2. PICK n \in Nat : n = dog[h].restarts + 1
      BY DEF Shapes, DogsOK, DogT
    <2>3. dog' = [dog EXCEPT ![h] = [dog[h] EXCEPT !.at = at, !.restarts = n]]
      BY <2>1, <2>2, DogSeesStallDoes, <1>9 DEF DogSeesStall, Shapes, DogsOK
    <2>4. [dog[h] EXCEPT !.at = at, !.restarts = n] \in DogT
      BY DEF Shapes, DogsOK, DogT, DogPoints
    <2> QED BY <2>3, <2>4 DEF Shapes, DogsOK
  <1>10. ASSUME NEW h \in Handles, DogGivesUp(h) PROVE DogsOK'
    <2>1. dog' = [dog EXCEPT ![h] =
            [dog[h] EXCEPT !.at = "ended"]]
      BY <1>10 DEF DogGivesUp, DogAt, Shapes, DogsOK
    <2>2. dog[h] \in DogT
      BY DEF Shapes, DogsOK
    <2>3. [dog[h] EXCEPT !.at = "ended"] \in DogT
      BY <2>2 DEF DogT, DogPoints, Shapes
    <2> QED BY <2>1, <2>3, DogGivesUpDoes, <1>10 DEF Shapes, DogsOK, DogT
  <1>11. ASSUME NEW h \in Handles, DogTakes(h) PROVE DogsOK'
    <2>1. dog' = [dog EXCEPT ![h] =
            [dog[h] EXCEPT !.at = IF handle[h].inner = None THEN "spawn" ELSE "close",
                !.old = handle[h].inner]]
      BY <1>11 DEF DogTakes, Shapes, DogsOK
    <2>2. dog[h] \in DogT
      BY DEF Shapes, DogsOK
    <2>3. [dog[h] EXCEPT !.at = IF handle[h].inner = None THEN "spawn" ELSE "close",
                !.old = handle[h].inner] \in DogT
      BY <2>2, DogTakesDoes, <1>11 DEF DogT, DogPoints, Shapes, HandlesOK, HandleT
    <2> QED BY <2>1, <2>3, DogTakesDoes, <1>11 DEF Shapes, DogsOK, DogT
  <1>12. ASSUME NEW h \in Handles, DogCloses(h) PROVE DogsOK'
    <2>1. dog' = [dog EXCEPT ![h] =
            [dog[h] EXCEPT !.at = "join"]]
      BY <1>12 DEF DogCloses, CloseFd, Closed, DogAt, Shapes, DogsOK
    <2>2. dog[h] \in DogT
      BY DEF Shapes, DogsOK
    <2>3. [dog[h] EXCEPT !.at = "join"] \in DogT
      BY <2>2, DogClosesDoes, <1>12 DEF DogT, DogPoints, Shapes
    <2> QED BY <2>1, <2>3, DogClosesDoes, <1>12 DEF Shapes, DogsOK, DogT
  <1>13. ASSUME NEW h \in Handles, DogJoins(h) PROVE DogsOK'
    <2>1. dog' = [dog EXCEPT ![h] =
            [dog[h] EXCEPT !.at = "spawn", !.old = None]]
      BY <1>13 DEF DogJoins, Shapes, DogsOK
    <2>2. dog[h] \in DogT
      BY DEF Shapes, DogsOK
    <2>3. [dog[h] EXCEPT !.at = "spawn", !.old = None] \in DogT
      BY <2>2, DogJoinsDoes, <1>13 DEF DogT, DogPoints, Shapes
    <2> QED BY <2>1, <2>3, DogJoinsDoes, <1>13 DEF Shapes, DogsOK, DogT
  <1>14. ASSUME NEW h \in Handles, DogSpawns(h) PROVE DogsOK'
    <2>1. dog' = [dog EXCEPT ![h] =
            [dog[h] EXCEPT !.at = "store", !.old = used.gens + 1]]
      BY <1>14 DEF DogSpawns, Spawned, Shapes, DogsOK
    <2>2. dog[h] \in DogT
      BY DEF Shapes, DogsOK
    <2>9. used.gens + 1 \in Generations
      BY DogSpawnsDoes, <1>14
    <2>3. [dog[h] EXCEPT !.at = "store", !.old = used.gens + 1] \in DogT
      BY <2>2, <2>9 DEF DogT, DogPoints
    <2>5. dog' \in [Handles -> DogT]
      BY <2>1, <2>3 DEF Shapes, DogsOK
    <2>6. \A x \in Handles : dog'[x].at \in {"close", "join", "store"} => dog'[x].old # None
      BY DogSpawnsDoes, <1>14, <2>9 DEF Shapes, DogsOK, Generations
    <2> QED BY <2>5, <2>6 DEF DogsOK
  <1>15. ASSUME NEW h \in Handles, DogCannotSpawn(h) PROVE DogsOK'
    <2>1. dog' = [dog EXCEPT ![h] =
            [dog[h] EXCEPT !.at = "ended"]]
      BY <1>15 DEF DogCannotSpawn, Faulty, DogAt, Notes, Shapes, DogsOK
    <2>2. dog[h] \in DogT
      BY DEF Shapes, DogsOK
    <2>3. [dog[h] EXCEPT !.at = "ended"] \in DogT
      BY <2>2, DogCannotSpawnDoes, <1>15 DEF DogT, DogPoints, Shapes
    <2> QED BY <2>1, <2>3, DogCannotSpawnDoes, <1>15 DEF Shapes, DogsOK, DogT
  <1>16. ASSUME NEW h \in Handles, DogStores(h) PROVE DogsOK'
    <2>1. dog' = [dog EXCEPT ![h] =
            [dog[h] EXCEPT !.at = "sleep", !.old = None]]
      BY <1>16 DEF DogStores, Shapes, DogsOK
    <2>2. dog[h] \in DogT
      BY DEF Shapes, DogsOK
    <2>3. [dog[h] EXCEPT !.at = "sleep", !.old = None] \in DogT
      BY <2>2, DogStoresDoes, <1>16 DEF DogT, DogPoints, Shapes, DogsOK, DogT
    <2> QED BY <2>1, <2>3, DogStoresDoes, <1>16 DEF Shapes, DogsOK, DogT
  <1>17. ASSUME NEW t \in Threads, TakeHandle(t) PROVE DogsOK'
    <2>1. dog' = dog
      BY <1>17, TakeHandleDoes
    <2> QED BY <2>1 DEF Shapes, DogsOK
  <1>18. ASSUME NEW t \in Threads, TakeInner(t) PROVE DogsOK'
    <2>1. dog' = dog
      BY <1>18, TakeInnerDoes
    <2> QED BY <2>1 DEF Shapes, DogsOK
  <1>19. ASSUME NEW t \in Threads, StopCloses(t) PROVE DogsOK'
    <2>1. dog' = dog
      BY <1>19, StopClosesDoes
    <2> QED BY <2>1 DEF Shapes, DogsOK
  <1>20. ASSUME NEW t \in Threads, StopJoins(t) PROVE DogsOK'
    <2>1. dog' = dog
      BY <1>20, StopJoinsDoes
    <2> QED BY <2>1 DEF Shapes, DogsOK
  <1>21. ASSUME NEW t \in Threads, StopJoinsDog(t) PROVE DogsOK'
    <2>1. dog' = dog
      BY <1>21, StopJoinsDogDoes
    <2> QED BY <2>1 DEF Shapes, DogsOK
  <1>22. ASSUME NEW t \in Threads, Start(t) PROVE DogsOK'
    <2>1. used.handles + 1 \in Handles
      BY <1>22, StartDoes DEF Shapes, RestOK, Generations, Handles
    <2>2. dog' = [dog EXCEPT ![used.handles + 1] =
            [dog[used.handles + 1] EXCEPT !.at = "sleep"]]
      BY <2>1, <1>22 DEF Start, Spawned, IdleCaller, Shapes, DogsOK
    <2>3. dog[used.handles + 1] \in DogT
      BY <2>1 DEF Shapes, DogsOK
    <2>4. [dog[used.handles + 1] EXCEPT !.at = "sleep"] \in DogT
      BY <2>3, <2>1, StartDoes, <1>22 DEF DogT, DogPoints, Shapes, RestOK, Generations,
         Handles
    <2> QED BY <2>1, <2>2, <2>4, StartDoes, <1>22 DEF Shapes, DogsOK, DogT
  <1>23. ASSUME NEW t \in Threads, NoStart(t) PROVE DogsOK'
    <2>1. dog' = dog
      BY <1>23, NoStartDoes
    <2> QED BY <2>1 DEF Shapes, DogsOK
  <1>24. CASE Exit
    BY <1>24 DEF Exit, Shapes, IdleCaller, DogsOK, DogT, DogPoints, Intakes,
       CallerPoints
  <1>26. ASSUME NEW g \in Generations, Overflow(g) \/ SweepEnds(g) PROVE DogsOK'
    <2>1. UNCHANGED <<slot, slotLock, dog, gen, waits, caller, used, down>>
      BY WritesOverDoes, <1>26
    <2> QED BY <2>1 DEF Shapes, DogsOK
  <1>25. CASE UNCHANGED vars
    BY <1>25 DEF vars, Shapes, DogsOK
  <1> QED
    BY <1>1, <1>2, <1>3, <1>4, <1>5, <1>6, <1>7, <1>8, <1>9, <1>10, <1>11, <1>12,
       <1>13, <1>14, <1>15, <1>16, <1>17, <1>18, <1>19, <1>20, <1>21, <1>22, <1>23,
       <1>24, <1>25, <1>26 DEF Next, DogStep, CallerStep, StopStep

(* Every step keeps GensOK.                                                *)
LEMMA GensStay ==
    ASSUME Shapes, [Next]_vars
    PROVE  GensOK'
  <1>1. CASE Exec
    <2>1. gen' = gen
      BY <1>1, ExecDoes
    <2> QED BY <2>1 DEF Shapes, GensOK
  <1>2. ASSUME NEW g \in Generations, Answer(g) PROVE GensOK'
    <2>1. gen' = gen
      BY <1>2, AnswerDoes
    <2> QED BY <2>1 DEF Shapes, GensOK
  <1>3. ASSUME NEW g \in Generations, Stall(g) PROVE GensOK'
    BY <1>3, StallDoes DEF Stall, Faulty, Shapes, GensOK, GenT, Intakes
  <1>4. ASSUME NEW g \in Generations, Recover(g) PROVE GensOK'
    BY <1>4, RecoverDoes DEF Recover, Shapes, GensOK, GenT, Intakes
  <1>5. ASSUME NEW g \in Generations, Leave(g) PROVE GensOK'
    BY <1>5, LeaveDoes DEF Leave, Faulty, Reads, Closed, Shapes, GensOK, GenT,
       Intakes
  <1>6. ASSUME NEW g \in Generations, WindUp(g) PROVE GensOK'
    BY <1>6, WindUpDoes DEF WindUp, Shapes, GensOK, GenT, Intakes
  <1>7. ASSUME NEW h \in Handles, DogWakes(h) PROVE GensOK'
    <2>1. gen' = gen
      BY <1>7, DogWakesDoes
    <2> QED BY <2>1 DEF Shapes, GensOK
  <1>8. ASSUME NEW h \in Handles, DogSeesHealthy(h) PROVE GensOK'
    <2>1. gen' = gen
      BY <1>8, DogSeesHealthyDoes
    <2> QED BY <2>1 DEF Shapes, GensOK
  <1>9. ASSUME NEW h \in Handles, DogSeesStall(h) PROVE GensOK'
    <2>1. gen' = gen
      BY <1>9, DogSeesStallDoes
    <2> QED BY <2>1 DEF Shapes, GensOK
  <1>10. ASSUME NEW h \in Handles, DogGivesUp(h) PROVE GensOK'
    <2>1. gen' = gen
      BY <1>10, DogGivesUpDoes
    <2> QED BY <2>1 DEF Shapes, GensOK
  <1>11. ASSUME NEW h \in Handles, DogTakes(h) PROVE GensOK'
    <2>1. gen' = gen
      BY <1>11, DogTakesDoes
    <2> QED BY <2>1 DEF Shapes, GensOK
  <1>12. ASSUME NEW h \in Handles, DogCloses(h) PROVE GensOK'
    BY <1>12, DogClosesDoes DEF DogCloses, CloseFd, Closed, DogAt, Shapes, GensOK,
       GenT, Intakes, DogsOK, DogT
  <1>13. ASSUME NEW h \in Handles, DogJoins(h) PROVE GensOK'
    <2>1. gen' = gen
      BY <1>13, DogJoinsDoes
    <2> QED BY <2>1 DEF Shapes, GensOK
  <1>14. ASSUME NEW h \in Handles, DogSpawns(h) PROVE GensOK'
    BY <1>14, DogSpawnsDoes DEF DogSpawns, Spawned, Shapes, GensOK, GenT, Intakes
  <1>15. ASSUME NEW h \in Handles, DogCannotSpawn(h) PROVE GensOK'
    <2>1. gen' = gen
      BY <1>15, DogCannotSpawnDoes
    <2> QED BY <2>1 DEF Shapes, GensOK
  <1>16. ASSUME NEW h \in Handles, DogStores(h) PROVE GensOK'
    <2>1. gen' = gen
      BY <1>16, DogStoresDoes
    <2> QED BY <2>1 DEF Shapes, GensOK
  <1>17. ASSUME NEW t \in Threads, TakeHandle(t) PROVE GensOK'
    <2>1. gen' = gen
      BY <1>17, TakeHandleDoes
    <2> QED BY <2>1 DEF Shapes, GensOK
  <1>18. ASSUME NEW t \in Threads, TakeInner(t) PROVE GensOK'
    <2>1. gen' = gen
      BY <1>18, TakeInnerDoes
    <2> QED BY <2>1 DEF Shapes, GensOK
  <1>19. ASSUME NEW t \in Threads, StopCloses(t) PROVE GensOK'
    <2>1. caller[t].old \in Generations
      BY <1>19, StopClosesDoes
    <2>2. gen' = [gen EXCEPT ![caller[t].old] = [gen[caller[t].old] EXCEPT !.fd = "closed"]]
      BY <2>1, <1>19 DEF StopCloses, CloseFd, Closed, Shapes, GensOK
    <2>3. [gen[caller[t].old] EXCEPT !.fd = "closed"] \in GenT
      BY <2>1 DEF Shapes, GensOK, GenT
    <2> QED BY <2>1, <2>2, <2>3 DEF Shapes, GensOK
  <1>20. ASSUME NEW t \in Threads, StopJoins(t) PROVE GensOK'
    <2>1. gen' = gen
      BY <1>20, StopJoinsDoes
    <2> QED BY <2>1 DEF Shapes, GensOK
  <1>21. ASSUME NEW t \in Threads, StopJoinsDog(t) PROVE GensOK'
    <2>1. gen' = gen
      BY <1>21, StopJoinsDogDoes
    <2> QED BY <2>1 DEF Shapes, GensOK
  <1>22. ASSUME NEW t \in Threads, Start(t) PROVE GensOK'
    BY <1>22, StartDoes DEF Start, Spawned, IdleCaller, Shapes, GensOK, GenT,
       Intakes
  <1>23. ASSUME NEW t \in Threads, NoStart(t) PROVE GensOK'
    <2>1. gen' = gen
      BY <1>23, NoStartDoes
    <2> QED BY <2>1 DEF Shapes, GensOK
  <1>24. CASE Exit
    BY <1>24 DEF Exit, Shapes, IdleCaller, GensOK, GenT, DogPoints, Intakes,
       CallerPoints
  <1>26. ASSUME NEW g \in Generations, Overflow(g) \/ SweepEnds(g) PROVE GensOK'
    <2>1. UNCHANGED <<slot, slotLock, dog, gen, waits, caller, used, down>>
      BY WritesOverDoes, <1>26
    <2> QED BY <2>1 DEF Shapes, GensOK
  <1>25. CASE UNCHANGED vars
    BY <1>25 DEF vars, Shapes, GensOK
  <1> QED
    BY <1>1, <1>2, <1>3, <1>4, <1>5, <1>6, <1>7, <1>8, <1>9, <1>10, <1>11, <1>12,
       <1>13, <1>14, <1>15, <1>16, <1>17, <1>18, <1>19, <1>20, <1>21, <1>22, <1>23,
       <1>24, <1>25, <1>26 DEF Next, DogStep, CallerStep, StopStep

(* Every step keeps CallersOK.                                             *)
LEMMA CallersStay ==
    ASSUME Shapes, [Next]_vars
    PROVE  CallersOK'
  <1>1. CASE Exec
    <2>1. caller' = caller
      BY <1>1, ExecDoes
    <2> QED BY <2>1 DEF Shapes, CallersOK
  <1>2. ASSUME NEW g \in Generations, Answer(g) PROVE CallersOK'
    <2>1. caller' = caller
      BY <1>2, AnswerDoes
    <2> QED BY <2>1 DEF Shapes, CallersOK
  <1>3. ASSUME NEW g \in Generations, Stall(g) PROVE CallersOK'
    <2>1. caller' = caller
      BY <1>3, StallDoes
    <2> QED BY <2>1 DEF Shapes, CallersOK
  <1>4. ASSUME NEW g \in Generations, Recover(g) PROVE CallersOK'
    <2>1. caller' = caller
      BY <1>4, RecoverDoes
    <2> QED BY <2>1 DEF Shapes, CallersOK
  <1>5. ASSUME NEW g \in Generations, Leave(g) PROVE CallersOK'
    <2>1. caller' = caller
      BY <1>5, LeaveDoes
    <2> QED BY <2>1 DEF Shapes, CallersOK
  <1>6. ASSUME NEW g \in Generations, WindUp(g) PROVE CallersOK'
    <2>1. caller' = caller
      BY <1>6, WindUpDoes
    <2> QED BY <2>1 DEF Shapes, CallersOK
  <1>7. ASSUME NEW h \in Handles, DogWakes(h) PROVE CallersOK'
    <2>1. caller' = caller
      BY <1>7, DogWakesDoes
    <2> QED BY <2>1 DEF Shapes, CallersOK
  <1>8. ASSUME NEW h \in Handles, DogSeesHealthy(h) PROVE CallersOK'
    <2>1. caller' = caller
      BY <1>8, DogSeesHealthyDoes
    <2> QED BY <2>1 DEF Shapes, CallersOK
  <1>9. ASSUME NEW h \in Handles, DogSeesStall(h) PROVE CallersOK'
    <2>1. caller' = caller
      BY <1>9, DogSeesStallDoes
    <2> QED BY <2>1 DEF Shapes, CallersOK
  <1>10. ASSUME NEW h \in Handles, DogGivesUp(h) PROVE CallersOK'
    <2>1. caller' = caller
      BY <1>10, DogGivesUpDoes
    <2> QED BY <2>1 DEF Shapes, CallersOK
  <1>11. ASSUME NEW h \in Handles, DogTakes(h) PROVE CallersOK'
    <2>1. caller' = caller
      BY <1>11, DogTakesDoes
    <2> QED BY <2>1 DEF Shapes, CallersOK
  <1>12. ASSUME NEW h \in Handles, DogCloses(h) PROVE CallersOK'
    <2>1. caller' = caller
      BY <1>12, DogClosesDoes
    <2> QED BY <2>1 DEF Shapes, CallersOK
  <1>13. ASSUME NEW h \in Handles, DogJoins(h) PROVE CallersOK'
    <2>1. caller' = caller
      BY <1>13, DogJoinsDoes
    <2> QED BY <2>1 DEF Shapes, CallersOK
  <1>14. ASSUME NEW h \in Handles, DogSpawns(h) PROVE CallersOK'
    <2>1. caller' = caller
      BY <1>14, DogSpawnsDoes
    <2> QED BY <2>1 DEF Shapes, CallersOK
  <1>15. ASSUME NEW h \in Handles, DogCannotSpawn(h) PROVE CallersOK'
    <2>1. caller' = caller
      BY <1>15, DogCannotSpawnDoes
    <2> QED BY <2>1 DEF Shapes, CallersOK
  <1>16. ASSUME NEW h \in Handles, DogStores(h) PROVE CallersOK'
    <2>1. caller' = caller
      BY <1>16, DogStoresDoes
    <2> QED BY <2>1 DEF Shapes, CallersOK
  <1>17. ASSUME NEW t \in Threads, TakeHandle(t) PROVE CallersOK'
    <2>1. PICK on \in BOOLEAN : caller' = [caller EXCEPT ![t] =
                     [IdleCaller EXCEPT !.at = IF slot = None THEN "start" ELSE "take",
                                        !.handle = slot, !.enabled = on]]
      BY <1>17 DEF TakeHandle
    <2>2. [IdleCaller EXCEPT !.at = IF slot = None THEN "start" ELSE "take",
                             !.handle = slot, !.enabled = on] \in CallerT
      BY DEF Shapes, RestOK, IdleCaller, CallerT, CallerPoints
    <2> QED BY <2>1, <2>2 DEF Shapes, CallersOK, IdleCaller, Stops, Joining
  <1>18. ASSUME NEW t \in Threads, TakeInner(t) PROVE CallersOK'
    <2>1. PICK at \in {"join dog", "close"} : at = caller'[t].at
      BY TakeInnerDoes, <1>18
    <2>2. PICK old \in {None} \cup Generations : old = handle[caller[t].handle].inner
      BY TakeInnerDoes, <1>18 DEF Shapes, HandlesOK, HandleT
    <2>3. caller' = [caller EXCEPT ![t] = [caller[t] EXCEPT !.at = at, !.old = old]]
      <3>1. caller' = [caller EXCEPT
                ![t].at = IF handle[caller[t].handle].inner = None THEN "join dog"
                          ELSE "close",
                ![t].old = handle[caller[t].handle].inner]
        BY <1>18 DEF TakeInner
      <3>2. caller' = [caller EXCEPT ![t] =
                [caller[t] EXCEPT
                   !.at = IF handle[caller[t].handle].inner = None THEN "join dog"
                          ELSE "close",
                   !.old = handle[caller[t].handle].inner]]
        BY <3>1 DEF Shapes, CallersOK
      <3>3. at = IF handle[caller[t].handle].inner = None THEN "join dog" ELSE "close"
        <4>1. handle[caller[t].handle].inner = None => at = "join dog"
          BY <2>1, TakeInnerDoes, <1>18
        <4>2. handle[caller[t].handle].inner # None => at = "close"
          BY <2>1, TakeInnerDoes, <1>18
        <4> QED BY <4>1, <4>2
      <3> QED BY <2>2, <3>2, <3>3
    <2>4. [caller[t] EXCEPT !.at = at, !.old = old] \in CallerT
      BY DEF Shapes, CallersOK, CallerT, CallerPoints
    <2>5. caller' \in [Threads -> CallerT]
      BY <2>3, <2>4 DEF Shapes, CallersOK
    <2>6. caller[t].handle # None /\ caller'[t].handle = caller[t].handle
      BY TakeInnerDoes, <1>18, Numbers
    <2>7. at = "close" => caller'[t].old # None
      <3>1. handle[caller[t].handle].inner = None => at = "join dog"
        BY <2>1, TakeInnerDoes, <1>18
      <3>2. caller'[t].old = handle[caller[t].handle].inner
        BY TakeInnerDoes, <1>18
      <3> QED BY <3>1, <3>2
    <2>8. \A x \in Threads : x # t => caller'[x] = caller[x]
      BY TakeInnerDoes, <1>18
    <2> QED BY <2>1, <2>5, <2>6, <2>7, <2>8 DEF Shapes, CallersOK, Stops, Joining
  <1>19. ASSUME NEW t \in Threads, StopCloses(t) PROVE CallersOK'
    <2>1. caller' = [caller EXCEPT ![t] =
            [caller[t] EXCEPT !.at = "join"]]
      BY <1>19 DEF StopCloses, CloseFd, Closed, At, Shapes, CallersOK
    <2>2. caller[t] \in CallerT
      BY DEF Shapes, CallersOK
    <2>3. [caller[t] EXCEPT !.at = "join"] \in CallerT
      BY <2>2, StopClosesDoes, <1>19 DEF CallerT, CallerPoints, Shapes
    <2> QED BY <2>1, <2>3, StopClosesDoes, <1>19 DEF Shapes, CallersOK, Stops, Joining,
               CallerT
  <1>20. ASSUME NEW t \in Threads, StopJoins(t) PROVE CallersOK'
    <2>1. caller' = [caller EXCEPT ![t] =
            [caller[t] EXCEPT !.at = "join dog"]]
      BY <1>20 DEF StopJoins, At, Shapes, CallersOK
    <2>2. caller[t] \in CallerT
      BY DEF Shapes, CallersOK
    <2>3. [caller[t] EXCEPT !.at = "join dog"] \in CallerT
      BY <2>2, StopJoinsDoes, <1>20 DEF CallerT, CallerPoints, Shapes, CallersOK,
         CallerT, Stops
    <2> QED BY <2>1, <2>3, StopJoinsDoes, <1>20 DEF Shapes, CallersOK, Stops, Joining,
               CallerT
  <1>21. ASSUME NEW t \in Threads, StopJoinsDog(t) PROVE CallersOK'
    <2>1. caller' = [caller EXCEPT ![t] =
            [caller[t] EXCEPT !.at = "start", !.handle = None, !.old = None]]
      BY <1>21 DEF StopJoinsDog, Shapes, CallersOK
    <2>2. caller[t] \in CallerT
      BY DEF Shapes, CallersOK
    <2>3. [caller[t] EXCEPT !.at = "start", !.handle = None, !.old = None] \in CallerT
      BY <2>2 DEF CallerT, CallerPoints
    <2>5. caller' \in [Threads -> CallerT]
      BY <2>1, <2>3 DEF Shapes, CallersOK
    <2>6. caller'[t].at = "start" /\ \A x \in Threads : x # t => caller'[x] = caller[x]
      BY StopJoinsDogDoes, <1>21
    <2> QED BY <2>5, <2>6 DEF Shapes, CallersOK, Stops, Joining
  <1>22. ASSUME NEW t \in Threads, Start(t) PROVE CallersOK'
    <2>1. caller' = [caller EXCEPT ![t] = IdleCaller]
      BY <1>22 DEF Start
    <2>2. IdleCaller \in CallerT
      BY DEF IdleCaller, CallerT, CallerPoints
    <2> QED BY <2>1, <2>2 DEF Shapes, CallersOK, IdleCaller, Stops, Joining
  <1>23. ASSUME NEW t \in Threads, NoStart(t) PROVE CallersOK'
    <2>1. caller' = [caller EXCEPT ![t] = IdleCaller]
      BY <1>23 DEF NoStart
    <2>2. IdleCaller \in CallerT
      BY DEF IdleCaller, CallerT, CallerPoints
    <2> QED BY <2>1, <2>2 DEF Shapes, CallersOK, IdleCaller, Stops, Joining
  <1>24. CASE Exit
    <2>1. caller' = [x \in Threads |-> [IdleCaller EXCEPT !.at = "gone"]]
      BY <1>24 DEF Exit
    <2>2. [IdleCaller EXCEPT !.at = "gone"] \in CallerT
      BY DEF IdleCaller, CallerT, CallerPoints
    <2> QED BY <2>1, <2>2 DEF CallersOK, IdleCaller, Stops, Joining
  <1>26. ASSUME NEW g \in Generations, Overflow(g) \/ SweepEnds(g) PROVE CallersOK'
    <2>1. UNCHANGED <<slot, slotLock, dog, gen, waits, caller, used, down>>
      BY WritesOverDoes, <1>26
    <2> QED BY <2>1 DEF Shapes, CallersOK
  <1>25. CASE UNCHANGED vars
    BY <1>25 DEF vars, Shapes, CallersOK
  <1> QED
    BY <1>1, <1>2, <1>3, <1>4, <1>5, <1>6, <1>7, <1>8, <1>9, <1>10, <1>11, <1>12,
       <1>13, <1>14, <1>15, <1>16, <1>17, <1>18, <1>19, <1>20, <1>21, <1>22, <1>23,
       <1>24, <1>25, <1>26 DEF Next, DogStep, CallerStep, StopStep

(* Every step keeps RestOK.                                                *)
LEMMA RestStays ==
    ASSUME Shapes, [Next]_vars
    PROVE  RestOK'
  <1>1. CASE Exec
    <2>1. used' \in [handles : 0..MaxHandles, gens : 0..MaxGenerations, execs : Nat,
                   faults : Nat]
      BY <1>1 DEF Exec, Shapes, RestOK
    <2> QED BY <2>1, ExecDoes, <1>1 DEF Shapes, RestOK
  <1>2. ASSUME NEW g \in Generations, Answer(g) PROVE RestOK'
    BY <1>2, AnswerDoes DEF Shapes, RestOK
  <1>3. ASSUME NEW g \in Generations, Stall(g) PROVE RestOK'
    <2>1. used' \in [handles : 0..MaxHandles, gens : 0..MaxGenerations, execs : Nat,
                   faults : Nat]
      BY <1>3 DEF Stall, Faulty, Shapes, RestOK
    <2> QED BY <2>1, StallDoes, <1>3 DEF Shapes, RestOK
  <1>4. ASSUME NEW g \in Generations, Recover(g) PROVE RestOK'
    <2>1. UNCHANGED <<slot, slotLock, waits, used, down>>
      BY <1>4, RecoverDoes
    <2> QED BY <2>1 DEF Shapes, RestOK
  <1>5. ASSUME NEW g \in Generations, Leave(g) PROVE RestOK'
    <2>1. used' \in [handles : 0..MaxHandles, gens : 0..MaxGenerations, execs : Nat,
                   faults : Nat]
      BY <1>5 DEF Leave, Faulty, Reads, Closed, Shapes, RestOK
    <2> QED BY <2>1, LeaveDoes, <1>5 DEF Shapes, RestOK
  <1>6. ASSUME NEW g \in Generations, WindUp(g) PROVE RestOK'
    <2>1. UNCHANGED <<slot, slotLock, waits, used, down>>
      BY <1>6, WindUpDoes
    <2> QED BY <2>1 DEF Shapes, RestOK
  <1>7. ASSUME NEW h \in Handles, DogWakes(h) PROVE RestOK'
    <2>1. UNCHANGED <<slot, slotLock, waits, used, down>>
      BY <1>7, DogWakesDoes
    <2> QED BY <2>1 DEF Shapes, RestOK
  <1>8. ASSUME NEW h \in Handles, DogSeesHealthy(h) PROVE RestOK'
    <2>1. UNCHANGED <<slot, slotLock, waits, used, down>>
      BY <1>8, DogSeesHealthyDoes
    <2> QED BY <2>1 DEF Shapes, RestOK
  <1>9. ASSUME NEW h \in Handles, DogSeesStall(h) PROVE RestOK'
    <2>1. UNCHANGED <<slot, slotLock, waits, used, down>>
      BY <1>9, DogSeesStallDoes
    <2> QED BY <2>1 DEF Shapes, RestOK
  <1>10. ASSUME NEW h \in Handles, DogGivesUp(h) PROVE RestOK'
    <2>1. UNCHANGED <<slot, slotLock, waits, used, down>>
      BY <1>10, DogGivesUpDoes
    <2> QED BY <2>1 DEF Shapes, RestOK
  <1>11. ASSUME NEW h \in Handles, DogTakes(h) PROVE RestOK'
    <2>1. UNCHANGED <<slot, slotLock, waits, used, down>>
      BY <1>11, DogTakesDoes
    <2> QED BY <2>1 DEF Shapes, RestOK
  <1>12. ASSUME NEW h \in Handles, DogCloses(h) PROVE RestOK'
    BY <1>12, DogClosesDoes DEF Shapes, RestOK
  <1>13. ASSUME NEW h \in Handles, DogJoins(h) PROVE RestOK'
    <2>1. UNCHANGED <<slot, slotLock, waits, used, down>>
      BY <1>13, DogJoinsDoes
    <2> QED BY <2>1 DEF Shapes, RestOK
  <1>14. ASSUME NEW h \in Handles, DogSpawns(h) PROVE RestOK'
    <2>1. used' \in [handles : 0..MaxHandles, gens : 0..MaxGenerations, execs : Nat,
                   faults : Nat]
      BY <1>14 DEF DogSpawns, Spawned, Shapes, RestOK
    <2> QED BY <2>1, DogSpawnsDoes, <1>14 DEF Shapes, RestOK
  <1>15. ASSUME NEW h \in Handles, DogCannotSpawn(h) PROVE RestOK'
    <2>1. used' = [used EXCEPT !.faults = used.faults + 1]
      BY <1>15 DEF DogCannotSpawn, Faulty
    <2>2. used' \in [handles : 0..MaxHandles, gens : 0..MaxGenerations, execs : Nat,
                   faults : Nat]
      BY <2>1 DEF Shapes, RestOK
    <2> QED BY <2>2, DogCannotSpawnDoes, <1>15 DEF Shapes, RestOK
  <1>16. ASSUME NEW h \in Handles, DogStores(h) PROVE RestOK'
    <2>1. UNCHANGED <<slot, slotLock, waits, used, down>>
      BY <1>16, DogStoresDoes
    <2> QED BY <2>1 DEF Shapes, RestOK
  <1>17. ASSUME NEW t \in Threads, TakeHandle(t) PROVE RestOK'
    BY <1>17, TakeHandleDoes DEF Shapes, RestOK, Threads
  <1>18. ASSUME NEW t \in Threads, TakeInner(t) PROVE RestOK'
    <2>1. UNCHANGED <<slot, slotLock, waits, used, down>>
      BY <1>18, TakeInnerDoes
    <2> QED BY <2>1 DEF Shapes, RestOK
  <1>19. ASSUME NEW t \in Threads, StopCloses(t) PROVE RestOK'
    BY <1>19, StopClosesDoes DEF Shapes, RestOK
  <1>20. ASSUME NEW t \in Threads, StopJoins(t) PROVE RestOK'
    <2>1. UNCHANGED <<slot, slotLock, waits, used, down>>
      BY <1>20, StopJoinsDoes
    <2> QED BY <2>1 DEF Shapes, RestOK
  <1>21. ASSUME NEW t \in Threads, StopJoinsDog(t) PROVE RestOK'
    <2>1. UNCHANGED <<slot, slotLock, waits, used, down>>
      BY <1>21, StopJoinsDogDoes
    <2> QED BY <2>1 DEF Shapes, RestOK
  <1>22. ASSUME NEW t \in Threads, Start(t) PROVE RestOK'
    <2>1. used' = [used EXCEPT !.handles = used.handles + 1, !.gens = used.gens + 1]
      BY <1>22 DEF Start
    <2>2. used.handles + 1 \in 0..MaxHandles /\ used.gens + 1 \in 0..MaxGenerations
      BY StartDoes, <1>22 DEF Handles, Generations, Shapes, RestOK
    <2>3. used' \in [handles : 0..MaxHandles, gens : 0..MaxGenerations, execs : Nat,
                   faults : Nat]
      BY <2>1, <2>2 DEF Shapes, RestOK
    <2>4. slot' \in Handles /\ slotLock' = None /\ UNCHANGED <<waits, down>>
      BY StartDoes, <1>22
    <2> QED BY <2>3, <2>4 DEF Shapes, RestOK
  <1>23. ASSUME NEW t \in Threads, NoStart(t) PROVE RestOK'
    <2>1. used' \in [handles : 0..MaxHandles, gens : 0..MaxGenerations, execs : Nat,
                   faults : Nat]
      BY <1>23 DEF NoStart, Faulty, Shapes, RestOK
    <2> QED BY <2>1, NoStartDoes, <1>23 DEF Shapes, RestOK
  <1>24. CASE Exit
    BY <1>24 DEF Exit, Shapes, RestOK
  <1>26. ASSUME NEW g \in Generations, Overflow(g) \/ SweepEnds(g) PROVE RestOK'
    <2>1. UNCHANGED <<slot, slotLock, dog, gen, waits, caller, used, down>>
      BY WritesOverDoes, <1>26
    <2> QED BY <2>1 DEF Shapes, RestOK
  <1>25. CASE UNCHANGED vars
    BY <1>25 DEF vars, Shapes, RestOK
  <1> QED
    BY <1>1, <1>2, <1>3, <1>4, <1>5, <1>6, <1>7, <1>8, <1>9, <1>10, <1>11, <1>12,
       <1>13, <1>14, <1>15, <1>16, <1>17, <1>18, <1>19, <1>20, <1>21, <1>22, <1>23,
       <1>24, <1>25, <1>26 DEF Next, DogStep, CallerStep, StopStep

(* Every step keeps the shapes of the variables.                           *)
LEMMA ShapesStay ==
    ASSUME Shapes, [Next]_vars
    PROVE  Shapes'
  BY HandlesStay, DogsStay, GensStay, CallersStay, RestStays DEF Shapes

(* The cap on restarts is a number.                                        *)
LEMMA Cap == MAX_RESTARTS \in Nat
  BY BoundAssumption

(* A number that is not beyond the cap was not beyond it.                  *)
LEMMA NotBeyond ==
    ASSUME NEW a \in Nat, NEW b \in Nat, a > MAX_RESTARTS => b > MAX_RESTARTS,
           b <= MAX_RESTARTS
    PROVE  a <= MAX_RESTARTS
  BY Cap

(* The counters are numbers, and the slot has a handle or none.            *)
LEMMA Counters ==
    ASSUME Shapes
    PROVE  /\ used.handles \in Nat /\ used.gens \in Nat
           /\ used.handles <= MaxHandles /\ used.gens <= MaxGenerations
           /\ slot \in {None} \cup Handles
  BY DEF Shapes, RestOK

(* What a field names exists.                                              *)
LEMMA Links ==
    ASSUME Shapes
    PROVE  /\ \A t \in Threads : caller[t].handle # None => caller[t].handle \in Handles
           /\ \A t \in Threads : caller[t].old # None => caller[t].old \in Generations
           /\ \A h \in Handles : handle[h].inner # None => handle[h].inner \in Generations
           /\ \A h \in Handles : dog[h].old # None => dog[h].old \in Generations
           /\ \A g \in Generations : gen[g].handle # None => gen[g].handle \in Handles
           /\ Callers \subseteq Threads /\ Signal \in Threads /\ None \notin Threads
  BY DEF Shapes, CallersOK, CallerT, HandlesOK, HandleT, DogsOK, DogT, GensOK, GenT,
     Threads

(* A thread that stops a handle has one, and a generation while it joins.  *)
LEMMA Joiners ==
    ASSUME Shapes
    PROVE  /\ \A t \in Threads : caller[t].at \in Joining => caller[t].handle \in Handles
           /\ \A t \in Threads : caller[t].at \in Joining => caller[t].old \in Generations
  BY DEF Shapes, CallersOK, CallerT, Stops, Joining

(* A new handle and a new generation are newer than those in use.          *)
LEMMA Older ==
    ASSUME Shapes
    PROVE  /\ \A g \in Generations : g <= used.gens => g # used.gens + 1
           /\ \A g \in Generations : g <= used.gens => g <= used.gens + 1
           /\ \A h \in Handles : h <= used.handles => h # used.handles + 1
           /\ \A h \in Handles : h <= used.handles => h <= used.handles + 1
           /\ used.gens + 1 <= used.gens + 1 /\ used.handles + 1 <= used.handles + 1
           /\ ~(used.handles + 1 <= used.handles)
  BY Counters, Numbers

(* A generation that runs has a handle that was started.                   *)
LEMMA AliveHas ==
    ASSUME Shapes, Made, NEW g \in Generations, Alive(g)
    PROVE  /\ gen[g].handle \in Handles /\ gen[g].handle <= used.handles
           /\ g <= used.gens
  <1>1. g <= used.gens
    BY Counters, Numbers DEF Made, Alive
  <1> QED BY <1>1 DEF Made

(* None is no thread.                                                     *)
LEMMA NoThread == None \notin Threads
  BY DEF Threads

(* What is started stays started.                                          *)
LEMMA StartedStays ==
    ASSUME Shapes, Started, [Next]_vars
    PROVE  Started'
  <1>1. CASE Exec
    <2>1. /\ ~down
          /\ used'.handles = used.handles /\ used'.gens = used.gens
          /\ UNCHANGED <<slot, handle, dog>>
      BY ExecDoes, <1>1
    <2> QED BY <2>1 DEF Started
  <1>2. ASSUME NEW g \in Generations, Answer(g) PROVE Started'
    <2>1. UNCHANGED <<slot, handle, dog, used>>
      BY AnswerDoes, <1>2
    <2> QED BY <2>1 DEF Started
  <1>3. ASSUME NEW g \in Generations, Stall(g) PROVE Started'
    <2>1. /\ gen[g].intake = "reading"
          /\ used'.handles = used.handles /\ used'.gens = used.gens
          /\ UNCHANGED <<slot, handle, dog>>
      BY StallDoes, <1>3
    <2> QED BY <2>1 DEF Started
  <1>4. ASSUME NEW g \in Generations, Recover(g) PROVE Started'
    <2>1. UNCHANGED <<slot, handle, dog, used>>
      BY RecoverDoes, <1>4
    <2> QED BY <2>1 DEF Started
  <1>5. ASSUME NEW g \in Generations, Leave(g) PROVE Started'
    <2>1. /\ gen[g].intake = "reading"
          /\ used'.handles = used.handles /\ used'.gens = used.gens
          /\ UNCHANGED <<slot, handle, dog>>
      BY LeaveDoes, <1>5
    <2> QED BY <2>1 DEF Started
  <1>6. ASSUME NEW g \in Generations, WindUp(g) PROVE Started'
    <2>1. UNCHANGED <<slot, handle, dog, used>>
      BY WindUpDoes, <1>6
    <2> QED BY <2>1 DEF Started
  <1>7. ASSUME NEW h \in Handles, DogWakes(h) PROVE Started'
    <2>1. /\ dog[h].at = "sleep"
          /\ \A x \in Handles : x # h => dog'[x] = dog[x]
          /\ dog'[h].at = IF handle[h].stop THEN "ended" ELSE "check"
          /\ \A x \in Handles : dog'[x].restarts = dog[x].restarts
          /\ \A x \in Handles : dog'[x].old = dog[x].old
          /\ UNCHANGED <<slot, handle, used>>
      BY DogWakesDoes, <1>7
    <2> QED BY <2>1 DEF Started
  <1>8. ASSUME NEW h \in Handles, DogSeesHealthy(h) PROVE Started'
    <2>1. /\ dog[h].at = "check"
          /\ handle[h].lock = None
          /\ \A x \in Handles : x # h => dog'[x] = dog[x]
          /\ dog'[h].at = "sleep"
          /\ \A x \in Handles : dog'[x].restarts = dog[x].restarts
          /\ \A x \in Handles : dog'[x].old = dog[x].old
          /\ \A x \in Handles : x # h => handle'[x] = handle[x]
          /\ \A x \in Handles : handle'[x].stop <=> handle[x].stop
          /\ \A x \in Handles : handle'[x].inner = handle[x].inner
          /\ \A x \in Handles : handle'[x].lock = handle[x].lock
          /\ handle'[h].note \in {handle[h].note, "none"}
          /\ handle'[h].note # handle[h].note => handle[h].note = "restarted"
          /\ UNCHANGED <<slot, used>>
      BY DogSeesHealthyDoes, <1>8
    <2> QED BY <2>1 DEF Started
  <1>9. ASSUME NEW h \in Handles, DogSeesStall(h) PROVE Started'
    <2>1. /\ dog[h].at = "check"
          /\ handle[h].lock = None
          /\ handle[h].inner # None
          /\ \A x \in Handles : x # h => dog'[x] = dog[x]
          /\ dog'[h].at = IF dog[h].restarts < MAX_RESTARTS THEN "take" ELSE "fail"
          /\ dog'[h].restarts = dog[h].restarts + 1
          /\ \A x \in Handles : dog'[x].old = dog[x].old
          /\ UNCHANGED <<slot, handle, used>>
      BY DogSeesStallDoes, <1>9
    <2> QED BY <2>1 DEF Started, Shapes, DogsOK, DogT
  <1>10. ASSUME NEW h \in Handles, DogGivesUp(h) PROVE Started'
    <2>1. /\ dog[h].at = "fail"
          /\ handle[h].lock = None
          /\ \A x \in Handles : x # h => dog'[x] = dog[x]
          /\ dog'[h].at = "ended"
          /\ \A x \in Handles : dog'[x].restarts = dog[x].restarts
          /\ \A x \in Handles : dog'[x].old = dog[x].old
          /\ \A x \in Handles : x # h => handle'[x] = handle[x]
          /\ \A x \in Handles : handle'[x].stop <=> handle[x].stop
          /\ handle'[h].inner = None
          /\ \A x \in Handles : handle'[x].lock = handle[x].lock
          /\ handle'[h].note \in {handle[h].note, "failed open"}
          /\ ~handle[h].stop => handle'[h].note = "failed open"
          /\ UNCHANGED <<slot, used>>
      BY DogGivesUpDoes, <1>10
    <2> QED BY <2>1 DEF Started
  <1>11. ASSUME NEW h \in Handles, DogTakes(h) PROVE Started'
    <2>1. /\ dog[h].at = "take"
          /\ handle[h].lock = None
          /\ \A x \in Handles : x # h => dog'[x] = dog[x]
          /\ dog'[h].at = IF handle[h].inner = None THEN "spawn" ELSE "close"
          /\ \A x \in Handles : dog'[x].restarts = dog[x].restarts
          /\ dog'[h].old = handle[h].inner
          /\ \A x \in Handles : x # h => handle'[x] = handle[x]
          /\ \A x \in Handles : handle'[x].stop <=> handle[x].stop
          /\ handle'[h].inner = None
          /\ \A x \in Handles : handle'[x].lock = handle[x].lock
          /\ \A x \in Handles : handle'[x].note = handle[x].note
          /\ UNCHANGED <<slot, used>>
      BY DogTakesDoes, <1>11
    <2> QED BY <2>1 DEF Started
  <1>12. ASSUME NEW h \in Handles, DogCloses(h) PROVE Started'
    <2>1. /\ dog[h].at = "close"
          /\ dog[h].old \in Generations
          /\ \A x \in Handles : x # h => dog'[x] = dog[x]
          /\ dog'[h].at = "join"
          /\ \A x \in Handles : dog'[x].restarts = dog[x].restarts
          /\ \A x \in Handles : dog'[x].old = dog[x].old
          /\ UNCHANGED <<slot, handle, used>>
      BY DogClosesDoes, <1>12
    <2> QED BY <2>1 DEF Started
  <1>13. ASSUME NEW h \in Handles, DogJoins(h) PROVE Started'
    <2>1. /\ dog[h].at = "join"
          /\ gen[dog[h].old].intake = "ended"
          /\ \A x \in Handles : x # h => dog'[x] = dog[x]
          /\ dog'[h].at = "spawn"
          /\ \A x \in Handles : dog'[x].restarts = dog[x].restarts
          /\ dog'[h].old = None
          /\ UNCHANGED <<slot, handle, used>>
      BY DogJoinsDoes, <1>13
    <2> QED BY <2>1 DEF Started
  <1>14. ASSUME NEW h \in Handles, DogSpawns(h) PROVE Started'
    <2>1. /\ dog[h].at = "spawn"
          /\ \A x \in Handles : x # h => dog'[x] = dog[x]
          /\ dog'[h].at = "store"
          /\ \A x \in Handles : dog'[x].restarts = dog[x].restarts
          /\ dog'[h].old = used.gens + 1
          /\ used.gens + 1 \in Generations
          /\ used'.gens = used.gens + 1 /\ used'.handles = used.handles
          /\ UNCHANGED <<slot, handle>>
      BY DogSpawnsDoes, <1>14
    <2> QED BY <2>1 DEF Started
  <1>15. ASSUME NEW h \in Handles, DogCannotSpawn(h) PROVE Started'
    <2>1. /\ dog[h].at = "spawn"
          /\ \A x \in Handles : x # h => dog'[x] = dog[x]
          /\ dog'[h].at = "ended"
          /\ \A x \in Handles : dog'[x].restarts = dog[x].restarts
          /\ \A x \in Handles : dog'[x].old = dog[x].old
          /\ \A x \in Handles : x # h => handle'[x] = handle[x]
          /\ \A x \in Handles : handle'[x].stop <=> handle[x].stop
          /\ \A x \in Handles : handle'[x].inner = handle[x].inner
          /\ \A x \in Handles : handle'[x].lock = handle[x].lock
          /\ handle'[h].note \in {handle[h].note, "failed open"}
          /\ ~handle[h].stop => handle'[h].note = "failed open"
          /\ used'.handles = used.handles /\ used'.gens = used.gens
          /\ UNCHANGED slot
      BY DogCannotSpawnDoes, <1>15
    <2> QED BY <2>1 DEF Started
  <1>16. ASSUME NEW h \in Handles, DogStores(h) PROVE Started'
    <2>1. /\ dog[h].at = "store"
          /\ handle[h].lock = None
          /\ \A x \in Handles : x # h => dog'[x] = dog[x]
          /\ dog'[h].at = "sleep"
          /\ \A x \in Handles : dog'[x].restarts = dog[x].restarts
          /\ dog'[h].old = None
          /\ \A x \in Handles : x # h => handle'[x] = handle[x]
          /\ \A x \in Handles : handle'[x].stop <=> handle[x].stop
          /\ handle'[h].inner = dog[h].old
          /\ \A x \in Handles : handle'[x].lock = handle[x].lock
          /\ handle'[h].note \in {handle[h].note, "restarted"}
          /\ ~handle[h].stop => handle'[h].note = "restarted"
          /\ UNCHANGED <<slot, used>>
      BY DogStoresDoes, <1>16
    <2> QED BY <2>1 DEF Started
  <1>17. ASSUME NEW t \in Threads, TakeHandle(t) PROVE Started'
    <2>1. /\ caller[t].at = "idle"
          /\ slotLock = None
          /\ slot' = None
          /\ \A x \in Handles : handle'[x].stop <=> (handle[x].stop \/ x = slot)
          /\ \A x \in Handles : handle'[x].inner = handle[x].inner
          /\ \A x \in Handles : handle'[x].lock = handle[x].lock
          /\ \A x \in Handles : handle'[x].note = IF x = slot THEN "none" ELSE handle[x].note
          /\ UNCHANGED <<dog, used>>
      BY TakeHandleDoes, <1>17
    <2> QED BY <2>1, Numbers DEF Started
  <1>18. ASSUME NEW t \in Threads, TakeInner(t) PROVE Started'
    <2>1. /\ caller[t].at = "take"
          /\ caller[t].handle \in Handles
          /\ handle[caller[t].handle].lock = None
          /\ \A x \in Handles : x # caller[t].handle => handle'[x] = handle[x]
          /\ \A x \in Handles : handle'[x].stop <=> handle[x].stop
          /\ handle'[caller[t].handle].inner = None
          /\ \A x \in Handles : handle'[x].note = handle[x].note
          /\ handle[caller[t].handle].inner = None
               => handle'[caller[t].handle].lock = None
          /\ handle[caller[t].handle].inner # None => handle'[caller[t].handle].lock = t
          /\ UNCHANGED <<slot, dog, used>>
      BY TakeInnerDoes, <1>18
    <2> QED BY <2>1 DEF Started
  <1>19. ASSUME NEW t \in Threads, StopCloses(t) PROVE Started'
    <2>1. UNCHANGED <<slot, handle, dog, used>>
      BY StopClosesDoes, <1>19
    <2> QED BY <2>1 DEF Started
  <1>20. ASSUME NEW t \in Threads, StopJoins(t) PROVE Started'
    <2>1. /\ caller[t].at = "join"
          /\ caller[t].handle \in Handles
          /\ gen[caller[t].old].intake = "ended"
          /\ \A x \in Handles : x # caller[t].handle => handle'[x] = handle[x]
          /\ \A x \in Handles : handle'[x].stop <=> handle[x].stop
          /\ \A x \in Handles : handle'[x].inner = handle[x].inner
          /\ handle'[caller[t].handle].lock = None
          /\ \A x \in Handles : handle'[x].note = handle[x].note
          /\ UNCHANGED <<slot, dog, used>>
      BY StopJoinsDoes, <1>20
    <2> QED BY <2>1 DEF Started
  <1>21. ASSUME NEW t \in Threads, StopJoinsDog(t) PROVE Started'
    <2>1. UNCHANGED <<slot, handle, dog, used>>
      BY StopJoinsDogDoes, <1>21
    <2> QED BY <2>1 DEF Started
  <1>22. ASSUME NEW t \in Threads, Start(t) PROVE Started'
    <2>1. /\ caller[t].at = "start"
          /\ t \in Callers
          /\ used.handles + 1 \in Handles
          /\ \A x \in Handles : x # used.handles + 1 => dog'[x] = dog[x]
          /\ dog'[used.handles + 1].at = "sleep"
          /\ \A x \in Handles : dog'[x].restarts = dog[x].restarts
          /\ \A x \in Handles : dog'[x].old = dog[x].old
          /\ \A x \in Handles : x # used.handles + 1 => handle'[x] = handle[x]
          /\ \A x \in Handles : handle'[x].stop <=> handle[x].stop
          /\ handle'[used.handles + 1].inner = used.gens + 1
          /\ \A x \in Handles : handle'[x].lock = handle[x].lock
          /\ \A x \in Handles : handle'[x].note = handle[x].note
          /\ used.gens + 1 \in Generations
          /\ used'.gens = used.gens + 1 /\ used'.handles = used.handles + 1
          /\ slot' = used.handles + 1 /\ slotLock' = None
      BY StartDoes, <1>22
    <2> QED BY <2>1, Numbers, Counters DEF Started
  <1>23. ASSUME NEW t \in Threads, NoStart(t) PROVE Started'
    <2>1. /\ caller[t].at = "start"
          /\ t \in Callers
          /\ used'.handles = used.handles /\ used'.gens = used.gens
          /\ UNCHANGED <<slot, handle, dog>>
      BY NoStartDoes, <1>23
    <2> QED BY <2>1 DEF Started
  <1>24. CASE Exit
    <2>1. /\ \A h \in Handles : h > used.handles => dog'[h] = dog[h]
          /\ \A h \in Handles : ~(h > used.handles) => dog'[h].at = "ended"
          /\ \A h \in Handles : dog'[h].restarts = dog[h].restarts
          /\ UNCHANGED <<slot, handle, used>>
      BY ExitDoes, <1>24
    <2> QED BY <2>1, Numbers, Counters DEF Started
  <1>26. ASSUME NEW g \in Generations, Overflow(g) \/ SweepEnds(g) PROVE Started'
    <2>1. /\ \A x \in Handles : handle'[x].stop <=> handle[x].stop
          /\ \A x \in Handles : handle'[x].inner = handle[x].inner
          /\ \A x \in Handles : handle'[x].lock = handle[x].lock
          /\ UNCHANGED <<slot, slotLock, dog, gen, waits, caller, used, down>>
      BY WritesOverDoes, <1>26
    <2> QED BY <2>1 DEF Started
  <1>25. CASE UNCHANGED vars
    BY <1>25 DEF vars, Started
  <1> QED
    BY <1>1, <1>2, <1>3, <1>4, <1>5, <1>6, <1>7, <1>8, <1>9, <1>10, <1>11, <1>12,
       <1>13, <1>14, <1>15, <1>16, <1>17, <1>18, <1>19, <1>20, <1>21, <1>22, <1>23,
       <1>24, <1>25, <1>26 DEF Next, DogStep, CallerStep, StopStep

(* What the watchdogs never take back: that they ended, and their count of *)
(* restarts.                                                               *)
GoOn ==
    /\ \A h \in Handles : dog[h].at = "ended" => dog'[h].at = "ended"
    /\ \A h \in Handles :
          dog[h].restarts > MAX_RESTARTS => dog'[h].restarts > MAX_RESTARTS
    /\ used.handles <= used'.handles

(* Every step lets them go on.                                             *)
LEMMA DogsGoOn ==
    ASSUME Shapes, Started, [Next]_vars
    PROVE  GoOn
  <1> USE DEF GoOn
  <1>1. CASE Exec
    <2>1. dog' = dog /\ used'.handles = used.handles
      BY ExecDoes, <1>1
    <2> QED BY <2>1, Counters
  <1>2. ASSUME NEW g \in Generations, Answer(g) PROVE GoOn
    <2>1. dog' = dog /\ used'.handles = used.handles
      BY AnswerDoes, <1>2
    <2> QED BY <2>1, Counters
  <1>3. ASSUME NEW g \in Generations, Stall(g) PROVE GoOn
    <2>1. dog' = dog /\ used'.handles = used.handles
      BY StallDoes, <1>3
    <2> QED BY <2>1, Counters
  <1>4. ASSUME NEW g \in Generations, Recover(g) PROVE GoOn
    <2>1. dog' = dog /\ used'.handles = used.handles
      BY RecoverDoes, <1>4
    <2> QED BY <2>1, Counters
  <1>5. ASSUME NEW g \in Generations, Leave(g) PROVE GoOn
    <2>1. dog' = dog /\ used'.handles = used.handles
      BY LeaveDoes, <1>5
    <2> QED BY <2>1, Counters
  <1>6. ASSUME NEW g \in Generations, WindUp(g) PROVE GoOn
    <2>1. dog' = dog /\ used'.handles = used.handles
      BY WindUpDoes, <1>6
    <2> QED BY <2>1, Counters
  <1>7. ASSUME NEW h \in Handles, DogWakes(h) PROVE GoOn
    <2>1. /\ dog[h].at # "ended"
          /\ \A x \in Handles : x # h => dog'[x] = dog[x]
          /\ \A x \in Handles : x # h => dog'[x].restarts = dog[x].restarts
          /\ dog'[h].restarts \in {dog[h].restarts, dog[h].restarts + 1}
          /\ used'.handles = used.handles
      BY DogWakesDoes, <1>7
    <2>2. dog[h].restarts \in Nat /\ used.handles <= used'.handles
      BY <2>1, Counters DEF Shapes, DogsOK, DogT
    <2>3. dog[h].restarts > MAX_RESTARTS => dog'[h].restarts > MAX_RESTARTS
      BY <2>1, <2>2, Cap
    <2> QED BY <2>1, <2>2, <2>3
  <1>8. ASSUME NEW h \in Handles, DogSeesHealthy(h) PROVE GoOn
    <2>1. /\ dog[h].at # "ended"
          /\ \A x \in Handles : x # h => dog'[x] = dog[x]
          /\ \A x \in Handles : x # h => dog'[x].restarts = dog[x].restarts
          /\ dog'[h].restarts \in {dog[h].restarts, dog[h].restarts + 1}
          /\ used'.handles = used.handles
      BY DogSeesHealthyDoes, <1>8
    <2>2. dog[h].restarts \in Nat /\ used.handles <= used'.handles
      BY <2>1, Counters DEF Shapes, DogsOK, DogT
    <2>3. dog[h].restarts > MAX_RESTARTS => dog'[h].restarts > MAX_RESTARTS
      BY <2>1, <2>2, Cap
    <2> QED BY <2>1, <2>2, <2>3
  <1>9. ASSUME NEW h \in Handles, DogSeesStall(h) PROVE GoOn
    <2>1. /\ dog[h].at # "ended"
          /\ \A x \in Handles : x # h => dog'[x] = dog[x]
          /\ \A x \in Handles : x # h => dog'[x].restarts = dog[x].restarts
          /\ dog'[h].restarts \in {dog[h].restarts, dog[h].restarts + 1}
          /\ used'.handles = used.handles
      BY DogSeesStallDoes, <1>9
    <2>2. dog[h].restarts \in Nat /\ used.handles <= used'.handles
      BY <2>1, Counters DEF Shapes, DogsOK, DogT
    <2>3. dog[h].restarts > MAX_RESTARTS => dog'[h].restarts > MAX_RESTARTS
      BY <2>1, <2>2, Cap
    <2> QED BY <2>1, <2>2, <2>3
  <1>10. ASSUME NEW h \in Handles, DogGivesUp(h) PROVE GoOn
    <2>1. /\ dog[h].at # "ended"
          /\ \A x \in Handles : x # h => dog'[x] = dog[x]
          /\ \A x \in Handles : x # h => dog'[x].restarts = dog[x].restarts
          /\ dog'[h].restarts \in {dog[h].restarts, dog[h].restarts + 1}
          /\ used'.handles = used.handles
      BY DogGivesUpDoes, <1>10
    <2>2. dog[h].restarts \in Nat /\ used.handles <= used'.handles
      BY <2>1, Counters DEF Shapes, DogsOK, DogT
    <2>3. dog[h].restarts > MAX_RESTARTS => dog'[h].restarts > MAX_RESTARTS
      BY <2>1, <2>2, Cap
    <2> QED BY <2>1, <2>2, <2>3
  <1>11. ASSUME NEW h \in Handles, DogTakes(h) PROVE GoOn
    <2>1. /\ dog[h].at # "ended"
          /\ \A x \in Handles : x # h => dog'[x] = dog[x]
          /\ \A x \in Handles : x # h => dog'[x].restarts = dog[x].restarts
          /\ dog'[h].restarts \in {dog[h].restarts, dog[h].restarts + 1}
          /\ used'.handles = used.handles
      BY DogTakesDoes, <1>11
    <2>2. dog[h].restarts \in Nat /\ used.handles <= used'.handles
      BY <2>1, Counters DEF Shapes, DogsOK, DogT
    <2>3. dog[h].restarts > MAX_RESTARTS => dog'[h].restarts > MAX_RESTARTS
      BY <2>1, <2>2, Cap
    <2> QED BY <2>1, <2>2, <2>3
  <1>12. ASSUME NEW h \in Handles, DogCloses(h) PROVE GoOn
    <2>1. /\ dog[h].at # "ended"
          /\ \A x \in Handles : x # h => dog'[x] = dog[x]
          /\ \A x \in Handles : x # h => dog'[x].restarts = dog[x].restarts
          /\ dog'[h].restarts \in {dog[h].restarts, dog[h].restarts + 1}
          /\ used'.handles = used.handles
      BY DogClosesDoes, <1>12
    <2>2. dog[h].restarts \in Nat /\ used.handles <= used'.handles
      BY <2>1, Counters DEF Shapes, DogsOK, DogT
    <2>3. dog[h].restarts > MAX_RESTARTS => dog'[h].restarts > MAX_RESTARTS
      BY <2>1, <2>2, Cap
    <2> QED BY <2>1, <2>2, <2>3
  <1>13. ASSUME NEW h \in Handles, DogJoins(h) PROVE GoOn
    <2>1. /\ dog[h].at # "ended"
          /\ \A x \in Handles : x # h => dog'[x] = dog[x]
          /\ \A x \in Handles : x # h => dog'[x].restarts = dog[x].restarts
          /\ dog'[h].restarts \in {dog[h].restarts, dog[h].restarts + 1}
          /\ used'.handles = used.handles
      BY DogJoinsDoes, <1>13
    <2>2. dog[h].restarts \in Nat /\ used.handles <= used'.handles
      BY <2>1, Counters DEF Shapes, DogsOK, DogT
    <2>3. dog[h].restarts > MAX_RESTARTS => dog'[h].restarts > MAX_RESTARTS
      BY <2>1, <2>2, Cap
    <2> QED BY <2>1, <2>2, <2>3
  <1>14. ASSUME NEW h \in Handles, DogSpawns(h) PROVE GoOn
    <2>1. /\ dog[h].at # "ended"
          /\ \A x \in Handles : x # h => dog'[x] = dog[x]
          /\ \A x \in Handles : x # h => dog'[x].restarts = dog[x].restarts
          /\ dog'[h].restarts \in {dog[h].restarts, dog[h].restarts + 1}
          /\ used'.handles = used.handles
      BY DogSpawnsDoes, <1>14
    <2>2. dog[h].restarts \in Nat /\ used.handles <= used'.handles
      BY <2>1, Counters DEF Shapes, DogsOK, DogT
    <2>3. dog[h].restarts > MAX_RESTARTS => dog'[h].restarts > MAX_RESTARTS
      BY <2>1, <2>2, Cap
    <2> QED BY <2>1, <2>2, <2>3
  <1>15. ASSUME NEW h \in Handles, DogCannotSpawn(h) PROVE GoOn
    <2>1. /\ dog[h].at # "ended"
          /\ \A x \in Handles : x # h => dog'[x] = dog[x]
          /\ \A x \in Handles : x # h => dog'[x].restarts = dog[x].restarts
          /\ dog'[h].restarts \in {dog[h].restarts, dog[h].restarts + 1}
          /\ used'.handles = used.handles
      BY DogCannotSpawnDoes, <1>15
    <2>2. dog[h].restarts \in Nat /\ used.handles <= used'.handles
      BY <2>1, Counters DEF Shapes, DogsOK, DogT
    <2>3. dog[h].restarts > MAX_RESTARTS => dog'[h].restarts > MAX_RESTARTS
      BY <2>1, <2>2, Cap
    <2> QED BY <2>1, <2>2, <2>3
  <1>16. ASSUME NEW h \in Handles, DogStores(h) PROVE GoOn
    <2>1. /\ dog[h].at # "ended"
          /\ \A x \in Handles : x # h => dog'[x] = dog[x]
          /\ \A x \in Handles : x # h => dog'[x].restarts = dog[x].restarts
          /\ dog'[h].restarts \in {dog[h].restarts, dog[h].restarts + 1}
          /\ used'.handles = used.handles
      BY DogStoresDoes, <1>16
    <2>2. dog[h].restarts \in Nat /\ used.handles <= used'.handles
      BY <2>1, Counters DEF Shapes, DogsOK, DogT
    <2>3. dog[h].restarts > MAX_RESTARTS => dog'[h].restarts > MAX_RESTARTS
      BY <2>1, <2>2, Cap
    <2> QED BY <2>1, <2>2, <2>3
  <1>17. ASSUME NEW t \in Threads, TakeHandle(t) PROVE GoOn
    <2>1. dog' = dog /\ used'.handles = used.handles
      BY TakeHandleDoes, <1>17
    <2> QED BY <2>1, Counters
  <1>18. ASSUME NEW t \in Threads, TakeInner(t) PROVE GoOn
    <2>1. dog' = dog /\ used'.handles = used.handles
      BY TakeInnerDoes, <1>18
    <2> QED BY <2>1, Counters
  <1>19. ASSUME NEW t \in Threads, StopCloses(t) PROVE GoOn
    <2>1. dog' = dog /\ used'.handles = used.handles
      BY StopClosesDoes, <1>19
    <2> QED BY <2>1, Counters
  <1>20. ASSUME NEW t \in Threads, StopJoins(t) PROVE GoOn
    <2>1. dog' = dog /\ used'.handles = used.handles
      BY StopJoinsDoes, <1>20
    <2> QED BY <2>1, Counters
  <1>21. ASSUME NEW t \in Threads, StopJoinsDog(t) PROVE GoOn
    <2>1. dog' = dog /\ used'.handles = used.handles
      BY StopJoinsDogDoes, <1>21
    <2> QED BY <2>1, Counters
  <1>22. ASSUME NEW t \in Threads, Start(t) PROVE GoOn
    <2>1. /\ \A x \in Handles : x # used.handles + 1 => dog'[x] = dog[x]
          /\ \A x \in Handles : dog'[x].restarts = dog[x].restarts
          /\ used'.handles = used.handles + 1
      BY StartDoes, <1>22
    <2>2. dog[used.handles + 1].at = "none"
      BY StartDoes, <1>22, Older DEF Started
    <2> QED BY <2>1, <2>2, Counters
  <1>23. ASSUME NEW t \in Threads, NoStart(t) PROVE GoOn
    <2>1. dog' = dog /\ used'.handles = used.handles
      BY NoStartDoes, <1>23
    <2> QED BY <2>1, Counters
  <1>24. CASE Exit
    <2>1. /\ \A x \in Handles : x > used.handles => dog'[x] = dog[x]
          /\ \A x \in Handles : ~(x > used.handles) => dog'[x].at = "ended"
          /\ \A x \in Handles : dog'[x].restarts = dog[x].restarts
          /\ used' = used
      BY ExitDoes, <1>24
    <2>2. used.handles <= used'.handles
      BY <2>1, Counters
    <2>3. \A x \in Handles : dog[x].at = "ended" => dog'[x].at = "ended"
      BY <2>1
    <2> QED BY <2>1, <2>2, <2>3
  <1>25. CASE UNCHANGED vars
    <2>1. dog' = dog /\ used' = used
      BY <1>25 DEF vars
    <2> QED BY <2>1, Counters
  <1>26. ASSUME NEW g \in Generations, Overflow(g) \/ SweepEnds(g) PROVE GoOn
    <2>1. dog' = dog /\ used' = used
      BY WritesOverDoes, <1>26
    <2> QED BY <2>1, Counters
  <1> QED
    BY <1>1, <1>2, <1>3, <1>4, <1>5, <1>6, <1>7, <1>8, <1>9, <1>10, <1>11, <1>12,
       <1>13, <1>14, <1>15, <1>16, <1>17, <1>18, <1>19, <1>20, <1>21, <1>22, <1>23,
       <1>24, <1>25, <1>26 DEF Next, DogStep, CallerStep, StopStep

(* Only a generation that writes its note adds to the muted handles.       *)
MutedLess == muted' \subseteq muted
(* A step that is not such a write adds none.                              *)
LEMMA MutedDoes ==
    ASSUME Shapes, [Next]_vars
    PROVE  MutedLess \/ \E g \in Generations : Overflow(g) \/ SweepEnds(g)
  <1> USE DEF MutedLess
  <1>1. CASE Exec
    BY <1>1 DEF Exec, note
  <1>2. ASSUME NEW g \in Generations, Answer(g) PROVE MutedLess
    BY <1>2 DEF Answer, note
  <1>3. ASSUME NEW g \in Generations, Stall(g) PROVE MutedLess
    BY <1>3 DEF Stall, note
  <1>4. ASSUME NEW g \in Generations, Recover(g) PROVE MutedLess
    BY <1>4 DEF Recover, note
  <1>5. ASSUME NEW g \in Generations, Leave(g) PROVE MutedLess
    BY <1>5 DEF Leave, note
  <1>6. ASSUME NEW g \in Generations, WindUp(g) PROVE MutedLess
    BY <1>6 DEF WindUp
  <1>7. ASSUME NEW h \in Handles, DogWakes(h) PROVE MutedLess
    BY <1>7 DEF DogWakes, note
  <1>8. ASSUME NEW h \in Handles, DogSeesHealthy(h) PROVE MutedLess
    BY <1>8 DEF DogSeesHealthy, note
  <1>9. ASSUME NEW h \in Handles, DogSeesStall(h) PROVE MutedLess
    BY <1>9 DEF DogSeesStall, note
  <1>10. ASSUME NEW h \in Handles, DogGivesUp(h) PROVE MutedLess
    BY <1>10 DEF DogGivesUp, note
  <1>11. ASSUME NEW h \in Handles, DogTakes(h) PROVE MutedLess
    BY <1>11 DEF DogTakes, note
  <1>12. ASSUME NEW h \in Handles, DogCloses(h) PROVE MutedLess
    BY <1>12 DEF DogCloses, note
  <1>13. ASSUME NEW h \in Handles, DogJoins(h) PROVE MutedLess
    BY <1>13 DEF DogJoins, note
  <1>14. ASSUME NEW h \in Handles, DogSpawns(h) PROVE MutedLess
    BY <1>14 DEF DogSpawns, note
  <1>15. ASSUME NEW h \in Handles, DogCannotSpawn(h) PROVE MutedLess
    BY <1>15 DEF DogCannotSpawn, note
  <1>16. ASSUME NEW h \in Handles, DogStores(h) PROVE MutedLess
    BY <1>16 DEF DogStores, note
  <1>17. ASSUME NEW t \in Threads, TakeHandle(t) PROVE MutedLess
    BY <1>17 DEF TakeHandle
  <1>18. ASSUME NEW t \in Threads, TakeInner(t) PROVE MutedLess
    BY <1>18 DEF TakeInner, note
  <1>19. ASSUME NEW t \in Threads, StopCloses(t) PROVE MutedLess
    BY <1>19 DEF StopCloses, note
  <1>20. ASSUME NEW t \in Threads, StopJoins(t) PROVE MutedLess
    BY <1>20 DEF StopJoins, note
  <1>21. ASSUME NEW t \in Threads, StopJoinsDog(t) PROVE MutedLess
    BY <1>21 DEF StopJoinsDog, note
  <1>22. ASSUME NEW t \in Threads, Start(t) PROVE MutedLess
    BY <1>22 DEF Start, note
  <1>23. ASSUME NEW t \in Threads, NoStart(t) PROVE MutedLess
    BY <1>23 DEF NoStart, note
  <1>24. CASE Exit
    BY <1>24 DEF Exit
  <1>25. CASE UNCHANGED vars
    BY <1>25 DEF vars
  <1>26. ASSUME NEW g \in Generations, Overflow(g) \/ SweepEnds(g) PROVE \E x \in Generations : Overflow(x) \/ SweepEnds(x)
    BY <1>26
  <1> QED
    BY <1>1, <1>2, <1>3, <1>4, <1>5, <1>6, <1>7, <1>8, <1>9, <1>10, <1>11, <1>12,
       <1>13, <1>14, <1>15, <1>16, <1>17, <1>18, <1>19, <1>20, <1>21, <1>22, <1>23,
       <1>24, <1>25, <1>26 DEF Next, DogStep, CallerStep, StopStep

(* A handle stays muted until it is told to stop.                          *)
LEMMA MutedKept ==
    ASSUME Shapes, [Next]_vars
    PROVE  \A x \in Handles : x \in muted /\ ~handle'[x].stop => x \in muted'
  <1> DEFINE MutedMore == \A x \in Handles : x \in muted /\ ~handle'[x].stop => x \in muted'
  <1> SUFFICES MutedMore
    OBVIOUS
  <1>1. CASE Exec
    BY <1>1 DEF Exec, note
  <1>2. ASSUME NEW g \in Generations, Answer(g) PROVE MutedMore
    BY <1>2 DEF Answer, note
  <1>3. ASSUME NEW g \in Generations, Stall(g) PROVE MutedMore
    BY <1>3 DEF Stall, note
  <1>4. ASSUME NEW g \in Generations, Recover(g) PROVE MutedMore
    BY <1>4 DEF Recover, note
  <1>5. ASSUME NEW g \in Generations, Leave(g) PROVE MutedMore
    BY <1>5 DEF Leave, note
  <1>6. ASSUME NEW g \in Generations, WindUp(g) PROVE MutedMore
    BY <1>6 DEF WindUp
  <1>7. ASSUME NEW h \in Handles, DogWakes(h) PROVE MutedMore
    BY <1>7 DEF DogWakes, note
  <1>8. ASSUME NEW h \in Handles, DogSeesHealthy(h) PROVE MutedMore
    BY <1>8 DEF DogSeesHealthy, note
  <1>9. ASSUME NEW h \in Handles, DogSeesStall(h) PROVE MutedMore
    BY <1>9 DEF DogSeesStall, note
  <1>10. ASSUME NEW h \in Handles, DogGivesUp(h) PROVE MutedMore
    BY <1>10 DEF DogGivesUp, note
  <1>11. ASSUME NEW h \in Handles, DogTakes(h) PROVE MutedMore
    BY <1>11 DEF DogTakes, note
  <1>12. ASSUME NEW h \in Handles, DogCloses(h) PROVE MutedMore
    BY <1>12 DEF DogCloses, note
  <1>13. ASSUME NEW h \in Handles, DogJoins(h) PROVE MutedMore
    BY <1>13 DEF DogJoins, note
  <1>14. ASSUME NEW h \in Handles, DogSpawns(h) PROVE MutedMore
    BY <1>14 DEF DogSpawns, note
  <1>15. ASSUME NEW h \in Handles, DogCannotSpawn(h) PROVE MutedMore
    BY <1>15 DEF DogCannotSpawn, note
  <1>16. ASSUME NEW h \in Handles, DogStores(h) PROVE MutedMore
    BY <1>16 DEF DogStores, note
  <1>17. ASSUME NEW t \in Threads, TakeHandle(t) PROVE MutedMore
    <2>1. /\ muted' = muted \ {slot}
          /\ \A x \in Handles : handle'[x].stop <=> (handle[x].stop \/ x = slot)
      BY <1>17, TakeHandleDoes DEF TakeHandle
    <2> QED BY <2>1
  <1>18. ASSUME NEW t \in Threads, TakeInner(t) PROVE MutedMore
    BY <1>18 DEF TakeInner, note
  <1>19. ASSUME NEW t \in Threads, StopCloses(t) PROVE MutedMore
    BY <1>19 DEF StopCloses, note
  <1>20. ASSUME NEW t \in Threads, StopJoins(t) PROVE MutedMore
    BY <1>20 DEF StopJoins, note
  <1>21. ASSUME NEW t \in Threads, StopJoinsDog(t) PROVE MutedMore
    BY <1>21 DEF StopJoinsDog, note
  <1>22. ASSUME NEW t \in Threads, Start(t) PROVE MutedMore
    BY <1>22 DEF Start, note
  <1>23. ASSUME NEW t \in Threads, NoStart(t) PROVE MutedMore
    BY <1>23 DEF NoStart, note
  <1>24. CASE Exit
    BY <1>24 DEF Exit
  <1>25. CASE UNCHANGED vars
    BY <1>25 DEF vars
  <1>26. ASSUME NEW g \in Generations, Overflow(g) \/ SweepEnds(g) PROVE MutedMore
    BY WritesOverDoes, <1>26
  <1> QED
    BY <1>1, <1>2, <1>3, <1>4, <1>5, <1>6, <1>7, <1>8, <1>9, <1>10, <1>11, <1>12,
       <1>13, <1>14, <1>15, <1>16, <1>17, <1>18, <1>19, <1>20, <1>21, <1>22, <1>23,
       <1>24, <1>25, <1>26 DEF Next, DogStep, CallerStep, StopStep

(* What is made stays made.                                                *)
LEMMA MadeStays ==
    ASSUME Shapes, Started, Made, Joins, Owns, [Next]_vars
    PROVE  Made'
  <1>1. CASE Exec
    <2>1. /\ ~down
          /\ waits' = waits \cup {g \in Generations : gen[g].fd = "open"}
          /\ used'.handles = used.handles /\ used'.gens = used.gens
          /\ UNCHANGED gen
      BY ExecDoes, <1>1
    <2> QED BY <2>1 DEF Made
  <1>2. ASSUME NEW g \in Generations, Answer(g) PROVE Made'
    <2>1. /\ gen[g].intake = "reading"
          /\ waits' = waits \ {g}
          /\ UNCHANGED <<gen, used>>
      BY AnswerDoes, <1>2
    <2> QED BY <2>1 DEF Made
  <1>3. ASSUME NEW g \in Generations, Stall(g) PROVE Made'
    <2>1. /\ gen[g].intake = "reading"
          /\ \A x \in Generations : x # g => gen'[x] = gen[x]
          /\ \A x \in Generations : gen'[x].handle = gen[x].handle
          /\ \A x \in Generations : gen'[x].fd = gen[x].fd
          /\ gen'[g].intake \in {"stuck", "hung"}
          /\ used'.handles = used.handles /\ used'.gens = used.gens
          /\ UNCHANGED waits
      BY StallDoes, <1>3
    <2> QED BY <2>1 DEF Made
  <1>4. ASSUME NEW g \in Generations, Recover(g) PROVE Made'
    <2>1. /\ gen[g].intake = "stuck"
          /\ \A x \in Generations : x # g => gen'[x] = gen[x]
          /\ \A x \in Generations : gen'[x].handle = gen[x].handle
          /\ \A x \in Generations : gen'[x].fd = gen[x].fd
          /\ gen'[g].intake = "reading"
          /\ UNCHANGED <<waits, used>>
      BY RecoverDoes, <1>4
    <2> QED BY <2>1 DEF Made
  <1>5. ASSUME NEW g \in Generations, Leave(g) PROVE Made'
    <2>1. /\ gen[g].intake = "reading"
          /\ \A x \in Generations : x # g => gen'[x] = gen[x]
          /\ \A x \in Generations : gen'[x].handle = gen[x].handle
          /\ gen'[g].fd = "closed"
          /\ gen'[g].intake = "leaving"
          /\ waits' = waits \ {g}
          /\ used'.handles = used.handles /\ used'.gens = used.gens
      BY LeaveDoes, <1>5
    <2> QED BY <2>1 DEF Made
  <1>6. ASSUME NEW g \in Generations, WindUp(g) PROVE Made'
    <2>1. /\ gen[g].intake = "leaving"
          /\ \A x \in Generations : x # g => gen'[x] = gen[x]
          /\ \A x \in Generations : gen'[x].handle = gen[x].handle
          /\ \A x \in Generations : gen'[x].fd = gen[x].fd
          /\ gen'[g].intake = "ended"
          /\ UNCHANGED <<waits, used>>
      BY WindUpDoes, <1>6
    <2> QED BY <2>1 DEF Made
  <1>7. ASSUME NEW h \in Handles, DogWakes(h) PROVE Made'
    <2>1. UNCHANGED <<gen, waits, used>>
      BY DogWakesDoes, <1>7
    <2> QED BY <2>1 DEF Made
  <1>8. ASSUME NEW h \in Handles, DogSeesHealthy(h) PROVE Made'
    <2>1. UNCHANGED <<gen, waits, used>>
      BY DogSeesHealthyDoes, <1>8
    <2> QED BY <2>1 DEF Made
  <1>9. ASSUME NEW h \in Handles, DogSeesStall(h) PROVE Made'
    <2>1. UNCHANGED <<gen, waits, used>>
      BY DogSeesStallDoes, <1>9
    <2> QED BY <2>1 DEF Made
  <1>10. ASSUME NEW h \in Handles, DogGivesUp(h) PROVE Made'
    <2>1. UNCHANGED <<gen, waits, used>>
      BY DogGivesUpDoes, <1>10
    <2> QED BY <2>1 DEF Made
  <1>11. ASSUME NEW h \in Handles, DogTakes(h) PROVE Made'
    <2>1. UNCHANGED <<gen, waits, used>>
      BY DogTakesDoes, <1>11
    <2> QED BY <2>1 DEF Made
  <1>12. ASSUME NEW h \in Handles, DogCloses(h) PROVE Made'
    <2>1. /\ dog[h].at = "close"
          /\ dog[h].old \in Generations
          /\ \A x \in Generations : x # dog[h].old => gen'[x] = gen[x]
          /\ \A x \in Generations : gen'[x].handle = gen[x].handle
          /\ gen'[dog[h].old].fd = "closed"
          /\ \A x \in Generations : gen'[x].intake = gen[x].intake
          /\ waits' = waits \ {dog[h].old}
          /\ UNCHANGED used
      BY DogClosesDoes, <1>12
    <2> QED BY <2>1 DEF Made, Owns, Shapes, GensOK, GenT
  <1>13. ASSUME NEW h \in Handles, DogJoins(h) PROVE Made'
    <2>1. UNCHANGED <<gen, waits, used>>
      BY DogJoinsDoes, <1>13
    <2> QED BY <2>1 DEF Made
  <1>14. ASSUME NEW h \in Handles, DogSpawns(h) PROVE Made'
    <2>1. /\ dog[h].at = "spawn"
          /\ used.gens + 1 \in Generations
          /\ gen'[used.gens + 1].fd = "open" /\ gen'[used.gens + 1].intake = "reading"
          /\ \A x \in Generations : x # used.gens + 1 => gen'[x] = gen[x]
          /\ gen'[used.gens + 1].handle = h
          /\ used'.gens = used.gens + 1 /\ used'.handles = used.handles
          /\ UNCHANGED waits
      BY DogSpawnsDoes, <1>14
    <2> QED BY <2>1, Numbers, Counters DEF Made, Started
  <1>15. ASSUME NEW h \in Handles, DogCannotSpawn(h) PROVE Made'
    <2>1. /\ dog[h].at = "spawn"
          /\ used'.handles = used.handles /\ used'.gens = used.gens
          /\ UNCHANGED <<gen, waits>>
      BY DogCannotSpawnDoes, <1>15
    <2> QED BY <2>1 DEF Made
  <1>16. ASSUME NEW h \in Handles, DogStores(h) PROVE Made'
    <2>1. UNCHANGED <<gen, waits, used>>
      BY DogStoresDoes, <1>16
    <2> QED BY <2>1 DEF Made
  <1>17. ASSUME NEW t \in Threads, TakeHandle(t) PROVE Made'
    <2>1. UNCHANGED <<gen, waits, used>>
      BY TakeHandleDoes, <1>17
    <2> QED BY <2>1 DEF Made
  <1>18. ASSUME NEW t \in Threads, TakeInner(t) PROVE Made'
    <2>1. UNCHANGED <<gen, waits, used>>
      BY TakeInnerDoes, <1>18
    <2> QED BY <2>1 DEF Made
  <1>19. ASSUME NEW t \in Threads, StopCloses(t) PROVE Made'
    <2>1. /\ caller[t].at = "close"
          /\ caller[t].old \in Generations
          /\ \A x \in Generations : x # caller[t].old => gen'[x] = gen[x]
          /\ \A x \in Generations : gen'[x].handle = gen[x].handle
          /\ gen'[caller[t].old].fd = "closed"
          /\ \A x \in Generations : gen'[x].intake = gen[x].intake
          /\ waits' = waits \ {caller[t].old}
          /\ UNCHANGED used
      BY StopClosesDoes, <1>19
    <2> QED BY <2>1 DEF Made, Joins, Joining, Shapes, GensOK, GenT
  <1>20. ASSUME NEW t \in Threads, StopJoins(t) PROVE Made'
    <2>1. UNCHANGED <<gen, waits, used>>
      BY StopJoinsDoes, <1>20
    <2> QED BY <2>1 DEF Made
  <1>21. ASSUME NEW t \in Threads, StopJoinsDog(t) PROVE Made'
    <2>1. UNCHANGED <<gen, waits, used>>
      BY StopJoinsDogDoes, <1>21
    <2> QED BY <2>1 DEF Made
  <1>22. ASSUME NEW t \in Threads, Start(t) PROVE Made'
    <2>1. /\ used.handles \in Nat /\ used.gens \in Nat /\ used.handles + 1 \in Handles
          /\ used.gens + 1 \in Generations
          /\ Handles \subseteq Nat /\ Generations \subseteq Nat
      BY StartDoes, <1>22, Numbers, Counters
    <2>2. /\ gen'[used.gens + 1].fd = "open" /\ gen'[used.gens + 1].intake = "reading"
          /\ gen'[used.gens + 1].handle = used.handles + 1
          /\ \A x \in Generations : x # used.gens + 1 => gen'[x] = gen[x]
          /\ used'.gens = used.gens + 1 /\ used'.handles = used.handles + 1
          /\ waits' = waits
      BY StartDoes, <1>22
    <2>3. \A x \in Generations : x # used.gens + 1 /\ x <= used'.gens => x <= used.gens
      BY <2>1, <2>2
    <2>4. \A x \in Generations : x > used'.gens => x > used.gens /\ x # used.gens + 1
      BY <2>1, <2>2
    <2>5. \A x \in Handles : x <= used.handles => x <= used'.handles
      BY <2>1, <2>2
    <2>6. used.handles + 1 <= used'.handles
      BY <2>1, <2>2
    <2>7. \A x \in Generations :
            /\ x > used'.gens => gen'[x].handle = None
            /\ x > used'.gens => gen'[x].fd = "none"
            /\ x > used'.gens => gen'[x].intake = "none"
      BY ZenonT(30), <2>1, <2>2, <2>4 DEF Made
    <2>8. \A x \in Generations :
             x <= used'.gens
                 => gen'[x].handle \in Handles /\ gen'[x].handle <= used'.handles
      BY ZenonT(30), <2>1, <2>2, <2>3, <2>5, <2>6 DEF Made
    <2>9. \A x \in Generations :
             x <= used'.gens => gen'[x].fd # "none" /\ gen'[x].intake # "none"
      BY <2>2, <2>3 DEF Made
    <2>10. \A x \in Generations :
              gen'[x].fd = "open" => gen'[x].intake \in {"reading", "stuck", "hung"}
      BY <2>2 DEF Made
    <2>11. \A x \in Generations : x \in waits' => gen'[x].fd = "open"
      BY <2>2 DEF Made
    <2> QED BY <2>7, <2>8, <2>9, <2>10, <2>11 DEF Made
  <1>23. ASSUME NEW t \in Threads, NoStart(t) PROVE Made'
    <2>1. /\ caller[t].at = "start"
          /\ t \in Callers
          /\ used'.handles = used.handles /\ used'.gens = used.gens
          /\ UNCHANGED <<gen, waits>>
      BY NoStartDoes, <1>23
    <2> QED BY <2>1 DEF Made
  <1>24. CASE Exit
    <2>1. /\ \A g \in Generations : g > used.gens => gen'[g] = gen[g]
          /\ \A g \in Generations : ~(g > used.gens) => gen'[g].handle = gen[g].handle
          /\ \A g \in Generations : ~(g > used.gens) => gen'[g].fd = "closed"
          /\ \A g \in Generations :
                ~(g > used.gens) => gen'[g].intake \in {"ended", "killed"}
          /\ waits' = {}
          /\ UNCHANGED <<used>>
      BY ExitDoes, <1>24
    <2> QED BY <2>1, Numbers, Counters DEF Made
  <1>26. ASSUME NEW g \in Generations, Overflow(g) \/ SweepEnds(g) PROVE Made'
    <2>1. UNCHANGED <<slot, slotLock, dog, gen, waits, caller, used, down>>
      BY WritesOverDoes, <1>26
    <2> QED BY <2>1 DEF Made
  <1>25. CASE UNCHANGED vars
    BY <1>25 DEF vars, Made
  <1> QED
    BY <1>1, <1>2, <1>3, <1>4, <1>5, <1>6, <1>7, <1>8, <1>9, <1>10, <1>11, <1>12,
       <1>13, <1>14, <1>15, <1>16, <1>17, <1>18, <1>19, <1>20, <1>21, <1>22, <1>23,
       <1>24, <1>25, <1>26 DEF Next, DogStep, CallerStep, StopStep

(* Nothing steps when the process has exited.                              *)
LEMMA NothingAfterExit ==
    ASSUME Shapes, Dead, down, [Next]_vars
    PROVE  UNCHANGED vars
  <1>1. CASE Exec
    BY ExecDoes, <1>1 DEF Dead
  <1>2. ASSUME NEW g \in Generations, Answer(g) PROVE UNCHANGED vars
    BY AnswerDoes, <1>2 DEF Dead
  <1>3. ASSUME NEW g \in Generations, Stall(g) PROVE UNCHANGED vars
    BY StallDoes, <1>3 DEF Dead
  <1>4. ASSUME NEW g \in Generations, Recover(g) PROVE UNCHANGED vars
    BY RecoverDoes, <1>4 DEF Dead
  <1>5. ASSUME NEW g \in Generations, Leave(g) PROVE UNCHANGED vars
    BY LeaveDoes, <1>5 DEF Dead
  <1>6. ASSUME NEW g \in Generations, WindUp(g) PROVE UNCHANGED vars
    BY WindUpDoes, <1>6 DEF Dead
  <1>7. ASSUME NEW h \in Handles, DogWakes(h) PROVE UNCHANGED vars
    BY DogWakesDoes, <1>7 DEF Dead
  <1>8. ASSUME NEW h \in Handles, DogSeesHealthy(h) PROVE UNCHANGED vars
    BY DogSeesHealthyDoes, <1>8 DEF Dead
  <1>9. ASSUME NEW h \in Handles, DogSeesStall(h) PROVE UNCHANGED vars
    BY DogSeesStallDoes, <1>9 DEF Dead
  <1>10. ASSUME NEW h \in Handles, DogGivesUp(h) PROVE UNCHANGED vars
    BY DogGivesUpDoes, <1>10 DEF Dead
  <1>11. ASSUME NEW h \in Handles, DogTakes(h) PROVE UNCHANGED vars
    BY DogTakesDoes, <1>11 DEF Dead
  <1>12. ASSUME NEW h \in Handles, DogCloses(h) PROVE UNCHANGED vars
    BY DogClosesDoes, <1>12 DEF Dead
  <1>13. ASSUME NEW h \in Handles, DogJoins(h) PROVE UNCHANGED vars
    BY DogJoinsDoes, <1>13 DEF Dead
  <1>14. ASSUME NEW h \in Handles, DogSpawns(h) PROVE UNCHANGED vars
    BY DogSpawnsDoes, <1>14 DEF Dead
  <1>15. ASSUME NEW h \in Handles, DogCannotSpawn(h) PROVE UNCHANGED vars
    BY DogCannotSpawnDoes, <1>15 DEF Dead
  <1>16. ASSUME NEW h \in Handles, DogStores(h) PROVE UNCHANGED vars
    BY DogStoresDoes, <1>16 DEF Dead
  <1>17. ASSUME NEW t \in Threads, TakeHandle(t) PROVE UNCHANGED vars
    BY TakeHandleDoes, <1>17 DEF Dead
  <1>18. ASSUME NEW t \in Threads, TakeInner(t) PROVE UNCHANGED vars
    BY TakeInnerDoes, <1>18 DEF Dead
  <1>19. ASSUME NEW t \in Threads, StopCloses(t) PROVE UNCHANGED vars
    BY StopClosesDoes, <1>19 DEF Dead
  <1>20. ASSUME NEW t \in Threads, StopJoins(t) PROVE UNCHANGED vars
    BY StopJoinsDoes, <1>20 DEF Dead
  <1>21. ASSUME NEW t \in Threads, StopJoinsDog(t) PROVE UNCHANGED vars
    BY StopJoinsDogDoes, <1>21 DEF Dead
  <1>22. ASSUME NEW t \in Threads, Start(t) PROVE UNCHANGED vars
    BY StartDoes, <1>22 DEF Dead
  <1>23. ASSUME NEW t \in Threads, NoStart(t) PROVE UNCHANGED vars
    BY NoStartDoes, <1>23 DEF Dead
  <1>24. CASE Exit
    BY ExitDoes, <1>24 DEF Dead, Threads
  <1>26. ASSUME NEW g \in Generations, Overflow(g) \/ SweepEnds(g) PROVE UNCHANGED vars
    BY WritesOverDoes, <1>26 DEF Dead, Alive
  <1>25. CASE UNCHANGED vars
    BY <1>25
  <1> QED
    BY <1>1, <1>2, <1>3, <1>4, <1>5, <1>6, <1>7, <1>8, <1>9, <1>10, <1>11, <1>12,
       <1>13, <1>14, <1>15, <1>16, <1>17, <1>18, <1>19, <1>20, <1>21, <1>22, <1>23,
       <1>24, <1>25, <1>26 DEF Next, DogStep, CallerStep, StopStep

(* The exit is the end.                                                    *)
LEMMA DeadStays ==
    ASSUME Shapes, Started, Made, ~down, [Next]_vars
    PROVE  Dead'
  <1>1. CASE Exec
    <2>1. ~down'
      BY ExecDoes, <1>1
    <2> QED BY <2>1 DEF Dead
  <1>2. ASSUME NEW g \in Generations, Answer(g) PROVE Dead'
    <2>1. ~down'
      BY AnswerDoes, <1>2
    <2> QED BY <2>1 DEF Dead
  <1>3. ASSUME NEW g \in Generations, Stall(g) PROVE Dead'
    <2>1. ~down'
      BY StallDoes, <1>3
    <2> QED BY <2>1 DEF Dead
  <1>4. ASSUME NEW g \in Generations, Recover(g) PROVE Dead'
    <2>1. ~down'
      BY RecoverDoes, <1>4
    <2> QED BY <2>1 DEF Dead
  <1>5. ASSUME NEW g \in Generations, Leave(g) PROVE Dead'
    <2>1. ~down'
      BY LeaveDoes, <1>5
    <2> QED BY <2>1 DEF Dead
  <1>6. ASSUME NEW g \in Generations, WindUp(g) PROVE Dead'
    <2>1. ~down'
      BY WindUpDoes, <1>6
    <2> QED BY <2>1 DEF Dead
  <1>7. ASSUME NEW h \in Handles, DogWakes(h) PROVE Dead'
    <2>1. ~down'
      BY DogWakesDoes, <1>7
    <2> QED BY <2>1 DEF Dead
  <1>8. ASSUME NEW h \in Handles, DogSeesHealthy(h) PROVE Dead'
    <2>1. ~down'
      BY DogSeesHealthyDoes, <1>8
    <2> QED BY <2>1 DEF Dead
  <1>9. ASSUME NEW h \in Handles, DogSeesStall(h) PROVE Dead'
    <2>1. ~down'
      BY DogSeesStallDoes, <1>9
    <2> QED BY <2>1 DEF Dead
  <1>10. ASSUME NEW h \in Handles, DogGivesUp(h) PROVE Dead'
    <2>1. ~down'
      BY DogGivesUpDoes, <1>10
    <2> QED BY <2>1 DEF Dead
  <1>11. ASSUME NEW h \in Handles, DogTakes(h) PROVE Dead'
    <2>1. ~down'
      BY DogTakesDoes, <1>11
    <2> QED BY <2>1 DEF Dead
  <1>12. ASSUME NEW h \in Handles, DogCloses(h) PROVE Dead'
    <2>1. ~down'
      BY DogClosesDoes, <1>12
    <2> QED BY <2>1 DEF Dead
  <1>13. ASSUME NEW h \in Handles, DogJoins(h) PROVE Dead'
    <2>1. ~down'
      BY DogJoinsDoes, <1>13
    <2> QED BY <2>1 DEF Dead
  <1>14. ASSUME NEW h \in Handles, DogSpawns(h) PROVE Dead'
    <2>1. ~down'
      BY DogSpawnsDoes, <1>14
    <2> QED BY <2>1 DEF Dead
  <1>15. ASSUME NEW h \in Handles, DogCannotSpawn(h) PROVE Dead'
    <2>1. ~down'
      BY DogCannotSpawnDoes, <1>15
    <2> QED BY <2>1 DEF Dead
  <1>16. ASSUME NEW h \in Handles, DogStores(h) PROVE Dead'
    <2>1. ~down'
      BY DogStoresDoes, <1>16
    <2> QED BY <2>1 DEF Dead
  <1>17. ASSUME NEW t \in Threads, TakeHandle(t) PROVE Dead'
    <2>1. ~down'
      BY TakeHandleDoes, <1>17
    <2> QED BY <2>1 DEF Dead
  <1>18. ASSUME NEW t \in Threads, TakeInner(t) PROVE Dead'
    <2>1. ~down'
      BY TakeInnerDoes, <1>18
    <2> QED BY <2>1 DEF Dead
  <1>19. ASSUME NEW t \in Threads, StopCloses(t) PROVE Dead'
    <2>1. ~down'
      BY StopClosesDoes, <1>19
    <2> QED BY <2>1 DEF Dead
  <1>20. ASSUME NEW t \in Threads, StopJoins(t) PROVE Dead'
    <2>1. ~down'
      BY StopJoinsDoes, <1>20
    <2> QED BY <2>1 DEF Dead
  <1>21. ASSUME NEW t \in Threads, StopJoinsDog(t) PROVE Dead'
    <2>1. ~down'
      BY StopJoinsDogDoes, <1>21
    <2> QED BY <2>1 DEF Dead
  <1>22. ASSUME NEW t \in Threads, Start(t) PROVE Dead'
    <2>1. ~down'
      BY StartDoes, <1>22
    <2> QED BY <2>1 DEF Dead
  <1>23. ASSUME NEW t \in Threads, NoStart(t) PROVE Dead'
    <2>1. ~down'
      BY NoStartDoes, <1>23
    <2> QED BY <2>1 DEF Dead
  <1>24. CASE Exit
    <2>1. /\ \A g \in Generations : g > used.gens => gen'[g] = gen[g]
          /\ \A g \in Generations : ~(g > used.gens) => gen'[g].handle = gen[g].handle
          /\ \A g \in Generations : ~(g > used.gens) => gen'[g].fd = "closed"
          /\ \A g \in Generations :
                ~(g > used.gens) => gen'[g].intake \in {"ended", "killed"}
          /\ \A h \in Handles : h > used.handles => dog'[h] = dog[h]
          /\ \A h \in Handles : ~(h > used.handles) => dog'[h].at = "ended"
          /\ \A h \in Handles : dog'[h].restarts = dog[h].restarts
          /\ \A t \in Threads : caller'[t].at = "gone"
      BY ExitDoes, <1>24
    <2> QED BY <2>1, Numbers, Counters DEF Dead, Started, Made
  <1>26. ASSUME NEW g \in Generations, Overflow(g) \/ SweepEnds(g) PROVE Dead'
    <2>1. UNCHANGED <<slot, slotLock, dog, gen, waits, caller, used, down>>
      BY WritesOverDoes, <1>26
    <2> QED BY <2>1 DEF Dead
  <1>25. CASE UNCHANGED vars
    BY <1>25 DEF vars, Dead
  <1> QED
    BY <1>1, <1>2, <1>3, <1>4, <1>5, <1>6, <1>7, <1>8, <1>9, <1>10, <1>11, <1>12,
       <1>13, <1>14, <1>15, <1>16, <1>17, <1>18, <1>19, <1>20, <1>21, <1>22, <1>23,
       <1>24, <1>25, <1>26 DEF Next, DogStep, CallerStep, StopStep

(* The slot stays in order.                                                *)
LEMMA SlotsStay ==
    ASSUME Shapes, Started, Slots, ~down', [Next]_vars
    PROVE  Slots'
  <1>1. CASE Exec
    <2>1. /\ used'.handles = used.handles
          /\ UNCHANGED <<handle, caller, slot, slotLock>>
      BY ExecDoes, <1>1
    <2> QED BY <2>1 DEF Slots
  <1>2. ASSUME NEW g \in Generations, Answer(g) PROVE Slots'
    <2>1. /\ used'.handles = used.handles
          /\ UNCHANGED <<handle, caller, slot, slotLock>>
      BY AnswerDoes, <1>2
    <2> QED BY <2>1 DEF Slots
  <1>3. ASSUME NEW g \in Generations, Stall(g) PROVE Slots'
    <2>1. /\ used'.handles = used.handles
          /\ UNCHANGED <<handle, caller, slot, slotLock>>
      BY StallDoes, <1>3
    <2> QED BY <2>1 DEF Slots
  <1>4. ASSUME NEW g \in Generations, Recover(g) PROVE Slots'
    <2>1. /\ used'.handles = used.handles
          /\ UNCHANGED <<handle, caller, slot, slotLock>>
      BY RecoverDoes, <1>4
    <2> QED BY <2>1 DEF Slots
  <1>5. ASSUME NEW g \in Generations, Leave(g) PROVE Slots'
    <2>1. /\ used'.handles = used.handles
          /\ UNCHANGED <<handle, caller, slot, slotLock>>
      BY LeaveDoes, <1>5
    <2> QED BY <2>1 DEF Slots
  <1>6. ASSUME NEW g \in Generations, WindUp(g) PROVE Slots'
    <2>1. /\ used'.handles = used.handles
          /\ UNCHANGED <<handle, caller, slot, slotLock>>
      BY WindUpDoes, <1>6
    <2> QED BY <2>1 DEF Slots
  <1>7. ASSUME NEW h \in Handles, DogWakes(h) PROVE Slots'
    <2>1. /\ used'.handles = used.handles
          /\ UNCHANGED <<handle, caller, slot, slotLock>>
      BY DogWakesDoes, <1>7
    <2> QED BY <2>1 DEF Slots
  <1>8. ASSUME NEW h \in Handles, DogSeesHealthy(h) PROVE Slots'
    <2>1. /\ \A x \in Handles : handle'[x].stop <=> handle[x].stop
          /\ used'.handles = used.handles
          /\ UNCHANGED <<caller, slot, slotLock>>
      BY DogSeesHealthyDoes, <1>8
    <2> QED BY <2>1 DEF Slots
  <1>9. ASSUME NEW h \in Handles, DogSeesStall(h) PROVE Slots'
    <2>1. /\ used'.handles = used.handles
          /\ UNCHANGED <<handle, caller, slot, slotLock>>
      BY DogSeesStallDoes, <1>9
    <2> QED BY <2>1 DEF Slots
  <1>10. ASSUME NEW h \in Handles, DogGivesUp(h) PROVE Slots'
    <2>1. /\ \A x \in Handles : handle'[x].stop <=> handle[x].stop
          /\ used'.handles = used.handles
          /\ UNCHANGED <<caller, slot, slotLock>>
      BY DogGivesUpDoes, <1>10
    <2> QED BY <2>1 DEF Slots
  <1>11. ASSUME NEW h \in Handles, DogTakes(h) PROVE Slots'
    <2>1. /\ \A x \in Handles : handle'[x].stop <=> handle[x].stop
          /\ used'.handles = used.handles
          /\ UNCHANGED <<caller, slot, slotLock>>
      BY DogTakesDoes, <1>11
    <2> QED BY <2>1 DEF Slots
  <1>12. ASSUME NEW h \in Handles, DogCloses(h) PROVE Slots'
    <2>1. /\ used'.handles = used.handles
          /\ UNCHANGED <<handle, caller, slot, slotLock>>
      BY DogClosesDoes, <1>12
    <2> QED BY <2>1 DEF Slots
  <1>13. ASSUME NEW h \in Handles, DogJoins(h) PROVE Slots'
    <2>1. /\ used'.handles = used.handles
          /\ UNCHANGED <<handle, caller, slot, slotLock>>
      BY DogJoinsDoes, <1>13
    <2> QED BY <2>1 DEF Slots
  <1>14. ASSUME NEW h \in Handles, DogSpawns(h) PROVE Slots'
    <2>1. /\ used'.handles = used.handles
          /\ UNCHANGED <<handle, caller, slot, slotLock>>
      BY DogSpawnsDoes, <1>14
    <2> QED BY <2>1 DEF Slots
  <1>15. ASSUME NEW h \in Handles, DogCannotSpawn(h) PROVE Slots'
    <2>1. /\ \A x \in Handles : handle'[x].stop <=> handle[x].stop
          /\ used'.handles = used.handles
          /\ UNCHANGED <<caller, slot, slotLock>>
      BY DogCannotSpawnDoes, <1>15
    <2> QED BY <2>1 DEF Slots
  <1>16. ASSUME NEW h \in Handles, DogStores(h) PROVE Slots'
    <2>1. /\ \A x \in Handles : handle'[x].stop <=> handle[x].stop
          /\ used'.handles = used.handles
          /\ UNCHANGED <<caller, slot, slotLock>>
      BY DogStoresDoes, <1>16
    <2> QED BY <2>1 DEF Slots
  <1>17. ASSUME NEW t \in Threads, TakeHandle(t) PROVE Slots'
    <2>1. /\ caller[t].at = "idle"
          /\ slotLock = None
          /\ \A x \in Handles : handle'[x].stop <=> (handle[x].stop \/ x = slot)
          /\ \A x \in Threads : x # t => caller'[x].at = caller[x].at
          /\ caller'[t].at = IF slot = None THEN "start" ELSE "take"
          /\ slot' = None
          /\ slotLock' = IF t = Signal THEN None ELSE t
          /\ used'.handles = used.handles
      BY TakeHandleDoes, <1>17
    <2> QED BY <2>1, Numbers, Counters, Links DEF Slots, Started
  <1>18. ASSUME NEW t \in Threads, TakeInner(t) PROVE Slots'
    <2>1. /\ caller[t].at = "take"
          /\ caller[t].handle \in Handles
          /\ handle[caller[t].handle].lock = None
          /\ \A x \in Handles : handle'[x].stop <=> handle[x].stop
          /\ \A x \in Threads : x # t => caller'[x].at = caller[x].at
          /\ handle[caller[t].handle].inner = None => caller'[t].at = "join dog"
          /\ handle[caller[t].handle].inner # None => caller'[t].at = "close"
          /\ used'.handles = used.handles
          /\ UNCHANGED <<slot, slotLock>>
      <3>1. /\ caller[t].at = "take"
        BY TakeInnerDoes, <1>18
      <3>2. /\ caller[t].handle \in Handles
        BY TakeInnerDoes, <1>18
      <3>3. /\ handle[caller[t].handle].lock = None
        BY TakeInnerDoes, <1>18
      <3>4. /\ \A x \in Handles : handle'[x].stop <=> handle[x].stop
        BY TakeInnerDoes, <1>18
      <3>5. \A x \in Threads : x # t => caller'[x].at = caller[x].at
        <4>1. \A x \in Threads : x # t => caller'[x] = caller[x]
          BY TakeInnerDoes, <1>18
        <4> QED BY <4>1
      <3>6. /\ handle[caller[t].handle].inner = None => caller'[t].at = "join dog"
        BY TakeInnerDoes, <1>18
      <3>7. /\ handle[caller[t].handle].inner # None => caller'[t].at = "close"
        BY TakeInnerDoes, <1>18
      <3>8. /\ used'.handles = used.handles
        BY TakeInnerDoes, <1>18
      <3>9. /\ UNCHANGED <<slot, slotLock>>
        BY TakeInnerDoes, <1>18
      <3> QED BY <3>1, <3>2, <3>3, <3>4, <3>5, <3>6, <3>7, <3>8, <3>9
    <2> QED BY ZenonT(30), <2>1, Numbers, Counters, Links DEF Slots, Started
  <1>19. ASSUME NEW t \in Threads, StopCloses(t) PROVE Slots'
    <2>1. /\ caller[t].at = "close"
          /\ caller[t].old \in Generations
          /\ \A x \in Threads : x # t => caller'[x].at = caller[x].at
          /\ caller'[t].at = "join"
          /\ used'.handles = used.handles
          /\ UNCHANGED <<handle, slot, slotLock>>
      BY StopClosesDoes, <1>19
    <2> QED BY <2>1, Numbers, Counters, Links DEF Slots, Started
  <1>20. ASSUME NEW t \in Threads, StopJoins(t) PROVE Slots'
    <2>1. /\ caller[t].at = "join"
          /\ caller[t].handle \in Handles
          /\ gen[caller[t].old].intake = "ended"
          /\ \A x \in Handles : handle'[x].stop <=> handle[x].stop
          /\ \A x \in Threads : x # t => caller'[x].at = caller[x].at
          /\ caller'[t].at = "join dog"
          /\ used'.handles = used.handles
          /\ UNCHANGED <<slot, slotLock>>
      BY StopJoinsDoes, <1>20
    <2> QED BY <2>1, Numbers, Counters, Links DEF Slots, Started
  <1>21. ASSUME NEW t \in Threads, StopJoinsDog(t) PROVE Slots'
    <2>1. /\ caller[t].at = "join dog"
          /\ caller[t].handle \in Handles
          /\ dog[caller[t].handle].at = "ended"
          /\ \A x \in Threads : x # t => caller'[x].at = caller[x].at
          /\ caller'[t].at = "start"
          /\ used'.handles = used.handles
          /\ UNCHANGED <<handle, slot, slotLock>>
      BY StopJoinsDogDoes, <1>21
    <2> QED BY ZenonT(30), <2>1, Numbers, Counters, Links DEF Slots, Started
  <1>22. ASSUME NEW t \in Threads, Start(t) PROVE Slots'
    <2>1. /\ caller[t].at = "start"
          /\ t \in Callers
          /\ used.gens + 1 \in Generations
          /\ used.handles + 1 \in Handles
          /\ \A x \in Handles : handle'[x].stop <=> handle[x].stop
          /\ \A x \in Threads : x # t => caller'[x].at = caller[x].at
          /\ caller'[t].at = "idle"
          /\ slot' = used.handles + 1
          /\ slotLock' = None
          /\ used'.handles = used.handles + 1
      BY StartDoes, <1>22
    <2> QED BY <2>1, Numbers, Counters, Links DEF Slots, Started
  <1>23. ASSUME NEW t \in Threads, NoStart(t) PROVE Slots'
    <2>1. /\ caller[t].at = "start"
          /\ t \in Callers
          /\ \A x \in Threads : x # t => caller'[x].at = caller[x].at
          /\ caller'[t].at = "idle"
          /\ slotLock' = None
          /\ used'.handles = used.handles
          /\ UNCHANGED <<handle, slot>>
      BY NoStartDoes, <1>23
    <2> QED BY <2>1, Numbers, Counters, Links DEF Slots, Started
  <1>24. CASE Exit
    BY ExitDoes, <1>24
  <1>26. ASSUME NEW g \in Generations, Overflow(g) \/ SweepEnds(g) PROVE Slots'
    <2>1. /\ \A x \in Handles : handle'[x].stop <=> handle[x].stop
          /\ \A x \in Handles : handle'[x].inner = handle[x].inner
          /\ \A x \in Handles : handle'[x].lock = handle[x].lock
          /\ UNCHANGED <<slot, slotLock, dog, gen, waits, caller, used, down>>
      BY WritesOverDoes, <1>26
    <2> QED BY <2>1 DEF Slots
  <1>25. CASE UNCHANGED vars
    BY <1>25 DEF vars, Slots
  <1> QED
    BY <1>1, <1>2, <1>3, <1>4, <1>5, <1>6, <1>7, <1>8, <1>9, <1>10, <1>11, <1>12,
       <1>13, <1>14, <1>15, <1>16, <1>17, <1>18, <1>19, <1>20, <1>21, <1>22, <1>23,
       <1>24, <1>25, <1>26 DEF Next, DogStep, CallerStep, StopStep

(* A handle stays held by one thread.                                      *)
LEMMA HeldStays ==
    ASSUME Shapes, Started, Slots, Held, ~down', [Next]_vars
    PROVE  Held'
  <1>1. CASE Exec
    <2>1. /\ used'.handles = used.handles
          /\ UNCHANGED <<handle, caller>>
      BY ExecDoes, <1>1
    <2> QED BY <2>1, Links DEF Held, Stops
  <1>2. ASSUME NEW g \in Generations, Answer(g) PROVE Held'
    <2>1. /\ used'.handles = used.handles
          /\ UNCHANGED <<handle, caller>>
      BY AnswerDoes, <1>2
    <2> QED BY <2>1, Links DEF Held, Stops
  <1>3. ASSUME NEW g \in Generations, Stall(g) PROVE Held'
    <2>1. /\ used'.handles = used.handles
          /\ UNCHANGED <<handle, caller>>
      BY StallDoes, <1>3
    <2> QED BY <2>1, Links DEF Held, Stops
  <1>4. ASSUME NEW g \in Generations, Recover(g) PROVE Held'
    <2>1. /\ used'.handles = used.handles
          /\ UNCHANGED <<handle, caller>>
      BY RecoverDoes, <1>4
    <2> QED BY <2>1, Links DEF Held, Stops
  <1>5. ASSUME NEW g \in Generations, Leave(g) PROVE Held'
    <2>1. /\ used'.handles = used.handles
          /\ UNCHANGED <<handle, caller>>
      BY LeaveDoes, <1>5
    <2> QED BY <2>1, Links DEF Held, Stops
  <1>6. ASSUME NEW g \in Generations, WindUp(g) PROVE Held'
    <2>1. /\ used'.handles = used.handles
          /\ UNCHANGED <<handle, caller>>
      BY WindUpDoes, <1>6
    <2> QED BY <2>1, Links DEF Held, Stops
  <1>7. ASSUME NEW h \in Handles, DogWakes(h) PROVE Held'
    <2>1. /\ used'.handles = used.handles
          /\ UNCHANGED <<handle, caller>>
      BY DogWakesDoes, <1>7
    <2> QED BY <2>1, Links DEF Held, Stops
  <1>8. ASSUME NEW h \in Handles, DogSeesHealthy(h) PROVE Held'
    <2>1. /\ \A x \in Handles : handle'[x].stop <=> handle[x].stop
          /\ used'.handles = used.handles
          /\ UNCHANGED caller
      BY DogSeesHealthyDoes, <1>8
    <2> QED BY <2>1, Links DEF Held, Stops
  <1>9. ASSUME NEW h \in Handles, DogSeesStall(h) PROVE Held'
    <2>1. /\ used'.handles = used.handles
          /\ UNCHANGED <<handle, caller>>
      BY DogSeesStallDoes, <1>9
    <2> QED BY <2>1, Links DEF Held, Stops
  <1>10. ASSUME NEW h \in Handles, DogGivesUp(h) PROVE Held'
    <2>1. /\ \A x \in Handles : handle'[x].stop <=> handle[x].stop
          /\ used'.handles = used.handles
          /\ UNCHANGED caller
      BY DogGivesUpDoes, <1>10
    <2> QED BY <2>1, Links DEF Held, Stops
  <1>11. ASSUME NEW h \in Handles, DogTakes(h) PROVE Held'
    <2>1. /\ \A x \in Handles : handle'[x].stop <=> handle[x].stop
          /\ used'.handles = used.handles
          /\ UNCHANGED caller
      BY DogTakesDoes, <1>11
    <2> QED BY <2>1, Links DEF Held, Stops
  <1>12. ASSUME NEW h \in Handles, DogCloses(h) PROVE Held'
    <2>1. /\ used'.handles = used.handles
          /\ UNCHANGED <<handle, caller>>
      BY DogClosesDoes, <1>12
    <2> QED BY <2>1, Links DEF Held, Stops
  <1>13. ASSUME NEW h \in Handles, DogJoins(h) PROVE Held'
    <2>1. /\ used'.handles = used.handles
          /\ UNCHANGED <<handle, caller>>
      BY DogJoinsDoes, <1>13
    <2> QED BY <2>1, Links DEF Held, Stops
  <1>14. ASSUME NEW h \in Handles, DogSpawns(h) PROVE Held'
    <2>1. /\ used'.handles = used.handles
          /\ UNCHANGED <<handle, caller>>
      BY DogSpawnsDoes, <1>14
    <2> QED BY <2>1, Links DEF Held, Stops
  <1>15. ASSUME NEW h \in Handles, DogCannotSpawn(h) PROVE Held'
    <2>1. /\ \A x \in Handles : handle'[x].stop <=> handle[x].stop
          /\ used'.handles = used.handles
          /\ UNCHANGED caller
      BY DogCannotSpawnDoes, <1>15
    <2> QED BY <2>1, Links DEF Held, Stops
  <1>16. ASSUME NEW h \in Handles, DogStores(h) PROVE Held'
    <2>1. /\ \A x \in Handles : handle'[x].stop <=> handle[x].stop
          /\ used'.handles = used.handles
          /\ UNCHANGED caller
      BY DogStoresDoes, <1>16
    <2> QED BY <2>1, Links DEF Held, Stops
  <1>17. ASSUME NEW t \in Threads, TakeHandle(t) PROVE Held'
    <2>1. /\ caller[t].at = "idle"
          /\ slotLock = None
          /\ \A x \in Handles : handle'[x].stop <=> (handle[x].stop \/ x = slot)
          /\ \A x \in Threads : x # t => caller'[x].at = caller[x].at
          /\ caller'[t].at = IF slot = None THEN "start" ELSE "take"
          /\ \A x \in Threads : x # t => caller'[x].handle = caller[x].handle
          /\ caller'[t].handle = slot
          /\ used'.handles = used.handles
      BY TakeHandleDoes, <1>17
    <2>2. (\A w \in Threads : caller[w].at # "gone")'
      BY <2>1 DEF Held
    <2>3. (\A w \in Threads : caller[w].handle # None <=> caller[w].at \in Stops)'
      BY ZenonT(30), <2>1 DEF Held, Stops
    <2>4. (\A w \in Threads : caller[w].handle # None => caller[w].handle <= used.handles)'
      BY <2>1 DEF Held, Started
    <2>5. (\A w \in Threads : caller[w].handle # None => handle[caller[w].handle].stop)'
      BY <2>1, Links, Counters DEF Held
    <2>6. (\A w, u \in Threads :
            caller[w].handle = caller[u].handle /\ caller[w].handle # None => w = u)'
      BY <2>1, Counters DEF Held, Slots, Started
    <2> QED BY <2>2, <2>3, <2>4, <2>5, <2>6 DEF Held
  <1>18. ASSUME NEW t \in Threads, TakeInner(t) PROVE Held'
    <2>1. /\ caller[t].at = "take"
          /\ caller[t].handle \in Handles
          /\ handle[caller[t].handle].lock = None
          /\ \A x \in Handles : handle'[x].stop <=> handle[x].stop
          /\ \A x \in Threads : x # t => caller'[x].at = caller[x].at
          /\ handle[caller[t].handle].inner = None => caller'[t].at = "join dog"
          /\ handle[caller[t].handle].inner # None => caller'[t].at = "close"
          /\ \A x \in Threads : caller'[x].handle = caller[x].handle
          /\ used'.handles = used.handles
      <3>1. /\ caller[t].at = "take"
        BY TakeInnerDoes, <1>18
      <3>2. /\ caller[t].handle \in Handles
        BY TakeInnerDoes, <1>18
      <3>3. /\ handle[caller[t].handle].lock = None
        BY TakeInnerDoes, <1>18
      <3>4. /\ \A x \in Handles : handle'[x].stop <=> handle[x].stop
        BY TakeInnerDoes, <1>18
      <3>5. \A x \in Threads : x # t => caller'[x].at = caller[x].at
        <4>1. \A x \in Threads : x # t => caller'[x] = caller[x]
          BY TakeInnerDoes, <1>18
        <4> QED BY <4>1
      <3>6. /\ handle[caller[t].handle].inner = None => caller'[t].at = "join dog"
        BY TakeInnerDoes, <1>18
      <3>7. /\ handle[caller[t].handle].inner # None => caller'[t].at = "close"
        BY TakeInnerDoes, <1>18
      <3>8. /\ \A x \in Threads : caller'[x].handle = caller[x].handle
        BY TakeInnerDoes, <1>18
      <3>9. /\ used'.handles = used.handles
        BY TakeInnerDoes, <1>18
      <3> QED BY <3>1, <3>2, <3>3, <3>4, <3>5, <3>6, <3>7, <3>8, <3>9
    <2>2. (\A w \in Threads : caller[w].at # "gone")'
      BY <2>1 DEF Held
    <2>3. (\A w \in Threads : caller[w].handle # None <=> caller[w].at \in Stops)'
      BY ZenonT(30), <2>1 DEF Held, Stops
    <2>4. (\A w \in Threads : caller[w].handle # None => caller[w].handle <= used.handles)'
      BY <2>1 DEF Held
    <2>5. (\A w \in Threads : caller[w].handle # None => handle[caller[w].handle].stop)'
      BY ZenonT(30), <2>1, Links DEF Held
    <2>6. (\A w, u \in Threads :
            caller[w].handle = caller[u].handle /\ caller[w].handle # None => w = u)'
      BY ZenonT(30), <2>1 DEF Held
    <2> QED BY <2>2, <2>3, <2>4, <2>5, <2>6 DEF Held
  <1>19. ASSUME NEW t \in Threads, StopCloses(t) PROVE Held'
    <2>1. /\ caller[t].at = "close"
          /\ caller[t].old \in Generations
          /\ \A x \in Threads : x # t => caller'[x].at = caller[x].at
          /\ caller'[t].at = "join"
          /\ \A x \in Threads : caller'[x].handle = caller[x].handle
          /\ used'.handles = used.handles
          /\ UNCHANGED handle
      BY StopClosesDoes, <1>19
    <2>2. (\A w \in Threads : caller[w].at # "gone")'
      BY <2>1 DEF Held
    <2>3. (\A w \in Threads : caller[w].handle # None <=> caller[w].at \in Stops)'
      BY ZenonT(30), <2>1 DEF Held, Stops
    <2>4. (\A w \in Threads : caller[w].handle # None => caller[w].handle <= used.handles)'
      BY <2>1 DEF Held
    <2>5. (\A w \in Threads : caller[w].handle # None => handle[caller[w].handle].stop)'
      BY <2>1, Links DEF Held
    <2>6. (\A w, u \in Threads :
            caller[w].handle = caller[u].handle /\ caller[w].handle # None => w = u)'
      BY <2>1 DEF Held
    <2> QED BY <2>2, <2>3, <2>4, <2>5, <2>6 DEF Held
  <1>20. ASSUME NEW t \in Threads, StopJoins(t) PROVE Held'
    <2>1. /\ caller[t].at = "join"
          /\ caller[t].handle \in Handles
          /\ gen[caller[t].old].intake = "ended"
          /\ \A x \in Handles : handle'[x].stop <=> handle[x].stop
          /\ \A x \in Threads : x # t => caller'[x].at = caller[x].at
          /\ caller'[t].at = "join dog"
          /\ \A x \in Threads : caller'[x].handle = caller[x].handle
          /\ used'.handles = used.handles
      BY StopJoinsDoes, <1>20
    <2>2. (\A w \in Threads : caller[w].at # "gone")'
      BY <2>1 DEF Held
    <2>3. (\A w \in Threads : caller[w].handle # None <=> caller[w].at \in Stops)'
      BY <2>1 DEF Held, Stops
    <2>4. (\A w \in Threads : caller[w].handle # None => caller[w].handle <= used.handles)'
      BY <2>1 DEF Held
    <2>5. (\A w \in Threads : caller[w].handle # None => handle[caller[w].handle].stop)'
      BY ZenonT(30), <2>1, Links DEF Held
    <2>6. (\A w, u \in Threads :
            caller[w].handle = caller[u].handle /\ caller[w].handle # None => w = u)'
      BY <2>1 DEF Held
    <2> QED BY <2>2, <2>3, <2>4, <2>5, <2>6 DEF Held
  <1>21. ASSUME NEW t \in Threads, StopJoinsDog(t) PROVE Held'
    <2>1. /\ caller[t].at = "join dog"
          /\ caller[t].handle \in Handles
          /\ dog[caller[t].handle].at = "ended"
          /\ \A x \in Threads : x # t => caller'[x].at = caller[x].at
          /\ caller'[t].at = "start"
          /\ \A x \in Threads : x # t => caller'[x].handle = caller[x].handle
          /\ caller'[t].handle = None
          /\ used'.handles = used.handles
          /\ UNCHANGED handle
      BY StopJoinsDogDoes, <1>21
    <2>2. (\A w \in Threads : caller[w].at # "gone")'
      BY <2>1 DEF Held
    <2>3. (\A w \in Threads : caller[w].handle # None <=> caller[w].at \in Stops)'
      BY ZenonT(30), <2>1 DEF Held, Stops
    <2>4. (\A w \in Threads : caller[w].handle # None => caller[w].handle <= used.handles)'
      BY <2>1 DEF Held
    <2>5. (\A w \in Threads : caller[w].handle # None => handle[caller[w].handle].stop)'
      BY <2>1, Links DEF Held
    <2>6. (\A w, u \in Threads :
            caller[w].handle = caller[u].handle /\ caller[w].handle # None => w = u)'
      <3> SUFFICES ASSUME NEW x \in Threads, NEW y \in Threads,
                          caller'[x].handle = caller'[y].handle, caller'[x].handle # None
                   PROVE  x = y
        OBVIOUS
      <3>1. x # t /\ y # t
        BY <2>1
      <3>2. caller'[x].handle = caller[x].handle /\ caller'[y].handle = caller[y].handle
        BY <2>1, <3>1
      <3> QED BY <3>2 DEF Held
    <2> QED BY <2>2, <2>3, <2>4, <2>5, <2>6 DEF Held
  <1>22. ASSUME NEW t \in Threads, Start(t) PROVE Held'
    <2>1. /\ caller[t].at = "start"
          /\ t \in Callers
          /\ used.gens + 1 \in Generations
          /\ used.handles + 1 \in Handles
          /\ \A x \in Handles : handle'[x].stop <=> handle[x].stop
          /\ \A x \in Threads : x # t => caller'[x].at = caller[x].at
          /\ caller'[t].at = "idle"
          /\ \A x \in Threads : x # t => caller'[x].handle = caller[x].handle
          /\ caller'[t].handle = None
          /\ used'.handles = used.handles + 1
      BY StartDoes, <1>22
    <2>2. (\A w \in Threads : caller[w].at # "gone")'
      BY <2>1 DEF Held
    <2>3. (\A w \in Threads : caller[w].handle # None <=> caller[w].at \in Stops)'
      BY <2>1 DEF Held, Stops
    <2>4. (\A w \in Threads : caller[w].handle # None => caller[w].handle <= used.handles)'
      BY <2>1, Counters, Numbers, Links DEF Held
    <2>5. (\A w \in Threads : caller[w].handle # None => handle[caller[w].handle].stop)'
      BY <2>1, Links DEF Held
    <2>6. (\A w, u \in Threads :
            caller[w].handle = caller[u].handle /\ caller[w].handle # None => w = u)'
      BY <2>1 DEF Held
    <2> QED BY <2>2, <2>3, <2>4, <2>5, <2>6 DEF Held
  <1>23. ASSUME NEW t \in Threads, NoStart(t) PROVE Held'
    <2>1. /\ caller[t].at = "start"
          /\ t \in Callers
          /\ \A x \in Threads : x # t => caller'[x].at = caller[x].at
          /\ caller'[t].at = "idle"
          /\ \A x \in Threads : x # t => caller'[x].handle = caller[x].handle
          /\ caller'[t].handle = None
          /\ used'.handles = used.handles
          /\ UNCHANGED handle
      BY NoStartDoes, <1>23
    <2>2. (\A w \in Threads : caller[w].at # "gone")'
      BY <2>1 DEF Held
    <2>3. (\A w \in Threads : caller[w].handle # None <=> caller[w].at \in Stops)'
      BY <2>1 DEF Held, Stops
    <2>4. (\A w \in Threads : caller[w].handle # None => caller[w].handle <= used.handles)'
      BY <2>1 DEF Held
    <2>5. (\A w \in Threads : caller[w].handle # None => handle[caller[w].handle].stop)'
      BY <2>1, Links DEF Held
    <2>6. (\A w, u \in Threads :
            caller[w].handle = caller[u].handle /\ caller[w].handle # None => w = u)'
      BY <2>1 DEF Held
    <2> QED BY <2>2, <2>3, <2>4, <2>5, <2>6 DEF Held
  <1>24. CASE Exit
    BY ExitDoes, <1>24
  <1>26. ASSUME NEW g \in Generations, Overflow(g) \/ SweepEnds(g) PROVE Held'
    <2>1. /\ \A x \in Handles : handle'[x].stop <=> handle[x].stop
          /\ \A x \in Handles : handle'[x].inner = handle[x].inner
          /\ \A x \in Handles : handle'[x].lock = handle[x].lock
          /\ UNCHANGED <<slot, slotLock, dog, gen, waits, caller, used, down>>
      BY WritesOverDoes, <1>26
    <2>2. (\A w \in Threads : caller[w].at # "gone")'
      BY <2>1 DEF Held
    <2>3. (\A w \in Threads : caller[w].handle # None <=> caller[w].at \in Stops)'
      BY <2>1 DEF Held, Stops
    <2>4. (\A w \in Threads : caller[w].handle # None => caller[w].handle <= used.handles)'
      BY <2>1 DEF Held
    <2>5. (\A w \in Threads : caller[w].handle # None => handle[caller[w].handle].stop)'
      BY <2>1, Links DEF Held
    <2>6. (\A w, u \in Threads :
            caller[w].handle = caller[u].handle /\ caller[w].handle # None => w = u)'
      BY <2>1 DEF Held
    <2> QED BY <2>2, <2>3, <2>4, <2>5, <2>6 DEF Held
  <1>25. CASE UNCHANGED vars
    BY <1>25 DEF vars, Held, Stops
  <1> QED
    BY <1>1, <1>2, <1>3, <1>4, <1>5, <1>6, <1>7, <1>8, <1>9, <1>10, <1>11, <1>12,
       <1>13, <1>14, <1>15, <1>16, <1>17, <1>18, <1>19, <1>20, <1>21, <1>22, <1>23,
       <1>24, <1>25, <1>26 DEF Next, DogStep, CallerStep, StopStep

(* The mutexes fit the threads.                                            *)
LEMMA LocksStay ==
    ASSUME Shapes, Held, Locks, ~down', [Next]_vars
    PROVE  Locks'
  <1>1. CASE Exec
    <2>1. UNCHANGED <<handle, caller>>
      BY ExecDoes, <1>1
    <2> QED BY <2>1, Joiners DEF Locks, Joining
  <1>2. ASSUME NEW g \in Generations, Answer(g) PROVE Locks'
    <2>1. UNCHANGED <<handle, caller>>
      BY AnswerDoes, <1>2
    <2> QED BY <2>1, Joiners DEF Locks, Joining
  <1>3. ASSUME NEW g \in Generations, Stall(g) PROVE Locks'
    <2>1. UNCHANGED <<handle, caller>>
      BY StallDoes, <1>3
    <2> QED BY <2>1, Joiners DEF Locks, Joining
  <1>4. ASSUME NEW g \in Generations, Recover(g) PROVE Locks'
    <2>1. UNCHANGED <<handle, caller>>
      BY RecoverDoes, <1>4
    <2> QED BY <2>1, Joiners DEF Locks, Joining
  <1>5. ASSUME NEW g \in Generations, Leave(g) PROVE Locks'
    <2>1. UNCHANGED <<handle, caller>>
      BY LeaveDoes, <1>5
    <2> QED BY <2>1, Joiners DEF Locks, Joining
  <1>6. ASSUME NEW g \in Generations, WindUp(g) PROVE Locks'
    <2>1. UNCHANGED <<handle, caller>>
      BY WindUpDoes, <1>6
    <2> QED BY <2>1, Joiners DEF Locks, Joining
  <1>7. ASSUME NEW h \in Handles, DogWakes(h) PROVE Locks'
    <2>1. UNCHANGED <<handle, caller>>
      BY DogWakesDoes, <1>7
    <2> QED BY <2>1, Joiners DEF Locks, Joining
  <1>8. ASSUME NEW h \in Handles, DogSeesHealthy(h) PROVE Locks'
    <2>1. /\ \A x \in Handles : handle'[x].lock = handle[x].lock
          /\ UNCHANGED caller
      BY DogSeesHealthyDoes, <1>8
    <2> QED BY <2>1, Joiners DEF Locks, Joining
  <1>9. ASSUME NEW h \in Handles, DogSeesStall(h) PROVE Locks'
    <2>1. UNCHANGED <<handle, caller>>
      BY DogSeesStallDoes, <1>9
    <2> QED BY <2>1, Joiners DEF Locks, Joining
  <1>10. ASSUME NEW h \in Handles, DogGivesUp(h) PROVE Locks'
    <2>1. /\ \A x \in Handles : handle'[x].lock = handle[x].lock
          /\ UNCHANGED caller
      BY DogGivesUpDoes, <1>10
    <2> QED BY <2>1, Joiners DEF Locks, Joining
  <1>11. ASSUME NEW h \in Handles, DogTakes(h) PROVE Locks'
    <2>1. /\ \A x \in Handles : handle'[x].lock = handle[x].lock
          /\ UNCHANGED caller
      BY DogTakesDoes, <1>11
    <2> QED BY <2>1, Joiners DEF Locks, Joining
  <1>12. ASSUME NEW h \in Handles, DogCloses(h) PROVE Locks'
    <2>1. UNCHANGED <<handle, caller>>
      BY DogClosesDoes, <1>12
    <2> QED BY <2>1, Joiners DEF Locks, Joining
  <1>13. ASSUME NEW h \in Handles, DogJoins(h) PROVE Locks'
    <2>1. UNCHANGED <<handle, caller>>
      BY DogJoinsDoes, <1>13
    <2> QED BY <2>1, Joiners DEF Locks, Joining
  <1>14. ASSUME NEW h \in Handles, DogSpawns(h) PROVE Locks'
    <2>1. UNCHANGED <<handle, caller>>
      BY DogSpawnsDoes, <1>14
    <2> QED BY <2>1, Joiners DEF Locks, Joining
  <1>15. ASSUME NEW h \in Handles, DogCannotSpawn(h) PROVE Locks'
    <2>1. /\ \A x \in Handles : handle'[x].lock = handle[x].lock
          /\ UNCHANGED caller
      BY DogCannotSpawnDoes, <1>15
    <2> QED BY <2>1, Joiners DEF Locks, Joining
  <1>16. ASSUME NEW h \in Handles, DogStores(h) PROVE Locks'
    <2>1. /\ \A x \in Handles : handle'[x].lock = handle[x].lock
          /\ UNCHANGED caller
      BY DogStoresDoes, <1>16
    <2> QED BY <2>1, Joiners DEF Locks, Joining
  <1>17. ASSUME NEW t \in Threads, TakeHandle(t) PROVE Locks'
    <2>1. /\ caller[t].at = "idle"
          /\ slotLock = None
          /\ \A x \in Handles : handle'[x].lock = handle[x].lock
          /\ \A x \in Threads : x # t => caller'[x].at = caller[x].at
          /\ caller'[t].at = IF slot = None THEN "start" ELSE "take"
          /\ \A x \in Threads : x # t => caller'[x].handle = caller[x].handle
          /\ caller'[t].handle = slot
      BY TakeHandleDoes, <1>17
    <2>2. (\A w \in Threads, h \in Handles :
            handle[h].lock = w => caller[w].handle = h /\ caller[w].at \in Joining)'
      BY <2>1, NoThread DEF Locks, Held, Joining
    <2>3. (\A w \in Threads :
            caller[w].at \in Joining => handle[caller[w].handle].lock = w)'
      BY <2>1, NoThread, Joiners DEF Locks, Joining
    <2> QED BY <2>2, <2>3 DEF Locks
  <1>18. ASSUME NEW t \in Threads, TakeInner(t) PROVE Locks'
    <2>1. /\ caller[t].at = "take"
          /\ caller[t].handle \in Handles
          /\ handle[caller[t].handle].lock = None
          /\ \A x \in Handles : x # caller[t].handle => handle'[x].lock = handle[x].lock
          /\ handle[caller[t].handle].inner = None
               => handle'[caller[t].handle].lock = None
          /\ handle[caller[t].handle].inner # None => handle'[caller[t].handle].lock = t
          /\ \A x \in Threads : x # t => caller'[x].at = caller[x].at
          /\ handle[caller[t].handle].inner = None => caller'[t].at = "join dog"
          /\ handle[caller[t].handle].inner # None => caller'[t].at = "close"
          /\ \A x \in Threads : caller'[x].handle = caller[x].handle
      <3>1. /\ caller[t].at = "take"
        BY TakeInnerDoes, <1>18
      <3>2. /\ caller[t].handle \in Handles
        BY TakeInnerDoes, <1>18
      <3>3. /\ handle[caller[t].handle].lock = None
        BY TakeInnerDoes, <1>18
      <3>4. \A x \in Handles : x # caller[t].handle => handle'[x].lock = handle[x].lock
        <4>1. \A x \in Handles : x # caller[t].handle => handle'[x] = handle[x]
          BY TakeInnerDoes, <1>18
        <4> QED BY <4>1
      <3>5. /\ handle[caller[t].handle].inner = None
                 => handle'[caller[t].handle].lock = None
        BY TakeInnerDoes, <1>18
      <3>6. /\ handle[caller[t].handle].inner # None => handle'[caller[t].handle].lock = t
        BY TakeInnerDoes, <1>18
      <3>7. \A x \in Threads : x # t => caller'[x].at = caller[x].at
        <4>1. \A x \in Threads : x # t => caller'[x] = caller[x]
          BY TakeInnerDoes, <1>18
        <4> QED BY <4>1
      <3>8. /\ handle[caller[t].handle].inner = None => caller'[t].at = "join dog"
        BY TakeInnerDoes, <1>18
      <3>9. /\ handle[caller[t].handle].inner # None => caller'[t].at = "close"
        BY TakeInnerDoes, <1>18
      <3>10. /\ \A x \in Threads : caller'[x].handle = caller[x].handle
        BY TakeInnerDoes, <1>18
      <3> QED BY <3>1, <3>2, <3>3, <3>4, <3>5, <3>6, <3>7, <3>8, <3>9, <3>10
    <2>2. (\A w \in Threads, h \in Handles :
            handle[h].lock = w => caller[w].handle = h /\ caller[w].at \in Joining)'
      <3> SUFFICES ASSUME NEW u \in Threads, NEW x \in Handles, handle'[x].lock = u
                   PROVE  caller'[u].handle = x /\ caller'[u].at \in Joining
        OBVIOUS
      <3>1. CASE x = caller[t].handle
        BY <3>1, <2>1, NoThread DEF Joining
      <3>2. CASE x # caller[t].handle
        <4>1. handle[x].lock = u
          BY <2>1, <3>2
        <4>2. caller[u].handle = x /\ caller[u].at \in Joining
          BY <4>1 DEF Locks
        <4>3. u # t
          BY <3>2, <4>2
        <4> QED BY <2>1, <4>2, <4>3
      <3> QED BY <3>1, <3>2
    <2>3. (\A w \in Threads :
            caller[w].at \in Joining => handle[caller[w].handle].lock = w)'
      <3> SUFFICES ASSUME NEW u \in Threads, caller'[u].at \in Joining
                   PROVE  handle'[caller'[u].handle].lock = u
        OBVIOUS
      <3>1. CASE u = t
        BY <3>1, <2>1 DEF Joining
      <3>2. CASE u # t
        <4>1. caller[u].at \in Joining /\ caller'[u].handle = caller[u].handle
          BY <2>1, <3>2
        <4>2. caller[u].handle \in Handles
          BY <4>1, Joiners
        <4>3. handle[caller[u].handle].lock = u
          BY <4>1 DEF Locks
        <4>4. caller[u].handle # caller[t].handle
          BY <4>3, <2>1, NoThread
        <4> QED BY <2>1, <4>1, <4>2, <4>3, <4>4
      <3> QED BY <3>1, <3>2
    <2> QED BY <2>2, <2>3 DEF Locks
  <1>19. ASSUME NEW t \in Threads, StopCloses(t) PROVE Locks'
    <2>1. /\ caller[t].at = "close"
          /\ caller[t].old \in Generations
          /\ \A x \in Threads : x # t => caller'[x].at = caller[x].at
          /\ caller'[t].at = "join"
          /\ \A x \in Threads : caller'[x].handle = caller[x].handle
          /\ UNCHANGED handle
      BY StopClosesDoes, <1>19
    <2>2. (\A w \in Threads, h \in Handles :
            handle[h].lock = w => caller[w].handle = h /\ caller[w].at \in Joining)'
      BY <2>1, NoThread DEF Locks, Joining
    <2>3. (\A w \in Threads :
            caller[w].at \in Joining => handle[caller[w].handle].lock = w)'
      BY <2>1, NoThread, Joiners DEF Locks, Joining
    <2> QED BY <2>2, <2>3 DEF Locks
  <1>20. ASSUME NEW t \in Threads, StopJoins(t) PROVE Locks'
    <2>1. /\ caller[t].at = "join"
          /\ caller[t].handle \in Handles
          /\ gen[caller[t].old].intake = "ended"
          /\ \A x \in Handles : x # caller[t].handle => handle'[x].lock = handle[x].lock
          /\ handle'[caller[t].handle].lock = None
          /\ \A x \in Threads : x # t => caller'[x].at = caller[x].at
          /\ caller'[t].at = "join dog"
          /\ \A x \in Threads : caller'[x].handle = caller[x].handle
      BY StopJoinsDoes, <1>20
    <2>2. (\A w \in Threads, h \in Handles :
            handle[h].lock = w => caller[w].handle = h /\ caller[w].at \in Joining)'
      <3> SUFFICES ASSUME NEW u \in Threads, NEW x \in Handles, handle'[x].lock = u
                   PROVE  caller'[u].handle = x /\ caller'[u].at \in Joining
        OBVIOUS
      <3>1. CASE x = caller[t].handle
        BY <3>1, <2>1, NoThread
      <3>2. CASE x # caller[t].handle
        <4>1. handle[x].lock = u
          BY <2>1, <3>2
        <4>2. caller[u].handle = x /\ caller[u].at \in Joining
          BY <4>1 DEF Locks
        <4>3. u # t
          BY <3>2, <4>2
        <4> QED BY <2>1, <4>2, <4>3
      <3> QED BY <3>1, <3>2
    <2>3. (\A w \in Threads :
            caller[w].at \in Joining => handle[caller[w].handle].lock = w)'
      <3> SUFFICES ASSUME NEW u \in Threads, caller'[u].at \in Joining
                   PROVE  handle'[caller'[u].handle].lock = u
        OBVIOUS
      <3>1. CASE u = t
        BY <3>1, <2>1 DEF Joining
      <3>2. CASE u # t
        <4>1. caller[u].at \in Joining /\ caller'[u].handle = caller[u].handle
          BY <2>1, <3>2
        <4>2. caller[u].handle \in Handles
          BY <4>1, Joiners
        <4>3. handle[caller[u].handle].lock = u
          BY <4>1 DEF Locks
        <4>4. caller[u].handle # caller[t].handle
          BY <4>3, <2>1, <3>2 DEF Locks, Joining
        <4> QED BY <2>1, <4>1, <4>2, <4>3, <4>4
      <3> QED BY <3>1, <3>2
    <2> QED BY <2>2, <2>3 DEF Locks
  <1>21. ASSUME NEW t \in Threads, StopJoinsDog(t) PROVE Locks'
    <2>1. /\ caller[t].at = "join dog"
          /\ caller[t].handle \in Handles
          /\ dog[caller[t].handle].at = "ended"
          /\ \A x \in Threads : x # t => caller'[x].at = caller[x].at
          /\ caller'[t].at = "start"
          /\ \A x \in Threads : x # t => caller'[x].handle = caller[x].handle
          /\ caller'[t].handle = None
          /\ UNCHANGED handle
      BY StopJoinsDogDoes, <1>21
    <2>2. (\A w \in Threads, h \in Handles :
            handle[h].lock = w => caller[w].handle = h /\ caller[w].at \in Joining)'
      <3> SUFFICES ASSUME NEW u \in Threads, NEW x \in Handles, handle'[x].lock = u
                   PROVE  caller'[u].handle = x /\ caller'[u].at \in Joining
        OBVIOUS
      <3>1. caller[u].handle = x /\ caller[u].at \in Joining
        BY <2>1 DEF Locks
      <3> QED BY <2>1, <3>1 DEF Joining
    <2>3. (\A w \in Threads :
            caller[w].at \in Joining => handle[caller[w].handle].lock = w)'
      BY <2>1, NoThread, Joiners DEF Locks, Joining
    <2> QED BY <2>2, <2>3 DEF Locks
  <1>22. ASSUME NEW t \in Threads, Start(t) PROVE Locks'
    <2>1. /\ caller[t].at = "start"
          /\ t \in Callers
          /\ used.gens + 1 \in Generations
          /\ used.handles + 1 \in Handles
          /\ \A x \in Handles : handle'[x].lock = handle[x].lock
          /\ \A x \in Threads : x # t => caller'[x].at = caller[x].at
          /\ caller'[t].at = "idle"
          /\ \A x \in Threads : x # t => caller'[x].handle = caller[x].handle
          /\ caller'[t].handle = None
      BY StartDoes, <1>22
    <2>2. (\A w \in Threads, h \in Handles :
            handle[h].lock = w => caller[w].handle = h /\ caller[w].at \in Joining)'
      BY <2>1, NoThread DEF Locks, Joining
    <2>3. (\A w \in Threads :
            caller[w].at \in Joining => handle[caller[w].handle].lock = w)'
      BY <2>1, NoThread, Joiners DEF Locks, Joining
    <2> QED BY <2>2, <2>3 DEF Locks
  <1>23. ASSUME NEW t \in Threads, NoStart(t) PROVE Locks'
    <2>1. /\ caller[t].at = "start"
          /\ t \in Callers
          /\ \A x \in Threads : x # t => caller'[x].at = caller[x].at
          /\ caller'[t].at = "idle"
          /\ \A x \in Threads : x # t => caller'[x].handle = caller[x].handle
          /\ caller'[t].handle = None
          /\ UNCHANGED handle
      BY NoStartDoes, <1>23
    <2>2. (\A w \in Threads, h \in Handles :
            handle[h].lock = w => caller[w].handle = h /\ caller[w].at \in Joining)'
      BY <2>1, NoThread DEF Locks, Joining
    <2>3. (\A w \in Threads :
            caller[w].at \in Joining => handle[caller[w].handle].lock = w)'
      BY <2>1, NoThread, Joiners DEF Locks, Joining
    <2> QED BY <2>2, <2>3 DEF Locks
  <1>24. CASE Exit
    BY ExitDoes, <1>24
  <1>26. ASSUME NEW g \in Generations, Overflow(g) \/ SweepEnds(g) PROVE Locks'
    <2>1. /\ \A x \in Handles : handle'[x].stop <=> handle[x].stop
          /\ \A x \in Handles : handle'[x].inner = handle[x].inner
          /\ \A x \in Handles : handle'[x].lock = handle[x].lock
          /\ UNCHANGED <<slot, slotLock, dog, gen, waits, caller, used, down>>
      BY WritesOverDoes, <1>26
    <2> QED BY <2>1, Joiners DEF Locks, Joining
  <1>25. CASE UNCHANGED vars
    BY <1>25 DEF vars, Locks, Joining
  <1> QED
    BY <1>1, <1>2, <1>3, <1>4, <1>5, <1>6, <1>7, <1>8, <1>9, <1>10, <1>11, <1>12,
       <1>13, <1>14, <1>15, <1>16, <1>17, <1>18, <1>19, <1>20, <1>21, <1>22, <1>23,
       <1>24, <1>25, <1>26 DEF Next, DogStep, CallerStep, StopStep

(* A stop keeps what it joins.                                             *)
LEMMA JoinsStay ==
    ASSUME Shapes, Started, Slots, Held, Locks, Joins, Owns, ~down', [Next]_vars
    PROVE  Joins'
  <1>1. CASE Exec
    <2>1. /\ used'.gens = used.gens
          /\ UNCHANGED <<handle, dog, gen, caller>>
      BY ExecDoes, <1>1
    <2>2. (\A t \in Threads : caller[t].at \in Joining => caller[t].old # None)'
      BY <2>1 DEF Joins, Joining
    <2>3. (\A t \in Threads : caller[t].at \in Joining => caller[t].old <= used.gens)'
      BY <2>1, Joiners DEF Joins, Joining
    <2>4. (\A t \in Threads :
            caller[t].at \in Joining => gen[caller[t].old].handle = caller[t].handle)'
      BY <2>1, Joiners DEF Joins, Joining
    <2>5. (\A t \in Threads :
            caller[t].at \in Joining => handle[caller[t].handle].inner = None)'
      BY <2>1, Joiners DEF Joins, Joining
    <2>6. (\A t \in Threads :
            caller[t].at \in Joining => dog[caller[t].handle].at \in Apart)'
      BY <2>1, Joiners DEF Joins, Joining
    <2>7. (\A t \in Threads : caller[t].at = "join" => gen[caller[t].old].fd = "closed")'
      BY <2>1, Joiners DEF Joins, Joining
    <2> QED BY <2>2, <2>3, <2>4, <2>5, <2>6, <2>7 DEF Joins
  <1>2. ASSUME NEW g \in Generations, Answer(g) PROVE Joins'
    <2>1. /\ used'.gens = used.gens
          /\ UNCHANGED <<handle, dog, gen, caller>>
      BY AnswerDoes, <1>2
    <2>2. (\A t \in Threads : caller[t].at \in Joining => caller[t].old # None)'
      BY <2>1 DEF Joins, Joining
    <2>3. (\A t \in Threads : caller[t].at \in Joining => caller[t].old <= used.gens)'
      BY <2>1, Joiners DEF Joins, Joining
    <2>4. (\A t \in Threads :
            caller[t].at \in Joining => gen[caller[t].old].handle = caller[t].handle)'
      BY <2>1, Joiners DEF Joins, Joining
    <2>5. (\A t \in Threads :
            caller[t].at \in Joining => handle[caller[t].handle].inner = None)'
      BY <2>1, Joiners DEF Joins, Joining
    <2>6. (\A t \in Threads :
            caller[t].at \in Joining => dog[caller[t].handle].at \in Apart)'
      BY <2>1, Joiners DEF Joins, Joining
    <2>7. (\A t \in Threads : caller[t].at = "join" => gen[caller[t].old].fd = "closed")'
      BY <2>1, Joiners DEF Joins, Joining
    <2> QED BY <2>2, <2>3, <2>4, <2>5, <2>6, <2>7 DEF Joins
  <1>3. ASSUME NEW g \in Generations, Stall(g) PROVE Joins'
    <2>1. /\ \A x \in Generations : gen'[x].handle = gen[x].handle
          /\ \A x \in Generations : gen'[x].fd = gen[x].fd
          /\ used'.gens = used.gens
          /\ UNCHANGED <<handle, dog, caller>>
      BY StallDoes, <1>3
    <2>2. (\A t \in Threads : caller[t].at \in Joining => caller[t].old # None)'
      BY <2>1 DEF Joins, Joining
    <2>3. (\A t \in Threads : caller[t].at \in Joining => caller[t].old <= used.gens)'
      BY <2>1, Joiners DEF Joins, Joining
    <2>4. (\A t \in Threads :
            caller[t].at \in Joining => gen[caller[t].old].handle = caller[t].handle)'
      BY <2>1, Joiners DEF Joins, Joining
    <2>5. (\A t \in Threads :
            caller[t].at \in Joining => handle[caller[t].handle].inner = None)'
      BY <2>1, Joiners DEF Joins, Joining
    <2>6. (\A t \in Threads :
            caller[t].at \in Joining => dog[caller[t].handle].at \in Apart)'
      BY <2>1, Joiners DEF Joins, Joining
    <2>7. (\A t \in Threads : caller[t].at = "join" => gen[caller[t].old].fd = "closed")'
      BY <2>1, Joiners DEF Joins, Joining
    <2> QED BY <2>2, <2>3, <2>4, <2>5, <2>6, <2>7 DEF Joins
  <1>4. ASSUME NEW g \in Generations, Recover(g) PROVE Joins'
    <2>1. /\ \A x \in Generations : gen'[x].handle = gen[x].handle
          /\ \A x \in Generations : gen'[x].fd = gen[x].fd
          /\ used'.gens = used.gens
          /\ UNCHANGED <<handle, dog, caller>>
      BY RecoverDoes, <1>4
    <2>2. (\A t \in Threads : caller[t].at \in Joining => caller[t].old # None)'
      BY <2>1 DEF Joins, Joining
    <2>3. (\A t \in Threads : caller[t].at \in Joining => caller[t].old <= used.gens)'
      BY <2>1, Joiners DEF Joins, Joining
    <2>4. (\A t \in Threads :
            caller[t].at \in Joining => gen[caller[t].old].handle = caller[t].handle)'
      BY <2>1, Joiners DEF Joins, Joining
    <2>5. (\A t \in Threads :
            caller[t].at \in Joining => handle[caller[t].handle].inner = None)'
      BY <2>1, Joiners DEF Joins, Joining
    <2>6. (\A t \in Threads :
            caller[t].at \in Joining => dog[caller[t].handle].at \in Apart)'
      BY <2>1, Joiners DEF Joins, Joining
    <2>7. (\A t \in Threads : caller[t].at = "join" => gen[caller[t].old].fd = "closed")'
      BY <2>1, Joiners DEF Joins, Joining
    <2> QED BY <2>2, <2>3, <2>4, <2>5, <2>6, <2>7 DEF Joins
  <1>5. ASSUME NEW g \in Generations, Leave(g) PROVE Joins'
    <2>1. /\ gen[g].intake = "reading"
          /\ \A x \in Generations : gen'[x].handle = gen[x].handle
          /\ \A x \in Generations : x # g => gen'[x].fd = gen[x].fd
          /\ gen'[g].fd = "closed"
          /\ used'.gens = used.gens
          /\ UNCHANGED <<handle, dog, caller>>
      BY LeaveDoes, <1>5
    <2>2. (\A t \in Threads : caller[t].at \in Joining => caller[t].old # None)'
      BY <2>1 DEF Joins, Joining
    <2>3. (\A t \in Threads : caller[t].at \in Joining => caller[t].old <= used.gens)'
      BY <2>1, Joiners DEF Joins, Joining
    <2>4. (\A t \in Threads :
            caller[t].at \in Joining => gen[caller[t].old].handle = caller[t].handle)'
      BY <2>1, Joiners DEF Joins, Joining
    <2>5. (\A t \in Threads :
            caller[t].at \in Joining => handle[caller[t].handle].inner = None)'
      BY <2>1, Joiners DEF Joins, Joining
    <2>6. (\A t \in Threads :
            caller[t].at \in Joining => dog[caller[t].handle].at \in Apart)'
      BY <2>1, Joiners DEF Joins, Joining
    <2>7. (\A t \in Threads : caller[t].at = "join" => gen[caller[t].old].fd = "closed")'
      BY <2>1, Joiners DEF Joins, Joining
    <2> QED BY <2>2, <2>3, <2>4, <2>5, <2>6, <2>7 DEF Joins
  <1>6. ASSUME NEW g \in Generations, WindUp(g) PROVE Joins'
    <2>1. /\ \A x \in Generations : gen'[x].handle = gen[x].handle
          /\ \A x \in Generations : gen'[x].fd = gen[x].fd
          /\ used'.gens = used.gens
          /\ UNCHANGED <<handle, dog, caller>>
      BY WindUpDoes, <1>6
    <2>2. (\A t \in Threads : caller[t].at \in Joining => caller[t].old # None)'
      BY <2>1 DEF Joins, Joining
    <2>3. (\A t \in Threads : caller[t].at \in Joining => caller[t].old <= used.gens)'
      BY <2>1, Joiners DEF Joins, Joining
    <2>4. (\A t \in Threads :
            caller[t].at \in Joining => gen[caller[t].old].handle = caller[t].handle)'
      BY <2>1, Joiners DEF Joins, Joining
    <2>5. (\A t \in Threads :
            caller[t].at \in Joining => handle[caller[t].handle].inner = None)'
      BY <2>1, Joiners DEF Joins, Joining
    <2>6. (\A t \in Threads :
            caller[t].at \in Joining => dog[caller[t].handle].at \in Apart)'
      BY <2>1, Joiners DEF Joins, Joining
    <2>7. (\A t \in Threads : caller[t].at = "join" => gen[caller[t].old].fd = "closed")'
      BY <2>1, Joiners DEF Joins, Joining
    <2> QED BY <2>2, <2>3, <2>4, <2>5, <2>6, <2>7 DEF Joins
  <1>7. ASSUME NEW h \in Handles, DogWakes(h) PROVE Joins'
    <2>1. /\ dog[h].at = "sleep"
          /\ \A x \in Handles : x # h => dog'[x].at = dog[x].at
          /\ dog'[h].at = IF handle[h].stop THEN "ended" ELSE "check"
          /\ used'.gens = used.gens
          /\ UNCHANGED <<handle, gen, caller>>
      BY DogWakesDoes, <1>7
    <2>2. (\A t \in Threads : caller[t].at \in Joining => caller[t].old # None)'
      BY <2>1 DEF Joins, Joining
    <2>3. (\A t \in Threads : caller[t].at \in Joining => caller[t].old <= used.gens)'
      BY <2>1, Joiners DEF Joins, Joining
    <2>4. (\A t \in Threads :
            caller[t].at \in Joining => gen[caller[t].old].handle = caller[t].handle)'
      BY <2>1, Joiners DEF Joins, Joining
    <2>5. (\A t \in Threads :
            caller[t].at \in Joining => handle[caller[t].handle].inner = None)'
      BY <2>1, Joiners DEF Joins, Joining
    <2>6. (\A t \in Threads :
            caller[t].at \in Joining => dog[caller[t].handle].at \in Apart)'
      BY <2>1, Joiners DEF Joins, Joining, Apart
    <2>7. (\A t \in Threads : caller[t].at = "join" => gen[caller[t].old].fd = "closed")'
      BY <2>1, Joiners DEF Joins, Joining
    <2> QED BY <2>2, <2>3, <2>4, <2>5, <2>6, <2>7 DEF Joins
  <1>8. ASSUME NEW h \in Handles, DogSeesHealthy(h) PROVE Joins'
    <2>1. /\ dog[h].at = "check"
          /\ handle[h].lock = None
          /\ \A x \in Handles : handle'[x].inner = handle[x].inner
          /\ \A x \in Handles : x # h => dog'[x].at = dog[x].at
          /\ dog'[h].at = "sleep"
          /\ used'.gens = used.gens
          /\ UNCHANGED <<gen, caller>>
      BY DogSeesHealthyDoes, <1>8
    <2>2. (\A t \in Threads : caller[t].at \in Joining => caller[t].old # None)'
      BY <2>1 DEF Joins, Joining
    <2>3. (\A t \in Threads : caller[t].at \in Joining => caller[t].old <= used.gens)'
      BY <2>1, Joiners DEF Joins, Joining
    <2>4. (\A t \in Threads :
            caller[t].at \in Joining => gen[caller[t].old].handle = caller[t].handle)'
      BY <2>1, Joiners DEF Joins, Joining
    <2>5. (\A t \in Threads :
            caller[t].at \in Joining => handle[caller[t].handle].inner = None)'
      BY <2>1, Joiners DEF Joins, Joining
    <2>6. (\A t \in Threads :
            caller[t].at \in Joining => dog[caller[t].handle].at \in Apart)'
      BY <2>1, Joiners DEF Joins, Joining, Apart
    <2>7. (\A t \in Threads : caller[t].at = "join" => gen[caller[t].old].fd = "closed")'
      BY <2>1, Joiners DEF Joins, Joining
    <2> QED BY <2>2, <2>3, <2>4, <2>5, <2>6, <2>7 DEF Joins
  <1>9. ASSUME NEW h \in Handles, DogSeesStall(h) PROVE Joins'
    <2>1. /\ dog[h].at = "check"
          /\ handle[h].lock = None
          /\ handle[h].inner # None
          /\ \A x \in Handles : x # h => dog'[x].at = dog[x].at
          /\ dog'[h].at = IF dog[h].restarts < MAX_RESTARTS THEN "take" ELSE "fail"
          /\ used'.gens = used.gens
          /\ UNCHANGED <<handle, gen, caller>>
      BY DogSeesStallDoes, <1>9
    <2>2. (\A t \in Threads : caller[t].at \in Joining => caller[t].old # None)'
      BY <2>1 DEF Joins, Joining
    <2>3. (\A t \in Threads : caller[t].at \in Joining => caller[t].old <= used.gens)'
      BY <2>1, Joiners DEF Joins, Joining
    <2>4. (\A t \in Threads :
            caller[t].at \in Joining => gen[caller[t].old].handle = caller[t].handle)'
      BY <2>1, Joiners DEF Joins, Joining
    <2>5. (\A t \in Threads :
            caller[t].at \in Joining => handle[caller[t].handle].inner = None)'
      BY <2>1, Joiners DEF Joins, Joining
    <2>6. (\A t \in Threads :
            caller[t].at \in Joining => dog[caller[t].handle].at \in Apart)'
      BY <2>1, Joiners DEF Joins, Joining, Apart
    <2>7. (\A t \in Threads : caller[t].at = "join" => gen[caller[t].old].fd = "closed")'
      BY <2>1, Joiners DEF Joins, Joining
    <2> QED BY <2>2, <2>3, <2>4, <2>5, <2>6, <2>7 DEF Joins
  <1>10. ASSUME NEW h \in Handles, DogGivesUp(h) PROVE Joins'
    <2>1. /\ dog[h].at = "fail"
          /\ handle[h].lock = None
          /\ \A x \in Handles : x # h => handle'[x].inner = handle[x].inner
          /\ handle'[h].inner = None
          /\ \A x \in Handles : x # h => dog'[x].at = dog[x].at
          /\ dog'[h].at = "ended"
          /\ used'.gens = used.gens
          /\ UNCHANGED <<gen, caller>>
      BY DogGivesUpDoes, <1>10
    <2>2. (\A t \in Threads : caller[t].at \in Joining => caller[t].old # None)'
      BY <2>1 DEF Joins, Joining
    <2>3. (\A t \in Threads : caller[t].at \in Joining => caller[t].old <= used.gens)'
      BY <2>1, Joiners DEF Joins, Joining
    <2>4. (\A t \in Threads :
            caller[t].at \in Joining => gen[caller[t].old].handle = caller[t].handle)'
      BY <2>1, Joiners DEF Joins, Joining
    <2>5. (\A t \in Threads :
            caller[t].at \in Joining => handle[caller[t].handle].inner = None)'
      BY <2>1, Joiners DEF Joins, Joining
    <2>6. (\A t \in Threads :
            caller[t].at \in Joining => dog[caller[t].handle].at \in Apart)'
      BY <2>1, Joiners DEF Joins, Joining, Apart
    <2>7. (\A t \in Threads : caller[t].at = "join" => gen[caller[t].old].fd = "closed")'
      BY <2>1, Joiners DEF Joins, Joining
    <2> QED BY <2>2, <2>3, <2>4, <2>5, <2>6, <2>7 DEF Joins
  <1>11. ASSUME NEW h \in Handles, DogTakes(h) PROVE Joins'
    <2>1. /\ dog[h].at = "take"
          /\ handle[h].lock = None
          /\ \A x \in Handles : x # h => handle'[x].inner = handle[x].inner
          /\ handle'[h].inner = None
          /\ \A x \in Handles : x # h => dog'[x].at = dog[x].at
          /\ dog'[h].at = IF handle[h].inner = None THEN "spawn" ELSE "close"
          /\ used'.gens = used.gens
          /\ UNCHANGED <<gen, caller>>
      BY DogTakesDoes, <1>11
    <2>2. (\A t \in Threads : caller[t].at \in Joining => caller[t].old # None)'
      BY <2>1 DEF Joins, Joining
    <2>3. (\A t \in Threads : caller[t].at \in Joining => caller[t].old <= used.gens)'
      BY <2>1, Joiners DEF Joins, Joining
    <2>4. (\A t \in Threads :
            caller[t].at \in Joining => gen[caller[t].old].handle = caller[t].handle)'
      BY <2>1, Joiners DEF Joins, Joining
    <2>5. (\A t \in Threads :
            caller[t].at \in Joining => handle[caller[t].handle].inner = None)'
      BY <2>1, Joiners DEF Joins, Joining
    <2>6. (\A t \in Threads :
            caller[t].at \in Joining => dog[caller[t].handle].at \in Apart)'
      BY <2>1, Joiners, NoThread DEF Joins, Locks, Joining, Apart
    <2>7. (\A t \in Threads : caller[t].at = "join" => gen[caller[t].old].fd = "closed")'
      BY <2>1, Joiners DEF Joins, Joining
    <2> QED BY <2>2, <2>3, <2>4, <2>5, <2>6, <2>7 DEF Joins
  <1>12. ASSUME NEW h \in Handles, DogCloses(h) PROVE Joins'
    <2>1. /\ dog[h].at = "close"
          /\ dog[h].old \in Generations
          /\ \A x \in Handles : x # h => dog'[x].at = dog[x].at
          /\ dog'[h].at = "join"
          /\ \A x \in Generations : gen'[x].handle = gen[x].handle
          /\ \A x \in Generations : x # dog[h].old => gen'[x].fd = gen[x].fd
          /\ gen'[dog[h].old].fd = "closed"
          /\ used'.gens = used.gens
          /\ UNCHANGED <<handle, caller>>
      BY DogClosesDoes, <1>12
    <2>2. (\A t \in Threads : caller[t].at \in Joining => caller[t].old # None)'
      BY <2>1 DEF Joins, Joining
    <2>3. (\A t \in Threads : caller[t].at \in Joining => caller[t].old <= used.gens)'
      BY <2>1, Joiners DEF Joins, Joining
    <2>4. (\A t \in Threads :
            caller[t].at \in Joining => gen[caller[t].old].handle = caller[t].handle)'
      BY <2>1, Joiners DEF Joins, Joining
    <2>5. (\A t \in Threads :
            caller[t].at \in Joining => handle[caller[t].handle].inner = None)'
      BY <2>1, Joiners DEF Joins, Joining
    <2>6. (\A t \in Threads :
            caller[t].at \in Joining => dog[caller[t].handle].at \in Apart)'
      BY <2>1, Joiners DEF Joins, Joining, Apart
    <2>7. (\A t \in Threads : caller[t].at = "join" => gen[caller[t].old].fd = "closed")'
      BY <2>1, Joiners DEF Joins, Joining
    <2> QED BY <2>2, <2>3, <2>4, <2>5, <2>6, <2>7 DEF Joins
  <1>13. ASSUME NEW h \in Handles, DogJoins(h) PROVE Joins'
    <2>1. /\ dog[h].at = "join"
          /\ gen[dog[h].old].intake = "ended"
          /\ \A x \in Handles : x # h => dog'[x].at = dog[x].at
          /\ dog'[h].at = "spawn"
          /\ used'.gens = used.gens
          /\ UNCHANGED <<handle, gen, caller>>
      BY DogJoinsDoes, <1>13
    <2>2. (\A t \in Threads : caller[t].at \in Joining => caller[t].old # None)'
      BY <2>1 DEF Joins, Joining
    <2>3. (\A t \in Threads : caller[t].at \in Joining => caller[t].old <= used.gens)'
      BY <2>1, Joiners DEF Joins, Joining
    <2>4. (\A t \in Threads :
            caller[t].at \in Joining => gen[caller[t].old].handle = caller[t].handle)'
      BY <2>1, Joiners DEF Joins, Joining
    <2>5. (\A t \in Threads :
            caller[t].at \in Joining => handle[caller[t].handle].inner = None)'
      BY <2>1, Joiners DEF Joins, Joining
    <2>6. (\A t \in Threads :
            caller[t].at \in Joining => dog[caller[t].handle].at \in Apart)'
      BY <2>1, Joiners DEF Joins, Joining, Apart
    <2>7. (\A t \in Threads : caller[t].at = "join" => gen[caller[t].old].fd = "closed")'
      BY <2>1, Joiners DEF Joins, Joining
    <2> QED BY <2>2, <2>3, <2>4, <2>5, <2>6, <2>7 DEF Joins
  <1>14. ASSUME NEW h \in Handles, DogSpawns(h) PROVE Joins'
    <2>1. /\ dog[h].at = "spawn"
          /\ used.gens + 1 \in Generations
          /\ \A x \in Handles : x # h => dog'[x].at = dog[x].at
          /\ dog'[h].at = "store"
          /\ \A x \in Generations : x # used.gens + 1 => gen'[x].handle = gen[x].handle
          /\ gen'[used.gens + 1].handle = h
          /\ \A x \in Generations : x # used.gens + 1 => gen'[x].fd = gen[x].fd
          /\ gen'[used.gens + 1].fd = "open"
          /\ used'.gens = used.gens + 1
          /\ UNCHANGED <<handle, caller>>
      BY DogSpawnsDoes, <1>14
    <2>2. (\A t \in Threads : caller[t].at \in Joining => caller[t].old # None)'
      BY <2>1 DEF Joins, Joining
    <2>3. (\A t \in Threads : caller[t].at \in Joining => caller[t].old <= used.gens)'
      BY <2>1, Joiners, Older DEF Joins, Joining
    <2>4. (\A t \in Threads :
            caller[t].at \in Joining => gen[caller[t].old].handle = caller[t].handle)'
      BY <2>1, Joiners, Older DEF Joins, Joining
    <2>5. (\A t \in Threads :
            caller[t].at \in Joining => handle[caller[t].handle].inner = None)'
      BY <2>1, Joiners DEF Joins, Joining
    <2>6. (\A t \in Threads :
            caller[t].at \in Joining => dog[caller[t].handle].at \in Apart)'
      BY <2>1, Joiners DEF Joins, Joining, Apart
    <2>7. (\A t \in Threads : caller[t].at = "join" => gen[caller[t].old].fd = "closed")'
      BY <2>1, Joiners, Older DEF Joins, Joining
    <2> QED BY <2>2, <2>3, <2>4, <2>5, <2>6, <2>7 DEF Joins
  <1>15. ASSUME NEW h \in Handles, DogCannotSpawn(h) PROVE Joins'
    <2>1. /\ dog[h].at = "spawn"
          /\ \A x \in Handles : handle'[x].inner = handle[x].inner
          /\ \A x \in Handles : x # h => dog'[x].at = dog[x].at
          /\ dog'[h].at = "ended"
          /\ used'.gens = used.gens
          /\ UNCHANGED <<gen, caller>>
      BY DogCannotSpawnDoes, <1>15
    <2>2. (\A t \in Threads : caller[t].at \in Joining => caller[t].old # None)'
      BY <2>1 DEF Joins, Joining
    <2>3. (\A t \in Threads : caller[t].at \in Joining => caller[t].old <= used.gens)'
      BY <2>1, Joiners DEF Joins, Joining
    <2>4. (\A t \in Threads :
            caller[t].at \in Joining => gen[caller[t].old].handle = caller[t].handle)'
      BY <2>1, Joiners DEF Joins, Joining
    <2>5. (\A t \in Threads :
            caller[t].at \in Joining => handle[caller[t].handle].inner = None)'
      BY <2>1, Joiners DEF Joins, Joining
    <2>6. (\A t \in Threads :
            caller[t].at \in Joining => dog[caller[t].handle].at \in Apart)'
      BY <2>1, Joiners DEF Joins, Joining, Apart
    <2>7. (\A t \in Threads : caller[t].at = "join" => gen[caller[t].old].fd = "closed")'
      BY <2>1, Joiners DEF Joins, Joining
    <2> QED BY <2>2, <2>3, <2>4, <2>5, <2>6, <2>7 DEF Joins
  <1>16. ASSUME NEW h \in Handles, DogStores(h) PROVE Joins'
    <2>1. /\ dog[h].at = "store"
          /\ handle[h].lock = None
          /\ \A x \in Handles : x # h => handle'[x].inner = handle[x].inner
          /\ handle'[h].inner = dog[h].old
          /\ \A x \in Handles : x # h => dog'[x].at = dog[x].at
          /\ dog'[h].at = "sleep"
          /\ used'.gens = used.gens
          /\ UNCHANGED <<gen, caller>>
      BY DogStoresDoes, <1>16
    <2>2. (\A t \in Threads : caller[t].at \in Joining => caller[t].old # None)'
      BY <2>1 DEF Joins, Joining
    <2>3. (\A t \in Threads : caller[t].at \in Joining => caller[t].old <= used.gens)'
      BY <2>1, Joiners DEF Joins, Joining
    <2>4. (\A t \in Threads :
            caller[t].at \in Joining => gen[caller[t].old].handle = caller[t].handle)'
      BY <2>1, Joiners DEF Joins, Joining
    <2>5. (\A t \in Threads :
            caller[t].at \in Joining => handle[caller[t].handle].inner = None)'
      BY <2>1, Joiners DEF Joins, Joining, Apart
    <2>6. (\A t \in Threads :
            caller[t].at \in Joining => dog[caller[t].handle].at \in Apart)'
      BY <2>1, Joiners DEF Joins, Joining, Apart
    <2>7. (\A t \in Threads : caller[t].at = "join" => gen[caller[t].old].fd = "closed")'
      BY <2>1, Joiners DEF Joins, Joining
    <2> QED BY <2>2, <2>3, <2>4, <2>5, <2>6, <2>7 DEF Joins
  <1>17. ASSUME NEW t \in Threads, TakeHandle(t) PROVE Joins'
    <2>1. /\ caller[t].at = "idle"
          /\ slotLock = None
          /\ \A x \in Handles : handle'[x].inner = handle[x].inner
          /\ \A x \in Threads : x # t => caller'[x].at = caller[x].at
          /\ caller'[t].at = IF slot = None THEN "start" ELSE "take"
          /\ \A x \in Threads : x # t => caller'[x].handle = caller[x].handle
          /\ caller'[t].handle = slot
          /\ \A x \in Threads : x # t => caller'[x].old = caller[x].old
          /\ caller'[t].old = None
          /\ used'.gens = used.gens
          /\ UNCHANGED <<dog, gen>>
      BY TakeHandleDoes, <1>17
    <2>2. (\A w \in Threads : caller[w].at \in Joining => caller[w].old # None)'
      BY <2>1 DEF Joins, Joining
    <2>3. (\A w \in Threads : caller[w].at \in Joining => caller[w].old <= used.gens)'
      BY <2>1, Joiners DEF Joins, Joining
    <2>4. (\A w \in Threads :
            caller[w].at \in Joining => gen[caller[w].old].handle = caller[w].handle)'
      BY <2>1, Joiners DEF Joins, Joining
    <2>5. (\A w \in Threads :
            caller[w].at \in Joining => handle[caller[w].handle].inner = None)'
      BY <2>1, Joiners DEF Joins, Joining
    <2>6. (\A w \in Threads :
            caller[w].at \in Joining => dog[caller[w].handle].at \in Apart)'
      BY <2>1, Joiners DEF Joins, Joining
    <2>7. (\A w \in Threads : caller[w].at = "join" => gen[caller[w].old].fd = "closed")'
      BY <2>1, Joiners DEF Joins, Joining
    <2> QED BY <2>2, <2>3, <2>4, <2>5, <2>6, <2>7 DEF Joins
  <1>18. ASSUME NEW t \in Threads, TakeInner(t) PROVE Joins'
    <2>1. /\ caller[t].at = "take"
          /\ caller[t].handle \in Handles
          /\ handle[caller[t].handle].lock = None
          /\ \A x \in Handles : x # caller[t].handle => handle'[x].inner = handle[x].inner
          /\ handle'[caller[t].handle].inner = None
          /\ \A x \in Threads : x # t => caller'[x].at = caller[x].at
          /\ handle[caller[t].handle].inner = None => caller'[t].at = "join dog"
          /\ handle[caller[t].handle].inner # None => caller'[t].at = "close"
          /\ \A x \in Threads : caller'[x].handle = caller[x].handle
          /\ \A x \in Threads : x # t => caller'[x].old = caller[x].old
          /\ caller'[t].old = handle[caller[t].handle].inner
          /\ used'.gens = used.gens
          /\ UNCHANGED <<dog, gen>>
      <3>1. /\ caller[t].at = "take"
        BY TakeInnerDoes, <1>18
      <3>2. /\ caller[t].handle \in Handles
        BY TakeInnerDoes, <1>18
      <3>3. /\ handle[caller[t].handle].lock = None
        BY TakeInnerDoes, <1>18
      <3>4. \A x \in Handles : x # caller[t].handle => handle'[x].inner = handle[x].inner
        <4>1. \A x \in Handles : x # caller[t].handle => handle'[x] = handle[x]
          BY TakeInnerDoes, <1>18
        <4> QED BY <4>1
      <3>5. /\ handle'[caller[t].handle].inner = None
        BY TakeInnerDoes, <1>18
      <3>6. \A x \in Threads : x # t => caller'[x].at = caller[x].at
        <4>1. \A x \in Threads : x # t => caller'[x] = caller[x]
          BY TakeInnerDoes, <1>18
        <4> QED BY <4>1
      <3>7. /\ handle[caller[t].handle].inner = None => caller'[t].at = "join dog"
        BY TakeInnerDoes, <1>18
      <3>8. /\ handle[caller[t].handle].inner # None => caller'[t].at = "close"
        BY TakeInnerDoes, <1>18
      <3>9. /\ \A x \in Threads : caller'[x].handle = caller[x].handle
        BY TakeInnerDoes, <1>18
      <3>10. \A x \in Threads : x # t => caller'[x].old = caller[x].old
        <4>1. \A x \in Threads : x # t => caller'[x] = caller[x]
          BY TakeInnerDoes, <1>18
        <4> QED BY <4>1
      <3>11. /\ caller'[t].old = handle[caller[t].handle].inner
        BY TakeInnerDoes, <1>18
      <3>12. /\ used'.gens = used.gens
        BY TakeInnerDoes, <1>18
      <3>13. /\ UNCHANGED <<dog, gen>>
        BY TakeInnerDoes, <1>18
      <3> QED BY <3>1, <3>2, <3>3, <3>4, <3>5, <3>6, <3>7, <3>8, <3>9, <3>10, <3>11,
                 <3>12, <3>13
    <2>2. (\A w \in Threads : caller[w].at \in Joining => caller[w].old # None)'
      BY <2>1 DEF Joins, Joining
    <2>3. (\A w \in Threads : caller[w].at \in Joining => caller[w].old <= used.gens)'
      <3> SUFFICES ASSUME NEW u \in Threads, caller'[u].at \in Joining
                   PROVE  caller'[u].old <= used'.gens
        OBVIOUS
      <3>1. CASE u = t
        <4>1. handle[caller[t].handle].inner # None
          BY <2>1, <3>1 DEF Joining
        <4>2. /\ caller'[u].old = handle[caller[t].handle].inner
              /\ caller'[u].handle = caller[t].handle
          BY <2>1, <3>1
        <4> QED BY <2>1, <4>1, <4>2 DEF Owns
      <3>2. CASE u # t
        <4>1. caller[u].at \in Joining /\ caller'[u].old = caller[u].old
              /\ caller'[u].handle = caller[u].handle
          BY <2>1, <3>2
        <4>2. caller[u].handle \in Handles /\ caller[u].old \in Generations
          BY <4>1, Joiners
        <4> QED BY <2>1, <4>1 DEF Joins
      <3> QED BY <3>1, <3>2
    <2>4. (\A w \in Threads :
            caller[w].at \in Joining => gen[caller[w].old].handle = caller[w].handle)'
      <3> SUFFICES ASSUME NEW u \in Threads, caller'[u].at \in Joining
                   PROVE  gen'[caller'[u].old].handle = caller'[u].handle
        OBVIOUS
      <3>1. CASE u = t
        <4>1. handle[caller[t].handle].inner # None
          BY <2>1, <3>1 DEF Joining
        <4>2. /\ caller'[u].old = handle[caller[t].handle].inner
              /\ caller'[u].handle = caller[t].handle
          BY <2>1, <3>1
        <4>3. gen[handle[caller[t].handle].inner].handle = caller[t].handle
          BY <2>1, <4>1 DEF Owns
        <4> QED BY <2>1, <4>2, <4>3
      <3>2. CASE u # t
        <4>1. caller[u].at \in Joining /\ caller'[u].old = caller[u].old
              /\ caller'[u].handle = caller[u].handle
          BY <2>1, <3>2
        <4>2. caller[u].handle \in Handles /\ caller[u].old \in Generations
          BY <4>1, Joiners
        <4>3. gen[caller[u].old].handle = caller[u].handle
          BY <4>1 DEF Joins
        <4> QED BY <2>1, <4>1, <4>3
      <3> QED BY <3>1, <3>2
    <2>5. (\A w \in Threads :
            caller[w].at \in Joining => handle[caller[w].handle].inner = None)'
      BY <2>1, Joiners DEF Joins, Joining
    <2>6. (\A w \in Threads :
            caller[w].at \in Joining => dog[caller[w].handle].at \in Apart)'
      <3> SUFFICES ASSUME NEW u \in Threads, caller'[u].at \in Joining
                   PROVE  dog'[caller'[u].handle].at \in Apart
        OBVIOUS
      <3>1. CASE u = t
        <4>1. handle[caller[t].handle].inner # None
          BY <2>1, <3>1 DEF Joining
        <4>2. /\ caller'[u].old = handle[caller[t].handle].inner
              /\ caller'[u].handle = caller[t].handle
          BY <2>1, <3>1
        <4>3. dog[caller[t].handle].at \notin {"close", "join", "spawn", "store"}
          BY <2>1, <4>1 DEF Owns
        <4>4. dog[caller[t].handle].at # "none"
          <5>1. caller[t].handle # None
            BY <2>1, Numbers
          <5> QED BY <2>1, <5>1 DEF Held, Started
        <4>5. dog[caller[t].handle].at \in DogPoints
          BY <2>1 DEF Shapes, DogsOK, DogT
        <4>6. dog[caller[t].handle].at \in Apart
          BY <4>3, <4>4, <4>5 DEF Apart, DogPoints
        <4> QED BY <2>1, <4>2, <4>6
      <3>2. CASE u # t
        <4>1. caller[u].at \in Joining /\ caller'[u].old = caller[u].old
              /\ caller'[u].handle = caller[u].handle
          BY <2>1, <3>2
        <4>2. caller[u].handle \in Handles /\ caller[u].old \in Generations
          BY <4>1, Joiners
        <4>3. dog[caller[u].handle].at \in Apart
          BY <4>1 DEF Joins
        <4> QED BY <2>1, <4>1, <4>3
      <3> QED BY <3>1, <3>2
    <2>7. (\A w \in Threads : caller[w].at = "join" => gen[caller[w].old].fd = "closed")'
      BY <2>1, Joiners DEF Joins, Joining
    <2> QED BY <2>2, <2>3, <2>4, <2>5, <2>6, <2>7 DEF Joins
  <1>19. ASSUME NEW t \in Threads, StopCloses(t) PROVE Joins'
    <2>1. /\ caller[t].at = "close"
          /\ caller[t].old \in Generations
          /\ \A x \in Generations : gen'[x].handle = gen[x].handle
          /\ \A x \in Generations : x # caller[t].old => gen'[x].fd = gen[x].fd
          /\ gen'[caller[t].old].fd = "closed"
          /\ \A x \in Threads : x # t => caller'[x].at = caller[x].at
          /\ caller'[t].at = "join"
          /\ \A x \in Threads : caller'[x].handle = caller[x].handle
          /\ \A x \in Threads : caller'[x].old = caller[x].old
          /\ used'.gens = used.gens
          /\ UNCHANGED <<handle, dog>>
      BY StopClosesDoes, <1>19
    <2>2. (\A w \in Threads : caller[w].at \in Joining => caller[w].old # None)'
      BY <2>1 DEF Joins, Joining
    <2>3. (\A w \in Threads : caller[w].at \in Joining => caller[w].old <= used.gens)'
      BY <2>1, Joiners DEF Joins, Joining
    <2>4. (\A w \in Threads :
            caller[w].at \in Joining => gen[caller[w].old].handle = caller[w].handle)'
      BY <2>1, Joiners DEF Joins, Joining
    <2>5. (\A w \in Threads :
            caller[w].at \in Joining => handle[caller[w].handle].inner = None)'
      BY <2>1, Joiners DEF Joins, Joining
    <2>6. (\A w \in Threads :
            caller[w].at \in Joining => dog[caller[w].handle].at \in Apart)'
      BY <2>1, Joiners DEF Joins, Joining
    <2>7. (\A w \in Threads : caller[w].at = "join" => gen[caller[w].old].fd = "closed")'
      BY <2>1, Joiners DEF Joins, Joining
    <2> QED BY <2>2, <2>3, <2>4, <2>5, <2>6, <2>7 DEF Joins
  <1>20. ASSUME NEW t \in Threads, StopJoins(t) PROVE Joins'
    <2>1. /\ caller[t].at = "join"
          /\ caller[t].handle \in Handles
          /\ gen[caller[t].old].intake = "ended"
          /\ \A x \in Handles : handle'[x].inner = handle[x].inner
          /\ \A x \in Threads : x # t => caller'[x].at = caller[x].at
          /\ caller'[t].at = "join dog"
          /\ \A x \in Threads : caller'[x].handle = caller[x].handle
          /\ \A x \in Threads : caller'[x].old = caller[x].old
          /\ used'.gens = used.gens
          /\ UNCHANGED <<dog, gen>>
      BY StopJoinsDoes, <1>20
    <2>2. (\A w \in Threads : caller[w].at \in Joining => caller[w].old # None)'
      BY <2>1 DEF Joins, Joining
    <2>3. (\A w \in Threads : caller[w].at \in Joining => caller[w].old <= used.gens)'
      BY <2>1, Joiners DEF Joins, Joining
    <2>4. (\A w \in Threads :
            caller[w].at \in Joining => gen[caller[w].old].handle = caller[w].handle)'
      BY <2>1, Joiners DEF Joins, Joining
    <2>5. (\A w \in Threads :
            caller[w].at \in Joining => handle[caller[w].handle].inner = None)'
      BY <2>1, Joiners DEF Joins, Joining
    <2>6. (\A w \in Threads :
            caller[w].at \in Joining => dog[caller[w].handle].at \in Apart)'
      BY <2>1, Joiners DEF Joins, Joining
    <2>7. (\A w \in Threads : caller[w].at = "join" => gen[caller[w].old].fd = "closed")'
      BY <2>1, Joiners DEF Joins, Joining
    <2> QED BY <2>2, <2>3, <2>4, <2>5, <2>6, <2>7 DEF Joins
  <1>21. ASSUME NEW t \in Threads, StopJoinsDog(t) PROVE Joins'
    <2>1. /\ caller[t].at = "join dog"
          /\ caller[t].handle \in Handles
          /\ dog[caller[t].handle].at = "ended"
          /\ \A x \in Threads : x # t => caller'[x].at = caller[x].at
          /\ caller'[t].at = "start"
          /\ \A x \in Threads : x # t => caller'[x].handle = caller[x].handle
          /\ caller'[t].handle = None
          /\ \A x \in Threads : x # t => caller'[x].old = caller[x].old
          /\ caller'[t].old = None
          /\ used'.gens = used.gens
          /\ UNCHANGED <<handle, dog, gen>>
      BY ZenonT(30), StopJoinsDogDoes, <1>21
    <2>2. (\A w \in Threads : caller[w].at \in Joining => caller[w].old # None)'
      BY <2>1 DEF Joins, Joining
    <2>3. (\A w \in Threads : caller[w].at \in Joining => caller[w].old <= used.gens)'
      BY <2>1, Joiners DEF Joins, Joining
    <2>4. (\A w \in Threads :
            caller[w].at \in Joining => gen[caller[w].old].handle = caller[w].handle)'
      BY <2>1, Joiners DEF Joins, Joining
    <2>5. (\A w \in Threads :
            caller[w].at \in Joining => handle[caller[w].handle].inner = None)'
      BY <2>1, Joiners DEF Joins, Joining
    <2>6. (\A w \in Threads :
            caller[w].at \in Joining => dog[caller[w].handle].at \in Apart)'
      BY <2>1, Joiners DEF Joins, Joining
    <2>7. (\A w \in Threads : caller[w].at = "join" => gen[caller[w].old].fd = "closed")'
      BY <2>1, Joiners DEF Joins, Joining
    <2> QED BY <2>2, <2>3, <2>4, <2>5, <2>6, <2>7 DEF Joins
  <1>22. ASSUME NEW t \in Threads, Start(t) PROVE Joins'
    <2>1. /\ caller[t].at = "start"
          /\ t \in Callers
          /\ used.gens + 1 \in Generations
          /\ used.handles + 1 \in Handles
          /\ \A x \in Handles : x # used.handles + 1 => handle'[x].inner = handle[x].inner
          /\ handle'[used.handles + 1].inner = used.gens + 1
          /\ \A x \in Handles : x # used.handles + 1 => dog'[x].at = dog[x].at
          /\ dog'[used.handles + 1].at = "sleep"
          /\ \A x \in Generations : x # used.gens + 1 => gen'[x].handle = gen[x].handle
          /\ gen'[used.gens + 1].handle = used.handles + 1
          /\ \A x \in Generations : x # used.gens + 1 => gen'[x].fd = gen[x].fd
          /\ gen'[used.gens + 1].fd = "open"
          /\ \A x \in Threads : x # t => caller'[x].at = caller[x].at
          /\ caller'[t].at = "idle"
          /\ \A x \in Threads : x # t => caller'[x].handle = caller[x].handle
          /\ caller'[t].handle = None
          /\ \A x \in Threads : x # t => caller'[x].old = caller[x].old
          /\ caller'[t].old = None
          /\ used'.gens = used.gens + 1
      BY StartDoes, <1>22
    <2>2. (\A w \in Threads : caller[w].at \in Joining => caller[w].old # None)'
      BY <2>1 DEF Joins, Joining
    <2>3. (\A w \in Threads : caller[w].at \in Joining => caller[w].old <= used.gens)'
      BY <2>1, Joiners, Older DEF Joins, Joining
    <2>4. (\A w \in Threads :
            caller[w].at \in Joining => gen[caller[w].old].handle = caller[w].handle)'
      BY <2>1, Joiners, Older DEF Joins, Joining
    <2>5. (\A w \in Threads :
            caller[w].at \in Joining => handle[caller[w].handle].inner = None)'
      <3> SUFFICES ASSUME NEW u \in Threads, caller'[u].at \in Joining
                   PROVE  handle'[caller'[u].handle].inner = None
        OBVIOUS
      <3>1. u # t /\ caller[u].at \in Joining /\ caller'[u].handle = caller[u].handle
        BY <2>1 DEF Joining
      <3>2. caller[u].handle \in Handles /\ handle[caller[u].handle].inner = None
        BY <3>1, Joiners DEF Joins
      <3>3. caller[u].handle <= used.handles
        BY <3>2, Numbers DEF Held
      <3> QED BY <2>1, <3>1, <3>2, <3>3, Older
    <2>6. (\A w \in Threads :
            caller[w].at \in Joining => dog[caller[w].handle].at \in Apart)'
      BY <2>1, Joiners DEF Joins, Joining, Apart
    <2>7. (\A w \in Threads : caller[w].at = "join" => gen[caller[w].old].fd = "closed")'
      BY <2>1, Joiners, Older DEF Joins, Joining
    <2> QED BY <2>2, <2>3, <2>4, <2>5, <2>6, <2>7 DEF Joins
  <1>23. ASSUME NEW t \in Threads, NoStart(t) PROVE Joins'
    <2>1. /\ caller[t].at = "start"
          /\ t \in Callers
          /\ \A x \in Threads : x # t => caller'[x].at = caller[x].at
          /\ caller'[t].at = "idle"
          /\ \A x \in Threads : x # t => caller'[x].handle = caller[x].handle
          /\ caller'[t].handle = None
          /\ \A x \in Threads : x # t => caller'[x].old = caller[x].old
          /\ caller'[t].old = None
          /\ used'.gens = used.gens
          /\ UNCHANGED <<handle, dog, gen>>
      BY NoStartDoes, <1>23
    <2>2. (\A w \in Threads : caller[w].at \in Joining => caller[w].old # None)'
      BY <2>1 DEF Joins, Joining
    <2>3. (\A w \in Threads : caller[w].at \in Joining => caller[w].old <= used.gens)'
      BY <2>1, Joiners DEF Joins, Joining
    <2>4. (\A w \in Threads :
            caller[w].at \in Joining => gen[caller[w].old].handle = caller[w].handle)'
      BY <2>1, Joiners DEF Joins, Joining
    <2>5. (\A w \in Threads :
            caller[w].at \in Joining => handle[caller[w].handle].inner = None)'
      BY <2>1, Joiners DEF Joins, Joining
    <2>6. (\A w \in Threads :
            caller[w].at \in Joining => dog[caller[w].handle].at \in Apart)'
      BY <2>1, Joiners DEF Joins, Joining
    <2>7. (\A w \in Threads : caller[w].at = "join" => gen[caller[w].old].fd = "closed")'
      BY <2>1, Joiners DEF Joins, Joining
    <2> QED BY <2>2, <2>3, <2>4, <2>5, <2>6, <2>7 DEF Joins
  <1>24. CASE Exit
    BY ExitDoes, <1>24
  <1>26. ASSUME NEW g \in Generations, Overflow(g) \/ SweepEnds(g) PROVE Joins'
    <2>1. /\ \A x \in Handles : handle'[x].stop <=> handle[x].stop
          /\ \A x \in Handles : handle'[x].inner = handle[x].inner
          /\ \A x \in Handles : handle'[x].lock = handle[x].lock
          /\ UNCHANGED <<slot, slotLock, dog, gen, waits, caller, used, down>>
      BY WritesOverDoes, <1>26
    <2>2. (\A w \in Threads : caller[w].at \in Joining => caller[w].old # None)'
      BY <2>1 DEF Joins, Joining
    <2>3. (\A w \in Threads : caller[w].at \in Joining => caller[w].old <= used.gens)'
      BY <2>1 DEF Joins, Joining
    <2>4. (\A w \in Threads :
            caller[w].at \in Joining => gen[caller[w].old].handle = caller[w].handle)'
      BY <2>1 DEF Joins, Joining
    <2>5. (\A w \in Threads :
            caller[w].at \in Joining => handle[caller[w].handle].inner = None)'
      BY <2>1, Joiners DEF Joins, Joining
    <2>6. (\A w \in Threads :
            caller[w].at \in Joining => dog[caller[w].handle].at \in Apart)'
      BY <2>1 DEF Joins, Joining
    <2>7. (\A w \in Threads : caller[w].at = "join" => gen[caller[w].old].fd = "closed")'
      BY <2>1 DEF Joins, Joining
    <2> QED BY <2>2, <2>3, <2>4, <2>5, <2>6, <2>7 DEF Joins
  <1>25. CASE UNCHANGED vars
    BY <1>25 DEF vars, Joins, Joining
  <1> QED
    BY <1>1, <1>2, <1>3, <1>4, <1>5, <1>6, <1>7, <1>8, <1>9, <1>10, <1>11, <1>12,
       <1>13, <1>14, <1>15, <1>16, <1>17, <1>18, <1>19, <1>20, <1>21, <1>22, <1>23,
       <1>24, <1>25, <1>26 DEF Next, DogStep, CallerStep, StopStep

(* Slots and watchdogs keep their generations.                             *)
LEMMA OwnsStay ==
    ASSUME Shapes, Started, Slots, Held, Locks, Joins, Owns, ~down', [Next]_vars
    PROVE  Owns'
  <1>1. CASE Exec
    <2>1. /\ used'.gens = used.gens
          /\ UNCHANGED <<handle, dog, gen>>
      BY ExecDoes, <1>1
    <2>2. (\A h \in Handles : handle[h].inner # None => handle[h].inner <= used.gens)'
      BY <2>1, Links DEF Owns
    <2>3. (\A h \in Handles : handle[h].inner # None => gen[handle[h].inner].handle = h)'
      BY <2>1, Links DEF Owns
    <2>4. (\A h \in Handles :
              dog[h].old # None <=> dog[h].at \in {"close", "join", "store"})'
      BY <2>1 DEF Owns
    <2>5. (\A h \in Handles : dog[h].old # None => dog[h].old <= used.gens)'
      BY <2>1, Links DEF Owns
    <2>6. (\A h \in Handles : dog[h].old # None => gen[dog[h].old].handle = h)'
      BY <2>1, Links DEF Owns
    <2>7. (\A h \in Handles : dog[h].at = "join" => gen[dog[h].old].fd = "closed")'
      BY <2>1, Links DEF Owns
    <2>8. (\A h \in Handles :
            dog[h].at \in {"close", "join", "spawn", "store"} => handle[h].inner = None)'
      BY <2>1 DEF Owns
    <2> QED BY <2>2, <2>3, <2>4, <2>5, <2>6, <2>7, <2>8 DEF Owns
  <1>2. ASSUME NEW g \in Generations, Answer(g) PROVE Owns'
    <2>1. /\ used'.gens = used.gens
          /\ UNCHANGED <<handle, dog, gen>>
      BY AnswerDoes, <1>2
    <2>2. (\A h \in Handles : handle[h].inner # None => handle[h].inner <= used.gens)'
      BY <2>1, Links DEF Owns
    <2>3. (\A h \in Handles : handle[h].inner # None => gen[handle[h].inner].handle = h)'
      BY <2>1, Links DEF Owns
    <2>4. (\A h \in Handles :
              dog[h].old # None <=> dog[h].at \in {"close", "join", "store"})'
      BY <2>1 DEF Owns
    <2>5. (\A h \in Handles : dog[h].old # None => dog[h].old <= used.gens)'
      BY <2>1, Links DEF Owns
    <2>6. (\A h \in Handles : dog[h].old # None => gen[dog[h].old].handle = h)'
      BY <2>1, Links DEF Owns
    <2>7. (\A h \in Handles : dog[h].at = "join" => gen[dog[h].old].fd = "closed")'
      BY <2>1, Links DEF Owns
    <2>8. (\A h \in Handles :
            dog[h].at \in {"close", "join", "spawn", "store"} => handle[h].inner = None)'
      BY <2>1 DEF Owns
    <2> QED BY <2>2, <2>3, <2>4, <2>5, <2>6, <2>7, <2>8 DEF Owns
  <1>3. ASSUME NEW g \in Generations, Stall(g) PROVE Owns'
    <2>1. /\ \A x \in Generations : gen'[x].handle = gen[x].handle
          /\ \A x \in Generations : gen'[x].fd = gen[x].fd
          /\ used'.gens = used.gens
          /\ UNCHANGED <<handle, dog>>
      BY StallDoes, <1>3
    <2>2. (\A h \in Handles : handle[h].inner # None => handle[h].inner <= used.gens)'
      BY <2>1, Links DEF Owns
    <2>3. (\A h \in Handles : handle[h].inner # None => gen[handle[h].inner].handle = h)'
      BY <2>1, Links DEF Owns
    <2>4. (\A h \in Handles :
              dog[h].old # None <=> dog[h].at \in {"close", "join", "store"})'
      BY <2>1 DEF Owns
    <2>5. (\A h \in Handles : dog[h].old # None => dog[h].old <= used.gens)'
      BY <2>1, Links DEF Owns
    <2>6. (\A h \in Handles : dog[h].old # None => gen[dog[h].old].handle = h)'
      BY <2>1, Links DEF Owns
    <2>7. (\A h \in Handles : dog[h].at = "join" => gen[dog[h].old].fd = "closed")'
      BY <2>1, Links DEF Owns
    <2>8. (\A h \in Handles :
            dog[h].at \in {"close", "join", "spawn", "store"} => handle[h].inner = None)'
      BY <2>1 DEF Owns
    <2> QED BY <2>2, <2>3, <2>4, <2>5, <2>6, <2>7, <2>8 DEF Owns
  <1>4. ASSUME NEW g \in Generations, Recover(g) PROVE Owns'
    <2>1. /\ \A x \in Generations : gen'[x].handle = gen[x].handle
          /\ \A x \in Generations : gen'[x].fd = gen[x].fd
          /\ used'.gens = used.gens
          /\ UNCHANGED <<handle, dog>>
      BY RecoverDoes, <1>4
    <2>2. (\A h \in Handles : handle[h].inner # None => handle[h].inner <= used.gens)'
      BY <2>1, Links DEF Owns
    <2>3. (\A h \in Handles : handle[h].inner # None => gen[handle[h].inner].handle = h)'
      BY <2>1, Links DEF Owns
    <2>4. (\A h \in Handles :
              dog[h].old # None <=> dog[h].at \in {"close", "join", "store"})'
      BY <2>1 DEF Owns
    <2>5. (\A h \in Handles : dog[h].old # None => dog[h].old <= used.gens)'
      BY <2>1, Links DEF Owns
    <2>6. (\A h \in Handles : dog[h].old # None => gen[dog[h].old].handle = h)'
      BY <2>1, Links DEF Owns
    <2>7. (\A h \in Handles : dog[h].at = "join" => gen[dog[h].old].fd = "closed")'
      BY <2>1, Links DEF Owns
    <2>8. (\A h \in Handles :
            dog[h].at \in {"close", "join", "spawn", "store"} => handle[h].inner = None)'
      BY <2>1 DEF Owns
    <2> QED BY <2>2, <2>3, <2>4, <2>5, <2>6, <2>7, <2>8 DEF Owns
  <1>5. ASSUME NEW g \in Generations, Leave(g) PROVE Owns'
    <2>1. /\ gen[g].intake = "reading"
          /\ \A x \in Generations : gen'[x].handle = gen[x].handle
          /\ \A x \in Generations : x # g => gen'[x].fd = gen[x].fd
          /\ gen'[g].fd = "closed"
          /\ used'.gens = used.gens
          /\ UNCHANGED <<handle, dog>>
      BY LeaveDoes, <1>5
    <2>2. (\A h \in Handles : handle[h].inner # None => handle[h].inner <= used.gens)'
      BY <2>1, Links DEF Owns
    <2>3. (\A h \in Handles : handle[h].inner # None => gen[handle[h].inner].handle = h)'
      BY <2>1, Links DEF Owns
    <2>4. (\A h \in Handles :
              dog[h].old # None <=> dog[h].at \in {"close", "join", "store"})'
      BY <2>1 DEF Owns
    <2>5. (\A h \in Handles : dog[h].old # None => dog[h].old <= used.gens)'
      BY <2>1, Links DEF Owns
    <2>6. (\A h \in Handles : dog[h].old # None => gen[dog[h].old].handle = h)'
      BY <2>1, Links DEF Owns
    <2>7. (\A h \in Handles : dog[h].at = "join" => gen[dog[h].old].fd = "closed")'
      BY <2>1, Links DEF Owns
    <2>8. (\A h \in Handles :
            dog[h].at \in {"close", "join", "spawn", "store"} => handle[h].inner = None)'
      BY <2>1 DEF Owns
    <2> QED BY <2>2, <2>3, <2>4, <2>5, <2>6, <2>7, <2>8 DEF Owns
  <1>6. ASSUME NEW g \in Generations, WindUp(g) PROVE Owns'
    <2>1. /\ \A x \in Generations : gen'[x].handle = gen[x].handle
          /\ \A x \in Generations : gen'[x].fd = gen[x].fd
          /\ used'.gens = used.gens
          /\ UNCHANGED <<handle, dog>>
      BY WindUpDoes, <1>6
    <2>2. (\A h \in Handles : handle[h].inner # None => handle[h].inner <= used.gens)'
      BY <2>1, Links DEF Owns
    <2>3. (\A h \in Handles : handle[h].inner # None => gen[handle[h].inner].handle = h)'
      BY <2>1, Links DEF Owns
    <2>4. (\A h \in Handles :
              dog[h].old # None <=> dog[h].at \in {"close", "join", "store"})'
      BY <2>1 DEF Owns
    <2>5. (\A h \in Handles : dog[h].old # None => dog[h].old <= used.gens)'
      BY <2>1, Links DEF Owns
    <2>6. (\A h \in Handles : dog[h].old # None => gen[dog[h].old].handle = h)'
      BY <2>1, Links DEF Owns
    <2>7. (\A h \in Handles : dog[h].at = "join" => gen[dog[h].old].fd = "closed")'
      BY <2>1, Links DEF Owns
    <2>8. (\A h \in Handles :
            dog[h].at \in {"close", "join", "spawn", "store"} => handle[h].inner = None)'
      BY <2>1 DEF Owns
    <2> QED BY <2>2, <2>3, <2>4, <2>5, <2>6, <2>7, <2>8 DEF Owns
  <1>7. ASSUME NEW h \in Handles, DogWakes(h) PROVE Owns'
    <2>1. /\ dog[h].at = "sleep"
          /\ \A x \in Handles : x # h => dog'[x].at = dog[x].at
          /\ dog'[h].at = IF handle[h].stop THEN "ended" ELSE "check"
          /\ \A x \in Handles : dog'[x].old = dog[x].old
          /\ used'.gens = used.gens
          /\ UNCHANGED <<handle, gen>>
      BY DogWakesDoes, <1>7
    <2>2. (\A k \in Handles : handle[k].inner # None => handle[k].inner <= used.gens)'
      BY <2>1, Links DEF Owns
    <2>3. (\A k \in Handles : handle[k].inner # None => gen[handle[k].inner].handle = k)'
      BY <2>1, Links DEF Owns
    <2>4. (\A k \in Handles :
              dog[k].old # None <=> dog[k].at \in {"close", "join", "store"})'
      BY <2>1 DEF Owns
    <2>5. (\A k \in Handles : dog[k].old # None => dog[k].old <= used.gens)'
      BY <2>1, Links DEF Owns
    <2>6. (\A k \in Handles : dog[k].old # None => gen[dog[k].old].handle = k)'
      BY <2>1, Links DEF Owns
    <2>7. (\A k \in Handles : dog[k].at = "join" => gen[dog[k].old].fd = "closed")'
      BY <2>1, Links DEF Owns
    <2>8. (\A k \in Handles :
            dog[k].at \in {"close", "join", "spawn", "store"} => handle[k].inner = None)'
      BY <2>1 DEF Owns
    <2> QED BY <2>2, <2>3, <2>4, <2>5, <2>6, <2>7, <2>8 DEF Owns
  <1>8. ASSUME NEW h \in Handles, DogSeesHealthy(h) PROVE Owns'
    <2>1. /\ dog[h].at = "check"
          /\ handle[h].lock = None
          /\ \A x \in Handles : handle'[x].inner = handle[x].inner
          /\ \A x \in Handles : x # h => dog'[x].at = dog[x].at
          /\ dog'[h].at = "sleep"
          /\ \A x \in Handles : dog'[x].old = dog[x].old
          /\ used'.gens = used.gens
          /\ UNCHANGED gen
      BY DogSeesHealthyDoes, <1>8
    <2>2. (\A k \in Handles : handle[k].inner # None => handle[k].inner <= used.gens)'
      BY <2>1, Links DEF Owns
    <2>3. (\A k \in Handles : handle[k].inner # None => gen[handle[k].inner].handle = k)'
      BY <2>1, Links DEF Owns
    <2>4. (\A k \in Handles :
              dog[k].old # None <=> dog[k].at \in {"close", "join", "store"})'
      BY <2>1 DEF Owns
    <2>5. (\A k \in Handles : dog[k].old # None => dog[k].old <= used.gens)'
      BY <2>1, Links DEF Owns
    <2>6. (\A k \in Handles : dog[k].old # None => gen[dog[k].old].handle = k)'
      BY <2>1, Links DEF Owns
    <2>7. (\A k \in Handles : dog[k].at = "join" => gen[dog[k].old].fd = "closed")'
      BY <2>1, Links DEF Owns
    <2>8. (\A k \in Handles :
            dog[k].at \in {"close", "join", "spawn", "store"} => handle[k].inner = None)'
      BY <2>1 DEF Owns
    <2> QED BY <2>2, <2>3, <2>4, <2>5, <2>6, <2>7, <2>8 DEF Owns
  <1>9. ASSUME NEW h \in Handles, DogSeesStall(h) PROVE Owns'
    <2>1. /\ dog[h].at = "check"
          /\ handle[h].lock = None
          /\ handle[h].inner # None
          /\ \A x \in Handles : x # h => dog'[x].at = dog[x].at
          /\ dog'[h].at = IF dog[h].restarts < MAX_RESTARTS THEN "take" ELSE "fail"
          /\ \A x \in Handles : dog'[x].old = dog[x].old
          /\ used'.gens = used.gens
          /\ UNCHANGED <<handle, gen>>
      BY DogSeesStallDoes, <1>9
    <2>2. (\A k \in Handles : handle[k].inner # None => handle[k].inner <= used.gens)'
      BY <2>1, Links DEF Owns
    <2>3. (\A k \in Handles : handle[k].inner # None => gen[handle[k].inner].handle = k)'
      BY <2>1, Links DEF Owns
    <2>4. (\A k \in Handles :
              dog[k].old # None <=> dog[k].at \in {"close", "join", "store"})'
      BY <2>1 DEF Owns
    <2>5. (\A k \in Handles : dog[k].old # None => dog[k].old <= used.gens)'
      BY <2>1, Links DEF Owns
    <2>6. (\A k \in Handles : dog[k].old # None => gen[dog[k].old].handle = k)'
      BY <2>1, Links DEF Owns
    <2>7. (\A k \in Handles : dog[k].at = "join" => gen[dog[k].old].fd = "closed")'
      BY <2>1, Links DEF Owns
    <2>8. (\A k \in Handles :
            dog[k].at \in {"close", "join", "spawn", "store"} => handle[k].inner = None)'
      BY <2>1 DEF Owns
    <2> QED BY <2>2, <2>3, <2>4, <2>5, <2>6, <2>7, <2>8 DEF Owns
  <1>10. ASSUME NEW h \in Handles, DogGivesUp(h) PROVE Owns'
    <2>1. /\ dog[h].at = "fail"
          /\ handle[h].lock = None
          /\ \A x \in Handles : x # h => handle'[x].inner = handle[x].inner
          /\ handle'[h].inner = None
          /\ \A x \in Handles : x # h => dog'[x].at = dog[x].at
          /\ dog'[h].at = "ended"
          /\ \A x \in Handles : dog'[x].old = dog[x].old
          /\ used'.gens = used.gens
          /\ UNCHANGED gen
      BY DogGivesUpDoes, <1>10
    <2>2. (\A k \in Handles : handle[k].inner # None => handle[k].inner <= used.gens)'
      BY <2>1, Links DEF Owns
    <2>3. (\A k \in Handles : handle[k].inner # None => gen[handle[k].inner].handle = k)'
      BY <2>1, Links DEF Owns
    <2>4. (\A k \in Handles :
              dog[k].old # None <=> dog[k].at \in {"close", "join", "store"})'
      BY <2>1 DEF Owns
    <2>5. (\A k \in Handles : dog[k].old # None => dog[k].old <= used.gens)'
      BY <2>1, Links DEF Owns
    <2>6. (\A k \in Handles : dog[k].old # None => gen[dog[k].old].handle = k)'
      BY <2>1, Links DEF Owns
    <2>7. (\A k \in Handles : dog[k].at = "join" => gen[dog[k].old].fd = "closed")'
      BY <2>1, Links DEF Owns
    <2>8. (\A k \in Handles :
            dog[k].at \in {"close", "join", "spawn", "store"} => handle[k].inner = None)'
      BY <2>1 DEF Owns
    <2> QED BY <2>2, <2>3, <2>4, <2>5, <2>6, <2>7, <2>8 DEF Owns
  <1>11. ASSUME NEW h \in Handles, DogTakes(h) PROVE Owns'
    <2>1. /\ dog[h].at = "take"
          /\ handle[h].lock = None
          /\ \A x \in Handles : x # h => handle'[x].inner = handle[x].inner
          /\ handle'[h].inner = None
          /\ \A x \in Handles : x # h => dog'[x].at = dog[x].at
          /\ dog'[h].at = IF handle[h].inner = None THEN "spawn" ELSE "close"
          /\ \A x \in Handles : x # h => dog'[x].old = dog[x].old
          /\ dog'[h].old = handle[h].inner
          /\ used'.gens = used.gens
          /\ UNCHANGED gen
      BY DogTakesDoes, <1>11
    <2>2. (\A k \in Handles : handle[k].inner # None => handle[k].inner <= used.gens)'
      BY <2>1, Links DEF Owns
    <2>3. (\A k \in Handles : handle[k].inner # None => gen[handle[k].inner].handle = k)'
      BY <2>1, Links DEF Owns
    <2>4. (\A k \in Handles :
              dog[k].old # None <=> dog[k].at \in {"close", "join", "store"})'
      BY <2>1 DEF Owns
    <2>5. (\A k \in Handles : dog[k].old # None => dog[k].old <= used.gens)'
      BY <2>1, Links DEF Owns
    <2>6. (\A k \in Handles : dog[k].old # None => gen[dog[k].old].handle = k)'
      BY <2>1, Links DEF Owns
    <2>7. (\A k \in Handles : dog[k].at = "join" => gen[dog[k].old].fd = "closed")'
      BY <2>1, Links DEF Owns
    <2>8. (\A k \in Handles :
            dog[k].at \in {"close", "join", "spawn", "store"} => handle[k].inner = None)'
      BY <2>1 DEF Owns
    <2> QED BY <2>2, <2>3, <2>4, <2>5, <2>6, <2>7, <2>8 DEF Owns
  <1>12. ASSUME NEW h \in Handles, DogCloses(h) PROVE Owns'
    <2>1. /\ dog[h].at = "close"
          /\ dog[h].old \in Generations
          /\ \A x \in Handles : x # h => dog'[x].at = dog[x].at
          /\ dog'[h].at = "join"
          /\ \A x \in Handles : dog'[x].old = dog[x].old
          /\ \A x \in Generations : gen'[x].handle = gen[x].handle
          /\ \A x \in Generations : x # dog[h].old => gen'[x].fd = gen[x].fd
          /\ gen'[dog[h].old].fd = "closed"
          /\ used'.gens = used.gens
          /\ UNCHANGED handle
      BY DogClosesDoes, <1>12
    <2>2. (\A k \in Handles : handle[k].inner # None => handle[k].inner <= used.gens)'
      BY <2>1, Links DEF Owns
    <2>3. (\A k \in Handles : handle[k].inner # None => gen[handle[k].inner].handle = k)'
      BY <2>1, Links DEF Owns
    <2>4. (\A k \in Handles :
              dog[k].old # None <=> dog[k].at \in {"close", "join", "store"})'
      BY <2>1 DEF Owns
    <2>5. (\A k \in Handles : dog[k].old # None => dog[k].old <= used.gens)'
      BY <2>1, Links DEF Owns
    <2>6. (\A k \in Handles : dog[k].old # None => gen[dog[k].old].handle = k)'
      BY <2>1, Links DEF Owns
    <2>7. (\A k \in Handles : dog[k].at = "join" => gen[dog[k].old].fd = "closed")'
      BY <2>1, Links DEF Owns
    <2>8. (\A k \in Handles :
            dog[k].at \in {"close", "join", "spawn", "store"} => handle[k].inner = None)'
      BY <2>1 DEF Owns
    <2> QED BY <2>2, <2>3, <2>4, <2>5, <2>6, <2>7, <2>8 DEF Owns
  <1>13. ASSUME NEW h \in Handles, DogJoins(h) PROVE Owns'
    <2>1. /\ dog[h].at = "join"
          /\ gen[dog[h].old].intake = "ended"
          /\ \A x \in Handles : x # h => dog'[x].at = dog[x].at
          /\ dog'[h].at = "spawn"
          /\ \A x \in Handles : x # h => dog'[x].old = dog[x].old
          /\ dog'[h].old = None
          /\ used'.gens = used.gens
          /\ UNCHANGED <<handle, gen>>
      BY DogJoinsDoes, <1>13
    <2>2. (\A k \in Handles : handle[k].inner # None => handle[k].inner <= used.gens)'
      BY <2>1, Links DEF Owns
    <2>3. (\A k \in Handles : handle[k].inner # None => gen[handle[k].inner].handle = k)'
      BY <2>1, Links DEF Owns
    <2>4. (\A k \in Handles :
              dog[k].old # None <=> dog[k].at \in {"close", "join", "store"})'
      BY <2>1 DEF Owns
    <2>5. (\A k \in Handles : dog[k].old # None => dog[k].old <= used.gens)'
      BY <2>1, Links DEF Owns
    <2>6. (\A k \in Handles : dog[k].old # None => gen[dog[k].old].handle = k)'
      BY <2>1, Links DEF Owns
    <2>7. (\A k \in Handles : dog[k].at = "join" => gen[dog[k].old].fd = "closed")'
      BY <2>1, Links DEF Owns
    <2>8. (\A k \in Handles :
            dog[k].at \in {"close", "join", "spawn", "store"} => handle[k].inner = None)'
      BY <2>1 DEF Owns
    <2> QED BY <2>2, <2>3, <2>4, <2>5, <2>6, <2>7, <2>8 DEF Owns
  <1>14. ASSUME NEW h \in Handles, DogSpawns(h) PROVE Owns'
    <2>1. /\ dog[h].at = "spawn"
          /\ used.gens + 1 \in Generations
          /\ \A x \in Handles : x # h => dog'[x].at = dog[x].at
          /\ dog'[h].at = "store"
          /\ \A x \in Handles : x # h => dog'[x].old = dog[x].old
          /\ dog'[h].old = used.gens + 1
          /\ \A x \in Generations : x # used.gens + 1 => gen'[x].handle = gen[x].handle
          /\ gen'[used.gens + 1].handle = h
          /\ \A x \in Generations : x # used.gens + 1 => gen'[x].fd = gen[x].fd
          /\ gen'[used.gens + 1].fd = "open"
          /\ used'.gens = used.gens + 1
          /\ UNCHANGED handle
      BY DogSpawnsDoes, <1>14
    <2>2. (\A k \in Handles : handle[k].inner # None => handle[k].inner <= used.gens)'
      BY <2>1, Links, Older DEF Owns
    <2>3. (\A k \in Handles : handle[k].inner # None => gen[handle[k].inner].handle = k)'
      BY <2>1, Links, Older DEF Owns
    <2>4. (\A k \in Handles :
              dog[k].old # None <=> dog[k].at \in {"close", "join", "store"})'
      BY <2>1, Older, Numbers DEF Owns
    <2>5. (\A k \in Handles : dog[k].old # None => dog[k].old <= used.gens)'
      BY <2>1, Links, Older DEF Owns
    <2>6. (\A k \in Handles : dog[k].old # None => gen[dog[k].old].handle = k)'
      BY <2>1, Links, Older DEF Owns
    <2>7. (\A k \in Handles : dog[k].at = "join" => gen[dog[k].old].fd = "closed")'
      BY <2>1, Links, Older DEF Owns
    <2>8. (\A k \in Handles :
            dog[k].at \in {"close", "join", "spawn", "store"} => handle[k].inner = None)'
      BY <2>1 DEF Owns
    <2> QED BY <2>2, <2>3, <2>4, <2>5, <2>6, <2>7, <2>8 DEF Owns
  <1>15. ASSUME NEW h \in Handles, DogCannotSpawn(h) PROVE Owns'
    <2>1. /\ dog[h].at = "spawn"
          /\ \A x \in Handles : handle'[x].inner = handle[x].inner
          /\ \A x \in Handles : x # h => dog'[x].at = dog[x].at
          /\ dog'[h].at = "ended"
          /\ \A x \in Handles : dog'[x].old = dog[x].old
          /\ used'.gens = used.gens
          /\ UNCHANGED gen
      BY DogCannotSpawnDoes, <1>15
    <2>2. (\A k \in Handles : handle[k].inner # None => handle[k].inner <= used.gens)'
      BY <2>1, Links DEF Owns
    <2>3. (\A k \in Handles : handle[k].inner # None => gen[handle[k].inner].handle = k)'
      BY <2>1, Links DEF Owns
    <2>4. (\A k \in Handles :
              dog[k].old # None <=> dog[k].at \in {"close", "join", "store"})'
      BY <2>1 DEF Owns
    <2>5. (\A k \in Handles : dog[k].old # None => dog[k].old <= used.gens)'
      BY <2>1, Links DEF Owns
    <2>6. (\A k \in Handles : dog[k].old # None => gen[dog[k].old].handle = k)'
      BY <2>1, Links DEF Owns
    <2>7. (\A k \in Handles : dog[k].at = "join" => gen[dog[k].old].fd = "closed")'
      BY <2>1, Links DEF Owns
    <2>8. (\A k \in Handles :
            dog[k].at \in {"close", "join", "spawn", "store"} => handle[k].inner = None)'
      BY <2>1 DEF Owns
    <2> QED BY <2>2, <2>3, <2>4, <2>5, <2>6, <2>7, <2>8 DEF Owns
  <1>16. ASSUME NEW h \in Handles, DogStores(h) PROVE Owns'
    <2>1. /\ dog[h].at = "store"
          /\ handle[h].lock = None
          /\ \A x \in Handles : x # h => handle'[x].inner = handle[x].inner
          /\ handle'[h].inner = dog[h].old
          /\ \A x \in Handles : x # h => dog'[x].at = dog[x].at
          /\ dog'[h].at = "sleep"
          /\ \A x \in Handles : x # h => dog'[x].old = dog[x].old
          /\ dog'[h].old = None
          /\ used'.gens = used.gens
          /\ UNCHANGED gen
      BY DogStoresDoes, <1>16
    <2>2. (\A k \in Handles : handle[k].inner # None => handle[k].inner <= used.gens)'
      BY <2>1, Links DEF Owns
    <2>3. (\A k \in Handles : handle[k].inner # None => gen[handle[k].inner].handle = k)'
      BY <2>1, Links DEF Owns
    <2>4. (\A k \in Handles :
              dog[k].old # None <=> dog[k].at \in {"close", "join", "store"})'
      BY <2>1 DEF Owns
    <2>5. (\A k \in Handles : dog[k].old # None => dog[k].old <= used.gens)'
      BY <2>1, Links DEF Owns
    <2>6. (\A k \in Handles : dog[k].old # None => gen[dog[k].old].handle = k)'
      BY <2>1, Links DEF Owns
    <2>7. (\A k \in Handles : dog[k].at = "join" => gen[dog[k].old].fd = "closed")'
      BY <2>1, Links DEF Owns
    <2>8. (\A k \in Handles :
            dog[k].at \in {"close", "join", "spawn", "store"} => handle[k].inner = None)'
      BY <2>1 DEF Owns
    <2> QED BY <2>2, <2>3, <2>4, <2>5, <2>6, <2>7, <2>8 DEF Owns
  <1>17. ASSUME NEW t \in Threads, TakeHandle(t) PROVE Owns'
    <2>1. /\ \A x \in Handles : handle'[x].inner = handle[x].inner
          /\ used'.gens = used.gens
          /\ UNCHANGED <<dog, gen>>
      BY TakeHandleDoes, <1>17
    <2>2. (\A h \in Handles : handle[h].inner # None => handle[h].inner <= used.gens)'
      BY <2>1, Links DEF Owns
    <2>3. (\A h \in Handles : handle[h].inner # None => gen[handle[h].inner].handle = h)'
      BY <2>1, Links DEF Owns
    <2>4. (\A h \in Handles :
              dog[h].old # None <=> dog[h].at \in {"close", "join", "store"})'
      BY <2>1 DEF Owns
    <2>5. (\A h \in Handles : dog[h].old # None => dog[h].old <= used.gens)'
      BY <2>1, Links DEF Owns
    <2>6. (\A h \in Handles : dog[h].old # None => gen[dog[h].old].handle = h)'
      BY <2>1, Links DEF Owns
    <2>7. (\A h \in Handles : dog[h].at = "join" => gen[dog[h].old].fd = "closed")'
      BY <2>1, Links DEF Owns
    <2>8. (\A h \in Handles :
            dog[h].at \in {"close", "join", "spawn", "store"} => handle[h].inner = None)'
      BY <2>1 DEF Owns
    <2> QED BY <2>2, <2>3, <2>4, <2>5, <2>6, <2>7, <2>8 DEF Owns
  <1>18. ASSUME NEW t \in Threads, TakeInner(t) PROVE Owns'
    <2>1. /\ caller[t].at = "take"
          /\ caller[t].handle \in Handles
          /\ handle[caller[t].handle].lock = None
          /\ \A x \in Handles : x # caller[t].handle => handle'[x].inner = handle[x].inner
          /\ handle'[caller[t].handle].inner = None
          /\ used'.gens = used.gens
          /\ UNCHANGED <<dog, gen>>
      <3>1. /\ caller[t].at = "take"
        BY TakeInnerDoes, <1>18
      <3>2. /\ caller[t].handle \in Handles
        BY TakeInnerDoes, <1>18
      <3>3. /\ handle[caller[t].handle].lock = None
        BY TakeInnerDoes, <1>18
      <3>4. \A x \in Handles : x # caller[t].handle => handle'[x].inner = handle[x].inner
        <4>1. \A x \in Handles : x # caller[t].handle => handle'[x] = handle[x]
          BY TakeInnerDoes, <1>18
        <4> QED BY <4>1
      <3>5. /\ handle'[caller[t].handle].inner = None
        BY TakeInnerDoes, <1>18
      <3>6. /\ used'.gens = used.gens
        BY TakeInnerDoes, <1>18
      <3>7. /\ UNCHANGED <<dog, gen>>
        BY TakeInnerDoes, <1>18
      <3> QED BY <3>1, <3>2, <3>3, <3>4, <3>5, <3>6, <3>7
    <2>2. (\A h \in Handles : handle[h].inner # None => handle[h].inner <= used.gens)'
      BY <2>1, Links DEF Owns
    <2>3. (\A h \in Handles : handle[h].inner # None => gen[handle[h].inner].handle = h)'
      BY <2>1, Links DEF Owns
    <2>4. (\A h \in Handles :
              dog[h].old # None <=> dog[h].at \in {"close", "join", "store"})'
      BY <2>1 DEF Owns
    <2>5. (\A h \in Handles : dog[h].old # None => dog[h].old <= used.gens)'
      BY <2>1, Links DEF Owns
    <2>6. (\A h \in Handles : dog[h].old # None => gen[dog[h].old].handle = h)'
      BY <2>1, Links DEF Owns
    <2>7. (\A h \in Handles : dog[h].at = "join" => gen[dog[h].old].fd = "closed")'
      BY <2>1, Links DEF Owns
    <2>8. (\A h \in Handles :
            dog[h].at \in {"close", "join", "spawn", "store"} => handle[h].inner = None)'
      BY <2>1 DEF Owns
    <2> QED BY <2>2, <2>3, <2>4, <2>5, <2>6, <2>7, <2>8 DEF Owns
  <1>19. ASSUME NEW t \in Threads, StopCloses(t) PROVE Owns'
    <2>1. /\ caller[t].at = "close"
          /\ caller[t].old \in Generations
          /\ \A x \in Generations : gen'[x].handle = gen[x].handle
          /\ \A x \in Generations : x # caller[t].old => gen'[x].fd = gen[x].fd
          /\ gen'[caller[t].old].fd = "closed"
          /\ used'.gens = used.gens
          /\ UNCHANGED <<handle, dog>>
      BY StopClosesDoes, <1>19
    <2>2. (\A h \in Handles : handle[h].inner # None => handle[h].inner <= used.gens)'
      BY <2>1, Links DEF Owns
    <2>3. (\A h \in Handles : handle[h].inner # None => gen[handle[h].inner].handle = h)'
      BY <2>1, Links DEF Owns
    <2>4. (\A h \in Handles :
              dog[h].old # None <=> dog[h].at \in {"close", "join", "store"})'
      BY <2>1 DEF Owns
    <2>5. (\A h \in Handles : dog[h].old # None => dog[h].old <= used.gens)'
      BY <2>1, Links DEF Owns
    <2>6. (\A h \in Handles : dog[h].old # None => gen[dog[h].old].handle = h)'
      BY <2>1, Links DEF Owns
    <2>7. (\A h \in Handles : dog[h].at = "join" => gen[dog[h].old].fd = "closed")'
      BY <2>1, Links DEF Owns
    <2>8. (\A h \in Handles :
            dog[h].at \in {"close", "join", "spawn", "store"} => handle[h].inner = None)'
      BY <2>1 DEF Owns
    <2> QED BY <2>2, <2>3, <2>4, <2>5, <2>6, <2>7, <2>8 DEF Owns
  <1>20. ASSUME NEW t \in Threads, StopJoins(t) PROVE Owns'
    <2>1. /\ \A x \in Handles : handle'[x].inner = handle[x].inner
          /\ used'.gens = used.gens
          /\ UNCHANGED <<dog, gen>>
      BY StopJoinsDoes, <1>20
    <2>2. (\A h \in Handles : handle[h].inner # None => handle[h].inner <= used.gens)'
      BY <2>1, Links DEF Owns
    <2>3. (\A h \in Handles : handle[h].inner # None => gen[handle[h].inner].handle = h)'
      BY <2>1, Links DEF Owns
    <2>4. (\A h \in Handles :
              dog[h].old # None <=> dog[h].at \in {"close", "join", "store"})'
      BY <2>1 DEF Owns
    <2>5. (\A h \in Handles : dog[h].old # None => dog[h].old <= used.gens)'
      BY <2>1, Links DEF Owns
    <2>6. (\A h \in Handles : dog[h].old # None => gen[dog[h].old].handle = h)'
      BY <2>1, Links DEF Owns
    <2>7. (\A h \in Handles : dog[h].at = "join" => gen[dog[h].old].fd = "closed")'
      BY <2>1, Links DEF Owns
    <2>8. (\A h \in Handles :
            dog[h].at \in {"close", "join", "spawn", "store"} => handle[h].inner = None)'
      BY <2>1 DEF Owns
    <2> QED BY <2>2, <2>3, <2>4, <2>5, <2>6, <2>7, <2>8 DEF Owns
  <1>21. ASSUME NEW t \in Threads, StopJoinsDog(t) PROVE Owns'
    <2>1. /\ used'.gens = used.gens
          /\ UNCHANGED <<handle, dog, gen>>
      BY StopJoinsDogDoes, <1>21
    <2>2. (\A h \in Handles : handle[h].inner # None => handle[h].inner <= used.gens)'
      BY <2>1, Links DEF Owns
    <2>3. (\A h \in Handles : handle[h].inner # None => gen[handle[h].inner].handle = h)'
      BY <2>1, Links DEF Owns
    <2>4. (\A h \in Handles :
              dog[h].old # None <=> dog[h].at \in {"close", "join", "store"})'
      BY <2>1 DEF Owns
    <2>5. (\A h \in Handles : dog[h].old # None => dog[h].old <= used.gens)'
      BY <2>1, Links DEF Owns
    <2>6. (\A h \in Handles : dog[h].old # None => gen[dog[h].old].handle = h)'
      BY <2>1, Links DEF Owns
    <2>7. (\A h \in Handles : dog[h].at = "join" => gen[dog[h].old].fd = "closed")'
      BY <2>1, Links DEF Owns
    <2>8. (\A h \in Handles :
            dog[h].at \in {"close", "join", "spawn", "store"} => handle[h].inner = None)'
      BY <2>1 DEF Owns
    <2> QED BY <2>2, <2>3, <2>4, <2>5, <2>6, <2>7, <2>8 DEF Owns
  <1>22. ASSUME NEW t \in Threads, Start(t) PROVE Owns'
    <2>1. /\ caller[t].at = "start"
          /\ t \in Callers
          /\ used.gens + 1 \in Generations
          /\ used.handles + 1 \in Handles
          /\ \A x \in Handles : x # used.handles + 1 => handle'[x].inner = handle[x].inner
          /\ handle'[used.handles + 1].inner = used.gens + 1
          /\ \A x \in Handles : x # used.handles + 1 => dog'[x].at = dog[x].at
          /\ dog'[used.handles + 1].at = "sleep"
          /\ \A x \in Handles : dog'[x].old = dog[x].old
          /\ \A x \in Generations : x # used.gens + 1 => gen'[x].handle = gen[x].handle
          /\ gen'[used.gens + 1].handle = used.handles + 1
          /\ \A x \in Generations : x # used.gens + 1 => gen'[x].fd = gen[x].fd
          /\ gen'[used.gens + 1].fd = "open"
          /\ used'.gens = used.gens + 1
      BY StartDoes, <1>22
    <2>2. (\A h \in Handles : handle[h].inner # None => handle[h].inner <= used.gens)'
      BY <2>1, Links, Older DEF Owns, Started
    <2>3. (\A h \in Handles : handle[h].inner # None => gen[handle[h].inner].handle = h)'
      BY <2>1, Links, Older DEF Owns, Started
    <2>4. (\A h \in Handles :
              dog[h].old # None <=> dog[h].at \in {"close", "join", "store"})'
      BY <2>1, Older, Numbers DEF Owns, Started
    <2>5. (\A h \in Handles : dog[h].old # None => dog[h].old <= used.gens)'
      BY <2>1, Links, Older DEF Owns, Started
    <2>6. (\A h \in Handles : dog[h].old # None => gen[dog[h].old].handle = h)'
      BY <2>1, Links, Older DEF Owns, Started
    <2>7. (\A h \in Handles : dog[h].at = "join" => gen[dog[h].old].fd = "closed")'
      BY <2>1, Links, Older DEF Owns, Started
    <2>8. (\A h \in Handles :
            dog[h].at \in {"close", "join", "spawn", "store"} => handle[h].inner = None)'
      BY <2>1 DEF Owns
    <2> QED BY <2>2, <2>3, <2>4, <2>5, <2>6, <2>7, <2>8 DEF Owns
  <1>23. ASSUME NEW t \in Threads, NoStart(t) PROVE Owns'
    <2>1. /\ used'.gens = used.gens
          /\ UNCHANGED <<handle, dog, gen>>
      BY NoStartDoes, <1>23
    <2>2. (\A h \in Handles : handle[h].inner # None => handle[h].inner <= used.gens)'
      BY <2>1, Links DEF Owns
    <2>3. (\A h \in Handles : handle[h].inner # None => gen[handle[h].inner].handle = h)'
      BY <2>1, Links DEF Owns
    <2>4. (\A h \in Handles :
              dog[h].old # None <=> dog[h].at \in {"close", "join", "store"})'
      BY <2>1 DEF Owns
    <2>5. (\A h \in Handles : dog[h].old # None => dog[h].old <= used.gens)'
      BY <2>1, Links DEF Owns
    <2>6. (\A h \in Handles : dog[h].old # None => gen[dog[h].old].handle = h)'
      BY <2>1, Links DEF Owns
    <2>7. (\A h \in Handles : dog[h].at = "join" => gen[dog[h].old].fd = "closed")'
      BY <2>1, Links DEF Owns
    <2>8. (\A h \in Handles :
            dog[h].at \in {"close", "join", "spawn", "store"} => handle[h].inner = None)'
      BY <2>1 DEF Owns
    <2> QED BY <2>2, <2>3, <2>4, <2>5, <2>6, <2>7, <2>8 DEF Owns
  <1>24. CASE Exit
    BY ExitDoes, <1>24
  <1>26. ASSUME NEW g \in Generations, Overflow(g) \/ SweepEnds(g) PROVE Owns'
    <2>1. /\ \A x \in Handles : handle'[x].stop <=> handle[x].stop
          /\ \A x \in Handles : handle'[x].inner = handle[x].inner
          /\ \A x \in Handles : handle'[x].lock = handle[x].lock
          /\ UNCHANGED <<slot, slotLock, dog, gen, waits, caller, used, down>>
      BY WritesOverDoes, <1>26
    <2>2. (\A h \in Handles : handle[h].inner # None => handle[h].inner <= used.gens)'
      BY <2>1 DEF Owns
    <2>3. (\A h \in Handles : handle[h].inner # None => gen[handle[h].inner].handle = h)'
      BY <2>1 DEF Owns
    <2>4. (\A h \in Handles :
              dog[h].old # None <=> dog[h].at \in {"close", "join", "store"})'
      BY <2>1 DEF Owns
    <2>5. (\A h \in Handles : dog[h].old # None => dog[h].old <= used.gens)'
      BY <2>1 DEF Owns
    <2>6. (\A h \in Handles : dog[h].old # None => gen[dog[h].old].handle = h)'
      BY <2>1 DEF Owns
    <2>7. (\A h \in Handles : dog[h].at = "join" => gen[dog[h].old].fd = "closed")'
      BY <2>1 DEF Owns
    <2>8. (\A h \in Handles :
            dog[h].at \in {"close", "join", "spawn", "store"} => handle[h].inner = None)'
      BY <2>1 DEF Owns
    <2> QED BY <2>2, <2>3, <2>4, <2>5, <2>6, <2>7, <2>8 DEF Owns
  <1>25. CASE UNCHANGED vars
    BY <1>25 DEF vars, Owns
  <1> QED
    BY <1>1, <1>2, <1>3, <1>4, <1>5, <1>6, <1>7, <1>8, <1>9, <1>10, <1>11, <1>12,
       <1>13, <1>14, <1>15, <1>16, <1>17, <1>18, <1>19, <1>20, <1>21, <1>22, <1>23,
       <1>24, <1>25, <1>26 DEF Next, DogStep, CallerStep, StopStep

(* A watchdog ends for a reason.                                           *)
LEMMA EndsStay ==
    ASSUME Shapes, Started, Slots, Held, Locks, Joins, Owns, Ends, ~down',
           [Next]_vars
    PROVE  Ends'
  <1>0. \A x \in Handles : x \in muted /\ ~handle'[x].stop => x \in muted'
    BY MutedKept
  <1>1. CASE Exec
    <2>1. UNCHANGED <<handle, dog, caller>>
      BY ExecDoes, <1>1
    <2>2. (\A h \in Handles :
            dog[h].at = "ended" /\ ~handle[h].stop =>
               handle[h].note = "failed open" \/ h \in muted)'
      BY <1>0, <2>1 DEF Ends
    <2>3. (\A h \in Handles :
            dog[h].at = "ended" /\ ~handle[h].stop => handle[h].inner = None)'
      BY <2>1 DEF Ends
    <2>4. (\A h \in Handles : handle[h].note = "failed open" => dog[h].at = "ended")'
      BY <2>1 DEF Ends
    <2>5. (\A h \in Handles :
            \/ ~handle[h].stop
            \/ \E t \in Threads : caller[t].handle = h
            \/ dog[h].at = "ended")'
      BY <2>1 DEF Ends
    <2> QED BY <2>2, <2>3, <2>4, <2>5 DEF Ends
  <1>2. ASSUME NEW g \in Generations, Answer(g) PROVE Ends'
    <2>1. UNCHANGED <<handle, dog, caller>>
      BY AnswerDoes, <1>2
    <2>2. (\A h \in Handles :
            dog[h].at = "ended" /\ ~handle[h].stop =>
               handle[h].note = "failed open" \/ h \in muted)'
      BY <1>0, <2>1 DEF Ends
    <2>3. (\A h \in Handles :
            dog[h].at = "ended" /\ ~handle[h].stop => handle[h].inner = None)'
      BY <2>1 DEF Ends
    <2>4. (\A h \in Handles : handle[h].note = "failed open" => dog[h].at = "ended")'
      BY <2>1 DEF Ends
    <2>5. (\A h \in Handles :
            \/ ~handle[h].stop
            \/ \E t \in Threads : caller[t].handle = h
            \/ dog[h].at = "ended")'
      BY <2>1 DEF Ends
    <2> QED BY <2>2, <2>3, <2>4, <2>5 DEF Ends
  <1>3. ASSUME NEW g \in Generations, Stall(g) PROVE Ends'
    <2>1. UNCHANGED <<handle, dog, caller>>
      BY StallDoes, <1>3
    <2>2. (\A h \in Handles :
            dog[h].at = "ended" /\ ~handle[h].stop =>
               handle[h].note = "failed open" \/ h \in muted)'
      BY <1>0, <2>1 DEF Ends
    <2>3. (\A h \in Handles :
            dog[h].at = "ended" /\ ~handle[h].stop => handle[h].inner = None)'
      BY <2>1 DEF Ends
    <2>4. (\A h \in Handles : handle[h].note = "failed open" => dog[h].at = "ended")'
      BY <2>1 DEF Ends
    <2>5. (\A h \in Handles :
            \/ ~handle[h].stop
            \/ \E t \in Threads : caller[t].handle = h
            \/ dog[h].at = "ended")'
      BY <2>1 DEF Ends
    <2> QED BY <2>2, <2>3, <2>4, <2>5 DEF Ends
  <1>4. ASSUME NEW g \in Generations, Recover(g) PROVE Ends'
    <2>1. UNCHANGED <<handle, dog, caller>>
      BY RecoverDoes, <1>4
    <2>2. (\A h \in Handles :
            dog[h].at = "ended" /\ ~handle[h].stop =>
               handle[h].note = "failed open" \/ h \in muted)'
      BY <1>0, <2>1 DEF Ends
    <2>3. (\A h \in Handles :
            dog[h].at = "ended" /\ ~handle[h].stop => handle[h].inner = None)'
      BY <2>1 DEF Ends
    <2>4. (\A h \in Handles : handle[h].note = "failed open" => dog[h].at = "ended")'
      BY <2>1 DEF Ends
    <2>5. (\A h \in Handles :
            \/ ~handle[h].stop
            \/ \E t \in Threads : caller[t].handle = h
            \/ dog[h].at = "ended")'
      BY <2>1 DEF Ends
    <2> QED BY <2>2, <2>3, <2>4, <2>5 DEF Ends
  <1>5. ASSUME NEW g \in Generations, Leave(g) PROVE Ends'
    <2>1. UNCHANGED <<handle, dog, caller>>
      BY LeaveDoes, <1>5
    <2>2. (\A h \in Handles :
            dog[h].at = "ended" /\ ~handle[h].stop =>
               handle[h].note = "failed open" \/ h \in muted)'
      BY <1>0, <2>1 DEF Ends
    <2>3. (\A h \in Handles :
            dog[h].at = "ended" /\ ~handle[h].stop => handle[h].inner = None)'
      BY <2>1 DEF Ends
    <2>4. (\A h \in Handles : handle[h].note = "failed open" => dog[h].at = "ended")'
      BY <2>1 DEF Ends
    <2>5. (\A h \in Handles :
            \/ ~handle[h].stop
            \/ \E t \in Threads : caller[t].handle = h
            \/ dog[h].at = "ended")'
      BY <2>1 DEF Ends
    <2> QED BY <2>2, <2>3, <2>4, <2>5 DEF Ends
  <1>6. ASSUME NEW g \in Generations, WindUp(g) PROVE Ends'
    <2>1. UNCHANGED <<handle, dog, caller>>
      BY WindUpDoes, <1>6
    <2>2. (\A h \in Handles :
            dog[h].at = "ended" /\ ~handle[h].stop =>
               handle[h].note = "failed open" \/ h \in muted)'
      BY <1>0, <2>1 DEF Ends
    <2>3. (\A h \in Handles :
            dog[h].at = "ended" /\ ~handle[h].stop => handle[h].inner = None)'
      BY <2>1 DEF Ends
    <2>4. (\A h \in Handles : handle[h].note = "failed open" => dog[h].at = "ended")'
      BY <2>1 DEF Ends
    <2>5. (\A h \in Handles :
            \/ ~handle[h].stop
            \/ \E t \in Threads : caller[t].handle = h
            \/ dog[h].at = "ended")'
      BY <2>1 DEF Ends
    <2> QED BY <2>2, <2>3, <2>4, <2>5 DEF Ends
  <1>7. ASSUME NEW h \in Handles, DogWakes(h) PROVE Ends'
    <2>1. /\ dog[h].at = "sleep"
          /\ \A x \in Handles : x # h => dog'[x].at = dog[x].at
          /\ dog'[h].at = IF handle[h].stop THEN "ended" ELSE "check"
          /\ UNCHANGED <<handle, caller>>
      BY DogWakesDoes, <1>7
    <2>2. (\A k \in Handles :
            dog[k].at = "ended" /\ ~handle[k].stop =>
               handle[k].note = "failed open" \/ k \in muted)'
      BY <1>0, <2>1 DEF Ends
    <2>3. (\A k \in Handles :
            dog[k].at = "ended" /\ ~handle[k].stop => handle[k].inner = None)'
      BY <2>1 DEF Ends
    <2>4. (\A k \in Handles : handle[k].note = "failed open" => dog[k].at = "ended")'
      BY <2>1 DEF Ends
    <2>5. (\A k \in Handles :
            \/ ~handle[k].stop
            \/ \E t \in Threads : caller[t].handle = k
            \/ dog[k].at = "ended")'
      BY <2>1 DEF Ends
    <2> QED BY <2>2, <2>3, <2>4, <2>5 DEF Ends
  <1>8. ASSUME NEW h \in Handles, DogSeesHealthy(h) PROVE Ends'
    <2>1. /\ dog[h].at = "check"
          /\ handle[h].lock = None
          /\ \A x \in Handles : handle'[x].stop <=> handle[x].stop
          /\ \A x \in Handles : handle'[x].inner = handle[x].inner
          /\ \A x \in Handles : x # h => handle'[x].note = handle[x].note
          /\ handle'[h].note \in {handle[h].note, "none"}
          /\ handle'[h].note # handle[h].note => handle[h].note = "restarted"
          /\ \A x \in Handles : x # h => dog'[x].at = dog[x].at
          /\ dog'[h].at = "sleep"
          /\ UNCHANGED caller
      BY DogSeesHealthyDoes, <1>8
    <2>2. (\A k \in Handles :
            dog[k].at = "ended" /\ ~handle[k].stop =>
               handle[k].note = "failed open" \/ k \in muted)'
      BY <1>0, <2>1 DEF Ends
    <2>3. (\A k \in Handles :
            dog[k].at = "ended" /\ ~handle[k].stop => handle[k].inner = None)'
      BY <2>1 DEF Ends
    <2>4. (\A k \in Handles : handle[k].note = "failed open" => dog[k].at = "ended")'
      BY ZenonT(30), <2>1 DEF Ends
    <2>5. (\A k \in Handles :
            \/ ~handle[k].stop
            \/ \E t \in Threads : caller[t].handle = k
            \/ dog[k].at = "ended")'
      BY <2>1 DEF Ends
    <2> QED BY <2>2, <2>3, <2>4, <2>5 DEF Ends
  <1>9. ASSUME NEW h \in Handles, DogSeesStall(h) PROVE Ends'
    <2>1. /\ dog[h].at = "check"
          /\ handle[h].lock = None
          /\ handle[h].inner # None
          /\ \A x \in Handles : x # h => dog'[x].at = dog[x].at
          /\ dog'[h].at = IF dog[h].restarts < MAX_RESTARTS THEN "take" ELSE "fail"
          /\ UNCHANGED <<handle, caller>>
      BY DogSeesStallDoes, <1>9
    <2>2. (\A k \in Handles :
            dog[k].at = "ended" /\ ~handle[k].stop =>
               handle[k].note = "failed open" \/ k \in muted)'
      BY <1>0, <2>1 DEF Ends
    <2>3. (\A k \in Handles :
            dog[k].at = "ended" /\ ~handle[k].stop => handle[k].inner = None)'
      BY <2>1 DEF Ends
    <2>4. (\A k \in Handles : handle[k].note = "failed open" => dog[k].at = "ended")'
      BY <2>1 DEF Ends
    <2>5. (\A k \in Handles :
            \/ ~handle[k].stop
            \/ \E t \in Threads : caller[t].handle = k
            \/ dog[k].at = "ended")'
      BY <2>1 DEF Ends
    <2> QED BY <2>2, <2>3, <2>4, <2>5 DEF Ends
  <1>10. ASSUME NEW h \in Handles, DogGivesUp(h) PROVE Ends'
    <2>1. /\ dog[h].at = "fail"
          /\ handle[h].lock = None
          /\ \A x \in Handles : handle'[x].stop <=> handle[x].stop
          /\ \A x \in Handles : x # h => handle'[x].inner = handle[x].inner
          /\ handle'[h].inner = None
          /\ \A x \in Handles : x # h => handle'[x].note = handle[x].note
          /\ handle'[h].note \in {handle[h].note, "failed open"}
          /\ ~handle[h].stop => handle'[h].note = "failed open"
          /\ \A x \in Handles : x # h => dog'[x].at = dog[x].at
          /\ dog'[h].at = "ended"
          /\ UNCHANGED caller
      BY DogGivesUpDoes, <1>10
    <2>2. (\A k \in Handles :
            dog[k].at = "ended" /\ ~handle[k].stop =>
               handle[k].note = "failed open" \/ k \in muted)'
      BY <1>0, <2>1 DEF Ends
    <2>3. (\A k \in Handles :
            dog[k].at = "ended" /\ ~handle[k].stop => handle[k].inner = None)'
      BY <2>1 DEF Ends
    <2>4. (\A k \in Handles : handle[k].note = "failed open" => dog[k].at = "ended")'
      BY <2>1 DEF Ends
    <2>5. (\A k \in Handles :
            \/ ~handle[k].stop
            \/ \E t \in Threads : caller[t].handle = k
            \/ dog[k].at = "ended")'
      BY <2>1 DEF Ends
    <2> QED BY <2>2, <2>3, <2>4, <2>5 DEF Ends
  <1>11. ASSUME NEW h \in Handles, DogTakes(h) PROVE Ends'
    <2>1. /\ dog[h].at = "take"
          /\ handle[h].lock = None
          /\ \A x \in Handles : handle'[x].stop <=> handle[x].stop
          /\ \A x \in Handles : x # h => handle'[x].inner = handle[x].inner
          /\ handle'[h].inner = None
          /\ \A x \in Handles : handle'[x].note = handle[x].note
          /\ \A x \in Handles : x # h => dog'[x].at = dog[x].at
          /\ dog'[h].at = IF handle[h].inner = None THEN "spawn" ELSE "close"
          /\ UNCHANGED caller
      BY DogTakesDoes, <1>11
    <2>2. (\A k \in Handles :
            dog[k].at = "ended" /\ ~handle[k].stop =>
               handle[k].note = "failed open" \/ k \in muted)'
      BY <1>0, <2>1 DEF Ends
    <2>3. (\A k \in Handles :
            dog[k].at = "ended" /\ ~handle[k].stop => handle[k].inner = None)'
      BY ZenonT(30), <2>1 DEF Ends
    <2>4. (\A k \in Handles : handle[k].note = "failed open" => dog[k].at = "ended")'
      BY ZenonT(30), <2>1 DEF Ends
    <2>5. (\A k \in Handles :
            \/ ~handle[k].stop
            \/ \E t \in Threads : caller[t].handle = k
            \/ dog[k].at = "ended")'
      BY <2>1 DEF Ends
    <2> QED BY <2>2, <2>3, <2>4, <2>5 DEF Ends
  <1>12. ASSUME NEW h \in Handles, DogCloses(h) PROVE Ends'
    <2>1. /\ dog[h].at = "close"
          /\ dog[h].old \in Generations
          /\ \A x \in Handles : x # h => dog'[x].at = dog[x].at
          /\ dog'[h].at = "join"
          /\ UNCHANGED <<handle, caller>>
      BY DogClosesDoes, <1>12
    <2>2. (\A k \in Handles :
            dog[k].at = "ended" /\ ~handle[k].stop =>
               handle[k].note = "failed open" \/ k \in muted)'
      BY <1>0, <2>1 DEF Ends
    <2>3. (\A k \in Handles :
            dog[k].at = "ended" /\ ~handle[k].stop => handle[k].inner = None)'
      BY <2>1 DEF Ends
    <2>4. (\A k \in Handles : handle[k].note = "failed open" => dog[k].at = "ended")'
      BY <2>1 DEF Ends
    <2>5. (\A k \in Handles :
            \/ ~handle[k].stop
            \/ \E t \in Threads : caller[t].handle = k
            \/ dog[k].at = "ended")'
      BY <2>1 DEF Ends
    <2> QED BY <2>2, <2>3, <2>4, <2>5 DEF Ends
  <1>13. ASSUME NEW h \in Handles, DogJoins(h) PROVE Ends'
    <2>1. /\ dog[h].at = "join"
          /\ gen[dog[h].old].intake = "ended"
          /\ \A x \in Handles : x # h => dog'[x].at = dog[x].at
          /\ dog'[h].at = "spawn"
          /\ UNCHANGED <<handle, caller>>
      BY DogJoinsDoes, <1>13
    <2>2. (\A k \in Handles :
            dog[k].at = "ended" /\ ~handle[k].stop =>
               handle[k].note = "failed open" \/ k \in muted)'
      BY <1>0, <2>1 DEF Ends
    <2>3. (\A k \in Handles :
            dog[k].at = "ended" /\ ~handle[k].stop => handle[k].inner = None)'
      BY <2>1 DEF Ends
    <2>4. (\A k \in Handles : handle[k].note = "failed open" => dog[k].at = "ended")'
      BY <2>1 DEF Ends
    <2>5. (\A k \in Handles :
            \/ ~handle[k].stop
            \/ \E t \in Threads : caller[t].handle = k
            \/ dog[k].at = "ended")'
      BY <2>1 DEF Ends
    <2> QED BY <2>2, <2>3, <2>4, <2>5 DEF Ends
  <1>14. ASSUME NEW h \in Handles, DogSpawns(h) PROVE Ends'
    <2>1. /\ dog[h].at = "spawn"
          /\ used.gens + 1 \in Generations
          /\ \A x \in Handles : x # h => dog'[x].at = dog[x].at
          /\ dog'[h].at = "store"
          /\ UNCHANGED <<handle, caller>>
      BY DogSpawnsDoes, <1>14
    <2>2. (\A k \in Handles :
            dog[k].at = "ended" /\ ~handle[k].stop =>
               handle[k].note = "failed open" \/ k \in muted)'
      BY <1>0, <2>1 DEF Ends
    <2>3. (\A k \in Handles :
            dog[k].at = "ended" /\ ~handle[k].stop => handle[k].inner = None)'
      BY <2>1 DEF Ends
    <2>4. (\A k \in Handles : handle[k].note = "failed open" => dog[k].at = "ended")'
      BY <2>1 DEF Ends
    <2>5. (\A k \in Handles :
            \/ ~handle[k].stop
            \/ \E t \in Threads : caller[t].handle = k
            \/ dog[k].at = "ended")'
      BY <2>1 DEF Ends
    <2> QED BY <2>2, <2>3, <2>4, <2>5 DEF Ends
  <1>15. ASSUME NEW h \in Handles, DogCannotSpawn(h) PROVE Ends'
    <2>1. /\ dog[h].at = "spawn"
          /\ \A x \in Handles : handle'[x].stop <=> handle[x].stop
          /\ \A x \in Handles : handle'[x].inner = handle[x].inner
          /\ \A x \in Handles : x # h => handle'[x].note = handle[x].note
          /\ handle'[h].note \in {handle[h].note, "failed open"}
          /\ ~handle[h].stop => handle'[h].note = "failed open"
          /\ \A x \in Handles : x # h => dog'[x].at = dog[x].at
          /\ dog'[h].at = "ended"
          /\ UNCHANGED caller
      BY DogCannotSpawnDoes, <1>15
    <2>2. (\A k \in Handles :
            dog[k].at = "ended" /\ ~handle[k].stop =>
               handle[k].note = "failed open" \/ k \in muted)'
      BY <1>0, <2>1 DEF Ends
    <2>3. (\A k \in Handles :
            dog[k].at = "ended" /\ ~handle[k].stop => handle[k].inner = None)'
      <3>1. handle[h].inner = None
        BY <2>1 DEF Owns
      <3> QED BY <2>1, <3>1 DEF Ends
    <2>4. (\A k \in Handles : handle[k].note = "failed open" => dog[k].at = "ended")'
      BY <2>1 DEF Ends
    <2>5. (\A k \in Handles :
            \/ ~handle[k].stop
            \/ \E t \in Threads : caller[t].handle = k
            \/ dog[k].at = "ended")'
      BY <2>1 DEF Ends
    <2> QED BY <2>2, <2>3, <2>4, <2>5 DEF Ends
  <1>16. ASSUME NEW h \in Handles, DogStores(h) PROVE Ends'
    <2>1. /\ dog[h].at = "store"
          /\ handle[h].lock = None
          /\ \A x \in Handles : handle'[x].stop <=> handle[x].stop
          /\ \A x \in Handles : x # h => handle'[x].inner = handle[x].inner
          /\ handle'[h].inner = dog[h].old
          /\ \A x \in Handles : x # h => handle'[x].note = handle[x].note
          /\ handle'[h].note \in {handle[h].note, "restarted"}
          /\ ~handle[h].stop => handle'[h].note = "restarted"
          /\ \A x \in Handles : x # h => dog'[x].at = dog[x].at
          /\ dog'[h].at = "sleep"
          /\ UNCHANGED caller
      BY DogStoresDoes, <1>16
    <2>2. (\A k \in Handles :
            dog[k].at = "ended" /\ ~handle[k].stop =>
               handle[k].note = "failed open" \/ k \in muted)'
      BY <1>0, <2>1 DEF Ends
    <2>3. (\A k \in Handles :
            dog[k].at = "ended" /\ ~handle[k].stop => handle[k].inner = None)'
      BY <2>1 DEF Ends
    <2>4. (\A k \in Handles : handle[k].note = "failed open" => dog[k].at = "ended")'
      BY ZenonT(30), <2>1 DEF Ends
    <2>5. (\A k \in Handles :
            \/ ~handle[k].stop
            \/ \E t \in Threads : caller[t].handle = k
            \/ dog[k].at = "ended")'
      BY <2>1 DEF Ends
    <2> QED BY <2>2, <2>3, <2>4, <2>5 DEF Ends
  <1>17. ASSUME NEW t \in Threads, TakeHandle(t) PROVE Ends'
    <2>1. /\ caller[t].at = "idle"
          /\ slotLock = None
          /\ \A x \in Handles : handle'[x].stop <=> (handle[x].stop \/ x = slot)
          /\ \A x \in Handles : handle'[x].inner = handle[x].inner
          /\ \A x \in Handles : handle'[x].note = IF x = slot THEN "none" ELSE handle[x].note
          /\ \A x \in Threads : x # t => caller'[x].at = caller[x].at
          /\ caller'[t].at = IF slot = None THEN "start" ELSE "take"
          /\ \A x \in Threads : x # t => caller'[x].handle = caller[x].handle
          /\ caller'[t].handle = slot
          /\ UNCHANGED dog
      BY TakeHandleDoes, <1>17
    <2>2. (\A h \in Handles :
            dog[h].at = "ended" /\ ~handle[h].stop =>
               handle[h].note = "failed open" \/ h \in muted)'
      BY <1>0, <2>1 DEF Ends
    <2>3. (\A h \in Handles :
            dog[h].at = "ended" /\ ~handle[h].stop => handle[h].inner = None)'
      BY <2>1 DEF Ends
    <2>4. (\A h \in Handles : handle[h].note = "failed open" => dog[h].at = "ended")'
      BY <2>1 DEF Ends
    <2>5. (\A h \in Handles :
            \/ ~handle[h].stop
            \/ \E w \in Threads : caller[w].handle = h
            \/ dog[h].at = "ended")'
      <3> SUFFICES ASSUME NEW x \in Handles
                   PROVE  \/ ~handle'[x].stop
                          \/ \E u \in Threads : caller'[u].handle = x
                          \/ dog'[x].at = "ended"
        OBVIOUS
      <3>1. CASE x = slot
        BY <2>1, <3>1
      <3>2. CASE x # slot
        <4>1. \/ ~handle[x].stop
              \/ \E u \in Threads : caller[u].handle = x
              \/ dog[x].at = "ended"
          BY DEF Ends
        <4>2. CASE ~handle[x].stop
          BY <2>1, <3>2, <4>2
        <4>3. CASE \E u \in Threads : caller[u].handle = x
          <5>1. PICK u \in Threads : caller[u].handle = x
            BY <4>3
          <5>2. u # t
            BY <5>1, <2>1, <3>2, Numbers DEF Held, Stops
          <5> QED BY <2>1, <5>1, <5>2
        <4>4. CASE dog[x].at = "ended"
          BY <2>1, <3>2, <4>4
        <4> QED BY <4>1, <4>2, <4>3, <4>4
      <3> QED BY <3>1, <3>2
    <2> QED BY <2>2, <2>3, <2>4, <2>5 DEF Ends
  <1>18. ASSUME NEW t \in Threads, TakeInner(t) PROVE Ends'
    <2>1. /\ caller[t].at = "take"
          /\ caller[t].handle \in Handles
          /\ handle[caller[t].handle].lock = None
          /\ \A x \in Handles : handle'[x].stop <=> handle[x].stop
          /\ \A x \in Handles : x # caller[t].handle => handle'[x].inner = handle[x].inner
          /\ handle'[caller[t].handle].inner = None
          /\ \A x \in Handles : handle'[x].note = handle[x].note
          /\ \A x \in Threads : x # t => caller'[x].at = caller[x].at
          /\ handle[caller[t].handle].inner = None => caller'[t].at = "join dog"
          /\ handle[caller[t].handle].inner # None => caller'[t].at = "close"
          /\ \A x \in Threads : caller'[x].handle = caller[x].handle
          /\ UNCHANGED dog
      <3>1. /\ caller[t].at = "take"
        BY TakeInnerDoes, <1>18
      <3>2. /\ caller[t].handle \in Handles
        BY TakeInnerDoes, <1>18
      <3>3. /\ handle[caller[t].handle].lock = None
        BY TakeInnerDoes, <1>18
      <3>4. /\ \A x \in Handles : handle'[x].stop <=> handle[x].stop
        BY TakeInnerDoes, <1>18
      <3>5. \A x \in Handles : x # caller[t].handle => handle'[x].inner = handle[x].inner
        <4>1. \A x \in Handles : x # caller[t].handle => handle'[x] = handle[x]
          BY TakeInnerDoes, <1>18
        <4> QED BY <4>1
      <3>6. /\ handle'[caller[t].handle].inner = None
        BY TakeInnerDoes, <1>18
      <3>7. /\ \A x \in Handles : handle'[x].note = handle[x].note
        BY TakeInnerDoes, <1>18
      <3>8. \A x \in Threads : x # t => caller'[x].at = caller[x].at
        <4>1. \A x \in Threads : x # t => caller'[x] = caller[x]
          BY TakeInnerDoes, <1>18
        <4> QED BY <4>1
      <3>9. /\ handle[caller[t].handle].inner = None => caller'[t].at = "join dog"
        BY TakeInnerDoes, <1>18
      <3>10. /\ handle[caller[t].handle].inner # None => caller'[t].at = "close"
        BY TakeInnerDoes, <1>18
      <3>11. /\ \A x \in Threads : caller'[x].handle = caller[x].handle
        BY TakeInnerDoes, <1>18
      <3>12. /\ UNCHANGED dog
        BY TakeInnerDoes, <1>18
      <3> QED BY <3>1, <3>2, <3>3, <3>4, <3>5, <3>6, <3>7, <3>8, <3>9, <3>10, <3>11, <3>12
    <2>2. (\A h \in Handles :
            dog[h].at = "ended" /\ ~handle[h].stop =>
               handle[h].note = "failed open" \/ h \in muted)'
      BY <1>0, <2>1 DEF Ends
    <2>3. (\A h \in Handles :
            dog[h].at = "ended" /\ ~handle[h].stop => handle[h].inner = None)'
      BY <2>1 DEF Ends
    <2>4. (\A h \in Handles : handle[h].note = "failed open" => dog[h].at = "ended")'
      BY <2>1 DEF Ends
    <2>5. (\A h \in Handles :
            \/ ~handle[h].stop
            \/ \E w \in Threads : caller[w].handle = h
            \/ dog[h].at = "ended")'
      <3> SUFFICES ASSUME NEW x \in Handles
                   PROVE  \/ ~handle'[x].stop
                          \/ \E u \in Threads : caller'[u].handle = x
                          \/ dog'[x].at = "ended"
        OBVIOUS
      <3>2. CASE TRUE
        <4>1. \/ ~handle[x].stop
              \/ \E u \in Threads : caller[u].handle = x
              \/ dog[x].at = "ended"
          BY DEF Ends
        <4>2. CASE ~handle[x].stop
          BY <2>1, <3>2, <4>2
        <4>3. CASE \E u \in Threads : caller[u].handle = x
          <5>1. PICK u \in Threads : caller[u].handle = x
            BY <4>3
          <5> QED BY <2>1, <5>1
        <4>4. CASE dog[x].at = "ended"
          BY <2>1, <3>2, <4>4
        <4> QED BY <4>1, <4>2, <4>3, <4>4
      <3> QED BY <3>2
    <2> QED BY <2>2, <2>3, <2>4, <2>5 DEF Ends
  <1>19. ASSUME NEW t \in Threads, StopCloses(t) PROVE Ends'
    <2>1. /\ caller[t].at = "close"
          /\ caller[t].old \in Generations
          /\ \A x \in Threads : x # t => caller'[x].at = caller[x].at
          /\ caller'[t].at = "join"
          /\ \A x \in Threads : caller'[x].handle = caller[x].handle
          /\ UNCHANGED <<handle, dog>>
      BY StopClosesDoes, <1>19
    <2>2. (\A h \in Handles :
            dog[h].at = "ended" /\ ~handle[h].stop =>
               handle[h].note = "failed open" \/ h \in muted)'
      BY <1>0, <2>1 DEF Ends
    <2>3. (\A h \in Handles :
            dog[h].at = "ended" /\ ~handle[h].stop => handle[h].inner = None)'
      BY <2>1 DEF Ends
    <2>4. (\A h \in Handles : handle[h].note = "failed open" => dog[h].at = "ended")'
      BY <2>1 DEF Ends
    <2>5. (\A h \in Handles :
            \/ ~handle[h].stop
            \/ \E w \in Threads : caller[w].handle = h
            \/ dog[h].at = "ended")'
      BY <2>1 DEF Ends
    <2> QED BY <2>2, <2>3, <2>4, <2>5 DEF Ends
  <1>20. ASSUME NEW t \in Threads, StopJoins(t) PROVE Ends'
    <2>1. /\ caller[t].at = "join"
          /\ caller[t].handle \in Handles
          /\ gen[caller[t].old].intake = "ended"
          /\ \A x \in Handles : handle'[x].stop <=> handle[x].stop
          /\ \A x \in Handles : handle'[x].inner = handle[x].inner
          /\ \A x \in Handles : handle'[x].note = handle[x].note
          /\ \A x \in Threads : x # t => caller'[x].at = caller[x].at
          /\ caller'[t].at = "join dog"
          /\ \A x \in Threads : caller'[x].handle = caller[x].handle
          /\ UNCHANGED dog
      BY StopJoinsDoes, <1>20
    <2>2. (\A h \in Handles :
            dog[h].at = "ended" /\ ~handle[h].stop =>
               handle[h].note = "failed open" \/ h \in muted)'
      BY <1>0, <2>1 DEF Ends
    <2>3. (\A h \in Handles :
            dog[h].at = "ended" /\ ~handle[h].stop => handle[h].inner = None)'
      BY <2>1 DEF Ends
    <2>4. (\A h \in Handles : handle[h].note = "failed open" => dog[h].at = "ended")'
      BY <2>1 DEF Ends
    <2>5. (\A h \in Handles :
            \/ ~handle[h].stop
            \/ \E w \in Threads : caller[w].handle = h
            \/ dog[h].at = "ended")'
      BY <2>1 DEF Ends
    <2> QED BY <2>2, <2>3, <2>4, <2>5 DEF Ends
  <1>21. ASSUME NEW t \in Threads, StopJoinsDog(t) PROVE Ends'
    <2>1. /\ caller[t].at = "join dog"
          /\ caller[t].handle \in Handles
          /\ dog[caller[t].handle].at = "ended"
          /\ \A x \in Threads : x # t => caller'[x].at = caller[x].at
          /\ caller'[t].at = "start"
          /\ \A x \in Threads : x # t => caller'[x].handle = caller[x].handle
          /\ caller'[t].handle = None
          /\ UNCHANGED <<handle, dog>>
      BY StopJoinsDogDoes, <1>21
    <2>2. (\A h \in Handles :
            dog[h].at = "ended" /\ ~handle[h].stop =>
               handle[h].note = "failed open" \/ h \in muted)'
      BY <1>0, <2>1 DEF Ends
    <2>3. (\A h \in Handles :
            dog[h].at = "ended" /\ ~handle[h].stop => handle[h].inner = None)'
      BY <2>1 DEF Ends
    <2>4. (\A h \in Handles : handle[h].note = "failed open" => dog[h].at = "ended")'
      BY <2>1 DEF Ends
    <2>5. (\A h \in Handles :
            \/ ~handle[h].stop
            \/ \E w \in Threads : caller[w].handle = h
            \/ dog[h].at = "ended")'
      <3> SUFFICES ASSUME NEW x \in Handles
                   PROVE  \/ ~handle'[x].stop
                          \/ \E u \in Threads : caller'[u].handle = x
                          \/ dog'[x].at = "ended"
        OBVIOUS
      <3>1. CASE x = caller[t].handle
        BY <2>1, <3>1
      <3>2. CASE x # caller[t].handle
        <4>1. \/ ~handle[x].stop
              \/ \E u \in Threads : caller[u].handle = x
              \/ dog[x].at = "ended"
          BY DEF Ends
        <4>2. CASE ~handle[x].stop
          BY <2>1, <3>2, <4>2
        <4>3. CASE \E u \in Threads : caller[u].handle = x
          <5>1. PICK u \in Threads : caller[u].handle = x
            BY <4>3
          <5>2. u # t
            BY <5>1, <2>1, <3>2, Numbers DEF Held, Stops
          <5> QED BY <2>1, <5>1, <5>2
        <4>4. CASE dog[x].at = "ended"
          BY <2>1, <3>2, <4>4
        <4> QED BY <4>1, <4>2, <4>3, <4>4
      <3> QED BY <3>1, <3>2
    <2> QED BY <2>2, <2>3, <2>4, <2>5 DEF Ends
  <1>22. ASSUME NEW t \in Threads, Start(t) PROVE Ends'
    <2>1. /\ caller[t].at = "start"
          /\ t \in Callers
          /\ used.gens + 1 \in Generations
          /\ used.handles + 1 \in Handles
          /\ \A x \in Handles : handle'[x].stop <=> handle[x].stop
          /\ \A x \in Handles : x # used.handles + 1 => handle'[x].inner = handle[x].inner
          /\ handle'[used.handles + 1].inner = used.gens + 1
          /\ \A x \in Handles : handle'[x].note = handle[x].note
          /\ \A x \in Handles : x # used.handles + 1 => dog'[x].at = dog[x].at
          /\ dog'[used.handles + 1].at = "sleep"
          /\ \A x \in Threads : x # t => caller'[x].at = caller[x].at
          /\ caller'[t].at = "idle"
          /\ \A x \in Threads : x # t => caller'[x].handle = caller[x].handle
          /\ caller'[t].handle = None
      BY StartDoes, <1>22
    <2>2. (\A h \in Handles :
            dog[h].at = "ended" /\ ~handle[h].stop =>
               handle[h].note = "failed open" \/ h \in muted)'
      BY <1>0, <2>1 DEF Ends
    <2>3. (\A h \in Handles :
            dog[h].at = "ended" /\ ~handle[h].stop => handle[h].inner = None)'
      BY <2>1 DEF Ends
    <2>4. (\A h \in Handles : handle[h].note = "failed open" => dog[h].at = "ended")'
      <3> SUFFICES ASSUME NEW x \in Handles, handle'[x].note = "failed open"
                   PROVE  dog'[x].at = "ended"
        OBVIOUS
      <3>1. handle[x].note = "failed open"
        BY <2>1
      <3>2. dog[x].at = "ended"
        BY <3>1 DEF Ends
      <3>3. dog[used.handles + 1].at = "none"
        BY <2>1, Older DEF Started
      <3> QED BY <2>1, <3>2, <3>3
    <2>5. (\A h \in Handles :
            \/ ~handle[h].stop
            \/ \E w \in Threads : caller[w].handle = h
            \/ dog[h].at = "ended")'
      <3> SUFFICES ASSUME NEW x \in Handles
                   PROVE  \/ ~handle'[x].stop
                          \/ \E u \in Threads : caller'[u].handle = x
                          \/ dog'[x].at = "ended"
        OBVIOUS
      <3>1. CASE x = used.handles + 1
        <4>1. ~handle[x].stop
          BY <3>1, Older DEF Started
        <4> QED BY <2>1, <4>1
      <3>2. CASE x # used.handles + 1
        <4>1. \/ ~handle[x].stop
              \/ \E u \in Threads : caller[u].handle = x
              \/ dog[x].at = "ended"
          BY DEF Ends
        <4>2. CASE ~handle[x].stop
          BY <2>1, <3>2, <4>2
        <4>3. CASE \E u \in Threads : caller[u].handle = x
          <5>1. PICK u \in Threads : caller[u].handle = x
            BY <4>3
          <5>2. u # t
            BY <5>1, <2>1, <3>2, Numbers DEF Held, Stops
          <5> QED BY <2>1, <5>1, <5>2
        <4>4. CASE dog[x].at = "ended"
          BY <2>1, <3>2, <4>4
        <4> QED BY <4>1, <4>2, <4>3, <4>4
      <3> QED BY <3>1, <3>2
    <2> QED BY <2>2, <2>3, <2>4, <2>5 DEF Ends
  <1>23. ASSUME NEW t \in Threads, NoStart(t) PROVE Ends'
    <2>1. /\ caller[t].at = "start"
          /\ t \in Callers
          /\ \A x \in Threads : x # t => caller'[x].at = caller[x].at
          /\ caller'[t].at = "idle"
          /\ \A x \in Threads : x # t => caller'[x].handle = caller[x].handle
          /\ caller'[t].handle = None
          /\ UNCHANGED <<handle, dog>>
      BY NoStartDoes, <1>23
    <2>2. (\A h \in Handles :
            dog[h].at = "ended" /\ ~handle[h].stop =>
               handle[h].note = "failed open" \/ h \in muted)'
      BY <1>0, <2>1 DEF Ends
    <2>3. (\A h \in Handles :
            dog[h].at = "ended" /\ ~handle[h].stop => handle[h].inner = None)'
      BY <2>1 DEF Ends
    <2>4. (\A h \in Handles : handle[h].note = "failed open" => dog[h].at = "ended")'
      BY <2>1 DEF Ends
    <2>5. (\A h \in Handles :
            \/ ~handle[h].stop
            \/ \E w \in Threads : caller[w].handle = h
            \/ dog[h].at = "ended")'
      <3> SUFFICES ASSUME NEW x \in Handles
                   PROVE  \/ ~handle'[x].stop
                          \/ \E u \in Threads : caller'[u].handle = x
                          \/ dog'[x].at = "ended"
        OBVIOUS
      <3>2. CASE TRUE
        <4>1. \/ ~handle[x].stop
              \/ \E u \in Threads : caller[u].handle = x
              \/ dog[x].at = "ended"
          BY DEF Ends
        <4>2. CASE ~handle[x].stop
          BY <2>1, <3>2, <4>2
        <4>3. CASE \E u \in Threads : caller[u].handle = x
          <5>1. PICK u \in Threads : caller[u].handle = x
            BY <4>3
          <5>2. u # t
            BY <5>1, <2>1, <3>2, Numbers DEF Held, Stops
          <5> QED BY <2>1, <5>1, <5>2
        <4>4. CASE dog[x].at = "ended"
          BY <2>1, <3>2, <4>4
        <4> QED BY <4>1, <4>2, <4>3, <4>4
      <3> QED BY <3>2
    <2> QED BY <2>2, <2>3, <2>4, <2>5 DEF Ends
  <1>24. CASE Exit
    BY ExitDoes, <1>24
  <1>26. ASSUME NEW g \in Generations, Overflow(g) \/ SweepEnds(g) PROVE Ends'
    <2>0. /\ \A x \in Handles : x # gen[g].handle => handle'[x] = handle[x]
          /\ muted' = muted \cup {x \in {gen[g].handle} : handle[x].note = "failed open"}
      BY WritesOverDoes, <1>26
    <2>1. /\ \A x \in Handles : handle'[x].stop <=> handle[x].stop
          /\ \A x \in Handles : handle'[x].inner = handle[x].inner
          /\ \A x \in Handles : handle'[x].note \in {handle[x].note, "none", "overflow"}
          /\ \A x \in Handles : handle[x].note = "failed open" =>
                handle'[x].note = "failed open" \/ x \in muted'
          /\ UNCHANGED <<slot, slotLock, dog, gen, waits, caller, used, down>>
      BY <2>0, WritesOverDoes, <1>26
    <2>2. (\A h \in Handles :
            dog[h].at = "ended" /\ ~handle[h].stop =>
               handle[h].note = "failed open" \/ h \in muted)'
      BY <1>0, <2>1 DEF Ends
    <2>3. (\A h \in Handles :
            dog[h].at = "ended" /\ ~handle[h].stop => handle[h].inner = None)'
      BY <2>1 DEF Ends
    <2>4. (\A h \in Handles : handle[h].note = "failed open" => dog[h].at = "ended")'
      BY <2>1 DEF Ends
    <2>5. (\A h \in Handles :
            \/ ~handle[h].stop
            \/ \E t \in Threads : caller[t].handle = h
            \/ dog[h].at = "ended")'
      BY <2>1 DEF Ends
    <2> QED BY <2>2, <2>3, <2>4, <2>5 DEF Ends
  <1>25. CASE UNCHANGED vars
    BY <1>25 DEF vars, Ends
  <1> QED
    BY <1>1, <1>2, <1>3, <1>4, <1>5, <1>6, <1>7, <1>8, <1>9, <1>10, <1>11, <1>12,
       <1>13, <1>14, <1>15, <1>16, <1>17, <1>18, <1>19, <1>20, <1>21, <1>22, <1>23,
       <1>24, <1>25, <1>26 DEF Next, DogStep, CallerStep, StopStep

(* An intake that runs stays known.                                        *)
LEMMA FoundStays ==
    ASSUME Shapes, Started, Made, Held, Locks, Joins, Owns, Ends, Found, ~down',
           [Next]_vars
    PROVE  Found'
  <1>0. /\ \A h \in Handles : dog[h].at = "ended" => dog'[h].at = "ended"
        /\ \A h \in Handles :
              dog[h].restarts > MAX_RESTARTS => dog'[h].restarts > MAX_RESTARTS
    BY DogsGoOn DEF GoOn
  <1>1. CASE Exec
    <2>1. UNCHANGED <<handle, dog, gen, caller>>
      BY ExecDoes, <1>1
    <2> QED BY <2>1 DEF Found, Where, GivenUp, Alive
  <1>2. ASSUME NEW g \in Generations, Answer(g) PROVE Found'
    <2>1. UNCHANGED <<handle, dog, gen, caller>>
      BY AnswerDoes, <1>2
    <2> QED BY <2>1 DEF Found, Where, GivenUp, Alive
  <1>3. ASSUME NEW g \in Generations, Stall(g) PROVE Found'
    <2>1. /\ gen[g].intake = "reading"
          /\ \A x \in Generations : gen'[x].handle = gen[x].handle
          /\ \A x \in Generations : x # g => gen'[x].intake = gen[x].intake
          /\ gen'[g].intake \in {"stuck", "hung"}
          /\ UNCHANGED <<handle, dog, caller>>
      BY StallDoes, <1>3
    <2>2. SUFFICES ASSUME NEW x \in Generations, Alive(x)' PROVE Where(x)'
      BY DEF Found
    <2>3. Alive(x) /\ gen'[x].handle = gen[x].handle
      BY <2>1, <2>2 DEF Alive
    <2>4. Where(x)
      BY <2>3 DEF Found
    <2>5. gen[x].handle \in Handles /\ gen[x].handle <= used.handles
      BY <2>3, AliveHas
    <2>6. CASE handle[gen[x].handle].inner = x
      BY <2>1, <2>3, <2>5, <2>6 DEF Where
    <2>7. CASE dog[gen[x].handle].old = x
      BY <2>1, <2>3, <2>5, <2>7 DEF Where
    <2>8. CASE \E u \in Threads : caller[u].old = x /\ caller[u].at \in Joining
      <3>1. PICK u \in Threads : caller[u].old = x /\ caller[u].at \in Joining
        BY <2>8
      <3> QED BY <2>1, <2>3, <3>1 DEF Where
    <2>9. CASE GivenUp(x)
      BY <1>0, <2>1, <2>3, <2>5, <2>9 DEF Where, GivenUp
    <2> QED BY <2>4, <2>6, <2>7, <2>8, <2>9 DEF Where
  <1>4. ASSUME NEW g \in Generations, Recover(g) PROVE Found'
    <2>1. /\ gen[g].intake = "stuck"
          /\ \A x \in Generations : gen'[x].handle = gen[x].handle
          /\ \A x \in Generations : x # g => gen'[x].intake = gen[x].intake
          /\ gen'[g].intake = "reading"
          /\ UNCHANGED <<handle, dog, caller>>
      BY RecoverDoes, <1>4
    <2>2. SUFFICES ASSUME NEW x \in Generations, Alive(x)' PROVE Where(x)'
      BY DEF Found
    <2>3. Alive(x) /\ gen'[x].handle = gen[x].handle
      BY <2>1, <2>2 DEF Alive
    <2>4. Where(x)
      BY <2>3 DEF Found
    <2>5. gen[x].handle \in Handles /\ gen[x].handle <= used.handles
      BY <2>3, AliveHas
    <2>6. CASE handle[gen[x].handle].inner = x
      BY <2>1, <2>3, <2>5, <2>6 DEF Where
    <2>7. CASE dog[gen[x].handle].old = x
      BY <2>1, <2>3, <2>5, <2>7 DEF Where
    <2>8. CASE \E u \in Threads : caller[u].old = x /\ caller[u].at \in Joining
      <3>1. PICK u \in Threads : caller[u].old = x /\ caller[u].at \in Joining
        BY <2>8
      <3> QED BY <2>1, <2>3, <3>1 DEF Where
    <2>9. CASE GivenUp(x)
      BY <1>0, <2>1, <2>3, <2>5, <2>9 DEF Where, GivenUp
    <2> QED BY <2>4, <2>6, <2>7, <2>8, <2>9 DEF Where
  <1>5. ASSUME NEW g \in Generations, Leave(g) PROVE Found'
    <2>1. /\ gen[g].intake = "reading"
          /\ \A x \in Generations : gen'[x].handle = gen[x].handle
          /\ \A x \in Generations : x # g => gen'[x].intake = gen[x].intake
          /\ gen'[g].intake = "leaving"
          /\ UNCHANGED <<handle, dog, caller>>
      BY LeaveDoes, <1>5
    <2>2. SUFFICES ASSUME NEW x \in Generations, Alive(x)' PROVE Where(x)'
      BY DEF Found
    <2>3. Alive(x) /\ gen'[x].handle = gen[x].handle
      BY <2>1, <2>2 DEF Alive
    <2>4. Where(x)
      BY <2>3 DEF Found
    <2>5. gen[x].handle \in Handles /\ gen[x].handle <= used.handles
      BY <2>3, AliveHas
    <2>6. CASE handle[gen[x].handle].inner = x
      BY <2>1, <2>3, <2>5, <2>6 DEF Where
    <2>7. CASE dog[gen[x].handle].old = x
      BY <2>1, <2>3, <2>5, <2>7 DEF Where
    <2>8. CASE \E u \in Threads : caller[u].old = x /\ caller[u].at \in Joining
      <3>1. PICK u \in Threads : caller[u].old = x /\ caller[u].at \in Joining
        BY <2>8
      <3> QED BY <2>1, <2>3, <3>1 DEF Where
    <2>9. CASE GivenUp(x)
      BY <1>0, <2>1, <2>3, <2>5, <2>9 DEF Where, GivenUp
    <2> QED BY <2>4, <2>6, <2>7, <2>8, <2>9 DEF Where
  <1>6. ASSUME NEW g \in Generations, WindUp(g) PROVE Found'
    <2>1. /\ gen[g].intake = "leaving"
          /\ \A x \in Generations : gen'[x].handle = gen[x].handle
          /\ \A x \in Generations : x # g => gen'[x].intake = gen[x].intake
          /\ gen'[g].intake = "ended"
          /\ UNCHANGED <<handle, dog, caller>>
      BY WindUpDoes, <1>6
    <2>2. SUFFICES ASSUME NEW x \in Generations, Alive(x)' PROVE Where(x)'
      BY DEF Found
    <2>3. Alive(x) /\ gen'[x].handle = gen[x].handle
      BY <2>1, <2>2 DEF Alive
    <2>4. Where(x)
      BY <2>3 DEF Found
    <2>5. gen[x].handle \in Handles /\ gen[x].handle <= used.handles
      BY <2>3, AliveHas
    <2>6. CASE handle[gen[x].handle].inner = x
      BY <2>1, <2>3, <2>5, <2>6 DEF Where
    <2>7. CASE dog[gen[x].handle].old = x
      BY <2>1, <2>3, <2>5, <2>7 DEF Where
    <2>8. CASE \E u \in Threads : caller[u].old = x /\ caller[u].at \in Joining
      <3>1. PICK u \in Threads : caller[u].old = x /\ caller[u].at \in Joining
        BY <2>8
      <3> QED BY <2>1, <2>3, <3>1 DEF Where
    <2>9. CASE GivenUp(x)
      BY <1>0, <2>1, <2>3, <2>5, <2>9 DEF Where, GivenUp
    <2> QED BY <2>4, <2>6, <2>7, <2>8, <2>9 DEF Where
  <1>7. ASSUME NEW h \in Handles, DogWakes(h) PROVE Found'
    <2>1. /\ \A x \in Handles : dog'[x].old = dog[x].old
          /\ UNCHANGED <<handle, gen, caller>>
      BY DogWakesDoes, <1>7
    <2>2. SUFFICES ASSUME NEW x \in Generations, Alive(x)' PROVE Where(x)'
      BY DEF Found
    <2>3. Alive(x) /\ gen'[x].handle = gen[x].handle
      BY <2>1, <2>2 DEF Alive
    <2>4. Where(x)
      BY <2>3 DEF Found
    <2>5. gen[x].handle \in Handles /\ gen[x].handle <= used.handles
      BY <2>3, AliveHas
    <2>6. CASE handle[gen[x].handle].inner = x
      BY <2>1, <2>3, <2>5, <2>6 DEF Where
    <2>7. CASE dog[gen[x].handle].old = x
      BY <2>1, <2>3, <2>5, <2>7 DEF Where
    <2>8. CASE \E u \in Threads : caller[u].old = x /\ caller[u].at \in Joining
      <3>1. PICK u \in Threads : caller[u].old = x /\ caller[u].at \in Joining
        BY <2>8
      <3> QED BY <2>1, <2>3, <3>1 DEF Where
    <2>9. CASE GivenUp(x)
      BY <1>0, <2>1, <2>3, <2>5, <2>9 DEF Where, GivenUp
    <2> QED BY <2>4, <2>6, <2>7, <2>8, <2>9 DEF Where
  <1>8. ASSUME NEW h \in Handles, DogSeesHealthy(h) PROVE Found'
    <2>1. /\ dog[h].at = "check"
          /\ handle[h].lock = None
          /\ \A x \in Handles : handle'[x].inner = handle[x].inner
          /\ \A x \in Handles : x # h => handle'[x].note = handle[x].note
          /\ handle'[h].note \in {handle[h].note, "none"}
          /\ handle'[h].note # handle[h].note => handle[h].note = "restarted"
          /\ \A x \in Handles : dog'[x].old = dog[x].old
          /\ UNCHANGED <<gen, caller>>
      BY DogSeesHealthyDoes, <1>8
    <2>2. SUFFICES ASSUME NEW x \in Generations, Alive(x)' PROVE Where(x)'
      BY DEF Found
    <2>3. Alive(x) /\ gen'[x].handle = gen[x].handle
      BY <2>1, <2>2 DEF Alive
    <2>4. Where(x)
      BY <2>3 DEF Found
    <2>5. gen[x].handle \in Handles /\ gen[x].handle <= used.handles
      BY <2>3, AliveHas
    <2>6. CASE handle[gen[x].handle].inner = x
      BY <2>1, <2>3, <2>5, <2>6 DEF Where
    <2>7. CASE dog[gen[x].handle].old = x
      BY <2>1, <2>3, <2>5, <2>7 DEF Where
    <2>8. CASE \E u \in Threads : caller[u].old = x /\ caller[u].at \in Joining
      <3>1. PICK u \in Threads : caller[u].old = x /\ caller[u].at \in Joining
        BY <2>8
      <3> QED BY <2>1, <2>3, <3>1 DEF Where
    <2>9. CASE GivenUp(x)
      BY <1>0, <2>1, <2>3, <2>5, <2>9 DEF Where, GivenUp
    <2> QED BY <2>4, <2>6, <2>7, <2>8, <2>9 DEF Where
  <1>9. ASSUME NEW h \in Handles, DogSeesStall(h) PROVE Found'
    <2>1. /\ \A x \in Handles : dog'[x].old = dog[x].old
          /\ UNCHANGED <<handle, gen, caller>>
      BY DogSeesStallDoes, <1>9
    <2>2. SUFFICES ASSUME NEW x \in Generations, Alive(x)' PROVE Where(x)'
      BY DEF Found
    <2>3. Alive(x) /\ gen'[x].handle = gen[x].handle
      BY <2>1, <2>2 DEF Alive
    <2>4. Where(x)
      BY <2>3 DEF Found
    <2>5. gen[x].handle \in Handles /\ gen[x].handle <= used.handles
      BY <2>3, AliveHas
    <2>6. CASE handle[gen[x].handle].inner = x
      BY <2>1, <2>3, <2>5, <2>6 DEF Where
    <2>7. CASE dog[gen[x].handle].old = x
      BY <2>1, <2>3, <2>5, <2>7 DEF Where
    <2>8. CASE \E u \in Threads : caller[u].old = x /\ caller[u].at \in Joining
      <3>1. PICK u \in Threads : caller[u].old = x /\ caller[u].at \in Joining
        BY <2>8
      <3> QED BY <2>1, <2>3, <3>1 DEF Where
    <2>9. CASE GivenUp(x)
      BY <1>0, <2>1, <2>3, <2>5, <2>9 DEF Where, GivenUp
    <2> QED BY <2>4, <2>6, <2>7, <2>8, <2>9 DEF Where
  <1>10. ASSUME NEW h \in Handles, DogGivesUp(h) PROVE Found'
    <2>1. /\ dog[h].at = "fail"
          /\ handle[h].lock = None
          /\ \A x \in Handles : x # h => handle'[x].inner = handle[x].inner
          /\ handle'[h].inner = None
          /\ \A x \in Handles : x # h => handle'[x].note = handle[x].note
          /\ handle'[h].note \in {handle[h].note, "failed open"}
          /\ ~handle[h].stop => handle'[h].note = "failed open"
          /\ \A x \in Handles : dog'[x].old = dog[x].old
          /\ dog'[h].at = "ended" /\ dog'[h].restarts > MAX_RESTARTS
          /\ UNCHANGED <<gen, caller>>
      BY <1>0, DogGivesUpDoes, <1>10 DEF Started
    <2>2. SUFFICES ASSUME NEW x \in Generations, Alive(x)' PROVE Where(x)'
      BY DEF Found
    <2>3. Alive(x) /\ gen'[x].handle = gen[x].handle
      BY <2>1, <2>2 DEF Alive
    <2>4. Where(x)
      BY <2>3 DEF Found
    <2>5. gen[x].handle \in Handles /\ gen[x].handle <= used.handles
      BY <2>3, AliveHas
    <2>6. CASE handle[gen[x].handle].inner = x
      BY <2>1, <2>3, <2>5, <2>6, Numbers DEF Where, GivenUp
    <2>7. CASE dog[gen[x].handle].old = x
      BY <2>1, <2>3, <2>5, <2>7 DEF Where
    <2>8. CASE \E u \in Threads : caller[u].old = x /\ caller[u].at \in Joining
      <3>1. PICK u \in Threads : caller[u].old = x /\ caller[u].at \in Joining
        BY <2>8
      <3> QED BY <2>1, <2>3, <3>1 DEF Where
    <2>9. CASE GivenUp(x)
      BY <1>0, <2>1, <2>3, <2>5, <2>9, Numbers DEF Where, GivenUp
    <2> QED BY <2>4, <2>6, <2>7, <2>8, <2>9 DEF Where
  <1>11. ASSUME NEW h \in Handles, DogTakes(h) PROVE Found'
    <2>1. /\ dog[h].at = "take"
          /\ handle[h].lock = None
          /\ \A x \in Handles : x # h => handle'[x].inner = handle[x].inner
          /\ handle'[h].inner = None
          /\ \A x \in Handles : handle'[x].note = handle[x].note
          /\ \A x \in Handles : x # h => dog'[x].old = dog[x].old
          /\ dog'[h].old = handle[h].inner
          /\ UNCHANGED <<gen, caller>>
      BY DogTakesDoes, <1>11
    <2>2. SUFFICES ASSUME NEW x \in Generations, Alive(x)' PROVE Where(x)'
      BY DEF Found
    <2>3. Alive(x) /\ gen'[x].handle = gen[x].handle
      BY <2>1, <2>2 DEF Alive
    <2>4. Where(x)
      BY <2>3 DEF Found
    <2>5. gen[x].handle \in Handles /\ gen[x].handle <= used.handles
      BY <2>3, AliveHas
    <2>6. CASE handle[gen[x].handle].inner = x
      BY <2>1, <2>3, <2>5, <2>6 DEF Where
    <2>7. CASE dog[gen[x].handle].old = x
      BY <2>1, <2>3, <2>5, <2>7, Numbers DEF Where, Owns
    <2>8. CASE \E u \in Threads : caller[u].old = x /\ caller[u].at \in Joining
      <3>1. PICK u \in Threads : caller[u].old = x /\ caller[u].at \in Joining
        BY <2>8
      <3> QED BY <2>1, <2>3, <3>1 DEF Where
    <2>9. CASE GivenUp(x)
      BY <1>0, <2>1, <2>3, <2>5, <2>9, Numbers DEF Where, GivenUp
    <2> QED BY <2>4, <2>6, <2>7, <2>8, <2>9 DEF Where
  <1>12. ASSUME NEW h \in Handles, DogCloses(h) PROVE Found'
    <2>1. /\ \A x \in Handles : dog'[x].old = dog[x].old
          /\ \A x \in Generations : gen'[x].handle = gen[x].handle
          /\ \A x \in Generations : gen'[x].intake = gen[x].intake
          /\ UNCHANGED <<handle, caller>>
      BY DogClosesDoes, <1>12
    <2>2. SUFFICES ASSUME NEW x \in Generations, Alive(x)' PROVE Where(x)'
      BY DEF Found
    <2>3. Alive(x) /\ gen'[x].handle = gen[x].handle
      BY <2>1, <2>2 DEF Alive
    <2>4. Where(x)
      BY <2>3 DEF Found
    <2>5. gen[x].handle \in Handles /\ gen[x].handle <= used.handles
      BY <2>3, AliveHas
    <2>6. CASE handle[gen[x].handle].inner = x
      BY <2>1, <2>3, <2>5, <2>6 DEF Where
    <2>7. CASE dog[gen[x].handle].old = x
      BY <2>1, <2>3, <2>5, <2>7 DEF Where
    <2>8. CASE \E u \in Threads : caller[u].old = x /\ caller[u].at \in Joining
      <3>1. PICK u \in Threads : caller[u].old = x /\ caller[u].at \in Joining
        BY <2>8
      <3> QED BY <2>1, <2>3, <3>1 DEF Where
    <2>9. CASE GivenUp(x)
      BY <1>0, <2>1, <2>3, <2>5, <2>9 DEF Where, GivenUp
    <2> QED BY <2>4, <2>6, <2>7, <2>8, <2>9 DEF Where
  <1>13. ASSUME NEW h \in Handles, DogJoins(h) PROVE Found'
    <2>1. /\ dog[h].at = "join"
          /\ gen[dog[h].old].intake = "ended"
          /\ \A x \in Handles : x # h => dog'[x].old = dog[x].old
          /\ dog'[h].old = None
          /\ UNCHANGED <<handle, gen, caller>>
      BY DogJoinsDoes, <1>13
    <2>2. SUFFICES ASSUME NEW x \in Generations, Alive(x)' PROVE Where(x)'
      BY DEF Found
    <2>3. Alive(x) /\ gen'[x].handle = gen[x].handle
      BY <2>1, <2>2 DEF Alive
    <2>4. Where(x)
      BY <2>3 DEF Found
    <2>5. gen[x].handle \in Handles /\ gen[x].handle <= used.handles
      BY <2>3, AliveHas
    <2>6. CASE handle[gen[x].handle].inner = x
      BY <2>1, <2>3, <2>5, <2>6 DEF Where
    <2>7. CASE dog[gen[x].handle].old = x
      BY <2>1, <2>3, <2>5, <2>7 DEF Where, Alive
    <2>8. CASE \E u \in Threads : caller[u].old = x /\ caller[u].at \in Joining
      <3>1. PICK u \in Threads : caller[u].old = x /\ caller[u].at \in Joining
        BY <2>8
      <3> QED BY <2>1, <2>3, <3>1 DEF Where
    <2>9. CASE GivenUp(x)
      BY <1>0, <2>1, <2>3, <2>5, <2>9 DEF Where, GivenUp
    <2> QED BY <2>4, <2>6, <2>7, <2>8, <2>9 DEF Where
  <1>14. ASSUME NEW h \in Handles, DogSpawns(h) PROVE Found'
    <2>1. /\ dog[h].at = "spawn"
          /\ used.gens + 1 \in Generations
          /\ \A x \in Handles : x # h => dog'[x].old = dog[x].old
          /\ dog'[h].old = used.gens + 1
          /\ \A x \in Generations : x # used.gens + 1 => gen'[x].handle = gen[x].handle
          /\ gen'[used.gens + 1].handle = h
          /\ \A x \in Generations : x # used.gens + 1 => gen'[x].intake = gen[x].intake
          /\ gen'[used.gens + 1].intake = "reading"
          /\ UNCHANGED <<handle, caller>>
      BY DogSpawnsDoes, <1>14
    <2>2. SUFFICES ASSUME NEW x \in Generations, Alive(x)' PROVE Where(x)'
      BY DEF Found
    <2>3. CASE x = used.gens + 1
      BY <2>1, <2>3 DEF Where
    <2>4. CASE x # used.gens + 1
      <3>1. Alive(x) /\ gen'[x].handle = gen[x].handle
        BY <2>4, <2>1, <2>2 DEF Alive
      <3>2. Where(x)
        BY <3>1 DEF Found
      <3>3. gen[x].handle \in Handles /\ gen[x].handle <= used.handles
        BY <3>1, AliveHas
      <3>4. CASE handle[gen[x].handle].inner = x
        BY <2>1, <3>1, <3>3, <3>4 DEF Where
      <3>5. CASE dog[gen[x].handle].old = x
        <4>1. gen[x].handle # h
          BY <2>1, <3>5, Numbers DEF Owns
        <4> QED BY <2>1, <4>1, <3>1, <3>3, <3>5 DEF Where
      <3>6. CASE \E u \in Threads : caller[u].old = x /\ caller[u].at \in Joining
        <4>1. PICK u \in Threads : caller[u].old = x /\ caller[u].at \in Joining
          BY <3>6
        <4> QED BY <2>1, <3>1, <4>1 DEF Where
      <3>7. CASE GivenUp(x)
        BY <1>0, <2>1, <3>1, <3>3, <3>7 DEF Where, GivenUp
      <3> QED BY <3>2, <3>4, <3>5, <3>6, <3>7 DEF Where
    <2> QED BY <2>3, <2>4
  <1>15. ASSUME NEW h \in Handles, DogCannotSpawn(h) PROVE Found'
    <2>1. /\ dog[h].at = "spawn"
          /\ \A x \in Handles : handle'[x].inner = handle[x].inner
          /\ \A x \in Handles : x # h => handle'[x].note = handle[x].note
          /\ handle'[h].note \in {handle[h].note, "failed open"}
          /\ ~handle[h].stop => handle'[h].note = "failed open"
          /\ \A x \in Handles : dog'[x].old = dog[x].old
          /\ UNCHANGED <<gen, caller>>
      BY DogCannotSpawnDoes, <1>15
    <2>2. SUFFICES ASSUME NEW x \in Generations, Alive(x)' PROVE Where(x)'
      BY DEF Found
    <2>3. Alive(x) /\ gen'[x].handle = gen[x].handle
      BY <2>1, <2>2 DEF Alive
    <2>4. Where(x)
      BY <2>3 DEF Found
    <2>5. gen[x].handle \in Handles /\ gen[x].handle <= used.handles
      BY <2>3, AliveHas
    <2>6. CASE handle[gen[x].handle].inner = x
      BY <2>1, <2>3, <2>5, <2>6 DEF Where
    <2>7. CASE dog[gen[x].handle].old = x
      BY <2>1, <2>3, <2>5, <2>7 DEF Where
    <2>8. CASE \E u \in Threads : caller[u].old = x /\ caller[u].at \in Joining
      <3>1. PICK u \in Threads : caller[u].old = x /\ caller[u].at \in Joining
        BY <2>8
      <3> QED BY <2>1, <2>3, <3>1 DEF Where
    <2>9. CASE GivenUp(x)
      BY <1>0, <2>1, <2>3, <2>5, <2>9 DEF Where, GivenUp
    <2> QED BY <2>4, <2>6, <2>7, <2>8, <2>9 DEF Where
  <1>16. ASSUME NEW h \in Handles, DogStores(h) PROVE Found'
    <2>1. /\ dog[h].at = "store"
          /\ handle[h].lock = None
          /\ \A x \in Handles : x # h => handle'[x].inner = handle[x].inner
          /\ handle'[h].inner = dog[h].old
          /\ \A x \in Handles : x # h => handle'[x].note = handle[x].note
          /\ handle'[h].note \in {handle[h].note, "restarted"}
          /\ ~handle[h].stop => handle'[h].note = "restarted"
          /\ \A x \in Handles : x # h => dog'[x].old = dog[x].old
          /\ dog'[h].old = None
          /\ UNCHANGED <<gen, caller>>
      BY DogStoresDoes, <1>16
    <2>2. SUFFICES ASSUME NEW x \in Generations, Alive(x)' PROVE Where(x)'
      BY DEF Found
    <2>3. Alive(x) /\ gen'[x].handle = gen[x].handle
      BY <2>1, <2>2 DEF Alive
    <2>4. Where(x)
      BY <2>3 DEF Found
    <2>5. gen[x].handle \in Handles /\ gen[x].handle <= used.handles
      BY <2>3, AliveHas
    <2>6. CASE handle[gen[x].handle].inner = x
      BY <2>1, <2>3, <2>5, <2>6, Numbers DEF Where, Owns
    <2>7. CASE dog[gen[x].handle].old = x
      BY <2>1, <2>3, <2>5, <2>7 DEF Where
    <2>8. CASE \E u \in Threads : caller[u].old = x /\ caller[u].at \in Joining
      <3>1. PICK u \in Threads : caller[u].old = x /\ caller[u].at \in Joining
        BY <2>8
      <3> QED BY <2>1, <2>3, <3>1 DEF Where
    <2>9. CASE GivenUp(x)
      BY <1>0, <2>1, <2>3, <2>5, <2>9 DEF Where, GivenUp, Ends
    <2> QED BY <2>4, <2>6, <2>7, <2>8, <2>9 DEF Where
  <1>17. ASSUME NEW t \in Threads, TakeHandle(t) PROVE Found'
    <2>1. /\ caller[t].at = "idle"
          /\ slotLock = None
          /\ \A x \in Handles : handle'[x].inner = handle[x].inner
          /\ \A x \in Threads : x # t => caller'[x].at = caller[x].at
          /\ caller'[t].at = IF slot = None THEN "start" ELSE "take"
          /\ \A x \in Threads : x # t => caller'[x].old = caller[x].old
          /\ caller'[t].old = None
          /\ UNCHANGED <<dog, gen>>
      BY TakeHandleDoes, <1>17
    <2>2. SUFFICES ASSUME NEW x \in Generations, Alive(x)' PROVE Where(x)'
      BY DEF Found
    <2>3. Alive(x) /\ gen'[x].handle = gen[x].handle
      BY <2>1, <2>2 DEF Alive
    <2>4. Where(x)
      BY <2>3 DEF Found
    <2>5. gen[x].handle \in Handles /\ gen[x].handle <= used.handles
      BY <2>3, AliveHas
    <2>6. CASE handle[gen[x].handle].inner = x
      BY <2>1, <2>3, <2>5, <2>6 DEF Where
    <2>7. CASE dog[gen[x].handle].old = x
      BY <2>1, <2>3, <2>5, <2>7 DEF Where
    <2>8. CASE \E u \in Threads : caller[u].old = x /\ caller[u].at \in Joining
      <3>1. PICK u \in Threads : caller[u].old = x /\ caller[u].at \in Joining
        BY <2>8
      <3>2. u # t
        BY <2>1, <2>3, <3>1 DEF Joining
      <3> QED BY <2>1, <2>3, <3>1, <3>2 DEF Where
    <2>9. CASE GivenUp(x)
      BY <1>0, <2>1, <2>3, <2>5, <2>9 DEF Where, GivenUp
    <2> QED BY <2>4, <2>6, <2>7, <2>8, <2>9 DEF Where
  <1>18. ASSUME NEW t \in Threads, TakeInner(t) PROVE Found'
    <2>1. /\ caller[t].at = "take"
          /\ caller[t].handle \in Handles
          /\ handle[caller[t].handle].lock = None
          /\ \A x \in Handles : x # caller[t].handle => handle'[x].inner = handle[x].inner
          /\ handle'[caller[t].handle].inner = None
          /\ \A x \in Handles : handle'[x].note = handle[x].note
          /\ \A x \in Threads : x # t => caller'[x].at = caller[x].at
          /\ handle[caller[t].handle].inner = None => caller'[t].at = "join dog"
          /\ handle[caller[t].handle].inner # None => caller'[t].at = "close"
          /\ \A x \in Threads : x # t => caller'[x].old = caller[x].old
          /\ caller'[t].old = handle[caller[t].handle].inner
          /\ UNCHANGED <<dog, gen>>
      <3>1. /\ caller[t].at = "take"
        BY TakeInnerDoes, <1>18
      <3>2. /\ caller[t].handle \in Handles
        BY TakeInnerDoes, <1>18
      <3>3. /\ handle[caller[t].handle].lock = None
        BY TakeInnerDoes, <1>18
      <3>4. \A x \in Handles : x # caller[t].handle => handle'[x].inner = handle[x].inner
        <4>1. \A x \in Handles : x # caller[t].handle => handle'[x] = handle[x]
          BY TakeInnerDoes, <1>18
        <4> QED BY <4>1
      <3>5. /\ handle'[caller[t].handle].inner = None
        BY TakeInnerDoes, <1>18
      <3>6. /\ \A x \in Handles : handle'[x].note = handle[x].note
        BY TakeInnerDoes, <1>18
      <3>7. \A x \in Threads : x # t => caller'[x].at = caller[x].at
        <4>1. \A x \in Threads : x # t => caller'[x] = caller[x]
          BY TakeInnerDoes, <1>18
        <4> QED BY <4>1
      <3>8. /\ handle[caller[t].handle].inner = None => caller'[t].at = "join dog"
        BY TakeInnerDoes, <1>18
      <3>9. /\ handle[caller[t].handle].inner # None => caller'[t].at = "close"
        BY TakeInnerDoes, <1>18
      <3>10. \A x \in Threads : x # t => caller'[x].old = caller[x].old
        <4>1. \A x \in Threads : x # t => caller'[x] = caller[x]
          BY TakeInnerDoes, <1>18
        <4> QED BY <4>1
      <3>11. /\ caller'[t].old = handle[caller[t].handle].inner
        BY TakeInnerDoes, <1>18
      <3>12. /\ UNCHANGED <<dog, gen>>
        BY TakeInnerDoes, <1>18
      <3> QED BY <3>1, <3>2, <3>3, <3>4, <3>5, <3>6, <3>7, <3>8, <3>9, <3>10, <3>11, <3>12
    <2>2. SUFFICES ASSUME NEW x \in Generations, Alive(x)' PROVE Where(x)'
      BY DEF Found
    <2>3. Alive(x) /\ gen'[x].handle = gen[x].handle
      BY <2>1, <2>2 DEF Alive
    <2>4. Where(x)
      BY <2>3 DEF Found
    <2>5. gen[x].handle \in Handles /\ gen[x].handle <= used.handles
      BY <2>3, AliveHas
    <2>6. CASE handle[gen[x].handle].inner = x
      BY <2>1, <2>3, <2>5, <2>6, Numbers DEF Where, Joining
    <2>7. CASE dog[gen[x].handle].old = x
      BY <2>1, <2>3, <2>5, <2>7 DEF Where
    <2>8. CASE \E u \in Threads : caller[u].old = x /\ caller[u].at \in Joining
      <3>1. PICK u \in Threads : caller[u].old = x /\ caller[u].at \in Joining
        BY <2>8
      <3>2. u # t
        BY <2>1, <2>3, <3>1 DEF Joining
      <3> QED BY <2>1, <2>3, <3>1, <3>2 DEF Where
    <2>9. CASE GivenUp(x)
      BY <1>0, <2>1, <2>3, <2>5, <2>9, Numbers DEF Where, GivenUp
    <2> QED BY <2>4, <2>6, <2>7, <2>8, <2>9 DEF Where
  <1>19. ASSUME NEW t \in Threads, StopCloses(t) PROVE Found'
    <2>1. /\ caller[t].at = "close"
          /\ caller[t].old \in Generations
          /\ \A x \in Generations : gen'[x].handle = gen[x].handle
          /\ \A x \in Generations : gen'[x].intake = gen[x].intake
          /\ \A x \in Threads : x # t => caller'[x].at = caller[x].at
          /\ caller'[t].at = "join"
          /\ \A x \in Threads : caller'[x].old = caller[x].old
          /\ UNCHANGED <<handle, dog>>
      BY StopClosesDoes, <1>19
    <2>2. SUFFICES ASSUME NEW x \in Generations, Alive(x)' PROVE Where(x)'
      BY DEF Found
    <2>3. Alive(x) /\ gen'[x].handle = gen[x].handle
      BY <2>1, <2>2 DEF Alive
    <2>4. Where(x)
      BY <2>3 DEF Found
    <2>5. gen[x].handle \in Handles /\ gen[x].handle <= used.handles
      BY <2>3, AliveHas
    <2>6. CASE handle[gen[x].handle].inner = x
      BY <2>1, <2>3, <2>5, <2>6 DEF Where
    <2>7. CASE dog[gen[x].handle].old = x
      BY <2>1, <2>3, <2>5, <2>7 DEF Where
    <2>8. CASE \E u \in Threads : caller[u].old = x /\ caller[u].at \in Joining
      <3>1. PICK u \in Threads : caller[u].old = x /\ caller[u].at \in Joining
        BY <2>8
      <3> QED BY <2>1, <2>3, <3>1 DEF Where, Joining
    <2>9. CASE GivenUp(x)
      BY <1>0, <2>1, <2>3, <2>5, <2>9 DEF Where, GivenUp
    <2> QED BY <2>4, <2>6, <2>7, <2>8, <2>9 DEF Where
  <1>20. ASSUME NEW t \in Threads, StopJoins(t) PROVE Found'
    <2>1. /\ caller[t].at = "join"
          /\ caller[t].handle \in Handles
          /\ gen[caller[t].old].intake = "ended"
          /\ \A x \in Handles : handle'[x].inner = handle[x].inner
          /\ \A x \in Handles : handle'[x].note = handle[x].note
          /\ \A x \in Threads : x # t => caller'[x].at = caller[x].at
          /\ caller'[t].at = "join dog"
          /\ \A x \in Threads : caller'[x].old = caller[x].old
          /\ UNCHANGED <<dog, gen>>
      BY StopJoinsDoes, <1>20
    <2>2. SUFFICES ASSUME NEW x \in Generations, Alive(x)' PROVE Where(x)'
      BY DEF Found
    <2>3. Alive(x) /\ gen'[x].handle = gen[x].handle
      BY <2>1, <2>2 DEF Alive
    <2>4. Where(x)
      BY <2>3 DEF Found
    <2>5. gen[x].handle \in Handles /\ gen[x].handle <= used.handles
      BY <2>3, AliveHas
    <2>6. CASE handle[gen[x].handle].inner = x
      BY <2>1, <2>3, <2>5, <2>6 DEF Where
    <2>7. CASE dog[gen[x].handle].old = x
      BY <2>1, <2>3, <2>5, <2>7 DEF Where
    <2>8. CASE \E u \in Threads : caller[u].old = x /\ caller[u].at \in Joining
      <3>1. PICK u \in Threads : caller[u].old = x /\ caller[u].at \in Joining
        BY <2>8
      <3>2. u # t
        BY <2>1, <2>3, <3>1 DEF Joining, Alive
      <3> QED BY <2>1, <2>3, <3>1, <3>2 DEF Where
    <2>9. CASE GivenUp(x)
      BY <1>0, <2>1, <2>3, <2>5, <2>9 DEF Where, GivenUp
    <2> QED BY <2>4, <2>6, <2>7, <2>8, <2>9 DEF Where
  <1>21. ASSUME NEW t \in Threads, StopJoinsDog(t) PROVE Found'
    <2>1. /\ caller[t].at = "join dog"
          /\ caller[t].handle \in Handles
          /\ dog[caller[t].handle].at = "ended"
          /\ \A x \in Threads : x # t => caller'[x].at = caller[x].at
          /\ caller'[t].at = "start"
          /\ \A x \in Threads : x # t => caller'[x].old = caller[x].old
          /\ caller'[t].old = None
          /\ UNCHANGED <<handle, dog, gen>>
      BY StopJoinsDogDoes, <1>21
    <2>2. SUFFICES ASSUME NEW x \in Generations, Alive(x)' PROVE Where(x)'
      BY DEF Found
    <2>3. Alive(x) /\ gen'[x].handle = gen[x].handle
      BY <2>1, <2>2 DEF Alive
    <2>4. Where(x)
      BY <2>3 DEF Found
    <2>5. gen[x].handle \in Handles /\ gen[x].handle <= used.handles
      BY <2>3, AliveHas
    <2>6. CASE handle[gen[x].handle].inner = x
      BY <2>1, <2>3, <2>5, <2>6 DEF Where
    <2>7. CASE dog[gen[x].handle].old = x
      BY <2>1, <2>3, <2>5, <2>7 DEF Where
    <2>8. CASE \E u \in Threads : caller[u].old = x /\ caller[u].at \in Joining
      <3>1. PICK u \in Threads : caller[u].old = x /\ caller[u].at \in Joining
        BY <2>8
      <3>2. u # t
        BY <2>1, <2>3, <3>1 DEF Joining
      <3> QED BY <2>1, <2>3, <3>1, <3>2 DEF Where
    <2>9. CASE GivenUp(x)
      BY <1>0, <2>1, <2>3, <2>5, <2>9 DEF Where, GivenUp
    <2> QED BY <2>4, <2>6, <2>7, <2>8, <2>9 DEF Where
  <1>22. ASSUME NEW t \in Threads, Start(t) PROVE Found'
    <2>1. /\ caller[t].at = "start"
          /\ t \in Callers
          /\ used.gens + 1 \in Generations
          /\ used.handles + 1 \in Handles
          /\ \A x \in Handles : x # used.handles + 1 => handle'[x].inner = handle[x].inner
          /\ handle'[used.handles + 1].inner = used.gens + 1
          /\ \A x \in Handles : handle'[x].note = handle[x].note
          /\ \A x \in Handles : dog'[x].old = dog[x].old
          /\ \A x \in Generations : x # used.gens + 1 => gen'[x].handle = gen[x].handle
          /\ gen'[used.gens + 1].handle = used.handles + 1
          /\ \A x \in Generations : x # used.gens + 1 => gen'[x].intake = gen[x].intake
          /\ gen'[used.gens + 1].intake = "reading"
          /\ \A x \in Threads : x # t => caller'[x].at = caller[x].at
          /\ caller'[t].at = "idle"
          /\ \A x \in Threads : x # t => caller'[x].old = caller[x].old
          /\ caller'[t].old = None
      BY StartDoes, <1>22
    <2>2. SUFFICES ASSUME NEW x \in Generations, Alive(x)' PROVE Where(x)'
      BY DEF Found
    <2>3. CASE x = used.gens + 1
      BY <2>1, <2>3 DEF Where
    <2>4. CASE x # used.gens + 1
      <3>1. Alive(x) /\ gen'[x].handle = gen[x].handle
        BY <2>4, <2>1, <2>2 DEF Alive
      <3>2. Where(x)
        BY <3>1 DEF Found
      <3>3. gen[x].handle \in Handles /\ gen[x].handle <= used.handles
        BY <3>1, AliveHas
      <3>4. CASE handle[gen[x].handle].inner = x
        BY <2>1, <3>1, <3>3, <3>4, Older DEF Where
      <3>5. CASE dog[gen[x].handle].old = x
        BY <2>1, <3>1, <3>3, <3>5, Older DEF Where
      <3>6. CASE \E u \in Threads : caller[u].old = x /\ caller[u].at \in Joining
        <4>1. PICK u \in Threads : caller[u].old = x /\ caller[u].at \in Joining
          BY <3>6
        <4>2. u # t
          BY <2>1, <3>1, <4>1 DEF Joining
        <4> QED BY <2>1, <3>1, <4>1, <4>2 DEF Where
      <3>7. CASE GivenUp(x)
        BY <1>0, <2>1, <3>1, <3>3, <3>7, Older DEF Where, GivenUp
      <3> QED BY <3>2, <3>4, <3>5, <3>6, <3>7 DEF Where
    <2> QED BY <2>3, <2>4
  <1>23. ASSUME NEW t \in Threads, NoStart(t) PROVE Found'
    <2>1. /\ caller[t].at = "start"
          /\ t \in Callers
          /\ \A x \in Threads : x # t => caller'[x].at = caller[x].at
          /\ caller'[t].at = "idle"
          /\ \A x \in Threads : x # t => caller'[x].old = caller[x].old
          /\ caller'[t].old = None
          /\ UNCHANGED <<handle, dog, gen>>
      BY NoStartDoes, <1>23
    <2>2. SUFFICES ASSUME NEW x \in Generations, Alive(x)' PROVE Where(x)'
      BY DEF Found
    <2>3. Alive(x) /\ gen'[x].handle = gen[x].handle
      BY <2>1, <2>2 DEF Alive
    <2>4. Where(x)
      BY <2>3 DEF Found
    <2>5. gen[x].handle \in Handles /\ gen[x].handle <= used.handles
      BY <2>3, AliveHas
    <2>6. CASE handle[gen[x].handle].inner = x
      BY <2>1, <2>3, <2>5, <2>6 DEF Where
    <2>7. CASE dog[gen[x].handle].old = x
      BY <2>1, <2>3, <2>5, <2>7 DEF Where
    <2>8. CASE \E u \in Threads : caller[u].old = x /\ caller[u].at \in Joining
      <3>1. PICK u \in Threads : caller[u].old = x /\ caller[u].at \in Joining
        BY <2>8
      <3>2. u # t
        BY <2>1, <2>3, <3>1 DEF Joining
      <3> QED BY <2>1, <2>3, <3>1, <3>2 DEF Where
    <2>9. CASE GivenUp(x)
      BY <1>0, <2>1, <2>3, <2>5, <2>9 DEF Where, GivenUp
    <2> QED BY <2>4, <2>6, <2>7, <2>8, <2>9 DEF Where
  <1>24. CASE Exit
    BY ExitDoes, <1>24
  <1>26. ASSUME NEW g \in Generations, Overflow(g) \/ SweepEnds(g) PROVE Found'
    <2>1. /\ \A x \in Handles : handle'[x].inner = handle[x].inner
          /\ UNCHANGED <<dog, gen, caller>>
      BY WritesOverDoes, <1>26
    <2>2. SUFFICES ASSUME NEW x \in Generations, Alive(x)' PROVE Where(x)'
      BY DEF Found
    <2>3. Alive(x) /\ gen'[x].handle = gen[x].handle
      BY <2>1, <2>2 DEF Alive
    <2>4. Where(x) /\ gen[x].handle \in Handles
      BY <2>3, AliveHas DEF Found
    <2> QED BY <2>1, <2>3, <2>4 DEF Where, GivenUp
  <1>25. CASE UNCHANGED vars
    BY <1>25 DEF vars, Found, Where, GivenUp, Alive
  <1> QED
    BY <1>1, <1>2, <1>3, <1>4, <1>5, <1>6, <1>7, <1>8, <1>9, <1>10, <1>11, <1>12,
       <1>13, <1>14, <1>15, <1>16, <1>17, <1>18, <1>19, <1>20, <1>21, <1>22, <1>23,
       <1>24, <1>25, <1>26 DEF Next, DogStep, CallerStep, StopStep

(* A step that spawns nothing and notes no failure keeps Left.             *)
LEMMA LeftKept ==
    ASSUME Shapes, Started, Left, [Next]_vars,
           \A x \in Handles : handle'[x].note = "failed open" => handle[x].note = "failed open",
           \A y \in Generations : gen'[y].handle = gen[y].handle,
           \A y \in Generations : Alive(y)' => Alive(y)
    PROVE  Left'
  <1>1. \A x \in Handles : dog'[x].restarts <= MAX_RESTARTS => dog[x].restarts <= MAX_RESTARTS
    <2>1. \A x \in Handles :
             dog[x].restarts > MAX_RESTARTS => dog'[x].restarts > MAX_RESTARTS
      BY DogsGoOn DEF GoOn
    <2>2. \A x \in Handles : dog[x].restarts \in Nat /\ dog'[x].restarts \in Nat
      BY ShapesStay DEF Shapes, DogsOK, DogT
    <2>3. ASSUME NEW x \in Handles, dog'[x].restarts <= MAX_RESTARTS
          PROVE  dog[x].restarts <= MAX_RESTARTS
      <3>1. dog[x].restarts > MAX_RESTARTS => dog'[x].restarts > MAX_RESTARTS
        BY <2>1
      <3>2. dog[x].restarts \in Nat /\ dog'[x].restarts \in Nat
        BY <2>2
      <3> QED BY <2>3, <3>1, <3>2, NotBeyond
    <2> QED BY <2>3
  <1> QED BY <1>1 DEF Left

(* Every step keeps Left.                                                  *)
LEMMA LeftStays ==
    ASSUME Shapes, Started, Joins, Owns, Ends, Found, Left, ~down', [Next]_vars
    PROVE  Left'
  <1>1. CASE Exec
    <2>1. \A x \in Handles : handle'[x].note = "failed open" => handle[x].note = "failed open"
      BY ExecDoes, <1>1
    <2>2. \A y \in Generations : gen'[y].handle = gen[y].handle
      BY ExecDoes, <1>1
    <2>3. \A y \in Generations : Alive(y)' => Alive(y)
      BY ExecDoes, <1>1 DEF Alive
    <2> QED BY <2>1, <2>2, <2>3, LeftKept
  <1>2. ASSUME NEW g \in Generations, Answer(g) PROVE Left'
    <2>1. \A x \in Handles : handle'[x].note = "failed open" => handle[x].note = "failed open"
      BY AnswerDoes, <1>2
    <2>2. \A y \in Generations : gen'[y].handle = gen[y].handle
      BY AnswerDoes, <1>2
    <2>3. \A y \in Generations : Alive(y)' => Alive(y)
      BY AnswerDoes, <1>2 DEF Alive
    <2> QED BY <2>1, <2>2, <2>3, LeftKept
  <1>3. ASSUME NEW g \in Generations, Stall(g) PROVE Left'
    <2>1. \A x \in Handles : handle'[x].note = "failed open" => handle[x].note = "failed open"
      BY StallDoes, <1>3
    <2>2. \A y \in Generations : gen'[y].handle = gen[y].handle
      BY StallDoes, <1>3
    <2>3. \A y \in Generations : Alive(y)' => Alive(y)
      BY StallDoes, <1>3 DEF Alive
    <2> QED BY <2>1, <2>2, <2>3, LeftKept
  <1>4. ASSUME NEW g \in Generations, Recover(g) PROVE Left'
    <2>1. \A x \in Handles : handle'[x].note = "failed open" => handle[x].note = "failed open"
      BY RecoverDoes, <1>4
    <2>2. \A y \in Generations : gen'[y].handle = gen[y].handle
      BY RecoverDoes, <1>4
    <2>3. \A y \in Generations : Alive(y)' => Alive(y)
      BY RecoverDoes, <1>4 DEF Alive
    <2> QED BY <2>1, <2>2, <2>3, LeftKept
  <1>5. ASSUME NEW g \in Generations, Leave(g) PROVE Left'
    <2>1. \A x \in Handles : handle'[x].note = "failed open" => handle[x].note = "failed open"
      BY LeaveDoes, <1>5
    <2>2. \A y \in Generations : gen'[y].handle = gen[y].handle
      BY LeaveDoes, <1>5
    <2>3. \A y \in Generations : Alive(y)' => Alive(y)
      BY LeaveDoes, <1>5 DEF Alive
    <2> QED BY <2>1, <2>2, <2>3, LeftKept
  <1>6. ASSUME NEW g \in Generations, WindUp(g) PROVE Left'
    <2>1. \A x \in Handles : handle'[x].note = "failed open" => handle[x].note = "failed open"
      BY WindUpDoes, <1>6
    <2>2. \A y \in Generations : gen'[y].handle = gen[y].handle
      BY WindUpDoes, <1>6
    <2>3. \A y \in Generations : Alive(y)' => Alive(y)
      BY WindUpDoes, <1>6 DEF Alive
    <2> QED BY <2>1, <2>2, <2>3, LeftKept
  <1>7. ASSUME NEW h \in Handles, DogWakes(h) PROVE Left'
    <2>1. \A x \in Handles : handle'[x].note = "failed open" => handle[x].note = "failed open"
      BY DogWakesDoes, <1>7
    <2>2. \A y \in Generations : gen'[y].handle = gen[y].handle
      BY DogWakesDoes, <1>7
    <2>3. \A y \in Generations : Alive(y)' => Alive(y)
      BY DogWakesDoes, <1>7 DEF Alive
    <2> QED BY <2>1, <2>2, <2>3, LeftKept
  <1>8. ASSUME NEW h \in Handles, DogSeesHealthy(h) PROVE Left'
    <2>1. \A x \in Handles : handle'[x].note = "failed open" => handle[x].note = "failed open"
      BY DogSeesHealthyDoes, <1>8
    <2>2. \A y \in Generations : gen'[y].handle = gen[y].handle
      BY DogSeesHealthyDoes, <1>8
    <2>3. \A y \in Generations : Alive(y)' => Alive(y)
      BY DogSeesHealthyDoes, <1>8 DEF Alive
    <2> QED BY <2>1, <2>2, <2>3, LeftKept
  <1>9. ASSUME NEW h \in Handles, DogSeesStall(h) PROVE Left'
    <2>1. \A x \in Handles : handle'[x].note = "failed open" => handle[x].note = "failed open"
      BY DogSeesStallDoes, <1>9
    <2>2. \A y \in Generations : gen'[y].handle = gen[y].handle
      BY DogSeesStallDoes, <1>9
    <2>3. \A y \in Generations : Alive(y)' => Alive(y)
      BY DogSeesStallDoes, <1>9 DEF Alive
    <2> QED BY <2>1, <2>2, <2>3, LeftKept
  <1>10. ASSUME NEW h \in Handles, DogGivesUp(h) PROVE Left'
    <2>1. dog'[h].restarts > MAX_RESTARTS
      BY DogGivesUpDoes, <1>10 DEF Started
    <2>2. ~(dog'[h].restarts <= MAX_RESTARTS)
      <3>1. dog'[h].restarts \in Nat
        BY ShapesStay DEF Shapes, DogsOK, DogT
      <3> QED BY <2>1, <3>1, Cap
    <2>3. /\ \A x \in Handles : x # h => handle'[x] = handle[x]
          /\ \A x \in Handles : dog'[x].restarts = dog[x].restarts
          /\ gen' = gen
      BY DogGivesUpDoes, <1>10
    <2> QED BY <2>2, <2>3 DEF Left, Alive
  <1>11. ASSUME NEW h \in Handles, DogTakes(h) PROVE Left'
    <2>1. \A x \in Handles : handle'[x].note = "failed open" => handle[x].note = "failed open"
      BY DogTakesDoes, <1>11
    <2>2. \A y \in Generations : gen'[y].handle = gen[y].handle
      BY DogTakesDoes, <1>11
    <2>3. \A y \in Generations : Alive(y)' => Alive(y)
      BY DogTakesDoes, <1>11 DEF Alive
    <2> QED BY <2>1, <2>2, <2>3, LeftKept
  <1>12. ASSUME NEW h \in Handles, DogCloses(h) PROVE Left'
    <2>1. \A x \in Handles : handle'[x].note = "failed open" => handle[x].note = "failed open"
      BY DogClosesDoes, <1>12
    <2>2. \A y \in Generations : gen'[y].handle = gen[y].handle
      BY DogClosesDoes, <1>12
    <2>3. \A y \in Generations : Alive(y)' => Alive(y)
      BY DogClosesDoes, <1>12 DEF Alive
    <2> QED BY <2>1, <2>2, <2>3, LeftKept
  <1>13. ASSUME NEW h \in Handles, DogJoins(h) PROVE Left'
    <2>1. \A x \in Handles : handle'[x].note = "failed open" => handle[x].note = "failed open"
      BY DogJoinsDoes, <1>13
    <2>2. \A y \in Generations : gen'[y].handle = gen[y].handle
      BY DogJoinsDoes, <1>13
    <2>3. \A y \in Generations : Alive(y)' => Alive(y)
      BY DogJoinsDoes, <1>13 DEF Alive
    <2> QED BY <2>1, <2>2, <2>3, LeftKept
  <1>14. ASSUME NEW h \in Handles, DogSpawns(h) PROVE Left'
    <2> SUFFICES ASSUME NEW x \in Handles, NEW y \in Generations,
                        handle'[x].note = "failed open", dog'[x].restarts <= MAX_RESTARTS,
                        gen'[y].handle = x
                 PROVE  ~Alive(y)'
      BY DEF Left
    <2>1. handle[x].note = "failed open" /\ dog[x].restarts <= MAX_RESTARTS
      BY DogSpawnsDoes, <1>14
    <2>2. dog[x].at = "ended"
      BY <2>1 DEF Ends
    <2>3. x # h
      BY DogSpawnsDoes, <1>14, <2>2
    <2>4. y # used.gens + 1 /\ gen'[y] = gen[y]
      BY DogSpawnsDoes, <1>14, <2>3
    <2> QED BY <2>1, <2>4 DEF Left, Alive
  <1>15. ASSUME NEW h \in Handles, DogCannotSpawn(h) PROVE Left'
    <2>1. /\ \A x \in Handles : x # h => handle'[x] = handle[x]
          /\ \A x \in Handles : dog'[x].restarts = dog[x].restarts
          /\ dog[h].at = "spawn" /\ gen' = gen
      BY DogCannotSpawnDoes, <1>15
    <2>2. ASSUME NEW y \in Generations, gen[y].handle = h, Alive(y) PROVE FALSE
      <3>1. Where(y)
        BY <2>2 DEF Found
      <3>2. handle[h].inner = None /\ dog[h].old = None
        BY <2>1 DEF Owns
      <3>3. ~GivenUp(y)
        BY <2>1, <2>2 DEF GivenUp
      <3>4. PICK t \in Threads : caller[t].old = y /\ caller[t].at \in Joining
        BY <2>2, <3>1, <3>2, <3>3, Numbers DEF Where
      <3>5. caller[t].handle = h
        BY <2>2, <3>4 DEF Joins
      <3>6. dog[h].at \in Apart
        BY <3>4, <3>5 DEF Joins
      <3> QED BY <2>1, <3>6 DEF Apart
    <2> QED BY <2>1, <2>2 DEF Left, Alive
  <1>16. ASSUME NEW h \in Handles, DogStores(h) PROVE Left'
    <2>1. \A x \in Handles : handle'[x].note = "failed open" => handle[x].note = "failed open"
      BY DogStoresDoes, <1>16
    <2>2. \A y \in Generations : gen'[y].handle = gen[y].handle
      BY DogStoresDoes, <1>16
    <2>3. \A y \in Generations : Alive(y)' => Alive(y)
      BY DogStoresDoes, <1>16 DEF Alive
    <2> QED BY <2>1, <2>2, <2>3, LeftKept
  <1>17. ASSUME NEW t \in Threads, TakeHandle(t) PROVE Left'
    <2>1. \A x \in Handles : handle'[x].note = "failed open" => handle[x].note = "failed open"
      BY TakeHandleDoes, <1>17
    <2>2. \A y \in Generations : gen'[y].handle = gen[y].handle
      BY TakeHandleDoes, <1>17
    <2>3. \A y \in Generations : Alive(y)' => Alive(y)
      BY TakeHandleDoes, <1>17 DEF Alive
    <2> QED BY <2>1, <2>2, <2>3, LeftKept
  <1>18. ASSUME NEW t \in Threads, TakeInner(t) PROVE Left'
    <2>1. \A x \in Handles : handle'[x].note = "failed open" => handle[x].note = "failed open"
      BY TakeInnerDoes, <1>18
    <2>2. \A y \in Generations : gen'[y].handle = gen[y].handle
      BY TakeInnerDoes, <1>18
    <2>3. \A y \in Generations : Alive(y)' => Alive(y)
      BY TakeInnerDoes, <1>18 DEF Alive
    <2> QED BY <2>1, <2>2, <2>3, LeftKept
  <1>19. ASSUME NEW t \in Threads, StopCloses(t) PROVE Left'
    <2>1. \A x \in Handles : handle'[x].note = "failed open" => handle[x].note = "failed open"
      BY StopClosesDoes, <1>19
    <2>2. \A y \in Generations : gen'[y].handle = gen[y].handle
      BY StopClosesDoes, <1>19
    <2>3. \A y \in Generations : Alive(y)' => Alive(y)
      BY StopClosesDoes, <1>19 DEF Alive
    <2> QED BY <2>1, <2>2, <2>3, LeftKept
  <1>20. ASSUME NEW t \in Threads, StopJoins(t) PROVE Left'
    <2>1. \A x \in Handles : handle'[x].note = "failed open" => handle[x].note = "failed open"
      BY StopJoinsDoes, <1>20
    <2>2. \A y \in Generations : gen'[y].handle = gen[y].handle
      BY StopJoinsDoes, <1>20
    <2>3. \A y \in Generations : Alive(y)' => Alive(y)
      BY StopJoinsDoes, <1>20 DEF Alive
    <2> QED BY <2>1, <2>2, <2>3, LeftKept
  <1>21. ASSUME NEW t \in Threads, StopJoinsDog(t) PROVE Left'
    <2>1. \A x \in Handles : handle'[x].note = "failed open" => handle[x].note = "failed open"
      BY StopJoinsDogDoes, <1>21
    <2>2. \A y \in Generations : gen'[y].handle = gen[y].handle
      BY StopJoinsDogDoes, <1>21
    <2>3. \A y \in Generations : Alive(y)' => Alive(y)
      BY StopJoinsDogDoes, <1>21 DEF Alive
    <2> QED BY <2>1, <2>2, <2>3, LeftKept
  <1>22. ASSUME NEW t \in Threads, Start(t) PROVE Left'
    <2> SUFFICES ASSUME NEW x \in Handles, NEW y \in Generations,
                        handle'[x].note = "failed open", dog'[x].restarts <= MAX_RESTARTS,
                        gen'[y].handle = x
                 PROVE  ~Alive(y)'
      BY DEF Left
    <2>1. handle[x].note = "failed open" /\ dog[x].restarts <= MAX_RESTARTS
      BY StartDoes, <1>22
    <2>2. dog[x].at = "ended"
      BY <2>1 DEF Ends
    <2>3. x # used.handles + 1
      BY <2>2, Older DEF Started
    <2>4. y # used.gens + 1 /\ gen'[y] = gen[y]
      BY StartDoes, <1>22, <2>3
    <2> QED BY <2>1, <2>4 DEF Left, Alive
  <1>23. ASSUME NEW t \in Threads, NoStart(t) PROVE Left'
    <2>1. \A x \in Handles : handle'[x].note = "failed open" => handle[x].note = "failed open"
      BY NoStartDoes, <1>23
    <2>2. \A y \in Generations : gen'[y].handle = gen[y].handle
      BY NoStartDoes, <1>23
    <2>3. \A y \in Generations : Alive(y)' => Alive(y)
      BY NoStartDoes, <1>23 DEF Alive
    <2> QED BY <2>1, <2>2, <2>3, LeftKept
  <1>24. CASE Exit
    BY ExitDoes, <1>24
  <1>25. CASE UNCHANGED vars
    BY <1>25 DEF vars, Left, Alive
  <1>26. ASSUME NEW g \in Generations, Overflow(g) \/ SweepEnds(g) PROVE Left'
    <2>1. \A x \in Handles : handle'[x].note = "failed open" => handle[x].note = "failed open"
      BY WritesOverDoes, <1>26
    <2>2. gen' = gen
      BY WritesOverDoes, <1>26
    <2> QED BY <2>1, <2>2, LeftKept DEF Alive
  <1> QED
    BY <1>1, <1>2, <1>3, <1>4, <1>5, <1>6, <1>7, <1>8, <1>9, <1>10, <1>11, <1>12,
       <1>13, <1>14, <1>15, <1>16, <1>17, <1>18, <1>19, <1>20, <1>21, <1>22, <1>23,
       <1>24, <1>25, <1>26 DEF Next, DogStep, CallerStep, StopStep

(* Every step keeps Sweeps.                                                *)
LEMMA SweepsStay ==
    ASSUME Shapes, Sweeps, [Next]_vars
    PROVE  Sweeps'
  <1>1. CASE Exec
    <2>1. sweeps' = sweeps
      BY <1>1 DEF Exec, note
    <2>2. gen' = gen
      BY ExecDoes, <1>1
    <2> QED BY <2>1, <2>2 DEF Sweeps
  <1>2. ASSUME NEW g \in Generations, Answer(g) PROVE Sweeps'
    <2>1. sweeps' = sweeps
      BY <1>2 DEF Answer, note
    <2>2. gen' = gen
      BY AnswerDoes, <1>2
    <2> QED BY <2>1, <2>2 DEF Sweeps
  <1>3. ASSUME NEW g \in Generations, Stall(g) PROVE Sweeps'
    <2>1. sweeps' = sweeps
      BY <1>3 DEF Stall, note
    <2>2. /\ \A x \in Generations : x # g => gen'[x] = gen[x]
          /\ gen'[g].intake \notin {"none", "ended"}
      BY StallDoes, <1>3
    <2> QED BY <2>1, <2>2 DEF Sweeps
  <1>4. ASSUME NEW g \in Generations, Recover(g) PROVE Sweeps'
    <2>1. sweeps' = sweeps
      BY <1>4 DEF Recover, note
    <2>2. /\ \A x \in Generations : x # g => gen'[x] = gen[x]
          /\ gen'[g].intake \notin {"none", "ended"}
      BY RecoverDoes, <1>4
    <2> QED BY <2>1, <2>2 DEF Sweeps
  <1>5. ASSUME NEW g \in Generations, Leave(g) PROVE Sweeps'
    <2>1. sweeps' = sweeps
      BY <1>5 DEF Leave, note
    <2>2. /\ \A x \in Generations : x # g => gen'[x] = gen[x]
          /\ gen'[g].intake \notin {"none", "ended"}
      BY LeaveDoes, <1>5
    <2> QED BY <2>1, <2>2 DEF Sweeps
  <1>6. ASSUME NEW g \in Generations, WindUp(g) PROVE Sweeps'
    <2>1. sweeps' = sweeps \ {g}
      BY <1>6 DEF WindUp
    <2>2. \A x \in Generations : x # g => gen'[x] = gen[x]
      BY WindUpDoes, <1>6
    <2> QED BY <2>1, <2>2 DEF Sweeps
  <1>7. ASSUME NEW h \in Handles, DogWakes(h) PROVE Sweeps'
    <2>1. sweeps' = sweeps
      BY <1>7 DEF DogWakes, note
    <2>2. gen' = gen
      BY DogWakesDoes, <1>7
    <2> QED BY <2>1, <2>2 DEF Sweeps
  <1>8. ASSUME NEW h \in Handles, DogSeesHealthy(h) PROVE Sweeps'
    <2>1. sweeps' = sweeps
      BY <1>8 DEF DogSeesHealthy, note
    <2>2. gen' = gen
      BY DogSeesHealthyDoes, <1>8
    <2> QED BY <2>1, <2>2 DEF Sweeps
  <1>9. ASSUME NEW h \in Handles, DogSeesStall(h) PROVE Sweeps'
    <2>1. sweeps' = sweeps
      BY <1>9 DEF DogSeesStall, note
    <2>2. gen' = gen
      BY DogSeesStallDoes, <1>9
    <2> QED BY <2>1, <2>2 DEF Sweeps
  <1>10. ASSUME NEW h \in Handles, DogGivesUp(h) PROVE Sweeps'
    <2>1. sweeps' = sweeps
      BY <1>10 DEF DogGivesUp, note
    <2>2. gen' = gen
      BY DogGivesUpDoes, <1>10
    <2> QED BY <2>1, <2>2 DEF Sweeps
  <1>11. ASSUME NEW h \in Handles, DogTakes(h) PROVE Sweeps'
    <2>1. sweeps' = sweeps
      BY <1>11 DEF DogTakes, note
    <2>2. gen' = gen
      BY DogTakesDoes, <1>11
    <2> QED BY <2>1, <2>2 DEF Sweeps
  <1>12. ASSUME NEW h \in Handles, DogCloses(h) PROVE Sweeps'
    <2>1. sweeps' = sweeps
      BY <1>12 DEF DogCloses, note
    <2>2. /\ \A x \in Generations : gen'[x].intake = gen[x].intake
      BY DogClosesDoes, <1>12
    <2> QED BY <2>1, <2>2 DEF Sweeps
  <1>13. ASSUME NEW h \in Handles, DogJoins(h) PROVE Sweeps'
    <2>1. sweeps' = sweeps
      BY <1>13 DEF DogJoins, note
    <2>2. gen' = gen
      BY DogJoinsDoes, <1>13
    <2> QED BY <2>1, <2>2 DEF Sweeps
  <1>14. ASSUME NEW h \in Handles, DogSpawns(h) PROVE Sweeps'
    <2>1. sweeps' = sweeps
      BY <1>14 DEF DogSpawns, note
    <2>2. /\ \A x \in Generations : x # used.gens + 1 => gen'[x] = gen[x]
          /\ gen'[used.gens + 1].intake \notin {"none", "ended"}
      BY DogSpawnsDoes, <1>14
    <2> QED BY <2>1, <2>2 DEF Sweeps
  <1>15. ASSUME NEW h \in Handles, DogCannotSpawn(h) PROVE Sweeps'
    <2>1. sweeps' = sweeps
      BY <1>15 DEF DogCannotSpawn, note
    <2>2. gen' = gen
      BY DogCannotSpawnDoes, <1>15
    <2> QED BY <2>1, <2>2 DEF Sweeps
  <1>16. ASSUME NEW h \in Handles, DogStores(h) PROVE Sweeps'
    <2>1. sweeps' = sweeps
      BY <1>16 DEF DogStores, note
    <2>2. gen' = gen
      BY DogStoresDoes, <1>16
    <2> QED BY <2>1, <2>2 DEF Sweeps
  <1>17. ASSUME NEW t \in Threads, TakeHandle(t) PROVE Sweeps'
    <2>1. sweeps' \subseteq sweeps /\ gen' = gen
      BY <1>17 DEF TakeHandle
    <2> QED BY <2>1 DEF Sweeps
  <1>18. ASSUME NEW t \in Threads, TakeInner(t) PROVE Sweeps'
    <2>1. sweeps' = sweeps
      BY <1>18 DEF TakeInner, note
    <2>2. gen' = gen
      BY TakeInnerDoes, <1>18
    <2> QED BY <2>1, <2>2 DEF Sweeps
  <1>19. ASSUME NEW t \in Threads, StopCloses(t) PROVE Sweeps'
    <2>1. sweeps' = sweeps
      BY <1>19 DEF StopCloses, note
    <2>2. /\ \A x \in Generations : gen'[x].intake = gen[x].intake
      BY StopClosesDoes, <1>19
    <2> QED BY <2>1, <2>2 DEF Sweeps
  <1>20. ASSUME NEW t \in Threads, StopJoins(t) PROVE Sweeps'
    <2>1. sweeps' = sweeps
      BY <1>20 DEF StopJoins, note
    <2>2. gen' = gen
      BY StopJoinsDoes, <1>20
    <2> QED BY <2>1, <2>2 DEF Sweeps
  <1>21. ASSUME NEW t \in Threads, StopJoinsDog(t) PROVE Sweeps'
    <2>1. sweeps' = sweeps
      BY <1>21 DEF StopJoinsDog, note
    <2>2. gen' = gen
      BY StopJoinsDogDoes, <1>21
    <2> QED BY <2>1, <2>2 DEF Sweeps
  <1>22. ASSUME NEW t \in Threads, Start(t) PROVE Sweeps'
    <2>1. sweeps' = sweeps
      BY <1>22 DEF Start, note
    <2>2. /\ \A x \in Generations : x # used.gens + 1 => gen'[x] = gen[x]
          /\ gen'[used.gens + 1].intake \notin {"none", "ended"}
      BY StartDoes, <1>22
    <2> QED BY <2>1, <2>2 DEF Sweeps
  <1>23. ASSUME NEW t \in Threads, NoStart(t) PROVE Sweeps'
    <2>1. sweeps' = sweeps
      BY <1>23 DEF NoStart, note
    <2>2. gen' = gen
      BY NoStartDoes, <1>23
    <2> QED BY <2>1, <2>2 DEF Sweeps
  <1>24. CASE Exit
    BY <1>24 DEF Exit, Sweeps
  <1>25. CASE UNCHANGED vars
    BY <1>25 DEF vars, Sweeps
  <1>26. ASSUME NEW g \in Generations, Overflow(g) \/ SweepEnds(g) PROVE Sweeps'
    <2>1. Alive(g) /\ gen' = gen /\ sweeps' \subseteq sweeps \cup {g}
      BY WritesOverDoes, <1>26
    <2> QED BY <2>1 DEF Sweeps, Alive
  <1> QED
    BY <1>1, <1>2, <1>3, <1>4, <1>5, <1>6, <1>7, <1>8, <1>9, <1>10, <1>11, <1>12,
       <1>13, <1>14, <1>15, <1>16, <1>17, <1>18, <1>19, <1>20, <1>21, <1>22, <1>23,
       <1>24, <1>25, <1>26 DEF Next, DogStep, CallerStep, StopStep

(* Every step keeps Muted.                                                 *)
LEMMA MutedStays ==
    ASSUME Shapes, Started, Made, Muted, ~down => Left, Dead, [Next]_vars
    PROVE  Muted'
  <1>1. ASSUME NEW h \in Handles, h <= used.handles, dog[h].restarts > MAX_RESTARTS
        PROVE  h <= used'.handles /\ dog'[h].restarts > MAX_RESTARTS
    <2>1. used.handles <= used'.handles /\ dog'[h].restarts > MAX_RESTARTS
      BY <1>1, DogsGoOn DEF GoOn
    <2>2. used.handles \in Nat /\ used'.handles \in Nat /\ h \in Nat
      BY ShapesStay, Counters, Numbers DEF Shapes, RestOK
    <2> QED BY <1>1, <2>1, <2>2
  <1>2. CASE MutedLess
    BY <1>1, <1>2 DEF Muted, MutedLess
  <1>3. ASSUME NEW g \in Generations, Overflow(g) \/ SweepEnds(g) PROVE Muted'
    <2>1. Alive(g) /\ gen[g].handle \in Handles /\ gen[g].handle <= used.handles
      BY <1>3, WritesOverDoes, AliveHas
    <2>2. ~down
      BY <2>1 DEF Dead, Alive
    <2>3. ASSUME handle[gen[g].handle].note = "failed open"
          PROVE  dog[gen[g].handle].restarts > MAX_RESTARTS
      <3>1. ~(dog[gen[g].handle].restarts <= MAX_RESTARTS)
        BY <2>1, <2>2, <2>3 DEF Left
      <3>2. dog[gen[g].handle].restarts \in Nat
        BY <2>1 DEF Shapes, DogsOK, DogT
      <3> QED BY <3>1, <3>2
    <2>4. muted' = muted \cup {x \in {gen[g].handle} : handle[x].note = "failed open"}
      BY <1>3, WritesOverDoes
    <2> QED BY <1>1, <2>1, <2>3, <2>4 DEF Muted
  <1> QED BY <1>2, <1>3, MutedDoes

(* Only the exit ends the process.                                         *)
LEMMA OnlyExitEnds ==
    ASSUME Shapes, ~down, down', [Next]_vars
    PROVE  UNCHANGED <<handle, used>>
  <1>1. CASE Exec
    BY ExecDoes, <1>1
  <1>2. ASSUME NEW g \in Generations, Answer(g) PROVE UNCHANGED <<handle, used>>
    BY AnswerDoes, <1>2
  <1>3. ASSUME NEW g \in Generations, Stall(g) PROVE UNCHANGED <<handle, used>>
    BY StallDoes, <1>3
  <1>4. ASSUME NEW g \in Generations, Recover(g) PROVE UNCHANGED <<handle, used>>
    BY RecoverDoes, <1>4
  <1>5. ASSUME NEW g \in Generations, Leave(g) PROVE UNCHANGED <<handle, used>>
    BY LeaveDoes, <1>5
  <1>6. ASSUME NEW g \in Generations, WindUp(g) PROVE UNCHANGED <<handle, used>>
    BY WindUpDoes, <1>6
  <1>7. ASSUME NEW h \in Handles, DogWakes(h) PROVE UNCHANGED <<handle, used>>
    BY DogWakesDoes, <1>7
  <1>8. ASSUME NEW h \in Handles, DogSeesHealthy(h) PROVE UNCHANGED <<handle, used>>
    BY DogSeesHealthyDoes, <1>8
  <1>9. ASSUME NEW h \in Handles, DogSeesStall(h) PROVE UNCHANGED <<handle, used>>
    BY DogSeesStallDoes, <1>9
  <1>10. ASSUME NEW h \in Handles, DogGivesUp(h) PROVE UNCHANGED <<handle, used>>
    BY DogGivesUpDoes, <1>10
  <1>11. ASSUME NEW h \in Handles, DogTakes(h) PROVE UNCHANGED <<handle, used>>
    BY DogTakesDoes, <1>11
  <1>12. ASSUME NEW h \in Handles, DogCloses(h) PROVE UNCHANGED <<handle, used>>
    BY DogClosesDoes, <1>12
  <1>13. ASSUME NEW h \in Handles, DogJoins(h) PROVE UNCHANGED <<handle, used>>
    BY DogJoinsDoes, <1>13
  <1>14. ASSUME NEW h \in Handles, DogSpawns(h) PROVE UNCHANGED <<handle, used>>
    BY DogSpawnsDoes, <1>14
  <1>15. ASSUME NEW h \in Handles, DogCannotSpawn(h) PROVE UNCHANGED <<handle, used>>
    BY DogCannotSpawnDoes, <1>15
  <1>16. ASSUME NEW h \in Handles, DogStores(h) PROVE UNCHANGED <<handle, used>>
    BY DogStoresDoes, <1>16
  <1>17. ASSUME NEW t \in Threads, TakeHandle(t) PROVE UNCHANGED <<handle, used>>
    BY TakeHandleDoes, <1>17
  <1>18. ASSUME NEW t \in Threads, TakeInner(t) PROVE UNCHANGED <<handle, used>>
    BY TakeInnerDoes, <1>18
  <1>19. ASSUME NEW t \in Threads, StopCloses(t) PROVE UNCHANGED <<handle, used>>
    BY StopClosesDoes, <1>19
  <1>20. ASSUME NEW t \in Threads, StopJoins(t) PROVE UNCHANGED <<handle, used>>
    BY StopJoinsDoes, <1>20
  <1>21. ASSUME NEW t \in Threads, StopJoinsDog(t) PROVE UNCHANGED <<handle, used>>
    BY StopJoinsDogDoes, <1>21
  <1>22. ASSUME NEW t \in Threads, Start(t) PROVE UNCHANGED <<handle, used>>
    BY StartDoes, <1>22
  <1>23. ASSUME NEW t \in Threads, NoStart(t) PROVE UNCHANGED <<handle, used>>
    BY NoStartDoes, <1>23
  <1>24. CASE Exit
    BY ExitDoes, <1>24
  <1>26. ASSUME NEW g \in Generations, Overflow(g) \/ SweepEnds(g)
         PROVE UNCHANGED <<handle, used>>
    BY WritesOverDoes, <1>26
  <1>25. CASE UNCHANGED vars
    BY <1>25 DEF vars
  <1> QED
    BY <1>1, <1>2, <1>3, <1>4, <1>5, <1>6, <1>7, <1>8, <1>9, <1>10, <1>11, <1>12,
       <1>13, <1>14, <1>15, <1>16, <1>17, <1>18, <1>19, <1>20, <1>21, <1>22, <1>23,
       <1>24, <1>25, <1>26 DEF Next, DogStep, CallerStep, StopStep

-----------------------------------------------------------------------------
(* The invariant and what follows from it.                                 *)

(* The initial states satisfy the invariant.                               *)
LEMMA InitWatch == Init => WatchInv
  <1> SUFFICES ASSUME Init PROVE WatchInv
    OBVIOUS
  <1>1. Shapes
    <2>1. HandlesOK
      BY DEF Init, HandlesOK, HandleT, NoHandle
    <2>2. DogsOK
      BY DEF Init, DogsOK, DogT, NoDog, DogPoints
    <2>3. GensOK
      BY DEF Init, GensOK, GenT, NoGen, Intakes
    <2>4. CallersOK
      BY DEF Init, CallersOK, CallerT, IdleCaller, CallerPoints, Stops, Joining
    <2>5. RestOK
      <3>1. 0 \in 0..MaxHandles /\ 0 \in 0..MaxGenerations /\ 0 \in Nat
        OBVIOUS
      <3>2. used \in [handles : 0..MaxHandles, gens : 0..MaxGenerations, execs : Nat,
                      faults : Nat]
        BY <3>1 DEF Init
      <3> QED BY <3>2 DEF Init, RestOK
    <2> QED BY <2>1, <2>2, <2>3, <2>4, <2>5 DEF Shapes
  <1>2. Started
    BY Numbers DEF Init, Started, NoDog, NoHandle
  <1>3. Made
    BY Numbers DEF Init, Made, NoGen
  <1>4. Named /\ Dead
    BY DEF Init, Named, Dead, NoHandle
  <1>5. Slots /\ Held /\ Locks
    <2>1. Slots
      BY Numbers, NoThread DEF Init, Slots, IdleCaller, Threads
    <2>2. Held
      BY DEF Init, Held, IdleCaller, Stops
    <2>3. Locks
      BY NoThread DEF Init, Locks, IdleCaller, NoHandle, Joining
    <2> QED BY <2>1, <2>2, <2>3
  <1>6. Joins /\ Owns /\ Ends
    BY DEF Init, Joins, Owns, Ends, IdleCaller, NoHandle, NoDog, Joining
  <1>7. Found /\ Left
    BY DEF Init, Found, Left, Alive, NoGen
  <1>8. Sweeps /\ Muted
    BY DEF Init, Sweeps, Muted
  <1> QED BY <1>1, <1>2, <1>3, <1>4, <1>5, <1>6, <1>7, <1>8 DEF WatchInv, Living

(* Every step keeps the invariant.                                         *)
LEMMA NextWatch ==
    ASSUME WatchInv, [Next]_vars
    PROVE  WatchInv'
  <1>1. Shapes /\ Started /\ Made /\ Named /\ Dead
    BY DEF WatchInv
  <1>2. Shapes' /\ Started' /\ Sweeps' /\ Muted'
    <2>1. Sweeps /\ Muted /\ (~down => Left)
      BY DEF WatchInv, Living
    <2> QED BY <1>1, <2>1, ShapesStay, StartedStays, SweepsStay, MutedStays
  <1>3. CASE down
    <2>1. UNCHANGED vars
      BY <1>1, <1>3, NothingAfterExit
    <2>2. down'
      BY <2>1, <1>3 DEF vars
    <2>3. Made' /\ Dead'
      BY <1>1, <2>1 DEF vars, Made, Dead
    <2>4. Named'
      BY <1>1, <2>1 DEF vars, Named
    <2> QED BY <1>2, <2>2, <2>3, <2>4 DEF WatchInv
  <1>4. CASE ~down
    <2>1. Slots /\ Held /\ Locks /\ Joins /\ Owns /\ Ends /\ Found /\ Left
      BY <1>4 DEF WatchInv, Living
    <2>2. Made'
      BY <1>1, <2>1, MadeStays
    <2>3. Dead'
      BY <1>1, <1>4, DeadStays
    <2>4. CASE down'
      <3>1. Owns /\ UNCHANGED <<handle, used>>
        BY <1>1, <1>4, <2>1, <2>4, OnlyExitEnds
      <3>2. Named'
        BY <3>1 DEF Owns, Named
      <3> QED BY <1>2, <2>2, <2>3, <2>4, <3>2 DEF WatchInv
    <2>5. CASE ~down'
      <3>1. Slots' /\ Held' /\ Locks'
        BY <1>1, <2>1, <2>5, SlotsStay, HeldStays, LocksStay
      <3>2. Joins'
        BY <1>1, <2>1, <2>5, JoinsStay
      <3>3. Owns'
        BY <1>1, <2>1, <2>5, OwnsStay
      <3>4. Ends'
        BY <1>1, <2>1, <2>5, EndsStay
      <3>5. Found'
        BY <1>1, <2>1, <2>5, FoundStays
      <3>6. Named'
        BY <3>3 DEF Owns, Named
      <3>7. Left'
        BY <1>1, <2>1, <2>5, LeftStays
      <3> QED
        BY <1>2, <2>2, <2>3, <3>1, <3>2, <3>3, <3>4, <3>5, <3>6, <3>7 DEF WatchInv, Living
    <2> QED BY <2>4, <2>5
  <1> QED BY <1>3, <1>4

(* The invariant holds in every reachable state.                           *)
THEOREM WatcherInvariant == Spec => []WatchInv
  <1>1. Init => WatchInv
    BY InitWatch
  <1>2. WatchInv /\ [Next]_vars => WatchInv'
    BY NextWatch
  <1> QED BY <1>1, <1>2, PTL DEF Spec

(* A mutex is held exactly by the thread whose code is between its lock    *)
(* and its unlock, and every variable stays in its set.                    *)
THEOREM TypeCorrect == Spec => []TypeOK
  <1>1. ASSUME WatchInv PROVE TypeOK
    <2>1. Shapes /\ Started /\ Made /\ Named
      BY <1>1 DEF WatchInv
    <2>2. slot \in {None} \cup 1..used.handles /\ slotLock # Signal /\ down \in BOOLEAN
      <3>1. slot # None => slot \in Nat \ {0} /\ slot <= used.handles
        BY <2>1, Counters, Numbers DEF Started
      <3>2. slot # None => slot \in 1..used.handles
        BY <2>1, <3>1, Counters
      <3> QED BY <2>1, <3>2 DEF Shapes, RestOK
    <2>3. ~down => \A t \in Callers : slotLock = t <=> caller[t].at # "idle"
      BY <1>1 DEF WatchInv, Living, Slots
    <2>4. ASSUME NEW h \in Handles
          PROVE  /\ handle[h].inner \in {None} \cup 1..used.gens
                 /\ handle[h].note \in {"none", "restarted", "overflow", "failed open"}
                 /\ dog[h].at = "none" <=> h > used.handles
                 /\ dog[h].restarts \in 0..MAX_RESTARTS + 1
      <3>1. handle[h].inner \in {None} \cup 1..used.gens
        <4>1. handle[h].inner # None =>
                 handle[h].inner \in Nat \ {0} /\ handle[h].inner <= used.gens
          BY <2>1, Links, Numbers DEF Named
        <4> QED BY <2>1, <4>1, Counters
      <3>2. handle[h].note \in {"none", "restarted", "overflow", "failed open"}
        BY <2>1 DEF Shapes, HandlesOK, HandleT
      <3>3. dog[h].at = "none" <=> h > used.handles
        BY <2>1, Counters, Numbers DEF Started
      <3>4. dog[h].restarts \in 0..MAX_RESTARTS + 1
        <4>1. dog[h].restarts \in Nat
          BY <2>1 DEF Shapes, DogsOK, DogT
        <4>2. dog[h].restarts <= MAX_RESTARTS + 1 /\ MAX_RESTARTS \in Nat
          BY <2>1 DEF Started
        <4> QED BY <4>1, <4>2
      <3> QED BY <3>1, <3>2, <3>3, <3>4
    <2>5. ASSUME NEW h \in Handles, ~down, NEW t \in Threads
          PROVE  handle[h].lock = t <=>
                    caller[t].handle = h /\ caller[t].at \in {"close", "join"}
      BY <1>1, <2>5 DEF WatchInv, Living, Locks, Joining
    <2>6. ASSUME NEW g \in Generations
          PROVE  gen[g] = NoGen <=> g > used.gens
      <3>1. gen[g] \in GenT
        BY <2>1 DEF Shapes, GensOK
      <3>2. CASE g > used.gens
        <4>1. gen[g].handle = None /\ gen[g].fd = "none" /\ gen[g].intake = "none"
          BY <2>1, <3>2 DEF Made
        <4>2. gen[g] = [handle |-> None, fd |-> "none", intake |-> "none"]
          BY <3>1, <4>1 DEF GenT
        <4> QED BY <3>2, <4>2 DEF NoGen
      <3>3. CASE ~(g > used.gens)
        <4>1. gen[g].fd # "none"
          BY <2>1, <3>3, Counters, Numbers DEF Made
        <4> QED BY <3>3, <4>1 DEF NoGen
      <3> QED BY <3>2, <3>3
    <2>7. waits \subseteq {g \in Generations : gen[g].fd = "open"}
      BY <2>1 DEF Made, Shapes, RestOK
    <2>8. /\ sweeps \subseteq {g \in Generations : gen[g].intake \notin {"none", "ended"}}
          /\ muted \subseteq 1..used.handles
      <3>1. Sweeps /\ Muted
        BY <1>1 DEF WatchInv
      <3>2. ASSUME NEW x \in muted PROVE x \in 1..used.handles
        <4>1. x \in Handles /\ x <= used.handles
          BY <3>1 DEF Muted
        <4>2. x \in Nat \ {0} /\ used.handles \in Nat
          BY <2>1, <4>1, Counters, Numbers
        <4> QED BY <4>1, <4>2
      <3> QED BY <3>1, <3>2 DEF Sweeps
    <2> QED BY <2>2, <2>3, <2>4, <2>5, <2>6, <2>7, <2>8 DEF TypeOK
  <1> QED BY <1>1, WatcherInvariant, PTL

(* A group whose intake does not read is about to be closed, but for the   *)
(* two ways out.                                                           *)
THEOREM GroupsAreAttended == Spec => []OpenIsAttended
  <1>1. ASSUME WatchInv PROVE OpenIsAttended
    <2> SUFFICES ASSUME NEW g \in Generations, Open(g), Blocked(g)
                 PROVE  Watched(g) \/ DogHas(g) \/ StopHas(g) \/ GivenUp(g) \/ Orphaned(g)
      BY DEF OpenIsAttended
    <2> DEFINE h == gen[g].handle
    <2>1. Alive(g) /\ gen[g].fd = "open"
      BY DEF Alive, Blocked, Open
    <2>2. Shapes /\ Made /\ ~down
      BY <1>1, <2>1 DEF WatchInv, Dead, Alive
    <2>3. Where(g) /\ Joins /\ Owns /\ Ends
      BY <1>1, <2>1, <2>2 DEF WatchInv, Living, Found
    <2>4. h \in Handles
      BY <2>1, <2>2, AliveHas
    <2>5. CASE handle[h].inner = g
      <3>1. CASE dog[h].at # "ended"
        BY <2>5, <3>1 DEF Watched
      <3>2. CASE dog[h].at = "ended"
        <4>1. handle[h].stop
          BY <2>3, <2>4, <2>5, <3>2, Numbers DEF Ends
        <4>2. CASE \E t \in Threads : caller[t].handle = h /\ caller[t].at = "take"
          BY <4>2 DEF StopHas
        <4>3. CASE ~\E t \in Threads : caller[t].handle = h /\ caller[t].at = "take"
          BY <2>5, <4>1, <4>3 DEF Orphaned
        <4> QED BY <4>2, <4>3
      <3> QED BY <3>1, <3>2
    <2>6. CASE dog[h].old = g
      <3>1. dog[h].at \in {"close", "join", "store"}
        BY <2>3, <2>4, <2>6, Numbers DEF Owns
      <3>2. dog[h].at # "join"
        BY <2>1, <2>3, <2>4, <2>6 DEF Owns
      <3> QED BY <2>6, <3>1, <3>2 DEF DogHas
    <2>7. CASE \E t \in Threads : caller[t].old = g /\ caller[t].at \in Joining
      <3>1. PICK t \in Threads : caller[t].old = g /\ caller[t].at \in Joining
        BY <2>7
      <3>2. caller[t].at # "join"
        BY <2>1, <2>3, <3>1 DEF Joins
      <3> QED BY <3>1, <3>2 DEF StopHas, Joining
    <2> QED BY <2>3, <2>5, <2>6, <2>7 DEF Where
  <1> QED BY <1>1, WatcherInvariant, PTL

(* A watcher in the slot of the daemon protects, is being restarted, or    *)
(* says that it failed open.                                               *)
THEOREM FailedOpenIsVisible == Spec => []ProtectedOrVisible
  <1>1. ASSUME WatchInv PROVE ProtectedOrVisible
    <2>1. ASSUME slot # None, ~down, dog[slot].at = "ended"
          PROVE  handle[slot].note = "failed open" \/ slot \in muted
      <3>1. slot \in Handles /\ slot <= used.handles
        BY <1>1, <2>1, Counters DEF WatchInv, Started
      <3>2. ~handle[slot].stop
        BY <1>1, <2>1, <3>1 DEF WatchInv, Living, Slots
      <3> QED BY <1>1, <2>1, <3>1, <3>2 DEF WatchInv, Living, Ends
    <2>2. \A h \in muted : dog[h].restarts > MAX_RESTARTS
      BY <1>1 DEF WatchInv, Muted
    <2> QED BY <2>1, <2>2 DEF ProtectedOrVisible
  <1> QED BY <1>1, WatcherInvariant, PTL

(* A generation that is at work is that of the handle in the slot, or that *)
(* of the one handle that a connection is stopping.                        *)
LEMMA AtWorkIsCurrent ==
    ASSUME WatchInv, ~down, caller[Signal].at = "idle",
           NEW g \in Generations, Alive(g), ~GivenUp(g), ~Orphaned(g)
    PROVE  \/ gen[g].handle = slot
           \/ \E t \in Callers : /\ caller[t].handle = gen[g].handle
                                 /\ caller[t].at \in Stops
  <1> DEFINE h == gen[g].handle
  <1>1. Shapes /\ Started /\ Made /\ Slots /\ Held /\ Joins /\ Owns /\ Ends /\ Where(g)
    BY DEF WatchInv, Living, Found
  <1>2. h \in Handles /\ h <= used.handles
    BY <1>1, AliveHas
  <1>3. SUFFICES ASSUME h # slot
                 PROVE  \E t \in Callers : caller[t].handle = h /\ caller[t].at \in Stops
    OBVIOUS
  <1>4. handle[h].stop
    BY <1>1, <1>2, <1>3 DEF Slots
  <1>5. \E t \in Threads : caller[t].handle = h
    <2> SUFFICES ASSUME \A t \in Threads : caller[t].handle # h
                 PROVE  FALSE
      OBVIOUS
    <2>1. dog[h].at = "ended"
      BY <1>1, <1>2, <1>4 DEF Ends
    <2>2. handle[h].inner # g
      BY <1>4 DEF Orphaned
    <2>3. dog[h].old # g
      BY <1>1, <1>2, <2>1, Numbers DEF Owns
    <2>4. ASSUME NEW t \in Threads, caller[t].old = g, caller[t].at \in Joining
          PROVE  FALSE
      BY <1>1, <2>4 DEF Joins
    <2> QED BY <1>1, <2>2, <2>3, <2>4 DEF Where
  <1>6. PICK t \in Threads : caller[t].handle = h
    BY <1>5
  <1>7. caller[t].at \in Stops
    BY <1>1, <1>2, <1>6, Numbers DEF Held
  <1>8. t # Signal
    BY <1>7 DEF Stops
  <1> QED BY <1>6, <1>7, <1>8 DEF Threads

(* One handle has at most one generation at work.                          *)
LEMMA OneOfAHandle ==
    ASSUME WatchInv, ~down, NEW g1 \in Generations, NEW g2 \in Generations,
           Alive(g1), ~GivenUp(g1), ~Orphaned(g1),
           Alive(g2), ~GivenUp(g2), ~Orphaned(g2),
           gen[g1].handle = gen[g2].handle
    PROVE  g1 = g2
  <1> DEFINE h == gen[g1].handle
  <1>1. Shapes /\ Made /\ Held /\ Joins /\ Owns /\ Where(g1) /\ Where(g2)
    BY DEF WatchInv, Living, Found
  <1>2. h \in Handles
    BY <1>1, AliveHas
  <1>3. CASE \E t \in Threads : caller[t].handle = h /\ caller[t].at \in Joining
    <2>1. PICK t \in Threads : caller[t].handle = h /\ caller[t].at \in Joining
      BY <1>3
    <2>2. handle[h].inner = None /\ dog[h].at \in Apart
      BY <1>1, <2>1 DEF Joins
    <2>3. dog[h].old = None
      BY <1>1, <1>2, <2>2 DEF Owns, Apart
    <2>4. ASSUME NEW g \in Generations, Where(g), ~GivenUp(g), gen[g].handle = h
          PROVE  g = caller[t].old
      <3>1. PICK u \in Threads : caller[u].old = g /\ caller[u].at \in Joining
        BY <2>2, <2>3, <2>4, Numbers DEF Where
      <3>2. caller[u].handle = h
        BY <1>1, <2>4, <3>1 DEF Joins
      <3>3. u = t
        BY <1>1, <1>2, <2>1, <3>2, Numbers DEF Held
      <3> QED BY <3>1, <3>3
    <2> QED BY <1>1, <2>4
  <1>4. CASE ~\E t \in Threads : caller[t].handle = h /\ caller[t].at \in Joining
    <2>1. ASSUME NEW g \in Generations, Where(g), ~GivenUp(g), gen[g].handle = h
          PROVE  handle[h].inner = g \/ dog[h].old = g
      <3>1. ASSUME NEW u \in Threads, caller[u].old = g, caller[u].at \in Joining
            PROVE  FALSE
        <4>1. caller[u].handle = h
          BY <1>1, <2>1, <3>1 DEF Joins
        <4> QED BY <1>4, <3>1, <4>1
      <3> QED BY <2>1, <3>1 DEF Where
    <2>2. handle[h].inner = None \/ dog[h].old = None
      BY <1>1, <1>2 DEF Owns
    <2>3. handle[h].inner = g1 \/ dog[h].old = g1
      BY <1>1, <2>1
    <2>4. handle[h].inner = g2 \/ dog[h].old = g2
      BY <1>1, <2>1
    <2> QED BY <2>2, <2>3, <2>4, Numbers
  <1> QED BY <1>3, <1>4

(* Restarts and settings changes leave one watcher at work until the       *)
(* signal thread takes the handle, but for the two ways out.               *)
THEOREM OneWatcherAtWork == Spec => []OneAtWork
  <1>1. ASSUME WatchInv PROVE OneGeneration
    <2> SUFFICES ASSUME caller[Signal].at = "idle",
                        NEW g1 \in Generations, NEW g2 \in Generations,
                        Alive(g1), ~GivenUp(g1), ~Orphaned(g1),
                        Alive(g2), ~GivenUp(g2), ~Orphaned(g2)
                 PROVE  g1 = g2
      BY DEF OneGeneration
    <2>1. ~down
      BY <1>1 DEF WatchInv, Dead, Threads
    <2>2. Slots /\ Held
      BY <1>1, <2>1 DEF WatchInv, Living
    <2>3. ASSUME NEW t \in Callers, caller[t].at \in Stops
          PROVE  slot = None /\ \A u \in Callers : caller[u].at \in Stops => u = t
      <3>1. slotLock = t
        BY <2>2, <2>3 DEF Slots, Stops
      <3>2. slot = None
        BY <2>2, <3>1 DEF Slots
      <3>3. \A u \in Callers : caller[u].at \in Stops => slotLock = u
        BY <2>2 DEF Slots, Stops
      <3> QED BY <3>1, <3>2, <3>3
    <2>4. gen[g1].handle \in Handles /\ gen[g2].handle \in Handles
      BY <1>1, AliveHas DEF WatchInv
    <2>5. gen[g1].handle = gen[g2].handle
      <3>1. \/ gen[g1].handle = slot
            \/ \E t \in Callers : /\ caller[t].handle = gen[g1].handle
                                  /\ caller[t].at \in Stops
        BY <1>1, <2>1, AtWorkIsCurrent
      <3>2. \/ gen[g2].handle = slot
            \/ \E t \in Callers : /\ caller[t].handle = gen[g2].handle
                                  /\ caller[t].at \in Stops
        BY <1>1, <2>1, AtWorkIsCurrent
      <3> QED BY <2>3, <2>4, <3>1, <3>2, Numbers
    <2> QED BY <1>1, <2>1, <2>5, OneOfAHandle
  <1> QED BY <1>1, TypeCorrect, WatcherInvariant, PTL DEF OneAtWork
=============================================================================
