------------------------------ MODULE Settings ------------------------------
(***************************************************************************)
(* The settings of the daemon in their three places: the file (config.rs), *)
(* the copy in memory, and the snapshot the watcher in the slot runs with  *)
(* (server.rs); the clients that read the whole document, change a key and *)
(* set the whole document again (the command line client and the GUI); the *)
(* start of the daemon and its stop by SIGTERM.                            *)
(*                                                                         *)
(* A watcher is its snapshot here; its threads are in module Watcher.      *)
(***************************************************************************)
EXTENDS Integers, FiniteSets, SequencesExt

CONSTANTS
    Clients,         \* connections, each with its client and its thread
    Main,            \* the main thread, which loads the file and syncs first
    None,            \* no file, no watcher, no holder of a lock
    Raw,             \* entries of an exclusion list as a client writes them
    Trim,            \* Raw -> Raw: str::trim
    Blank, Relative, \* entries that are dropped, that refuse the document
    Builtins,        \* BUILTIN_EXCLUSION_PATHS, a sequence
    Lists,           \* the lists a client may set
    MaxSets,         \* bound: documents sent
    MaxFaults,       \* bound: failing writes and starts
    MaxLives         \* bound: lifetimes of the daemon

ASSUME MainAssumption ==
    /\ IsFiniteSet(Clients)
    /\ Main \notin Clients
    /\ None \notin Clients \cup {Main} /\ None \notin Nat
ASSUME RawAssumption ==
    /\ Trim \in [Raw -> Raw]
    /\ \A r \in Raw : Trim[Trim[r]] = Trim[r]
    /\ Lists \subseteq Seq(Raw)
ASSUME BuiltinsAssumption ==
    /\ Builtins \in Seq(Raw) /\ IsInjective(Builtins)
    /\ \A i \in DOMAIN Builtins : LET r == Builtins[i] IN
          r = Trim[r] /\ r \notin Blank \cup Relative
ASSUME BoundAssumption == {MaxSets, MaxFaults, MaxLives} \subseteq Nat

Threads == Clients \cup {Main}
Inodes == 1..(Cardinality(Threads) + 2)

VARIABLES
    disk,      \* which inode is the file and which the temporary file
    data,      \* what each inode holds
    mem,       \* Daemon::settings
    slot,      \* Daemon::realtime: the snapshot of the running watcher
    slotLock,  \* who holds the mutex of the slot
    detail,    \* Daemon::realtime_detail
    proc,      \* per thread: control point and local variables
    phase,     \* starting, up, stopping, down
    may,       \* history: what may be in force; {} once two sets overlapped
    used       \* documents sent, faults, lifetimes so far

vars == <<disk, data, mem, slot, slotLock, detail, proc, phase, may, used>>
slotVars == <<slot, slotLock, detail>>
diskVars == <<disk, data>>

-----------------------------------------------------------------------------
(* Documents. `paths` stands for the three lists of [exclusions], which    *)
(* are normalised alike; `enabled` for the keys that are a single value.   *)

Default == [enabled |-> TRUE, paths |-> Builtins]

(* The entries of a list at some positions, in their order.                *)
Picked(list, places) ==
    LET Nth(n) == CHOOSE i \in places : Cardinality({j \in places : j <= i}) = n
    IN  [n \in 1..Cardinality(places) |-> list[Nth(n)]]

(* The first of equal entries stays, and what is blank goes.               *)
Normal(list) ==
    LET trimmed == [i \in DOMAIN list |-> Trim[list[i]]]
    IN  Picked(trimmed, {i \in DOMAIN list :
                            /\ trimmed[i] \notin Blank
                            /\ \A j \in 1..i-1 : trimmed[j] # trimmed[i]})

Refused(list) == \E i \in DOMAIN list : Trim[list[i]] \in Relative

Restored(list) ==
    list \o Picked(Builtins, {i \in DOMAIN Builtins : ~Contains(list, Builtins[i])})

(* apply_key and restore_builtins on the document the client has read.     *)
Edits(s) ==
    {[s EXCEPT !.enabled = b] : b \in BOOLEAN}
    \cup {[s EXCEPT !.paths = l] : l \in Lists}
    \cup ({[s EXCEPT !.paths = Restored(@)]} \ {s})

(* A text is the documents it is made of: none, one, or one over the rest  *)
(* of another. Every field has a default, so an empty text is the default  *)
(* document; one that does not parse makes main go on with defaults.       *)
Parsed(text) == IF Len(text) = 1 THEN text[1] ELSE Default
Stored == IF disk.file = None THEN Default ELSE Parsed(data[disk.file])

Idle == [at |-> "idle", known |-> Default, want |-> Default, fd |-> None,
         enabled |-> FALSE, alone |-> FALSE, before |-> {}]

Init ==
    /\ disk = [file |-> None, tmp |-> None]
    /\ data = [i \in Inodes |-> <<>>]
    /\ mem = Default
    /\ slot = None /\ slotLock = None /\ detail = "not started"
    /\ proc = [t \in Threads |-> IF t = Main THEN [Idle EXCEPT !.at = "load"] ELSE Idle]
    /\ phase = "starting"
    /\ may = {Default}
    /\ used = [sets |-> 0, faults |-> 0, lives |-> 1]

Runs(t, point) == phase # "down" /\ proc[t].at = point
Go(t, point) == proc' = [proc EXCEPT ![t].at = point]
Rest(t) == proc' = [proc EXCEPT ![t] = Idle]
Faulty == used.faults < MaxFaults /\ used' = [used EXCEPT !.faults = @ + 1]
Setting(t) == proc[t].at \notin {"idle", "editing"}

-----------------------------------------------------------------------------
(* Clients, and the part of SETTINGS_SET before anything is written.       *)

SettingsGet(c) ==
    /\ phase \in {"up", "stopping"}
    /\ proc[c].at = "idle" /\ used.sets < MaxSets
    /\ proc' = [proc EXCEPT ![c].at = "editing", ![c].known = mem]
    /\ UNCHANGED <<disk, data, mem, slot, slotLock, detail, phase, may, used>>

(* A set that meets no other one may come into force from now on.          *)
Begun(c, s) ==
    LET others == {t \in Clients \ {c} : Setting(t)} IN
    /\ proc' = [t \in Threads |->
          CASE t = c -> [Idle EXCEPT !.at = "open", !.want = s,
                                    !.alone = others = {}, !.before = IF others = {} THEN may ELSE {}]
            [] t \in others -> [proc[t] EXCEPT !.alone = FALSE, !.before = {}]
            [] OTHER -> proc[t]]
    /\ may' = IF others = {} /\ may # {} THEN may \cup {s} ELSE {}

SettingsSet(c) ==
    /\ Runs(c, "editing")
    /\ used' = [used EXCEPT !.sets = @ + 1]
    /\ used.sets < MaxSets
    /\ \E s \in Edits(proc[c].known) :
          \/ /\ Refused(s.paths)
             /\ Rest(c)
             /\ UNCHANGED may
          \/ /\ ~Refused(s.paths)
             /\ Begun(c, [s EXCEPT !.paths = Normal(@)])
    /\ UNCHANGED <<disk, data, mem, slot, slotLock, detail, phase>>

GiveUp(c) ==
    /\ Runs(c, "editing")
    /\ Rest(c)
    /\ UNCHANGED <<disk, data, mem, slot, slotLock, detail, phase, may, used>>

-----------------------------------------------------------------------------
(* Settings::save: fs::write of the temporary file, which opens it with    *)
(* truncation and then writes from its own offset, and the rename.         *)

Load ==
    /\ Runs(Main, "load")
    /\ IF disk.file = None
       THEN /\ proc' = [proc EXCEPT ![Main].at = "open", ![Main].want = Default]
            /\ UNCHANGED mem
       ELSE mem' = Stored /\ Go(Main, "sync")
    /\ UNCHANGED <<disk, data, slot, slotLock, detail, phase, may, used>>

Free(i) == i \notin {disk.file, disk.tmp} \cup {proc[t].fd : t \in Threads}

TruncateInPlace(t) ==
    LET i == IF disk.file = None THEN CHOOSE j \in Inodes : Free(j) ELSE disk.file IN
    /\ Runs(t, "open")
    /\ disk' = [file |-> i, tmp |-> i]
    /\ data' = [data EXCEPT ![i] = <<>>]
    /\ proc' = [proc EXCEPT ![t].at = "write", ![t].fd = i]
    /\ UNCHANGED <<mem, slot, slotLock, detail, phase, may, used>>

Truncate(t) ==
    LET i == IF disk.tmp = None THEN CHOOSE j \in Inodes : Free(j) ELSE disk.tmp IN
    /\ Runs(t, "open")
    /\ disk' = [disk EXCEPT !.tmp = i]
    /\ data' = [data EXCEPT ![i] = <<>>]
    /\ proc' = [proc EXCEPT ![t].at = "write", ![t].fd = i]
    /\ UNCHANGED <<mem, slot, slotLock, detail, phase, may, used>>

(* A text over another thread's text: what is left of a longer one, if     *)
(* anything is, need not parse.                                            *)
Write(t) ==
    /\ Runs(t, "write")
    /\ \E rest \in 0..Len(data[proc[t].fd]) :
          data' = [data EXCEPT ![proc[t].fd] = <<proc[t].want>> \o SubSeq(@, 1, rest)]
    /\ proc' = [proc EXCEPT ![t].at = "rename", ![t].fd = None]
    /\ UNCHANGED <<disk, mem, slot, slotLock, detail, phase, may, used>>

(* The error goes to the client; main goes on with the defaults in memory. *)
SaveFails(t) ==
    /\ IF t = Main THEN proc' = [proc EXCEPT ![t].at = "store", ![t].fd = None]
                   ELSE Rest(t)
    /\ may' = IF proc[t].alone THEN proc[t].before ELSE may
    /\ UNCHANGED <<disk, data, mem, slot, slotLock, detail, phase>>

CannotWrite(t) ==
    /\ Runs(t, "write")
    /\ Faulty
    /\ SaveFails(t)

Rename(t) ==
    /\ Runs(t, "rename")
    /\ disk.tmp # None
    /\ disk' = [file |-> disk.tmp, tmp |-> None]
    /\ Go(t, "store")
    /\ UNCHANGED <<data, mem, slot, slotLock, detail, phase, may, used>>

RenameNothing(t) ==
    /\ Runs(t, "rename")
    /\ disk.tmp = None
    /\ SaveFails(t)
    /\ UNCHANGED used

-----------------------------------------------------------------------------
(* The rest of SETTINGS_SET: the copy in memory, then sync_realtime.       *)

Store(t) ==
    /\ Runs(t, "store")
    /\ mem' = proc[t].want
    /\ Go(t, "sync")
    /\ UNCHANGED <<disk, data, slot, slotLock, detail, phase, may, used>>

ReadEnabled(t) ==
    /\ Runs(t, "sync")
    /\ proc' = [proc EXCEPT ![t].at = "slot", ![t].enabled = mem.enabled]
    /\ UNCHANGED <<disk, data, mem, slot, slotLock, detail, phase, may, used>>

Finish(t) ==
    /\ Rest(t)
    /\ phase' = IF t = Main THEN "up" ELSE phase
    /\ may' = IF proc[t].alone THEN {proc[t].want} ELSE may

(* The watcher that ran is stopped in any case, with the mutex held.       *)
StopOld(t) ==
    /\ Runs(t, "slot")
    /\ slotLock = None
    /\ slot' = None

SyncOff(t) ==
    /\ StopOld(t)
    /\ ~proc[t].enabled
    /\ detail' = "disabled"
    /\ Finish(t)
    /\ UNCHANGED <<disk, data, mem, slotLock, used>>

SyncOn(t) ==
    /\ StopOld(t)
    /\ proc[t].enabled
    /\ slotLock' = t
    /\ Go(t, "start")
    /\ UNCHANGED <<disk, data, mem, detail, phase, may, used>>

StartsFromKnown(t) ==
    /\ Runs(t, "start")
    /\ \/ /\ slot' = IF t = Main THEN mem ELSE proc[t].want
          /\ detail' = "watching" /\ UNCHANGED used
       \/ Faulty /\ detail' = "failed" /\ UNCHANGED slot
    /\ slotLock' = None
    /\ Finish(t)
    /\ UNCHANGED <<disk, data, mem>>

(* The settings are read once more, for the watcher's snapshot.            *)
StartWatcher(t) ==
    /\ Runs(t, "start")
    /\ \/ slot' = mem /\ detail' = "watching" /\ UNCHANGED used
       \/ Faulty /\ detail' = "failed" /\ UNCHANGED slot
    /\ slotLock' = None
    /\ Finish(t)
    /\ UNCHANGED <<disk, data, mem>>

-----------------------------------------------------------------------------
(* SIGTERM: stop_realtime takes the watcher out of the slot, lets go of    *)
(* the mutex, stops the watcher, and the process exits. A crash ends it at *)
(* any moment. What is on the disk is all that is left.                    *)

Sigterm ==
    /\ phase = "up"
    /\ slotLock = None
    /\ slot' = None
    /\ phase' = "stopping"
    /\ UNCHANGED <<disk, data, mem, slotLock, detail, proc, may, used>>

End ==
    /\ phase' = "down"
    /\ mem' = Default
    /\ slot' = None /\ slotLock' = None /\ detail' = "not started"
    /\ proc' = [t \in Threads |-> Idle]
    /\ UNCHANGED <<disk, data, may, used>>

Exit == phase = "stopping" /\ End
Crash == phase # "down" /\ used.lives < MaxLives /\ End

Start ==
    /\ phase = "down" /\ used.lives < MaxLives
    /\ phase' = "starting"
    /\ proc' = [proc EXCEPT ![Main].at = "load"]
    /\ used' = [used EXCEPT !.lives = @ + 1]
    /\ UNCHANGED <<disk, data, mem, slot, slotLock, detail, may>>

-----------------------------------------------------------------------------
Step(t) ==
    \/ Truncate(t) \/ Write(t) \/ CannotWrite(t) \/ Rename(t) \/ RenameNothing(t)
    \/ Store(t) \/ ReadEnabled(t) \/ SyncOff(t) \/ SyncOn(t) \/ StartWatcher(t)

Next ==
    \/ Load
    \/ \E t \in Threads : Step(t)
    \/ \E c \in Clients : SettingsGet(c) \/ SettingsSet(c) \/ GiveUp(c)
    \/ Sigterm \/ Exit \/ Crash \/ Start

Spec == Init /\ [][Next]_vars

-----------------------------------------------------------------------------
Documents == [enabled : BOOLEAN, paths : Seq(Raw)]

(* TypeOK: a thread has the temporary file open exactly while it writes,   *)
(* the mutex of the slot is held exactly while a watcher is started, and   *)
(* only lists that are normal are in memory.                               *)
TypeOK ==
    /\ disk \in [file : Inodes \cup {None}, tmp : Inodes \cup {None}]
    /\ \A i \in Inodes : data[i] \in Seq(Documents)
    /\ mem \in Documents /\ IsInjective(mem.paths)
    /\ \A i \in DOMAIN mem.paths : LET r == mem.paths[i] IN
          r = Trim[r] /\ r \notin Blank \cup Relative
    /\ slot = None \/ slot \in Documents
    /\ \A t \in Threads :
          /\ (proc[t].fd # None) <=> (proc[t].at = "write")
          /\ (slotLock = t) <=> (proc[t].at = "start")
    /\ phase \in {"starting", "up", "stopping", "down"}
    /\ may \subseteq Documents

Quiet == phase = "up" /\ \A t \in Threads : ~Setting(t)

(* FilePromised: unless two sets overlapped, the file is at every moment,  *)
(* in the middle of a save and after a crash, a whole document, and one    *)
(* that was accepted last or is being set (save, load_or_create).          *)
FilePromised ==
    may # {} => /\ disk.file # None => Len(data[disk.file]) = 1
                /\ Stored \in may

(* InForce: when nobody is setting anything, and the last set that         *)
(* succeeded met no other, then file, memory and watcher agree on what it  *)
(* set, also after failed sets, leftovers of a crash, restarts, and sets   *)
(* that overlapped before.                                                 *)
InForce ==
    Quiet /\ may # {} =>
        /\ mem \in may
        /\ Stored = mem
        /\ slot = IF mem.enabled /\ detail # "failed" THEN mem ELSE None

(* PromiseKept: what a set that met no other one was told is true, on disk *)
(* at every moment and in force once nobody is setting anything (server.rs *)
(* SETTINGS_SET, config.rs save).                                          *)
PromiseKept == TypeOK /\ FilePromised /\ InForce

(* RunningIsCurrent: in whatever order sets overlapped, a watcher that     *)
(* runs in the end runs with the settings in memory, exclusions included   *)
(* (sync_realtime: "a restart re-snapshots").                              *)
RunningIsCurrent == Quiet => slot \in {None, mem}

(* SlotFollowsMemory: sync_realtime is there to "align the watcher with    *)
(* realtime.enabled", after every change; so in the end there is a watcher *)
(* if the settings in memory want one.                                     *)
SlotFollowsMemory ==
    Quiet /\ detail # "failed" => (slot = None <=> ~mem.enabled)
=============================================================================
