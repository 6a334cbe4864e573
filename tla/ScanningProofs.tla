--------------------------- MODULE ScanningProofs ---------------------------
(***************************************************************************)
(* Proofs about Scanning, for any files, paths, workers and cache budget,  *)
(* and any numbers of stamps, rewrites, renames, events, failing scans and *)
(* lifetimes.                                                              *)
(***************************************************************************)
EXTENDS Scanning, SequenceTheorems, TLAPS

USE NoneAssumption, BudgetAssumption, FlagAssumption, DirsAssumption, BoundAssumption

-----------------------------------------------------------------------------
(* The invariant.                                                          *)

EventT == [kind : {"write", "open", "exec"}, file : Files]
FileT == [stamp : 1..MaxStamps, bad : BOOLEAN]
IntakeT ==
    [at : {"idle", "scan", "answer"}, file : Files \cup {NoFile},
     name : Names \cup {NoName}, key : SomeKey, outcome : Outcome]
WorkerT ==
    [at : {"idle", "look", "scan", "settle", "act", "move"},
     name : Names \cup {NoName}, key : SomeKey, outcome : Outcome,
     kind : {"none", "denied", "detected"}]
UsedT ==
    [stamps : Nat, coarse : Nat, renames : Nat, events : Nat, failures : Nat,
     lifetimes : Nat]
Sure == {"clean", "infected"}

Asks == intake.at # "idle"
Holds(w) == worker[w].at \in {"scan", "settle"}

FsOK ==
    /\ dir \in [Names -> Files \cup {NoFile}]
    /\ file \in [Files -> FileT]
    /\ events \in Seq(EventT)
CacheOK == cache \in [Keys -> Verdicts] /\ saved \in [Keys -> Verdicts]
QueueOK == waiting \subseteq Names /\ followups \in Seq(Names)
IntakeOK ==
    /\ intake \in IntakeT
    /\ intake.at = "idle" <=> intake.name = NoName
    /\ Asks => intake.key \in Keys /\ intake.key[1] = intake.file
    /\ intake.at = "answer" => intake.outcome # "none"
WorkersOK ==
    /\ worker \in [Workers -> WorkerT]
    /\ \A w \in Workers : worker[w].at = "idle" <=> worker[w].name = NoName
    /\ \A w \in Workers : Holds(w) => worker[w].key \in Keys
    /\ \A w \in Workers : worker[w].kind # "none" <=>
          worker[w].at \in {"act", "move"}
UsedOK == used \in UsedT /\ used.stamps <= MaxStamps /\ used.lifetimes >= 1
PhaseOK == phase \in {"running", "stopping", "down"}
HistoryOK ==
    /\ told \subseteq Names \X Keys /\ failed \subseteq Names \X Keys
    /\ denied \subseteq Names \X Keys /\ found \subseteq Keys
    /\ forgotten \subseteq Keys
Shapes ==
    /\ FsOK /\ CacheOK /\ QueueOK /\ IntakeOK /\ WorkersOK
    /\ UsedOK /\ PhaseOK /\ HistoryOK

(* No inode has two paths.                                                 *)
Single == \A n, m \in Names : dir[n] = dir[m] /\ dir[n] # NoFile => n = m

(* A new stamp is newer than every key that anything knows of.             *)
FileStamps == \A f \in Files : file[f].stamp <= used.stamps
CacheStamps == \A k \in Keys : cache[k] # "none" => k[2] <= used.stamps
SavedStamps == \A k \in Keys : saved[k] # "none" => k[2] <= used.stamps
ToldStamps == \A t \in told : t[2][2] <= used.stamps
DeniedStamps == \A d \in denied : d[2][2] <= used.stamps
GateStamps == Asks => intake.key[2] <= used.stamps
WorkerStamps == \A w \in Workers : Holds(w) => worker[w].key[2] <= used.stamps
Stamped ==
    /\ FileStamps /\ CacheStamps /\ SavedStamps /\ ToldStamps
    /\ DeniedStamps /\ GateStamps /\ WorkerStamps

(* Content that was handed over is under the path it was handed over with, *)
(* or under none.                                                          *)
Placed == \A t \in told, n \in Names : Current(n, t[2]) => n = t[1]

(* Without renames the same is true of the keys that a thread holds.       *)
At(k, m) == \A n \in Names : Current(n, k) => n = m
GateHomed == used.renames = 0 /\ Asks => At(intake.key, intake.name)
WorkersHomed ==
    used.renames = 0 =>
       \A w \in Workers : Holds(w) => At(worker[w].key, worker[w].name)
Homed == GateHomed /\ WorkersHomed

(* A verdict for a key is right about the content of that key, if there is *)
(* any.                                                                    *)
Fits(k, v) ==
    \A n \in Names : Current(n, k) => (v = "infected" <=> file[dir[n]].bad)

(* The verdicts in the cache, in its file and in the hands of the threads  *)
(* are right.                                                              *)
Plain == used.renames = 0 /\ used.coarse = 0
RightCache == Plain => \A k \in Keys : cache[k] # "none" => Fits(k, cache[k])
RightSaved == Plain => \A k \in Keys : saved[k] # "none" => Fits(k, saved[k])
RightGate ==
    Plain /\ intake.at = "answer" /\ intake.outcome \in Sure =>
       Fits(intake.key, intake.outcome)
RightWorkers ==
    Plain =>
       \A w \in Workers :
          worker[w].at = "settle" /\ worker[w].outcome \in Sure =>
             Fits(worker[w].key, worker[w].outcome)
RightDenied == Plain => \A d \in denied : Fits(d[2], "infected")
Right == RightCache /\ RightSaved /\ RightGate /\ RightWorkers /\ RightDenied

(* A worker that found the path gone is of no use to content that is there.*)
OnIt(w, n, k) ==
    /\ worker[w].name = n
    /\ \/ worker[w].at = "look"
       \/ worker[w].at = "scan" /\ worker[w].key = k
       \/ worker[w].at = "settle" /\ worker[w].key = k /\ worker[w].outcome # "gone"
Handled ==
    \A t \in told \ failed :
       Current(t[1], t[2]) => t[1] \in waiting \/ \E w \in Workers : OnIt(w, t[1], t[2])

(* The follow-up of a denied exec is in the lane, in a worker's hand, or   *)
(* saved.                                                                  *)
Following ==
    used.lifetimes = 1 =>
       \A d \in denied :
          \/ d[1] \in Elems(followups)
          \/ phase = "down" /\ d[1] \in waiting
          \/ \E w \in Workers : worker[w].name = d[1] /\ worker[w].at = "act"

(* Somebody has acted on the key's verdict, or will for a denied exec.     *)
Seen(k) == k \in found \/ \E d \in denied : d[2] = k

(* The verdict of a key that somebody has acted on is in the cache or has  *)
(* left it; without the second part nothing would keep a key from being    *)
(* taken again.                                                            *)
Once ==
    /\ again \subseteq forgotten
    /\ \A k \in Keys : Seen(k) => cache[k] = "infected" \/ k \in forgotten

(* In the first lifetime somebody acts on every infected verdict.          *)
Reported ==
    used.lifetimes = 1 /\ phase # "down" =>
       \A k \in Keys : cache[k] = "infected" => Seen(k)

ScanInv ==
    /\ Shapes /\ Single /\ Stamped /\ Placed /\ Homed /\ Right
    /\ Handled /\ Following /\ Once /\ Reported

-----------------------------------------------------------------------------
(* Keys and paths.                                                         *)

(* The key of a file is a key.                                             *)
LEMMA KeyIs ==
    ASSUME Shapes, NEW f \in Files
    PROVE  Key(f) \in Keys /\ Key(f)[1] = f /\ Key(f)[2] = file[f].stamp
  BY DEF Shapes, FsOK, FileT, Key, Keys

(* A path has the content of a key if it names the inode and the stamp is  *)
(* the inode's.                                                            *)
LEMMA CurrentIs ==
    ASSUME Shapes, NEW n \in Names, NEW k \in Keys
    PROVE  Current(n, k) <=> dir[n] = k[1] /\ file[k[1]].stamp = k[2]
  <1>1. k[1] \in Files /\ k = <<k[1], k[2]>>
    BY DEF Keys
  <1>2. dir[n] # NoFile => dir[n] \in Files
    BY DEF Shapes, FsOK
  <1> QED BY <1>1, <1>2 DEF Current, Key

(* Only a step that changes the directory or a file changes what is        *)
(* current.                                                                *)
LEMMA SameCurrent ==
    ASSUME UNCHANGED <<dir, file>>, NEW n, NEW k
    PROVE  (Current(n, k)' <=> Current(n, k)) /\ Key(n)' = Key(n)
  BY DEF Current, Key

(* ... and what a verdict must be.                                         *)
LEMMA SameFits ==
    ASSUME UNCHANGED <<dir, file>>, NEW k, NEW v
    PROVE  Fits(k, v)' <=> Fits(k, v)
  BY DEF Fits, Current, Key

(* cache_put stores the verdict, and may forget others.                    *)
LEMMA PutDoes ==
    ASSUME Shapes, NEW k \in Keys, NEW v \in Sure, NEW c \in Put(k, v)
    PROVE  /\ c \in [Keys -> Verdicts]
           /\ c[k] = v
           /\ \A j \in Keys : j # k => c[j] \in {cache[j], "none"}
  <1>1. PICK b : /\ c = [b EXCEPT ![k] = v]
                 /\ b = cache \/ \E S \in SUBSET Entries : b = Keeping(S)
    BY DEF Put
  <1>2. b \in [Keys -> Verdicts] /\ \A j \in Keys : b[j] \in {cache[j], "none"}
    BY <1>1 DEF Keeping, Verdicts, Shapes, CacheOK
  <1> QED BY <1>1, <1>2 DEF Verdicts, Sure

(* A worker that is not idle has a path, and one that asks a key.          *)
LEMMA WorkerIs ==
    ASSUME Shapes, NEW w \in Workers
    PROVE  /\ worker[w].at # "idle" => worker[w].name \in Names
           /\ Holds(w) => worker[w].key \in Keys
           /\ worker[w] \in WorkerT
  BY DEF Shapes, WorkersOK, WorkerT

(* ... and so does the gate.                                               *)
LEMMA IntakeIs ==
    ASSUME Shapes, Asks
    PROVE  /\ intake.name \in Names /\ intake.key \in Keys
           /\ intake.key[1] = intake.file
  BY DEF Shapes, IntakeOK, IntakeT, Asks

(* The engine says of a path what is there.                                *)
LEMMA OutcomesAre ==
    ASSUME Shapes, NEW n \in Names, NEW o \in Outcomes(n)
    PROVE  /\ o \in Outcome /\ o # "none"
           /\ o \in Sure => dir[n] # NoFile
           /\ o \in Sure => (o = "infected" <=> file[dir[n]].bad)
           /\ o = "gone" => dir[n] = NoFile
  BY DEF Outcomes, Outcome, Sure

(* A rewrite has a new stamp, or keeps the old one.                        *)
Anew(f, bad) ==
    /\ used.stamps < MaxStamps
    /\ file'[f].stamp = used.stamps + 1
    /\ file'[f].bad <=> bad
    /\ used'.stamps = used.stamps + 1
    /\ used'.coarse = used.coarse
Anyhow(n, f, bad) ==
    /\ dir[n] = f
    /\ file'[f].stamp = file[f].stamp
    /\ file'[f].bad <=> bad
    /\ used'.stamps = used.stamps
    /\ used'.coarse = used.coarse + 1

(* A scan that fails is counted.                                           *)
LEMMA ScannedDoes ==
    ASSUME Shapes, NEW o, Scanned(o)
    PROVE  /\ used' \in UsedT
           /\ used'.stamps = used.stamps /\ used'.coarse = used.coarse
           /\ used'.renames = used.renames /\ used'.lifetimes = used.lifetimes
  <1>1. used' = [used EXCEPT !.failures = @ + 1] \/ used' = used
    BY DEF Scanned
  <1> QED BY <1>1 DEF Shapes, UsedOK, UsedT

-----------------------------------------------------------------------------
(* What each action does, field by field.                                 *)

(* A path gets new content under a new stamp, or keeps its stamp.          *)
LEMMA CloseWriteDoes ==
    ASSUME Shapes, NEW n \in Names, NEW f \in Files, NEW bad \in BOOLEAN, CloseWrite(n, f, bad)
    PROVE  /\ dir[n] = f \/ (dir[n] = NoFile /\ \A m \in Names : dir[m] # f)
           /\ \A m \in Names : m # n => dir'[m] = dir[m]
           /\ dir'[n] = f
           /\ dir' \in [Names -> Files \cup {NoFile}]
           /\ \A g \in Files : g # f => file'[g] = file[g]
           /\ Anew(f, bad) \/ Anyhow(n, f, bad)
           /\ file' \in [Files -> FileT]
           /\ used' \in UsedT /\ used'.renames = used.renames
           /\ used'.lifetimes = used.lifetimes
           /\ events' \in Seq(EventT)
           /\ UNCHANGED <<cache, saved, waiting, followups, intake, worker, phase,
                          told, failed, denied, found, again, forgotten>>
  <1>1. dir[n] = f \/ (dir[n] = NoFile /\ \A m \in Names : dir[m] # f)
    BY DEF CloseWrite, Unused, Named, Tell, queue, history, FileT, UsedT, EventT,
       Shapes, FsOK, QueueOK, IntakeOK, WorkersOK, UsedOK
  <1>2. \A m \in Names : m # n => dir'[m] = dir[m]
    BY DEF CloseWrite, Unused, Named, Tell, queue, history, FileT, UsedT, EventT,
       Shapes, FsOK, QueueOK, IntakeOK, WorkersOK, UsedOK
  <1>3. dir'[n] = f
    BY DEF CloseWrite, Unused, Named, Tell, queue, history, FileT, UsedT, EventT,
       Shapes, FsOK, QueueOK, IntakeOK, WorkersOK, UsedOK
  <1>4. dir' \in [Names -> Files \cup {NoFile}]
    BY DEF CloseWrite, Unused, Named, Tell, queue, history, FileT, UsedT, EventT,
       Shapes, FsOK, QueueOK, IntakeOK, WorkersOK, UsedOK
  <1>5. \A g \in Files : g # f => file'[g] = file[g]
    BY DEF CloseWrite, Unused, Named, Tell, queue, history, FileT, UsedT, EventT,
       Shapes, FsOK, QueueOK, IntakeOK, WorkersOK, UsedOK
  <1>6. Anew(f, bad) \/ Anyhow(n, f, bad)
    <2>1. CASE /\ used.stamps < MaxStamps
               /\ file' = [file EXCEPT ![f] = [stamp |-> used.stamps + 1, bad |-> bad]]
               /\ used' = [used EXCEPT !.stamps = @ + 1, !.events = @ + 1]
      BY <2>1 DEF Anew, Shapes, FsOK, UsedOK, UsedT
    <2>2. CASE /\ dir[n] = f
               /\ file' = [file EXCEPT ![f].bad = bad]
               /\ used' = [used EXCEPT !.coarse = @ + 1, !.events = @ + 1]
      <3>1. file'[f].stamp = file[f].stamp /\ (file'[f].bad <=> bad)
        BY <2>2 DEF Shapes, FsOK, FileT
      <3> QED BY <2>2, <3>1 DEF Anyhow, Shapes, UsedOK, UsedT
    <2> QED BY <2>1, <2>2 DEF CloseWrite
  <1>7. file' \in [Files -> FileT]
    <2>1. PICK s \in 1..MaxStamps : file' = [file EXCEPT ![f] = [stamp |-> s, bad |-> bad]]
      <3>1. CASE /\ used.stamps < MaxStamps
                 /\ file' = [file EXCEPT ![f] = [stamp |-> used.stamps + 1, bad |-> bad]]
        <4>1. used.stamps + 1 \in 1..MaxStamps
          BY <3>1 DEF Shapes, UsedOK, UsedT
        <4> QED BY <3>1, <4>1
      <3>2. CASE file' = [file EXCEPT ![f].bad = bad]
        <4>1. file[f].stamp \in 1..MaxStamps
          BY DEF Shapes, FsOK, FileT
        <4>2. [file[f] EXCEPT !.bad = bad] = [stamp |-> file[f].stamp, bad |-> bad]
          BY DEF Shapes, FsOK, FileT
        <4> QED BY <3>2, <4>1, <4>2
      <3> QED BY <3>1, <3>2 DEF CloseWrite
    <2> QED BY <2>1 DEF FileT, Shapes, FsOK
  <1>8. /\ used' \in UsedT /\ used'.renames = used.renames
        /\ used'.lifetimes = used.lifetimes
    <2>1. \/ used' = [used EXCEPT !.stamps = @ + 1, !.events = @ + 1]
          \/ used' = [used EXCEPT !.coarse = @ + 1, !.events = @ + 1]
      BY DEF CloseWrite
    <2>2. used \in UsedT
      BY DEF Shapes, UsedOK
    <2>3. /\ used.stamps + 1 \in Nat /\ used.coarse + 1 \in Nat
          /\ used.events + 1 \in Nat
      BY <2>2 DEF UsedT
    <2>4. PICK s \in Nat, e \in Nat : \/ used' = [used EXCEPT !.stamps = s, !.events = e]
                                   \/ used' = [used EXCEPT !.coarse = s, !.events = e]
      <3>1. CASE used' = [used EXCEPT !.stamps = @ + 1, !.events = @ + 1]
        <4>1. used' = [used EXCEPT !.stamps = used.stamps + 1, !.events = used.events + 1]
          BY <3>1, <2>2 DEF UsedT
        <4> QED BY <4>1, <2>3
      <3>2. CASE used' = [used EXCEPT !.coarse = @ + 1, !.events = @ + 1]
        <4>1. used' = [used EXCEPT !.coarse = used.coarse + 1, !.events = used.events + 1]
          BY <3>2, <2>2 DEF UsedT
        <4> QED BY <4>1, <2>3
      <3> QED BY <2>1, <3>1, <3>2
    <2>5. CASE used' = [used EXCEPT !.stamps = s, !.events = e]
      BY <2>2, <2>5 DEF UsedT
    <2>6. CASE used' = [used EXCEPT !.coarse = s, !.events = e]
      BY <2>2, <2>6 DEF UsedT
    <2> QED BY <2>4, <2>5, <2>6
  <1>9. events' \in Seq(EventT)
    <2>1. PICK e \in EventT : events' = Append(events, e) \/ events' = events
      BY DEF CloseWrite, Tell, Shapes, FsOK, EventT
    <2> QED BY <2>1 DEF Shapes, FsOK
  <1>10. UNCHANGED <<cache, saved, waiting, followups, intake, worker, phase, told,
                     failed, denied, found, again, forgotten>>
    BY DEF CloseWrite, Unused, Named, Tell, queue, history, FileT, UsedT, EventT
  <1> QED BY <1>1, <1>2, <1>3, <1>4, <1>5, <1>6, <1>7, <1>8, <1>9, <1>10

(* An event for the path.                                                  *)
LEMMA UseDoes ==
    ASSUME Shapes, NEW n \in Names, NEW kind \in {"open", "exec"}, Use(n, kind)
    PROVE  /\ events' \in Seq(EventT)
           /\ used' = [used EXCEPT !.events = @ + 1]
           /\ used' \in UsedT /\ used'.stamps = used.stamps
           /\ used'.coarse = used.coarse
           /\ used'.renames = used.renames /\ used'.lifetimes = used.lifetimes
           /\ UNCHANGED <<dir, file, cache, saved, waiting, followups, intake, worker,
                          phase, told, failed, denied, found, again, forgotten>>
  <1>1. events' \in Seq(EventT)
    <2>1. PICK e \in EventT : events' = Append(events, e) \/ events' = events
      BY DEF Use, Tell, Shapes, FsOK, EventT
    <2> QED BY <2>1 DEF Shapes, FsOK
  <1>2. used' = [used EXCEPT !.events = @ + 1]
    BY DEF Use, Tell, queue, history, UsedT, EventT, Shapes, FsOK, QueueOK, IntakeOK,
       WorkersOK, UsedOK
  <1>3. used' \in UsedT /\ used'.stamps = used.stamps /\ used'.coarse = used.coarse
    <2>1. used' = [used EXCEPT !.events = @ + 1]
      BY DEF Use
    <2> QED BY <2>1 DEF Shapes, UsedOK, UsedT
  <1>4. used'.renames = used.renames /\ used'.lifetimes = used.lifetimes
    BY DEF Use, Tell, queue, history, UsedT, EventT, Shapes, FsOK, QueueOK, IntakeOK,
       WorkersOK, UsedOK
  <1>5. UNCHANGED <<dir, file, cache, saved, waiting, followups, intake, worker,
                    phase, told, failed, denied, found, again, forgotten>>
    BY DEF Use, Tell, queue, history, UsedT, EventT
  <1> QED BY <1>1, <1>2, <1>3, <1>4, <1>5

(* The inode takes the other path, and what was handed over is forgotten.  *)
LEMMA RenameDoes ==
    ASSUME Shapes, NEW n \in Names, NEW m \in Names, Rename(n, m)
    PROVE  /\ n # m /\ dir[n] # NoFile
           /\ dir'[m] = dir[n] /\ dir'[n] = NoFile
           /\ \A x \in Names : x # n /\ x # m => dir'[x] = dir[x]
           /\ dir' \in [Names -> Files \cup {NoFile}]
           /\ used' \in UsedT /\ used'.renames = used.renames + 1
           /\ used'.stamps = used.stamps /\ used'.lifetimes = used.lifetimes
           /\ told' = {t \in told : t[1] # n}
           /\ UNCHANGED <<file, events, cache, saved, waiting, followups, intake,
                          worker, phase, failed, denied, found, again, forgotten>>
  <1>1. n # m /\ dir[n] # NoFile
    BY DEF Rename, queue, UsedT, Shapes, FsOK, QueueOK, IntakeOK, WorkersOK, UsedOK
  <1>2. dir'[m] = dir[n] /\ dir'[n] = NoFile
    BY DEF Rename, queue, UsedT, Shapes, FsOK, QueueOK, IntakeOK, WorkersOK, UsedOK
  <1>3. \A x \in Names : x # n /\ x # m => dir'[x] = dir[x]
    BY DEF Rename, queue, UsedT, Shapes, FsOK, QueueOK, IntakeOK, WorkersOK, UsedOK
  <1>4. dir' \in [Names -> Files \cup {NoFile}]
    BY DEF Rename, queue, UsedT, Shapes, FsOK, QueueOK, IntakeOK, WorkersOK, UsedOK
  <1>5. used' \in UsedT /\ used'.renames = used.renames + 1
    <2>1. used' = [used EXCEPT !.renames = @ + 1]
      BY DEF Rename
    <2> QED BY <2>1 DEF Shapes, UsedOK, UsedT
  <1>6. used'.stamps = used.stamps /\ used'.lifetimes = used.lifetimes
    BY DEF Rename, queue, UsedT, Shapes, FsOK, QueueOK, IntakeOK, WorkersOK, UsedOK
  <1>7. told' = {t \in told : t[1] # n}
    BY DEF Rename, queue, UsedT, Shapes, FsOK, QueueOK, IntakeOK, WorkersOK, UsedOK
  <1>8. UNCHANGED <<file, events, cache, saved, waiting, followups, intake, worker,
                    phase, failed, denied, found, again, forgotten>>
    BY DEF Rename, queue, UsedT
  <1> QED BY <1>1, <1>2, <1>3, <1>4, <1>5, <1>6, <1>7, <1>8

(* The event is dropped.                                                   *)
LEMMA VanishedDoes ==
    ASSUME Shapes, Vanished
    PROVE  /\ events' \in Seq(EventT)
           /\ UNCHANGED <<dir, file, cache, saved, waiting, followups, intake, worker,
                          phase, used, told, failed, denied, found, again, forgotten>>
  <1>1. events' \in Seq(EventT)
    BY DEF Vanished, queue, history, EventT, Shapes, FsOK, QueueOK, IntakeOK,
       WorkersOK, UsedOK
  <1>2. UNCHANGED <<dir, file, cache, saved, waiting, followups, intake, worker,
                    phase, used, told, failed, denied, found, again, forgotten>>
    BY DEF Vanished, queue, history, EventT
  <1> QED BY <1>1, <1>2

(* The path waits for a scan.                                              *)
LEMMA WrittenDoes ==
    ASSUME Shapes, NEW f \in Files, NEW n \in Names, Written(f, n)
    PROVE  /\ phase = "running" /\ intake.at = "idle" /\ dir[n] = f
           /\ Key(f) \in Keys /\ Key(f)[1] = f
           /\ events' \in Seq(EventT)
           /\ waiting' = waiting \cup {n}
           /\ told' = told \cup {<<n, Key(f)>>}
           /\ UNCHANGED <<dir, file, cache, saved, followups, intake, worker, phase,
                          used, failed, denied, found, again, forgotten>>
  <1>1. phase = "running" /\ intake.at = "idle" /\ dir[n] = f
    BY DEF Written, Event, queue, history, EventT, Handed, Shapes, FsOK, QueueOK,
       IntakeOK, WorkersOK, UsedOK
  <1>2. Key(f) \in Keys /\ Key(f)[1] = f
    BY KeyIs DEF Written, Event, queue, history, EventT, Handed, Shapes, FsOK,
       QueueOK, IntakeOK, WorkersOK, UsedOK
  <1>3. events' \in Seq(EventT)
    BY DEF Written, Event, queue, history, EventT, Handed, Shapes, FsOK, QueueOK,
       IntakeOK, WorkersOK, UsedOK
  <1>4. waiting' = waiting \cup {n}
    BY DEF Written, Event, queue, history, EventT, Handed, Shapes, FsOK, QueueOK,
       IntakeOK, WorkersOK, UsedOK
  <1>5. told' = told \cup {<<n, Key(f)>>}
    BY KeyIs DEF Written, Event, queue, history, EventT, Handed, Shapes, FsOK,
       QueueOK, IntakeOK, WorkersOK, UsedOK
  <1>6. UNCHANGED <<dir, file, cache, saved, followups, intake, worker, phase, used,
                    failed, denied, found, again, forgotten>>
    BY DEF Written, Event, queue, history, EventT, Handed
  <1> QED BY <1>1, <1>2, <1>3, <1>4, <1>5, <1>6

(* The path waits for a scan if its key has no verdict.                    *)
LEMMA OpenedDoes ==
    ASSUME Shapes, NEW f \in Files, NEW n \in Names, Opened(f, n)
    PROVE  /\ phase = "running" /\ intake.at = "idle" /\ dir[n] = f
           /\ Key(f) \in Keys /\ Key(f)[1] = f
           /\ events' \in Seq(EventT)
           /\ \/ /\ waiting' = waiting \cup {n}
                 /\ told' = told \cup {<<n, Key(f)>>}
              \/ UNCHANGED <<waiting, told>>
           /\ UNCHANGED <<dir, file, cache, saved, followups, intake, worker, phase,
                          used, failed, denied, found, again, forgotten>>
  <1>1. phase = "running" /\ intake.at = "idle" /\ dir[n] = f
    BY DEF Opened, Event, queue, history, EventT, Handed, Shapes, FsOK, QueueOK,
       IntakeOK, WorkersOK, UsedOK
  <1>2. Key(f) \in Keys /\ Key(f)[1] = f
    BY KeyIs DEF Opened, Event, queue, history, EventT, Handed, Shapes, FsOK, QueueOK,
       IntakeOK, WorkersOK, UsedOK
  <1>3. events' \in Seq(EventT)
    BY DEF Opened, Event, queue, history, EventT, Handed, Shapes, FsOK, QueueOK,
       IntakeOK, WorkersOK, UsedOK
  <1>4. \/ /\ waiting' = waiting \cup {n}
           /\ told' = told \cup {<<n, Key(f)>>}
        \/ UNCHANGED <<waiting, told>>
    BY KeyIs DEF Opened, Event, queue, history, EventT, Handed, Shapes, FsOK, QueueOK,
       IntakeOK, WorkersOK, UsedOK
  <1>5. UNCHANGED <<dir, file, cache, saved, followups, intake, worker, phase, used,
                    failed, denied, found, again, forgotten>>
    BY DEF Opened, Event, queue, history, EventT, Handed
  <1> QED BY <1>1, <1>2, <1>3, <1>4, <1>5

(* A known infection is denied.                                            *)
LEMMA ExecKnownDoes ==
    ASSUME Shapes, NEW f \in Files, NEW n \in Names, ExecKnown(f, n)
    PROVE  /\ phase = "running" /\ intake.at = "idle" /\ dir[n] = f
           /\ Key(f) \in Keys /\ Key(f)[1] = f
           /\ events' \in Seq(EventT)
           /\ \/ /\ cache[Key(f)] = "infected"
                 /\ followups' = Append(followups, n)
                 /\ denied' = denied \cup {<<n, Key(f)>>}
              \/ UNCHANGED <<followups, denied>>
           /\ UNCHANGED <<dir, file, cache, saved, waiting, intake, worker, phase,
                          used, told, failed, found, again, forgotten>>
  <1>1. phase = "running" /\ intake.at = "idle" /\ dir[n] = f
    BY DEF ExecKnown, Event, queue, history, EventT, Deny, FollowUp, Shapes, FsOK,
       QueueOK, IntakeOK, WorkersOK, UsedOK
  <1>2. Key(f) \in Keys /\ Key(f)[1] = f
    BY KeyIs DEF ExecKnown, Event, queue, history, EventT, Deny, FollowUp, Shapes,
       FsOK, QueueOK, IntakeOK, WorkersOK, UsedOK
  <1>3. events' \in Seq(EventT)
    BY DEF ExecKnown, Event, queue, history, EventT, Deny, FollowUp, Shapes, FsOK,
       QueueOK, IntakeOK, WorkersOK, UsedOK
  <1>4. \/ /\ cache[Key(f)] = "infected"
           /\ followups' = Append(followups, n)
           /\ denied' = denied \cup {<<n, Key(f)>>}
        \/ UNCHANGED <<followups, denied>>
    BY KeyIs DEF ExecKnown, Event, queue, history, EventT, Deny, FollowUp, Shapes,
       FsOK, QueueOK, IntakeOK, WorkersOK, UsedOK
  <1>5. UNCHANGED <<dir, file, cache, saved, waiting, intake, worker, phase, used,
                    told, failed, found, again, forgotten>>
    BY DEF ExecKnown, Event, queue, history, EventT, Deny, FollowUp
  <1> QED BY <1>1, <1>2, <1>3, <1>4, <1>5

(* The exec is let go and the path waits for a scan.                       *)
LEMMA ExecOverBudgetDoes ==
    ASSUME Shapes, NEW f \in Files, NEW n \in Names, ExecOverBudget(f, n)
    PROVE  /\ phase = "running" /\ intake.at = "idle" /\ dir[n] = f
           /\ Key(f) \in Keys /\ Key(f)[1] = f
           /\ events' \in Seq(EventT)
           /\ waiting' = waiting \cup {n}
           /\ told' = told \cup {<<n, Key(f)>>}
           /\ UNCHANGED <<dir, file, cache, saved, followups, intake, worker, phase,
                          used, failed, denied, found, again, forgotten>>
  <1>1. phase = "running" /\ intake.at = "idle" /\ dir[n] = f
    BY DEF ExecOverBudget, Event, queue, history, EventT, FailOpen, Requeue, Handed,
       Shapes, FsOK, QueueOK, IntakeOK, WorkersOK, UsedOK
  <1>2. Key(f) \in Keys /\ Key(f)[1] = f
    BY KeyIs DEF ExecOverBudget, Event, queue, history, EventT, FailOpen, Requeue,
       Handed, Shapes, FsOK, QueueOK, IntakeOK, WorkersOK, UsedOK
  <1>3. events' \in Seq(EventT)
    BY DEF ExecOverBudget, Event, queue, history, EventT, FailOpen, Requeue, Handed,
       Shapes, FsOK, QueueOK, IntakeOK, WorkersOK, UsedOK
  <1>4. waiting' = waiting \cup {n}
    BY DEF ExecOverBudget, Event, queue, history, EventT, FailOpen, Requeue, Handed,
       Shapes, FsOK, QueueOK, IntakeOK, WorkersOK, UsedOK
  <1>5. told' = told \cup {<<n, Key(f)>>}
    BY KeyIs DEF ExecOverBudget, Event, queue, history, EventT, FailOpen, Requeue,
       Handed, Shapes, FsOK, QueueOK, IntakeOK, WorkersOK, UsedOK
  <1>6. UNCHANGED <<dir, file, cache, saved, followups, intake, worker, phase, used,
                    failed, denied, found, again, forgotten>>
    BY DEF ExecOverBudget, Event, queue, history, EventT, FailOpen, Requeue, Handed
  <1> QED BY <1>1, <1>2, <1>3, <1>4, <1>5, <1>6

(* The gate takes the key before it asks the engine.                       *)
LEMMA ExecAskDoes ==
    ASSUME Shapes, NEW f \in Files, NEW n \in Names, ExecAsk(f, n)
    PROVE  /\ phase = "running" /\ intake.at = "idle" /\ dir[n] = f
           /\ Key(f) \in Keys /\ Key(f)[1] = f
           /\ events' \in Seq(EventT)
           /\ intake' = [at |-> "scan", file |-> f, name |-> n, key |-> Key(f),
                         outcome |-> "none"]
           /\ UNCHANGED <<dir, file, cache, saved, waiting, followups, worker, phase,
                          used, told, failed, denied, found, again, forgotten>>
  <1>1. phase = "running" /\ intake.at = "idle" /\ dir[n] = f
    BY DEF ExecAsk, Event, queue, history, EventT, Shapes, FsOK, QueueOK, IntakeOK,
       WorkersOK, UsedOK
  <1>2. Key(f) \in Keys /\ Key(f)[1] = f
    BY KeyIs DEF ExecAsk, Event, queue, history, EventT, Shapes, FsOK, QueueOK,
       IntakeOK, WorkersOK, UsedOK
  <1>3. events' \in Seq(EventT)
    BY DEF ExecAsk, Event, queue, history, EventT, Shapes, FsOK, QueueOK, IntakeOK,
       WorkersOK, UsedOK
  <1>4. intake' = [at |-> "scan", file |-> f, name |-> n, key |-> Key(f),
                   outcome |-> "none"]
    BY KeyIs DEF ExecAsk, Event, queue, history, EventT, Shapes, FsOK, QueueOK,
       IntakeOK, WorkersOK, UsedOK
  <1>5. UNCHANGED <<dir, file, cache, saved, waiting, followups, worker, phase, used,
                    told, failed, denied, found, again, forgotten>>
    BY DEF ExecAsk, Event, queue, history, EventT
  <1> QED BY <1>1, <1>2, <1>3, <1>4, <1>5

(* The engine speaks of what the path has now.                             *)
LEMMA GateScanDoes ==
    ASSUME Shapes, GateScan
    PROVE  /\ intake.at = "scan" /\ intake'.at = "answer"
           /\ intake'.outcome \in Outcome
           /\ intake'.file = intake.file /\ intake'.name = intake.name
           /\ intake'.key = intake.key
           /\ intake' \in IntakeT
           /\ intake'.outcome \in Sure => dir[intake.name] # NoFile
           /\ intake'.outcome \in Sure => (intake'.outcome = "infected" <=> file[dir[intake.name]].bad)
           /\ used' \in UsedT /\ used'.stamps = used.stamps
           /\ used'.coarse = used.coarse
           /\ used'.renames = used.renames /\ used'.lifetimes = used.lifetimes
           /\ UNCHANGED <<dir, file, events, cache, saved, waiting, followups, worker,
                          phase, told, failed, denied, found, again, forgotten>>
  <1>1. intake.at = "scan" /\ intake'.at = "answer" /\ intake'.outcome \in Outcome
    BY DEF GateScan, fs, queue, history, Outcomes, Outcome, Scanned, Sure, UsedT,
       IntakeT, Shapes, FsOK, QueueOK, IntakeOK, WorkersOK, UsedOK
  <1>2. /\ intake'.file = intake.file /\ intake'.name = intake.name
        /\ intake'.key = intake.key
    BY DEF GateScan, fs, queue, history, Outcomes, Outcome, Scanned, Sure, UsedT,
       IntakeT, Shapes, FsOK, QueueOK, IntakeOK, WorkersOK, UsedOK
  <1>3. intake' \in IntakeT
    <2>1. PICK o \in Outcomes(intake.name) :
             intake' = [intake EXCEPT !.at = "answer", !.outcome = o] /\ Scanned(o)
      BY DEF GateScan
    <2>2. o \in Outcome
      BY <2>1, OutcomesAre, IntakeIs DEF GateScan, Asks
    <2> QED BY <2>1, <2>2, ScannedDoes DEF Shapes, IntakeOK, IntakeT
  <1>4. intake'.outcome \in Sure => dir[intake.name] # NoFile
    BY DEF GateScan, fs, queue, history, Outcomes, Outcome, Scanned, Sure, UsedT,
       IntakeT, Shapes, FsOK, QueueOK, IntakeOK, WorkersOK, UsedOK
  <1>5. intake'.outcome \in Sure => (intake'.outcome = "infected" <=> file[dir[intake.name]].bad)
    BY DEF GateScan, fs, queue, history, Outcomes, Outcome, Scanned, Sure, UsedT,
       IntakeT, Shapes, FsOK, QueueOK, IntakeOK, WorkersOK, UsedOK
  <1>6. used' \in UsedT /\ used'.stamps = used.stamps /\ used'.coarse = used.coarse
    <2>1. PICK o : Scanned(o)
      BY DEF GateScan
    <2> QED BY <2>1, ScannedDoes
  <1>7. used'.renames = used.renames /\ used'.lifetimes = used.lifetimes
    <2>1. PICK o : Scanned(o)
      BY DEF GateScan
    <2> QED BY <2>1, ScannedDoes
  <1>8. UNCHANGED <<dir, file, events, cache, saved, waiting, followups, worker,
                    phase, told, failed, denied, found, again, forgotten>>
    BY DEF GateScan, fs, queue, history, Outcomes, Outcome, Scanned, Sure, UsedT,
       IntakeT
  <1> QED BY <1>1, <1>2, <1>3, <1>4, <1>5, <1>6, <1>7, <1>8

(* A verdict is stored and a denial followed up; without one the path waits. *)
LEMMA GateAnswerDoes ==
    ASSUME Shapes, GateAnswer
    PROVE  /\ intake.at = "answer" /\ intake' = IdleIntake
           /\ Forgets(cache')
           /\ \/ /\ intake.outcome \in Sure
                 /\ cache' \in Put(intake.key, intake.outcome)
                 /\ told' = told \ {<<intake.name, intake.key>>}
                 /\ UNCHANGED waiting
              \/ /\ intake.outcome \notin Sure
                 /\ UNCHANGED <<cache, told, waiting>>
              \/ /\ intake.outcome \notin Sure /\ UNCHANGED cache
                 /\ waiting' = waiting \cup {intake.name}
                 /\ told' = told \cup {t \in {<<intake.name, intake.key>>} :
                                            dir[intake.name] = intake.key[1]}
           /\ \/ /\ intake.outcome = "infected"
                 /\ followups' = Append(followups, intake.name)
                 /\ denied' = denied \cup {<<intake.name, intake.key>>}
              \/ intake.outcome # "infected" /\ UNCHANGED <<followups, denied>>
           /\ UNCHANGED <<dir, file, events, saved, worker, phase, used, failed,
                          found, again>>
  <1>1. intake.at = "answer" /\ intake' = IdleIntake
    BY DEF GateAnswer, fs, Judged, Deny, FollowUp, FailOpen, Requeue,
       Handed, Sure, queue, Shapes, FsOK, QueueOK, IntakeOK, WorkersOK, UsedOK
  <1>2. Forgets(cache')
    BY DEF GateAnswer, fs, Judged, Deny, FollowUp, FailOpen, Requeue,
       Handed, Sure, queue, Shapes, FsOK, QueueOK, IntakeOK, WorkersOK, UsedOK
  <1>3. \/ /\ intake.outcome \in Sure
           /\ cache' \in Put(intake.key, intake.outcome)
           /\ told' = told \ {<<intake.name, intake.key>>}
           /\ UNCHANGED waiting
        \/ /\ intake.outcome \notin Sure
           /\ UNCHANGED <<cache, told, waiting>>
        \/ /\ intake.outcome \notin Sure /\ UNCHANGED cache
           /\ waiting' = waiting \cup {intake.name}
           /\ told' = told \cup {t \in {<<intake.name, intake.key>>} :
                                      dir[intake.name] = intake.key[1]}
    <2>1. CASE intake.outcome = "clean"
      BY <2>1 DEF GateAnswer, queue, Judged, Deny, FailOpen, Requeue, Handed, Sure
    <2>2. CASE intake.outcome = "infected"
      BY <2>2 DEF GateAnswer, queue, Judged, Deny, FailOpen, Requeue, Handed, Sure
    <2>3. CASE intake.outcome = "skipped"
      BY <2>3 DEF GateAnswer, queue, Judged, Deny, FailOpen, Requeue, Handed, Sure
    <2>4. CASE intake.outcome \in {"error", "gone"}
      BY <2>4 DEF GateAnswer, queue, Judged, Deny, FailOpen, Requeue, Handed, Sure
    <2>5. intake.outcome # "none"
      BY <1>1 DEF Shapes, IntakeOK
    <2> QED BY <2>1, <2>2, <2>3, <2>4, <2>5 DEF Shapes, IntakeOK, IntakeT, Outcome
  <1>4. \/ /\ intake.outcome = "infected"
           /\ followups' = Append(followups, intake.name)
           /\ denied' = denied \cup {<<intake.name, intake.key>>}
        \/ intake.outcome # "infected" /\ UNCHANGED <<followups, denied>>
    <2>1. CASE intake.outcome = "clean"
      BY <2>1 DEF GateAnswer, queue, Deny, FollowUp, FailOpen
    <2>2. CASE intake.outcome = "infected"
      BY <2>2 DEF GateAnswer, queue, Deny, FollowUp, FailOpen
    <2>3. CASE intake.outcome = "skipped"
      BY <2>3 DEF GateAnswer, queue, Deny, FollowUp, FailOpen
    <2>4. CASE intake.outcome \in {"error", "gone"}
      BY <2>4 DEF GateAnswer, queue, Deny, FollowUp, FailOpen
    <2>5. intake.outcome # "none"
      BY <1>1 DEF Shapes, IntakeOK
    <2> QED BY <2>1, <2>2, <2>3, <2>4, <2>5 DEF Shapes, IntakeOK, IntakeT, Outcome
  <1>5. UNCHANGED <<dir, file, events, saved, worker, phase, used, failed, found,
                    again>>
    BY DEF GateAnswer, fs, Judged, Deny, FollowUp, FailOpen, Requeue,
       Handed, Sure, queue
  <1> QED BY <1>1, <1>2, <1>3, <1>4, <1>5

(* A follow-up goes to a worker first.                                     *)
LEMMA TakeFollowUpDoes ==
    ASSUME Shapes, NEW w \in Workers, TakeFollowUp(w)
    PROVE  /\ \A v \in Workers : v # w => worker'[v] = worker[v]
           /\ phase = "running" /\ worker[w].at = "idle" /\ followups # <<>>
           /\ followups' = Tail(followups)
           /\ worker'[w] = [IdleWorker EXCEPT !.at = "act", !.name = Head(followups),
                                              !.kind = "denied"]
           /\ UNCHANGED <<dir, file, events, cache, saved, waiting, intake, phase,
                          used, told, failed, denied, found, again, forgotten>>
  <1>1. \A v \in Workers : v # w => worker'[v] = worker[v]
    BY DEF TakeFollowUp, fs, queue, history, Goes, Rest, Shapes, FsOK, QueueOK,
       IntakeOK, WorkersOK, UsedOK
  <1>2. phase = "running" /\ worker[w].at = "idle" /\ followups # <<>>
    BY DEF TakeFollowUp, fs, queue, history, Goes, Rest, Shapes, FsOK, QueueOK,
       IntakeOK, WorkersOK, UsedOK
  <1>3. followups' = Tail(followups)
    BY DEF TakeFollowUp, fs, queue, history, Goes, Rest, Shapes, FsOK, QueueOK,
       IntakeOK, WorkersOK, UsedOK
  <1>4. worker'[w] = [IdleWorker EXCEPT !.at = "act", !.name = Head(followups),
                                        !.kind = "denied"]
    BY DEF TakeFollowUp, fs, queue, history, Goes, Rest, Shapes, FsOK, QueueOK,
       IntakeOK, WorkersOK, UsedOK
  <1>5. UNCHANGED <<dir, file, events, cache, saved, waiting, intake, phase, used,
                    told, failed, denied, found, again, forgotten>>
    BY DEF TakeFollowUp, fs, queue, history, Goes, Rest
  <1> QED BY <1>1, <1>2, <1>3, <1>4, <1>5

(* A path that waits goes to a worker.                                     *)
LEMMA TakeScanDoes ==
    ASSUME Shapes, NEW w \in Workers, NEW n \in Names, TakeScan(w, n)
    PROVE  /\ \A v \in Workers : v # w => worker'[v] = worker[v]
           /\ phase = "running" /\ worker[w].at = "idle" /\ n \in waiting
           /\ waiting' = waiting \ {n}
           /\ worker'[w] = [IdleWorker EXCEPT !.at = "look", !.name = n]
           /\ UNCHANGED <<dir, file, events, cache, saved, followups, intake, phase,
                          used, told, failed, denied, found, again, forgotten>>
  <1>1. \A v \in Workers : v # w => worker'[v] = worker[v]
    BY DEF TakeScan, fs, queue, history, Goes, Rest, Shapes, FsOK, QueueOK, IntakeOK,
       WorkersOK, UsedOK
  <1>2. phase = "running" /\ worker[w].at = "idle" /\ n \in waiting
    BY DEF TakeScan, fs, queue, history, Goes, Rest, Shapes, FsOK, QueueOK, IntakeOK,
       WorkersOK, UsedOK
  <1>3. waiting' = waiting \ {n}
    BY DEF TakeScan, fs, queue, history, Goes, Rest, Shapes, FsOK, QueueOK, IntakeOK,
       WorkersOK, UsedOK
  <1>4. worker'[w] = [IdleWorker EXCEPT !.at = "look", !.name = n]
    BY DEF TakeScan, fs, queue, history, Goes, Rest, Shapes, FsOK, QueueOK, IntakeOK,
       WorkersOK, UsedOK
  <1>5. UNCHANGED <<dir, file, events, cache, saved, followups, intake, phase, used,
                    told, failed, denied, found, again, forgotten>>
    BY DEF TakeScan, fs, queue, history, Goes, Rest
  <1> QED BY <1>1, <1>2, <1>3, <1>4, <1>5

(* The worker takes the key, unless the path is gone or judged.            *)
LEMMA LookDoes ==
    ASSUME Shapes, NEW w \in Workers, Look(w)
    PROVE  /\ \A v \in Workers : v # w => worker'[v] = worker[v]
           /\ worker[w].at = "look" /\ worker[w].name \in Names
           /\ \/ /\ dir[worker[w].name] = NoFile /\ worker'[w] = IdleWorker
                 /\ UNCHANGED told
              \/ /\ dir[worker[w].name] \in Files /\ worker'[w] = IdleWorker
                 /\ told' = told \ {<<worker[w].name, Key(dir[worker[w].name])>>}
              \/ /\ dir[worker[w].name] \in Files
                 /\ worker'[w] = [worker[w] EXCEPT !.at = "scan",
                                                   !.key = Key(dir[worker[w].name])]
                 /\ UNCHANGED told
           /\ UNCHANGED <<dir, file, events, cache, saved, waiting, followups, intake,
                          phase, used, failed, denied, found, again, forgotten>>
  <1>1. \A v \in Workers : v # w => worker'[v] = worker[v]
    BY DEF Look, fs, queue, history, Goes, Rest, Judged, Shapes, FsOK, QueueOK,
       IntakeOK, WorkersOK, UsedOK
  <1>2. worker[w].at = "look" /\ worker[w].name \in Names
    BY WorkerIs DEF Look
  <1>3. \/ /\ dir[worker[w].name] = NoFile /\ worker'[w] = IdleWorker
           /\ UNCHANGED told
        \/ /\ dir[worker[w].name] \in Files /\ worker'[w] = IdleWorker
           /\ told' = told \ {<<worker[w].name, Key(dir[worker[w].name])>>}
        \/ /\ dir[worker[w].name] \in Files
           /\ worker'[w] = [worker[w] EXCEPT !.at = "scan",
                                             !.key = Key(dir[worker[w].name])]
           /\ UNCHANGED told
    <2>1. worker[w].name \in Names /\ dir[worker[w].name] \in Files \cup {NoFile}
      BY <1>2 DEF Shapes, FsOK
    <2> DEFINE f == dir[worker[w].name]
    <2>2. CASE f = NoFile
      BY <2>2 DEF Look, Goes, Rest, Shapes, WorkersOK
    <2>3. CASE f \in Files /\ cache[Key(f)] # "none"
      BY <2>3 DEF Look, Goes, Rest, Judged, Shapes, WorkersOK
    <2>4. CASE f \in Files /\ cache[Key(f)] = "none"
      BY <2>4 DEF Look, Goes, Shapes, WorkersOK
    <2> QED BY <2>1, <2>2, <2>3, <2>4
  <1>4. UNCHANGED <<dir, file, events, cache, saved, waiting, followups, intake,
                    phase, used, failed, denied, found, again, forgotten>>
    BY DEF Look, fs, queue, history, Goes, Rest, Judged
  <1> QED BY <1>1, <1>2, <1>3, <1>4

(* The engine speaks of what the path has now, or is cut off.              *)
LEMMA ScanDoes ==
    ASSUME Shapes, NEW w \in Workers, Scan(w)
    PROVE  /\ \A v \in Workers : v # w => worker'[v] = worker[v]
           /\ worker[w].at = "scan" /\ worker[w].name \in Names
           /\ worker[w].key \in Keys
           /\ worker'[w].at = "settle" /\ worker'[w].outcome \in Outcome
           /\ worker'[w].name = worker[w].name /\ worker'[w].key = worker[w].key
           /\ worker'[w] \in WorkerT /\ worker'[w].kind = worker[w].kind
           /\ worker'[w].outcome \in Sure => dir[worker[w].name] # NoFile
           /\ worker'[w].outcome \in Sure =>
                 (worker'[w].outcome = "infected" <=> file[dir[worker[w].name]].bad)
           /\ worker'[w].outcome = "gone" => dir[worker[w].name] = NoFile
           /\ used' \in UsedT /\ used'.stamps = used.stamps
           /\ used'.coarse = used.coarse
           /\ used'.renames = used.renames /\ used'.lifetimes = used.lifetimes
           /\ UNCHANGED <<dir, file, events, cache, saved, waiting, followups, intake,
                          phase, told, failed, denied, found, again, forgotten>>
  <1>1. \A v \in Workers : v # w => worker'[v] = worker[v]
    <2>1. PICK o : /\ worker' = [worker EXCEPT ![w] =
                          [worker[w] EXCEPT !.at = "settle", !.outcome = o]]
                   /\ \/ o \in Outcomes(worker[w].name) /\ Scanned(o)
                      \/ o = "error" /\ used' = used
      BY DEF Scan, Goes
    <2> QED BY <2>1 DEF Shapes, WorkersOK
  <1>2. worker[w].at = "scan" /\ worker[w].name \in Names /\ worker[w].key \in Keys
    BY WorkerIs DEF Scan, Holds
  <1>3. worker'[w].at = "settle" /\ worker'[w].outcome \in Outcome
    <2>1. PICK o : /\ worker' = [worker EXCEPT ![w] =
                          [worker[w] EXCEPT !.at = "settle", !.outcome = o]]
                   /\ \/ o \in Outcomes(worker[w].name) /\ Scanned(o)
                      \/ o = "error" /\ used' = used
      BY DEF Scan, Goes
    <2>2. /\ o \in Outcome
          /\ o \in Sure => dir[worker[w].name] # NoFile
          /\ o \in Sure => (o = "infected" <=> file[dir[worker[w].name]].bad)
          /\ o = "gone" => dir[worker[w].name] = NoFile
      BY <1>2, <2>1, OutcomesAre DEF Outcome, Sure
    <2>3. worker'[w] = [worker[w] EXCEPT !.at = "settle", !.outcome = o]
      BY <2>1 DEF Shapes, WorkersOK
    <2> QED BY <2>2, <2>3, WorkerIs DEF WorkerT
  <1>4. worker'[w].name = worker[w].name /\ worker'[w].key = worker[w].key
    <2>1. PICK o : /\ worker' = [worker EXCEPT ![w] =
                          [worker[w] EXCEPT !.at = "settle", !.outcome = o]]
                   /\ \/ o \in Outcomes(worker[w].name) /\ Scanned(o)
                      \/ o = "error" /\ used' = used
      BY DEF Scan, Goes
    <2>2. /\ o \in Outcome
          /\ o \in Sure => dir[worker[w].name] # NoFile
          /\ o \in Sure => (o = "infected" <=> file[dir[worker[w].name]].bad)
          /\ o = "gone" => dir[worker[w].name] = NoFile
      BY <1>2, <2>1, OutcomesAre DEF Outcome, Sure
    <2>3. worker'[w] = [worker[w] EXCEPT !.at = "settle", !.outcome = o]
      BY <2>1 DEF Shapes, WorkersOK
    <2> QED BY <2>2, <2>3, WorkerIs DEF WorkerT
  <1>5. worker'[w] \in WorkerT /\ worker'[w].kind = worker[w].kind
    <2>1. PICK o : /\ worker' = [worker EXCEPT ![w] =
                          [worker[w] EXCEPT !.at = "settle", !.outcome = o]]
                   /\ \/ o \in Outcomes(worker[w].name) /\ Scanned(o)
                      \/ o = "error" /\ used' = used
      BY DEF Scan, Goes
    <2>2. /\ o \in Outcome
          /\ o \in Sure => dir[worker[w].name] # NoFile
          /\ o \in Sure => (o = "infected" <=> file[dir[worker[w].name]].bad)
          /\ o = "gone" => dir[worker[w].name] = NoFile
      BY <1>2, <2>1, OutcomesAre DEF Outcome, Sure
    <2>3. worker'[w] = [worker[w] EXCEPT !.at = "settle", !.outcome = o]
      BY <2>1 DEF Shapes, WorkersOK
    <2>4. worker[w] \in WorkerT
      BY WorkerIs
    <2>5. [worker[w] EXCEPT !.at = "settle", !.outcome = o] \in WorkerT
      BY <2>2, <2>4 DEF WorkerT
    <2> QED BY <2>3, <2>4, <2>5 DEF WorkerT
  <1>6. worker'[w].outcome \in Sure => dir[worker[w].name] # NoFile
    <2>1. PICK o : /\ worker' = [worker EXCEPT ![w] =
                          [worker[w] EXCEPT !.at = "settle", !.outcome = o]]
                   /\ \/ o \in Outcomes(worker[w].name) /\ Scanned(o)
                      \/ o = "error" /\ used' = used
      BY DEF Scan, Goes
    <2>2. /\ o \in Outcome
          /\ o \in Sure => dir[worker[w].name] # NoFile
          /\ o \in Sure => (o = "infected" <=> file[dir[worker[w].name]].bad)
          /\ o = "gone" => dir[worker[w].name] = NoFile
      BY <1>2, <2>1, OutcomesAre DEF Outcome, Sure
    <2>3. worker'[w] = [worker[w] EXCEPT !.at = "settle", !.outcome = o]
      BY <2>1 DEF Shapes, WorkersOK
    <2> QED BY <2>2, <2>3, WorkerIs DEF WorkerT
  <1>7. worker'[w].outcome \in Sure =>
           (worker'[w].outcome = "infected" <=> file[dir[worker[w].name]].bad)
    <2>1. PICK o : /\ worker' = [worker EXCEPT ![w] =
                          [worker[w] EXCEPT !.at = "settle", !.outcome = o]]
                   /\ \/ o \in Outcomes(worker[w].name) /\ Scanned(o)
                      \/ o = "error" /\ used' = used
      BY DEF Scan, Goes
    <2>2. /\ o \in Outcome
          /\ o \in Sure => dir[worker[w].name] # NoFile
          /\ o \in Sure => (o = "infected" <=> file[dir[worker[w].name]].bad)
          /\ o = "gone" => dir[worker[w].name] = NoFile
      BY <1>2, <2>1, OutcomesAre DEF Outcome, Sure
    <2>3. worker'[w] = [worker[w] EXCEPT !.at = "settle", !.outcome = o]
      BY <2>1 DEF Shapes, WorkersOK
    <2> QED BY <2>2, <2>3, WorkerIs DEF WorkerT
  <1>8. worker'[w].outcome = "gone" => dir[worker[w].name] = NoFile
    <2>1. PICK o : /\ worker' = [worker EXCEPT ![w] =
                          [worker[w] EXCEPT !.at = "settle", !.outcome = o]]
                   /\ \/ o \in Outcomes(worker[w].name) /\ Scanned(o)
                      \/ o = "error" /\ used' = used
      BY DEF Scan, Goes
    <2>2. /\ o \in Outcome
          /\ o \in Sure => dir[worker[w].name] # NoFile
          /\ o \in Sure => (o = "infected" <=> file[dir[worker[w].name]].bad)
          /\ o = "gone" => dir[worker[w].name] = NoFile
      BY <1>2, <2>1, OutcomesAre DEF Outcome, Sure
    <2>3. worker'[w] = [worker[w] EXCEPT !.at = "settle", !.outcome = o]
      BY <2>1 DEF Shapes, WorkersOK
    <2> QED BY <2>2, <2>3, WorkerIs DEF WorkerT
  <1>9. used' \in UsedT /\ used'.stamps = used.stamps /\ used'.coarse = used.coarse
    <2>1. PICK o : /\ worker' = [worker EXCEPT ![w] =
                          [worker[w] EXCEPT !.at = "settle", !.outcome = o]]
                   /\ \/ o \in Outcomes(worker[w].name) /\ Scanned(o)
                      \/ o = "error" /\ used' = used
      BY DEF Scan, Goes
    <2> QED BY <2>1, ScannedDoes DEF Shapes, UsedOK
  <1>10. used'.renames = used.renames /\ used'.lifetimes = used.lifetimes
    <2>1. PICK o : /\ worker' = [worker EXCEPT ![w] =
                          [worker[w] EXCEPT !.at = "settle", !.outcome = o]]
                   /\ \/ o \in Outcomes(worker[w].name) /\ Scanned(o)
                      \/ o = "error" /\ used' = used
      BY DEF Scan, Goes
    <2> QED BY <2>1, ScannedDoes DEF Shapes, UsedOK
  <1>11. UNCHANGED <<dir, file, events, cache, saved, waiting, followups, intake,
                     phase, told, failed, denied, found, again, forgotten>>
    BY DEF Scan, fs, queue, history, Goes, Rest, Outcomes, Outcome, Scanned, Sure,
       UsedT, WorkerT
  <1> QED BY <1>1, <1>2, <1>3, <1>4, <1>5, <1>6, <1>7, <1>8, <1>9, <1>10, <1>11

(* The first to find the version infected acts.                            *)
LEMMA SettleInfectedDoes ==
    ASSUME Shapes, NEW w \in Workers, SettleInfected(w)
    PROVE  /\ \A v \in Workers : v # w => worker'[v] = worker[v]
           /\ worker[w].at = "settle" /\ worker[w].outcome = "infected"
           /\ worker[w].name \in Names /\ worker[w].key \in Keys
           /\ told' = told \ {<<worker[w].name, worker[w].key>>}
           /\ \/ /\ cache[worker[w].key] # "infected"
                 /\ cache' = [cache EXCEPT ![worker[w].key] = "infected"]
                 /\ worker'[w] = [worker[w] EXCEPT !.at = "act",
                                                   !.kind = "detected"]
                 /\ found' = found \cup {worker[w].key}
                 /\ again' = again \cup ({worker[w].key} \cap found)
              \/ /\ worker'[w] = IdleWorker
                 /\ UNCHANGED <<cache, found, again>>
           /\ UNCHANGED <<dir, file, events, saved, waiting, followups, intake, phase,
                          used, failed, denied, forgotten>>
  <1>1. \A v \in Workers : v # w => worker'[v] = worker[v]
    BY DEF SettleInfected, fs, queue, history, Goes, Rest, Judged, StatBeforeScan,
       FirstToFind, Shapes, FsOK, QueueOK, IntakeOK, WorkersOK, UsedOK
  <1>2. worker[w].at = "settle" /\ worker[w].outcome = "infected"
    BY DEF SettleInfected, fs, queue, history, Goes, Rest, Judged, StatBeforeScan,
       FirstToFind, Shapes, FsOK, QueueOK, IntakeOK, WorkersOK, UsedOK
  <1>3. worker[w].name \in Names /\ worker[w].key \in Keys
    BY WorkerIs DEF SettleInfected, Holds
  <1>4. told' = told \ {<<worker[w].name, worker[w].key>>}
    BY DEF SettleInfected, fs, queue, history, Goes, Rest, Judged, StatBeforeScan,
       FirstToFind, Shapes, FsOK, QueueOK, IntakeOK, WorkersOK, UsedOK
  <1>5. \/ /\ cache[worker[w].key] # "infected"
           /\ cache' = [cache EXCEPT ![worker[w].key] = "infected"]
           /\ worker'[w] = [worker[w] EXCEPT !.at = "act", !.kind = "detected"]
           /\ found' = found \cup {worker[w].key}
           /\ again' = again \cup ({worker[w].key} \cap found)
        \/ /\ worker'[w] = IdleWorker
           /\ UNCHANGED <<cache, found, again>>
    BY DEF SettleInfected, fs, queue, history, Goes, Rest, Judged, StatBeforeScan,
       FirstToFind, Shapes, FsOK, QueueOK, IntakeOK, WorkersOK, UsedOK
  <1>6. UNCHANGED <<dir, file, events, saved, waiting, followups, intake, phase, used,
                    failed, denied, forgotten>>
    BY DEF SettleInfected, fs, queue, history, Goes, Rest, Judged, StatBeforeScan,
       FirstToFind
  <1> QED BY <1>1, <1>2, <1>3, <1>4, <1>5, <1>6

(* The verdict goes under the key from before the scan.                    *)
LEMMA SettleCleanDoes ==
    ASSUME Shapes, NEW w \in Workers, SettleClean(w)
    PROVE  /\ \A v \in Workers : v # w => worker'[v] = worker[v]
           /\ worker[w].at = "settle" /\ worker[w].outcome = "clean"
           /\ worker[w].name \in Names /\ worker[w].key \in Keys
           /\ told' = told \ {<<worker[w].name, worker[w].key>>}
           /\ cache' \in Put(worker[w].key, "clean")
           /\ Forgets(cache')
           /\ worker'[w] = IdleWorker
           /\ UNCHANGED <<dir, file, events, saved, waiting, followups, intake, phase,
                          used, failed, denied, found, again>>
  <1>1. \A v \in Workers : v # w => worker'[v] = worker[v]
    BY DEF SettleClean, fs, queue, history, Goes, Rest, Judged,
       StatBeforeScan, Shapes, FsOK, QueueOK, IntakeOK, WorkersOK, UsedOK
  <1>2. worker[w].at = "settle" /\ worker[w].outcome = "clean"
    BY DEF SettleClean, fs, queue, history, Goes, Rest, Judged,
       StatBeforeScan, Shapes, FsOK, QueueOK, IntakeOK, WorkersOK, UsedOK
  <1>3. worker[w].name \in Names /\ worker[w].key \in Keys
    BY WorkerIs DEF SettleClean, Holds
  <1>4. told' = told \ {<<worker[w].name, worker[w].key>>}
    BY DEF SettleClean, fs, queue, history, Goes, Rest, Judged,
       StatBeforeScan, Shapes, FsOK, QueueOK, IntakeOK, WorkersOK, UsedOK
  <1>5. cache' \in Put(worker[w].key, "clean")
    BY DEF SettleClean, fs, queue, history, Goes, Rest, Judged,
       StatBeforeScan, Shapes, FsOK, QueueOK, IntakeOK, WorkersOK, UsedOK
  <1>6. Forgets(cache')
    BY DEF SettleClean, fs, queue, history, Goes, Rest, Judged,
       StatBeforeScan, Shapes, FsOK, QueueOK, IntakeOK, WorkersOK, UsedOK
  <1>7. worker'[w] = IdleWorker
    BY DEF SettleClean, fs, queue, history, Goes, Rest, Judged,
       StatBeforeScan, Shapes, FsOK, QueueOK, IntakeOK, WorkersOK, UsedOK
  <1>8. UNCHANGED <<dir, file, events, saved, waiting, followups, intake, phase, used,
                    failed, denied, found, again>>
    BY DEF SettleClean, fs, queue, history, Goes, Rest, Judged,
       StatBeforeScan
  <1> QED BY <1>1, <1>2, <1>3, <1>4, <1>5, <1>6, <1>7, <1>8

(* A failed scan drops the path.                                           *)
LEMMA SettleFailedDoes ==
    ASSUME Shapes, NEW w \in Workers, SettleFailed(w)
    PROVE  /\ \A v \in Workers : v # w => worker'[v] = worker[v]
           /\ worker[w].at = "settle"
           /\ worker[w].name \in Names /\ worker[w].key \in Keys
           /\ \/ worker[w].outcome = "gone" /\ failed' = failed
              \/ failed' = failed \cup {<<worker[w].name, worker[w].key>>}
           /\ worker'[w] = IdleWorker
           /\ UNCHANGED <<dir, file, events, cache, saved, waiting, followups, intake,
                          phase, used, told, denied, found, again, forgotten>>
  <1>1. \A v \in Workers : v # w => worker'[v] = worker[v]
    BY DEF SettleFailed, fs, queue, history, Goes, Rest, Shapes, FsOK, QueueOK,
       IntakeOK, WorkersOK, UsedOK
  <1>2. worker[w].at = "settle"
    BY DEF SettleFailed, fs, queue, history, Goes, Rest, Shapes, FsOK, QueueOK,
       IntakeOK, WorkersOK, UsedOK
  <1>3. worker[w].name \in Names /\ worker[w].key \in Keys
    BY WorkerIs DEF SettleFailed, Holds
  <1>4. \/ worker[w].outcome = "gone" /\ failed' = failed
        \/ failed' = failed \cup {<<worker[w].name, worker[w].key>>}
    BY DEF SettleFailed, fs, queue, history, Goes, Rest, Shapes, FsOK, QueueOK,
       IntakeOK, WorkersOK, UsedOK
  <1>5. worker'[w] = IdleWorker
    BY DEF SettleFailed, fs, queue, history, Goes, Rest, Shapes, FsOK, QueueOK,
       IntakeOK, WorkersOK, UsedOK
  <1>6. UNCHANGED <<dir, file, events, cache, saved, waiting, followups, intake,
                    phase, used, told, denied, found, again, forgotten>>
    BY DEF SettleFailed, fs, queue, history, Goes, Rest
  <1> QED BY <1>1, <1>2, <1>3, <1>4, <1>5, <1>6

(* The detection or the denial is recorded.                                *)
LEMMA ActDoes ==
    ASSUME Shapes, NEW w \in Workers, Act(w)
    PROVE  /\ \A v \in Workers : v # w => worker'[v] = worker[v]
           /\ worker[w].at = "act" /\ worker[w].name \in Names
           /\ denied' = {d \in denied : d[1] # worker[w].name}
           /\ found' = found \cup {d[2] : d \in denied \ denied'}
           /\ worker'[w] = IdleWorker \/ worker'[w] = [worker[w] EXCEPT !.at = "move"]
           /\ UNCHANGED <<dir, file, events, cache, saved, waiting, followups, intake,
                          phase, used, told, failed, again, forgotten>>
  <1>1. \A v \in Workers : v # w => worker'[v] = worker[v]
    BY DEF Act, fs, queue, history, Goes, Rest, Shapes, FsOK, QueueOK, IntakeOK,
       WorkersOK, UsedOK
  <1>2. worker[w].at = "act" /\ worker[w].name \in Names
    BY WorkerIs DEF Act
  <1>3. denied' = {d \in denied : d[1] # worker[w].name}
    BY DEF Act, fs, queue, history, Goes, Rest, Shapes, FsOK, QueueOK, IntakeOK,
       WorkersOK, UsedOK
  <1>4. worker'[w] = IdleWorker \/ worker'[w] = [worker[w] EXCEPT !.at = "move"]
    BY DEF Act, fs, queue, history, Goes, Rest, Shapes, FsOK, QueueOK, IntakeOK,
       WorkersOK, UsedOK
  <1>5. UNCHANGED <<dir, file, events, cache, saved, waiting, followups, intake,
                    phase, used, told, failed, again, forgotten>>
    BY DEF Act, fs, queue, history, Goes, Rest
  <1>6. found' = found \cup {d[2] : d \in denied \ denied'}
    BY DEF Act
  <1> QED BY <1>1, <1>2, <1>3, <1>4, <1>5, <1>6

(* The file is moved away, or stays.                                       *)
LEMMA MoveDoes ==
    ASSUME Shapes, NEW w \in Workers, Move(w)
    PROVE  /\ \A v \in Workers : v # w => worker'[v] = worker[v]
           /\ worker[w].at = "move" /\ worker[w].name \in Names
           /\ \A n \in Names : dir'[n] = dir[n] \/ dir'[n] = NoFile
           /\ dir' \in [Names -> Files \cup {NoFile}]
           /\ worker'[w] = IdleWorker
           /\ UNCHANGED <<file, events, cache, saved, waiting, followups, intake,
                          phase, used, told, failed, denied, found, again, forgotten>>
  <1>1. \A v \in Workers : v # w => worker'[v] = worker[v]
    BY DEF Move, fs, queue, history, Goes, Rest, Shapes, FsOK, QueueOK, IntakeOK,
       WorkersOK, UsedOK
  <1>2. worker[w].at = "move" /\ worker[w].name \in Names
    BY WorkerIs DEF Move
  <1>3. \A n \in Names : dir'[n] = dir[n] \/ dir'[n] = NoFile
    BY DEF Move, fs, queue, history, Goes, Rest, Shapes, FsOK, QueueOK, IntakeOK,
       WorkersOK, UsedOK
  <1>4. dir' \in [Names -> Files \cup {NoFile}]
    BY DEF Move, fs, queue, history, Goes, Rest, Shapes, FsOK, QueueOK, IntakeOK,
       WorkersOK, UsedOK
  <1>5. worker'[w] = IdleWorker
    BY DEF Move, fs, queue, history, Goes, Rest, Shapes, FsOK, QueueOK, IntakeOK,
       WorkersOK, UsedOK
  <1>6. UNCHANGED <<file, events, cache, saved, waiting, followups, intake, phase,
                    used, told, failed, denied, found, again, forgotten>>
    BY DEF Move, fs, queue, history, Goes, Rest
  <1> QED BY <1>1, <1>2, <1>3, <1>4, <1>5, <1>6

(* The cache goes to its file.                                             *)
LEMMA SaveCacheDoes ==
    ASSUME Shapes, SaveCache
    PROVE  /\ saved' = cache
           /\ UNCHANGED <<dir, file, events, cache, waiting, followups, intake,
                          worker, phase, used, told, failed, denied, found, again, forgotten>>
  <1>1. saved' = cache
    BY DEF SaveCache, fs, queue, history, Shapes, FsOK, QueueOK, IntakeOK, WorkersOK,
       UsedOK
  <1>2. UNCHANGED <<dir, file, events, cache, waiting, followups, intake, worker,
                    phase, used, told, failed, denied, found, again, forgotten>>
    BY DEF SaveCache, fs, queue, history
  <1> QED BY <1>1, <1>2

(* The watcher stops, its events are gone.                                 *)
LEMMA StopDoes ==
    ASSUME Shapes, Stop
    PROVE  /\ phase = "running" /\ phase' = "stopping"
           /\ events' = <<>>
           /\ UNCHANGED <<dir, file, cache, saved, waiting, followups, intake, worker,
                          used, told, failed, denied, found, again, forgotten>>
  <1>1. phase = "running" /\ phase' = "stopping"
    BY DEF Stop, queue, history, Shapes, FsOK, QueueOK, IntakeOK, WorkersOK, UsedOK
  <1>2. events' = <<>>
    BY DEF Stop, queue, history, Shapes, FsOK, QueueOK, IntakeOK, WorkersOK, UsedOK
  <1>3. UNCHANGED <<dir, file, cache, saved, waiting, followups, intake, worker, used,
                    told, failed, denied, found, again, forgotten>>
    BY DEF Stop, queue, history
  <1> QED BY <1>1, <1>2, <1>3

(* What waits is saved.                                                    *)
LEMMA DownDoes ==
    ASSUME Shapes, Down
    PROVE  /\ phase' = "down" /\ saved' = cache
           /\ \A w \in Workers : worker[w].at = "idle"
           /\ waiting' = waiting \cup Elems(followups) /\ followups' = <<>>
           /\ UNCHANGED <<dir, file, events, cache, intake, worker, used, told,
                          failed, denied, found, again, forgotten>>
  <1>1. phase' = "down" /\ saved' = cache
    BY DEF Down, fs, history, Shapes, FsOK, QueueOK, IntakeOK, WorkersOK, UsedOK
  <1>2. \A w \in Workers : worker[w].at = "idle"
    BY DEF Down, fs, history, Shapes, FsOK, QueueOK, IntakeOK, WorkersOK, UsedOK
  <1>3. waiting' = waiting \cup Elems(followups) /\ followups' = <<>>
    BY DEF Down, fs, history, Shapes, FsOK, QueueOK, IntakeOK, WorkersOK, UsedOK
  <1>4. UNCHANGED <<dir, file, events, cache, intake, worker, used, told, failed,
                    denied, found, again, forgotten>>
    BY DEF Down, fs, history
  <1> QED BY <1>1, <1>2, <1>3, <1>4

(* The saved verdicts are the first.                                       *)
LEMMA StartDoes ==
    ASSUME Shapes, Start
    PROVE  /\ phase' = "running" /\ cache' = saved
           /\ Forgets(saved)
           /\ used' \in UsedT /\ used'.lifetimes = used.lifetimes + 1
           /\ used'.stamps = used.stamps /\ used'.coarse = used.coarse
           /\ used'.renames = used.renames
           /\ UNCHANGED <<dir, file, events, saved, waiting, followups, intake,
                          worker, told, failed, denied, found, again>>
  <1>1. phase' = "running" /\ cache' = saved
    BY DEF Start, fs, queue, UsedT, Shapes, FsOK, QueueOK, IntakeOK,
       WorkersOK, UsedOK
  <1>2. Forgets(saved)
    BY DEF Start, fs, queue, UsedT, Shapes, FsOK, QueueOK, IntakeOK,
       WorkersOK, UsedOK
  <1>3. used' \in UsedT /\ used'.lifetimes = used.lifetimes + 1
    <2>1. used' = [used EXCEPT !.lifetimes = @ + 1]
      BY DEF Start
    <2> QED BY <2>1 DEF Shapes, UsedOK, UsedT
  <1>4. used'.stamps = used.stamps /\ used'.coarse = used.coarse
    BY DEF Start, fs, queue, UsedT, Shapes, FsOK, QueueOK, IntakeOK,
       WorkersOK, UsedOK
  <1>5. used'.renames = used.renames
    BY DEF Start, fs, queue, UsedT, Shapes, FsOK, QueueOK, IntakeOK,
       WorkersOK, UsedOK
  <1>6. UNCHANGED <<dir, file, events, saved, waiting, followups, intake, worker,
                    told, failed, denied, found, again>>
    BY DEF Start, fs, queue, UsedT
  <1> QED BY <1>1, <1>2, <1>3, <1>4, <1>5, <1>6

(* What waits in memory is lost.                                           *)
LEMMA CrashDoes ==
    ASSUME Shapes, Crash
    PROVE  /\ waiting' \subseteq waiting /\ followups' = <<>> /\ events' = <<>>
           /\ intake' = IdleIntake
           /\ \A w \in Workers : worker'[w] = IdleWorker
           /\ worker' = [w \in Workers |-> IdleWorker]
           /\ phase' = "down" /\ cache' = saved
           /\ Forgets(saved)
           /\ told' = {t \in told : t[1] \in waiting'}
           /\ denied' = {}
           /\ UNCHANGED <<dir, file, saved, used, failed, found, again>>
  <1>1. waiting' \subseteq waiting /\ followups' = <<>> /\ events' = <<>>
    BY DEF Crash, Shapes, FsOK, QueueOK, IntakeOK, WorkersOK, UsedOK
  <1>2. intake' = IdleIntake
    BY DEF Crash, Shapes, FsOK, QueueOK, IntakeOK, WorkersOK, UsedOK
  <1>3. \A w \in Workers : worker'[w] = IdleWorker
    BY DEF Crash, Shapes, FsOK, QueueOK, IntakeOK, WorkersOK, UsedOK
  <1>4. worker' = [w \in Workers |-> IdleWorker]
    BY DEF Crash, Shapes, FsOK, QueueOK, IntakeOK, WorkersOK, UsedOK
  <1>5. phase' = "down" /\ cache' = saved
    BY DEF Crash, Shapes, FsOK, QueueOK, IntakeOK, WorkersOK, UsedOK
  <1>6. Forgets(saved)
    BY DEF Crash, Shapes, FsOK, QueueOK, IntakeOK, WorkersOK, UsedOK
  <1>7. told' = {t \in told : t[1] \in waiting'}
    BY DEF Crash, Shapes, FsOK, QueueOK, IntakeOK, WorkersOK, UsedOK
  <1>8. denied' = {}
    BY DEF Crash, Shapes, FsOK, QueueOK, IntakeOK, WorkersOK, UsedOK
  <1>9. UNCHANGED <<dir, file, saved, used, failed, found, again>>
    BY DEF Crash
  <1> QED BY <1>1, <1>2, <1>3, <1>4, <1>5, <1>6, <1>7, <1>8, <1>9

-----------------------------------------------------------------------------
(* Every variable keeps its type.                                          *)

(* The file system is one.                                                 *)
LEMMA FsOKStays ==
    ASSUME ScanInv, [Next]_vars
    PROVE  FsOK'
  <1>1. ASSUME NEW n \in Names, NEW f \in Files, NEW bad \in BOOLEAN, CloseWrite(n, f, bad)
        PROVE  FsOK'
    <2>1. /\ dir' \in [Names -> Files \cup {NoFile}] /\ file' \in [Files -> FileT]
          /\ events' \in Seq(EventT)
      BY <1>1, CloseWriteDoes DEF ScanInv
    <2> QED BY <2>1 DEF FsOK, FileT, EventT
  <1>2. ASSUME NEW n \in Names, NEW kind \in {"open", "exec"}, Use(n, kind)
        PROVE  FsOK'
    BY <1>2, UseDoes DEF ScanInv, Shapes, FsOK
  <1>3. ASSUME NEW n \in Names, NEW m \in Names, Rename(n, m) PROVE FsOK'
    BY <1>3, RenameDoes DEF ScanInv, Shapes, FsOK
  <1>4. ASSUME Vanished PROVE FsOK'
    BY <1>4, VanishedDoes DEF ScanInv, Shapes, FsOK
  <1>5. ASSUME NEW f \in Files, NEW n \in Names, Written(f, n) PROVE FsOK'
    BY <1>5, WrittenDoes DEF ScanInv, Shapes, FsOK
  <1>6. ASSUME NEW f \in Files, NEW n \in Names, Opened(f, n) PROVE FsOK'
    BY <1>6, OpenedDoes DEF ScanInv, Shapes, FsOK
  <1>7. ASSUME NEW f \in Files, NEW n \in Names, ExecKnown(f, n) PROVE FsOK'
    BY <1>7, ExecKnownDoes DEF ScanInv, Shapes, FsOK
  <1>8. ASSUME NEW f \in Files, NEW n \in Names, ExecOverBudget(f, n) PROVE FsOK'
    BY <1>8, ExecOverBudgetDoes DEF ScanInv, Shapes, FsOK
  <1>9. ASSUME NEW f \in Files, NEW n \in Names, ExecAsk(f, n) PROVE FsOK'
    BY <1>9, ExecAskDoes DEF ScanInv, Shapes, FsOK
  <1>10. ASSUME GateScan PROVE FsOK'
    <2>1. UNCHANGED <<dir, file, events>>
      BY GateScanDoes, <1>10 DEF ScanInv
    <2> QED BY <2>1 DEF ScanInv, Shapes, FsOK
  <1>11. ASSUME GateAnswer PROVE FsOK'
    <2>1. UNCHANGED <<dir, file, events>>
      BY GateAnswerDoes, <1>11 DEF ScanInv
    <2> QED BY <2>1 DEF ScanInv, Shapes, FsOK
  <1>12. ASSUME NEW w \in Workers, TakeFollowUp(w) PROVE FsOK'
    <2>1. UNCHANGED <<dir, file, events>>
      BY TakeFollowUpDoes, <1>12 DEF ScanInv
    <2> QED BY <2>1 DEF ScanInv, Shapes, FsOK
  <1>13. ASSUME NEW w \in Workers, NEW n \in Names, TakeScan(w, n) PROVE FsOK'
    <2>1. UNCHANGED <<dir, file, events>>
      BY TakeScanDoes, <1>13 DEF ScanInv
    <2> QED BY <2>1 DEF ScanInv, Shapes, FsOK
  <1>14. ASSUME NEW w \in Workers, Look(w) PROVE FsOK'
    <2>1. UNCHANGED <<dir, file, events>>
      BY LookDoes, <1>14 DEF ScanInv
    <2> QED BY <2>1 DEF ScanInv, Shapes, FsOK
  <1>15. ASSUME NEW w \in Workers, Scan(w) PROVE FsOK'
    <2>1. UNCHANGED <<dir, file, events>>
      BY ScanDoes, <1>15 DEF ScanInv
    <2> QED BY <2>1 DEF ScanInv, Shapes, FsOK
  <1>16. ASSUME NEW w \in Workers, SettleInfected(w) PROVE FsOK'
    <2>1. UNCHANGED <<dir, file, events>>
      BY SettleInfectedDoes, <1>16 DEF ScanInv
    <2> QED BY <2>1 DEF ScanInv, Shapes, FsOK
  <1>17. ASSUME NEW w \in Workers, SettleClean(w) PROVE FsOK'
    <2>1. UNCHANGED <<dir, file, events>>
      BY SettleCleanDoes, <1>17 DEF ScanInv
    <2> QED BY <2>1 DEF ScanInv, Shapes, FsOK
  <1>18. ASSUME NEW w \in Workers, SettleFailed(w) PROVE FsOK'
    <2>1. UNCHANGED <<dir, file, events>>
      BY SettleFailedDoes, <1>18 DEF ScanInv
    <2> QED BY <2>1 DEF ScanInv, Shapes, FsOK
  <1>19. ASSUME NEW w \in Workers, Act(w) PROVE FsOK'
    <2>1. UNCHANGED <<dir, file, events>>
      BY ActDoes, <1>19 DEF ScanInv
    <2> QED BY <2>1 DEF ScanInv, Shapes, FsOK
  <1>20. ASSUME NEW w \in Workers, Move(w) PROVE FsOK'
    BY <1>20, MoveDoes DEF ScanInv, Shapes, FsOK
  <1>21. ASSUME SaveCache PROVE FsOK'
    <2>1. UNCHANGED <<dir, file, events>>
      BY SaveCacheDoes, <1>21 DEF ScanInv
    <2> QED BY <2>1 DEF ScanInv, Shapes, FsOK
  <1>22. ASSUME Stop PROVE FsOK'
    <2>1. events' = <<>> /\ UNCHANGED <<dir, file>>
      BY <1>22, StopDoes DEF ScanInv
    <2>2. <<>> \in Seq(EventT)
      OBVIOUS
    <2> QED BY <2>1, <2>2 DEF ScanInv, Shapes, FsOK
  <1>23. ASSUME Down PROVE FsOK'
    <2>1. UNCHANGED <<dir, file, events>>
      BY DownDoes, <1>23 DEF ScanInv
    <2> QED BY <2>1 DEF ScanInv, Shapes, FsOK
  <1>24. ASSUME Start PROVE FsOK'
    <2>1. UNCHANGED <<dir, file, events>>
      BY StartDoes, <1>24 DEF ScanInv
    <2> QED BY <2>1 DEF ScanInv, Shapes, FsOK
  <1>25. ASSUME Crash PROVE FsOK'
    <2>1. events' = <<>> /\ UNCHANGED <<dir, file>>
      BY <1>25, CrashDoes DEF ScanInv
    <2>2. <<>> \in Seq(EventT)
      OBVIOUS
    <2> QED BY <2>1, <2>2 DEF ScanInv, Shapes, FsOK
  <1>26. CASE UNCHANGED vars
    BY <1>26 DEF vars, ScanInv, Shapes, FsOK
  <1> QED BY <1>1, <1>2, <1>3, <1>4, <1>5, <1>6, <1>7, <1>8, <1>9, <1>10, <1>11,
             <1>12, <1>13, <1>14, <1>15, <1>16, <1>17, <1>18, <1>19, <1>20, <1>21,
             <1>22, <1>23, <1>24, <1>25, <1>26 DEF Next, Others, IntakeStep,
             WorkerStep

(* The cache is one, and so is its file.                                   *)
LEMMA CacheOKStays ==
    ASSUME ScanInv, [Next]_vars
    PROVE  CacheOK'
  <1>1. ASSUME NEW n \in Names, NEW f \in Files, NEW bad \in BOOLEAN, CloseWrite(n, f, bad)
        PROVE  CacheOK'
    <2>1. UNCHANGED <<cache, saved>>
      BY CloseWriteDoes, <1>1 DEF ScanInv
    <2> QED BY <2>1 DEF ScanInv, Shapes, CacheOK
  <1>2. ASSUME NEW n \in Names, NEW kind \in {"open", "exec"}, Use(n, kind)
        PROVE  CacheOK'
    <2>1. UNCHANGED <<cache, saved>>
      BY UseDoes, <1>2 DEF ScanInv
    <2> QED BY <2>1 DEF ScanInv, Shapes, CacheOK
  <1>3. ASSUME NEW n \in Names, NEW m \in Names, Rename(n, m) PROVE CacheOK'
    <2>1. UNCHANGED <<cache, saved>>
      BY RenameDoes, <1>3 DEF ScanInv
    <2> QED BY <2>1 DEF ScanInv, Shapes, CacheOK
  <1>4. ASSUME Vanished PROVE CacheOK'
    <2>1. UNCHANGED <<cache, saved>>
      BY VanishedDoes, <1>4 DEF ScanInv
    <2> QED BY <2>1 DEF ScanInv, Shapes, CacheOK
  <1>5. ASSUME NEW f \in Files, NEW n \in Names, Written(f, n) PROVE CacheOK'
    <2>1. UNCHANGED <<cache, saved>>
      BY WrittenDoes, <1>5 DEF ScanInv
    <2> QED BY <2>1 DEF ScanInv, Shapes, CacheOK
  <1>6. ASSUME NEW f \in Files, NEW n \in Names, Opened(f, n) PROVE CacheOK'
    <2>1. UNCHANGED <<cache, saved>>
      BY OpenedDoes, <1>6 DEF ScanInv
    <2> QED BY <2>1 DEF ScanInv, Shapes, CacheOK
  <1>7. ASSUME NEW f \in Files, NEW n \in Names, ExecKnown(f, n) PROVE CacheOK'
    <2>1. UNCHANGED <<cache, saved>>
      BY ExecKnownDoes, <1>7 DEF ScanInv
    <2> QED BY <2>1 DEF ScanInv, Shapes, CacheOK
  <1>8. ASSUME NEW f \in Files, NEW n \in Names, ExecOverBudget(f, n) PROVE CacheOK'
    <2>1. UNCHANGED <<cache, saved>>
      BY ExecOverBudgetDoes, <1>8 DEF ScanInv
    <2> QED BY <2>1 DEF ScanInv, Shapes, CacheOK
  <1>9. ASSUME NEW f \in Files, NEW n \in Names, ExecAsk(f, n) PROVE CacheOK'
    <2>1. UNCHANGED <<cache, saved>>
      BY ExecAskDoes, <1>9 DEF ScanInv
    <2> QED BY <2>1 DEF ScanInv, Shapes, CacheOK
  <1>10. ASSUME GateScan PROVE CacheOK'
    <2>1. UNCHANGED <<cache, saved>>
      BY GateScanDoes, <1>10 DEF ScanInv
    <2> QED BY <2>1 DEF ScanInv, Shapes, CacheOK
  <1>11. ASSUME GateAnswer PROVE CacheOK'
    <2>1. \/ intake.outcome \in Sure /\ cache' \in Put(intake.key, intake.outcome)
          \/ UNCHANGED cache
      BY <1>11, GateAnswerDoes DEF ScanInv
    <2>2. intake.key \in Keys /\ UNCHANGED saved
      BY <1>11, GateAnswerDoes, IntakeIs DEF ScanInv, Asks
    <2>3. cache' \in [Keys -> Verdicts]
      BY <2>1, <2>2, PutDoes DEF ScanInv, Shapes, CacheOK
    <2> QED BY <2>2, <2>3 DEF ScanInv, Shapes, CacheOK
  <1>12. ASSUME NEW w \in Workers, TakeFollowUp(w) PROVE CacheOK'
    <2>1. UNCHANGED <<cache, saved>>
      BY TakeFollowUpDoes, <1>12 DEF ScanInv
    <2> QED BY <2>1 DEF ScanInv, Shapes, CacheOK
  <1>13. ASSUME NEW w \in Workers, NEW n \in Names, TakeScan(w, n) PROVE CacheOK'
    <2>1. UNCHANGED <<cache, saved>>
      BY TakeScanDoes, <1>13 DEF ScanInv
    <2> QED BY <2>1 DEF ScanInv, Shapes, CacheOK
  <1>14. ASSUME NEW w \in Workers, Look(w) PROVE CacheOK'
    <2>1. UNCHANGED <<cache, saved>>
      BY LookDoes, <1>14 DEF ScanInv
    <2> QED BY <2>1 DEF ScanInv, Shapes, CacheOK
  <1>15. ASSUME NEW w \in Workers, Scan(w) PROVE CacheOK'
    <2>1. UNCHANGED <<cache, saved>>
      BY ScanDoes, <1>15 DEF ScanInv
    <2> QED BY <2>1 DEF ScanInv, Shapes, CacheOK
  <1>16. ASSUME NEW w \in Workers, SettleInfected(w) PROVE CacheOK'
    BY <1>16, SettleInfectedDoes DEF ScanInv, Shapes, CacheOK, Verdicts
  <1>17. ASSUME NEW w \in Workers, SettleClean(w) PROVE CacheOK'
    <2>1. /\ cache' \in Put(worker[w].key, "clean")
          /\ worker[w].key \in Keys /\ UNCHANGED saved
      BY <1>17, SettleCleanDoes DEF ScanInv
    <2>2. cache' \in [Keys -> Verdicts]
      BY <2>1, PutDoes DEF ScanInv, Sure
    <2> QED BY <2>1, <2>2 DEF ScanInv, Shapes, CacheOK
  <1>18. ASSUME NEW w \in Workers, SettleFailed(w) PROVE CacheOK'
    <2>1. UNCHANGED <<cache, saved>>
      BY SettleFailedDoes, <1>18 DEF ScanInv
    <2> QED BY <2>1 DEF ScanInv, Shapes, CacheOK
  <1>19. ASSUME NEW w \in Workers, Act(w) PROVE CacheOK'
    <2>1. UNCHANGED <<cache, saved>>
      BY ActDoes, <1>19 DEF ScanInv
    <2> QED BY <2>1 DEF ScanInv, Shapes, CacheOK
  <1>20. ASSUME NEW w \in Workers, Move(w) PROVE CacheOK'
    <2>1. UNCHANGED <<cache, saved>>
      BY MoveDoes, <1>20 DEF ScanInv
    <2> QED BY <2>1 DEF ScanInv, Shapes, CacheOK
  <1>21. ASSUME SaveCache PROVE CacheOK'
    BY <1>21, SaveCacheDoes DEF ScanInv, Shapes, CacheOK
  <1>22. ASSUME Stop PROVE CacheOK'
    <2>1. UNCHANGED <<cache, saved>>
      BY StopDoes, <1>22 DEF ScanInv
    <2> QED BY <2>1 DEF ScanInv, Shapes, CacheOK
  <1>23. ASSUME Down PROVE CacheOK'
    BY <1>23, DownDoes DEF ScanInv, Shapes, CacheOK
  <1>24. ASSUME Start PROVE CacheOK'
    BY <1>24, StartDoes DEF ScanInv, Shapes, CacheOK
  <1>25. ASSUME Crash PROVE CacheOK'
    BY <1>25, CrashDoes DEF ScanInv, Shapes, CacheOK
  <1>26. CASE UNCHANGED vars
    BY <1>26 DEF vars, ScanInv, Shapes, CacheOK
  <1> QED BY <1>1, <1>2, <1>3, <1>4, <1>5, <1>6, <1>7, <1>8, <1>9, <1>10, <1>11,
             <1>12, <1>13, <1>14, <1>15, <1>16, <1>17, <1>18, <1>19, <1>20, <1>21,
             <1>22, <1>23, <1>24, <1>25, <1>26 DEF Next, Others, IntakeStep,
             WorkerStep

(* The queue is one.                                                       *)
LEMMA QueueOKStays ==
    ASSUME ScanInv, [Next]_vars
    PROVE  QueueOK'
  <1>1. ASSUME NEW n \in Names, NEW f \in Files, NEW bad \in BOOLEAN, CloseWrite(n, f, bad)
        PROVE  QueueOK'
    <2>1. UNCHANGED <<waiting, followups>>
      BY CloseWriteDoes, <1>1 DEF ScanInv
    <2> QED BY <2>1 DEF ScanInv, Shapes, QueueOK
  <1>2. ASSUME NEW n \in Names, NEW kind \in {"open", "exec"}, Use(n, kind)
        PROVE  QueueOK'
    <2>1. UNCHANGED <<waiting, followups>>
      BY UseDoes, <1>2 DEF ScanInv
    <2> QED BY <2>1 DEF ScanInv, Shapes, QueueOK
  <1>3. ASSUME NEW n \in Names, NEW m \in Names, Rename(n, m) PROVE QueueOK'
    <2>1. UNCHANGED <<waiting, followups>>
      BY RenameDoes, <1>3 DEF ScanInv
    <2> QED BY <2>1 DEF ScanInv, Shapes, QueueOK
  <1>4. ASSUME Vanished PROVE QueueOK'
    <2>1. UNCHANGED <<waiting, followups>>
      BY VanishedDoes, <1>4 DEF ScanInv
    <2> QED BY <2>1 DEF ScanInv, Shapes, QueueOK
  <1>5. ASSUME NEW f \in Files, NEW n \in Names, Written(f, n) PROVE QueueOK'
    BY <1>5, WrittenDoes DEF ScanInv, Shapes, QueueOK
  <1>6. ASSUME NEW f \in Files, NEW n \in Names, Opened(f, n) PROVE QueueOK'
    BY <1>6, OpenedDoes DEF ScanInv, Shapes, QueueOK
  <1>7. ASSUME NEW f \in Files, NEW n \in Names, ExecKnown(f, n) PROVE QueueOK'
    <2>1. UNCHANGED waiting /\ (followups' = followups \/ followups' = Append(followups, n))
      BY <1>7, ExecKnownDoes DEF ScanInv
    <2> QED BY <2>1 DEF ScanInv, Shapes, QueueOK
  <1>8. ASSUME NEW f \in Files, NEW n \in Names, ExecOverBudget(f, n) PROVE QueueOK'
    BY <1>8, ExecOverBudgetDoes DEF ScanInv, Shapes, QueueOK
  <1>9. ASSUME NEW f \in Files, NEW n \in Names, ExecAsk(f, n) PROVE QueueOK'
    <2>1. UNCHANGED <<waiting, followups>>
      BY ExecAskDoes, <1>9 DEF ScanInv
    <2> QED BY <2>1 DEF ScanInv, Shapes, QueueOK
  <1>10. ASSUME GateScan PROVE QueueOK'
    <2>1. UNCHANGED <<waiting, followups>>
      BY GateScanDoes, <1>10 DEF ScanInv
    <2> QED BY <2>1 DEF ScanInv, Shapes, QueueOK
  <1>11. ASSUME GateAnswer PROVE QueueOK'
    <2>1. intake.name \in Names
      BY <1>11, GateAnswerDoes, IntakeIs DEF ScanInv, Asks
    <2>2. /\ waiting' = waiting \/ waiting' = waiting \cup {intake.name}
          /\ followups' = followups \/ followups' = Append(followups, intake.name)
      BY <1>11, GateAnswerDoes DEF ScanInv
    <2> QED BY <2>1, <2>2 DEF ScanInv, Shapes, QueueOK
  <1>12. ASSUME NEW w \in Workers, TakeFollowUp(w) PROVE QueueOK'
    <2>1. followups # <<>> /\ followups' = Tail(followups) /\ UNCHANGED waiting
      BY <1>12, TakeFollowUpDoes DEF ScanInv
    <2>2. Tail(followups) \in Seq(Names)
      BY <2>1 DEF ScanInv, Shapes, QueueOK
    <2> QED BY <2>1, <2>2 DEF ScanInv, Shapes, QueueOK
  <1>13. ASSUME NEW w \in Workers, NEW n \in Names, TakeScan(w, n) PROVE QueueOK'
    BY <1>13, TakeScanDoes DEF ScanInv, Shapes, QueueOK
  <1>14. ASSUME NEW w \in Workers, Look(w) PROVE QueueOK'
    <2>1. UNCHANGED <<waiting, followups>>
      BY LookDoes, <1>14 DEF ScanInv
    <2> QED BY <2>1 DEF ScanInv, Shapes, QueueOK
  <1>15. ASSUME NEW w \in Workers, Scan(w) PROVE QueueOK'
    <2>1. UNCHANGED <<waiting, followups>>
      BY ScanDoes, <1>15 DEF ScanInv
    <2> QED BY <2>1 DEF ScanInv, Shapes, QueueOK
  <1>16. ASSUME NEW w \in Workers, SettleInfected(w) PROVE QueueOK'
    <2>1. UNCHANGED <<waiting, followups>>
      BY SettleInfectedDoes, <1>16 DEF ScanInv
    <2> QED BY <2>1 DEF ScanInv, Shapes, QueueOK
  <1>17. ASSUME NEW w \in Workers, SettleClean(w) PROVE QueueOK'
    <2>1. UNCHANGED <<waiting, followups>>
      BY SettleCleanDoes, <1>17 DEF ScanInv
    <2> QED BY <2>1 DEF ScanInv, Shapes, QueueOK
  <1>18. ASSUME NEW w \in Workers, SettleFailed(w) PROVE QueueOK'
    <2>1. UNCHANGED <<waiting, followups>>
      BY SettleFailedDoes, <1>18 DEF ScanInv
    <2> QED BY <2>1 DEF ScanInv, Shapes, QueueOK
  <1>19. ASSUME NEW w \in Workers, Act(w) PROVE QueueOK'
    <2>1. UNCHANGED <<waiting, followups>>
      BY ActDoes, <1>19 DEF ScanInv
    <2> QED BY <2>1 DEF ScanInv, Shapes, QueueOK
  <1>20. ASSUME NEW w \in Workers, Move(w) PROVE QueueOK'
    <2>1. UNCHANGED <<waiting, followups>>
      BY MoveDoes, <1>20 DEF ScanInv
    <2> QED BY <2>1 DEF ScanInv, Shapes, QueueOK
  <1>21. ASSUME SaveCache PROVE QueueOK'
    <2>1. UNCHANGED <<waiting, followups>>
      BY SaveCacheDoes, <1>21 DEF ScanInv
    <2> QED BY <2>1 DEF ScanInv, Shapes, QueueOK
  <1>22. ASSUME Stop PROVE QueueOK'
    <2>1. UNCHANGED <<waiting, followups>>
      BY StopDoes, <1>22 DEF ScanInv
    <2> QED BY <2>1 DEF ScanInv, Shapes, QueueOK
  <1>23. ASSUME Down PROVE QueueOK'
    <2>1. Elems(followups) \subseteq Names
      BY DEF Elems, ScanInv, Shapes, QueueOK
    <2>2. waiting' = waiting \cup Elems(followups) /\ followups' = <<>>
      BY <1>23, DownDoes DEF ScanInv
    <2>3. <<>> \in Seq(Names)
      OBVIOUS
    <2> QED BY <2>1, <2>2, <2>3 DEF ScanInv, Shapes, QueueOK
  <1>24. ASSUME Start PROVE QueueOK'
    <2>1. UNCHANGED <<waiting, followups>>
      BY StartDoes, <1>24 DEF ScanInv
    <2> QED BY <2>1 DEF ScanInv, Shapes, QueueOK
  <1>25. ASSUME Crash PROVE QueueOK'
    <2>1. waiting' \subseteq waiting /\ followups' = <<>>
      BY <1>25, CrashDoes DEF ScanInv
    <2>2. <<>> \in Seq(Names)
      OBVIOUS
    <2> QED BY <2>1, <2>2 DEF ScanInv, Shapes, QueueOK
  <1>26. CASE UNCHANGED vars
    BY <1>26 DEF vars, ScanInv, Shapes, QueueOK
  <1> QED BY <1>1, <1>2, <1>3, <1>4, <1>5, <1>6, <1>7, <1>8, <1>9, <1>10, <1>11,
             <1>12, <1>13, <1>14, <1>15, <1>16, <1>17, <1>18, <1>19, <1>20, <1>21,
             <1>22, <1>23, <1>24, <1>25, <1>26 DEF Next, Others, IntakeStep,
             WorkerStep

(* The gate is in one of its states.                                       *)
LEMMA IntakeOKStays ==
    ASSUME ScanInv, [Next]_vars
    PROVE  IntakeOK'
  <1>1. ASSUME NEW n \in Names, NEW f \in Files, NEW bad \in BOOLEAN, CloseWrite(n, f, bad)
        PROVE  IntakeOK'
    <2>1. UNCHANGED <<intake>>
      BY CloseWriteDoes, <1>1 DEF ScanInv
    <2> QED BY <2>1 DEF ScanInv, Shapes, IntakeOK, Asks
  <1>2. ASSUME NEW n \in Names, NEW kind \in {"open", "exec"}, Use(n, kind)
        PROVE  IntakeOK'
    <2>1. UNCHANGED <<intake>>
      BY UseDoes, <1>2 DEF ScanInv
    <2> QED BY <2>1 DEF ScanInv, Shapes, IntakeOK, Asks
  <1>3. ASSUME NEW n \in Names, NEW m \in Names, Rename(n, m) PROVE IntakeOK'
    <2>1. UNCHANGED <<intake>>
      BY RenameDoes, <1>3 DEF ScanInv
    <2> QED BY <2>1 DEF ScanInv, Shapes, IntakeOK, Asks
  <1>4. ASSUME Vanished PROVE IntakeOK'
    <2>1. UNCHANGED <<intake>>
      BY VanishedDoes, <1>4 DEF ScanInv
    <2> QED BY <2>1 DEF ScanInv, Shapes, IntakeOK, Asks
  <1>5. ASSUME NEW f \in Files, NEW n \in Names, Written(f, n) PROVE IntakeOK'
    <2>1. UNCHANGED <<intake>>
      BY WrittenDoes, <1>5 DEF ScanInv
    <2> QED BY <2>1 DEF ScanInv, Shapes, IntakeOK, Asks
  <1>6. ASSUME NEW f \in Files, NEW n \in Names, Opened(f, n) PROVE IntakeOK'
    <2>1. UNCHANGED <<intake>>
      BY OpenedDoes, <1>6 DEF ScanInv
    <2> QED BY <2>1 DEF ScanInv, Shapes, IntakeOK, Asks
  <1>7. ASSUME NEW f \in Files, NEW n \in Names, ExecKnown(f, n) PROVE IntakeOK'
    <2>1. UNCHANGED <<intake>>
      BY ExecKnownDoes, <1>7 DEF ScanInv
    <2> QED BY <2>1 DEF ScanInv, Shapes, IntakeOK, Asks
  <1>8. ASSUME NEW f \in Files, NEW n \in Names, ExecOverBudget(f, n)
        PROVE  IntakeOK'
    <2>1. UNCHANGED <<intake>>
      BY ExecOverBudgetDoes, <1>8 DEF ScanInv
    <2> QED BY <2>1 DEF ScanInv, Shapes, IntakeOK, Asks
  <1>9. ASSUME NEW f \in Files, NEW n \in Names, ExecAsk(f, n) PROVE IntakeOK'
    <2>1. intake' = [at |-> "scan", file |-> f, name |-> n, key |-> Key(f),
                     outcome |-> "none"]
      BY <1>9, ExecAskDoes DEF ScanInv
    <2>2. Key(f) \in Keys /\ Key(f)[1] = f
      BY <1>9, ExecAskDoes DEF ScanInv
    <2> QED BY <2>1, <2>2 DEF IntakeOK, IntakeT, Outcome, SomeKey, Asks
  <1>10. ASSUME GateScan PROVE IntakeOK'
    <2>1. /\ intake.at = "scan" /\ intake'.at = "answer" /\ intake' \in IntakeT
          /\ intake'.file = intake.file /\ intake'.name = intake.name
          /\ intake'.key = intake.key
      BY <1>10, GateScanDoes DEF ScanInv
    <2>2. intake'.outcome # "none"
      <3>1. PICK o \in Outcomes(intake.name) : intake' = [intake EXCEPT !.at = "answer", !.outcome = o]
        BY <1>10 DEF GateScan
      <3>2. o # "none"
        BY <2>1, <3>1, OutcomesAre, IntakeIs DEF Asks, ScanInv
      <3> QED BY <3>1, <3>2 DEF ScanInv, Shapes, IntakeOK, IntakeT
    <2> QED BY <2>1, <2>2 DEF ScanInv, Shapes, IntakeOK, Asks
  <1>11. ASSUME GateAnswer PROVE IntakeOK'
    <2>1. intake' = IdleIntake
      BY <1>11, GateAnswerDoes DEF ScanInv
    <2> QED BY <2>1 DEF IntakeOK, IdleIntake, NoKey, IntakeT, Outcome, SomeKey, Asks
  <1>12. ASSUME NEW w \in Workers, TakeFollowUp(w) PROVE IntakeOK'
    <2>1. UNCHANGED <<intake>>
      BY TakeFollowUpDoes, <1>12 DEF ScanInv
    <2> QED BY <2>1 DEF ScanInv, Shapes, IntakeOK, Asks
  <1>13. ASSUME NEW w \in Workers, NEW n \in Names, TakeScan(w, n) PROVE IntakeOK'
    <2>1. UNCHANGED <<intake>>
      BY TakeScanDoes, <1>13 DEF ScanInv
    <2> QED BY <2>1 DEF ScanInv, Shapes, IntakeOK, Asks
  <1>14. ASSUME NEW w \in Workers, Look(w) PROVE IntakeOK'
    <2>1. UNCHANGED <<intake>>
      BY LookDoes, <1>14 DEF ScanInv
    <2> QED BY <2>1 DEF ScanInv, Shapes, IntakeOK, Asks
  <1>15. ASSUME NEW w \in Workers, Scan(w) PROVE IntakeOK'
    <2>1. UNCHANGED <<intake>>
      BY ScanDoes, <1>15 DEF ScanInv
    <2> QED BY <2>1 DEF ScanInv, Shapes, IntakeOK, Asks
  <1>16. ASSUME NEW w \in Workers, SettleInfected(w) PROVE IntakeOK'
    <2>1. UNCHANGED <<intake>>
      BY SettleInfectedDoes, <1>16 DEF ScanInv
    <2> QED BY <2>1 DEF ScanInv, Shapes, IntakeOK, Asks
  <1>17. ASSUME NEW w \in Workers, SettleClean(w) PROVE IntakeOK'
    <2>1. UNCHANGED <<intake>>
      BY SettleCleanDoes, <1>17 DEF ScanInv
    <2> QED BY <2>1 DEF ScanInv, Shapes, IntakeOK, Asks
  <1>18. ASSUME NEW w \in Workers, SettleFailed(w) PROVE IntakeOK'
    <2>1. UNCHANGED <<intake>>
      BY SettleFailedDoes, <1>18 DEF ScanInv
    <2> QED BY <2>1 DEF ScanInv, Shapes, IntakeOK, Asks
  <1>19. ASSUME NEW w \in Workers, Act(w) PROVE IntakeOK'
    <2>1. UNCHANGED <<intake>>
      BY ActDoes, <1>19 DEF ScanInv
    <2> QED BY <2>1 DEF ScanInv, Shapes, IntakeOK, Asks
  <1>20. ASSUME NEW w \in Workers, Move(w) PROVE IntakeOK'
    <2>1. UNCHANGED <<intake>>
      BY MoveDoes, <1>20 DEF ScanInv
    <2> QED BY <2>1 DEF ScanInv, Shapes, IntakeOK, Asks
  <1>21. ASSUME SaveCache PROVE IntakeOK'
    <2>1. UNCHANGED <<intake>>
      BY SaveCacheDoes, <1>21 DEF ScanInv
    <2> QED BY <2>1 DEF ScanInv, Shapes, IntakeOK, Asks
  <1>22. ASSUME Stop PROVE IntakeOK'
    <2>1. UNCHANGED <<intake>>
      BY StopDoes, <1>22 DEF ScanInv
    <2> QED BY <2>1 DEF ScanInv, Shapes, IntakeOK, Asks
  <1>23. ASSUME Down PROVE IntakeOK'
    <2>1. UNCHANGED <<intake>>
      BY DownDoes, <1>23 DEF ScanInv
    <2> QED BY <2>1 DEF ScanInv, Shapes, IntakeOK, Asks
  <1>24. ASSUME Start PROVE IntakeOK'
    <2>1. UNCHANGED <<intake>>
      BY StartDoes, <1>24 DEF ScanInv
    <2> QED BY <2>1 DEF ScanInv, Shapes, IntakeOK, Asks
  <1>25. ASSUME Crash PROVE IntakeOK'
    <2>1. intake' = IdleIntake
      BY <1>25, CrashDoes DEF ScanInv
    <2> QED BY <2>1 DEF IntakeOK, IdleIntake, NoKey, IntakeT, Outcome, SomeKey, Asks
  <1>26. CASE UNCHANGED vars
    BY <1>26 DEF vars, ScanInv, Shapes, IntakeOK, Asks
  <1> QED BY <1>1, <1>2, <1>3, <1>4, <1>5, <1>6, <1>7, <1>8, <1>9, <1>10, <1>11,
             <1>12, <1>13, <1>14, <1>15, <1>16, <1>17, <1>18, <1>19, <1>20, <1>21,
             <1>22, <1>23, <1>24, <1>25, <1>26 DEF Next, Others, IntakeStep,
             WorkerStep

(* A step of one worker, to one of its states.                             *)
Apt(x) ==
    /\ x \in WorkerT
    /\ x.at = "idle" <=> x.name = NoName
    /\ x.at \in {"scan", "settle"} => x.key \in Keys
    /\ x.kind # "none" <=> x.at \in {"act", "move"}

(* A step that puts one apt worker in place keeps them all apt.            *)
LEMMA OneWorker ==
    ASSUME ScanInv, NEW w \in Workers, NEW x, Apt(x), worker' = [worker EXCEPT ![w] = x]
    PROVE  WorkersOK'
  BY DEF ScanInv, Shapes, WorkersOK, Holds, Apt

(* An idle worker is apt.                                                  *)
LEMMA IdleIsApt == Apt(IdleWorker)
  BY DEF Apt, IdleWorker, WorkerT, NoKey, SomeKey, Outcome

(* Every worker is in one of its states.                                   *)
LEMMA WorkersOKStays ==
    ASSUME ScanInv, [Next]_vars
    PROVE  WorkersOK'
  <1>1. ASSUME NEW n \in Names, NEW f \in Files, NEW bad \in BOOLEAN, CloseWrite(n, f, bad)
        PROVE  WorkersOK'
    <2>1. UNCHANGED <<worker>>
      BY CloseWriteDoes, <1>1 DEF ScanInv
    <2> QED BY <2>1 DEF ScanInv, Shapes, WorkersOK, Holds
  <1>2. ASSUME NEW n \in Names, NEW kind \in {"open", "exec"}, Use(n, kind)
        PROVE  WorkersOK'
    <2>1. UNCHANGED <<worker>>
      BY UseDoes, <1>2 DEF ScanInv
    <2> QED BY <2>1 DEF ScanInv, Shapes, WorkersOK, Holds
  <1>3. ASSUME NEW n \in Names, NEW m \in Names, Rename(n, m) PROVE WorkersOK'
    <2>1. UNCHANGED <<worker>>
      BY RenameDoes, <1>3 DEF ScanInv
    <2> QED BY <2>1 DEF ScanInv, Shapes, WorkersOK, Holds
  <1>4. ASSUME Vanished PROVE WorkersOK'
    <2>1. UNCHANGED <<worker>>
      BY VanishedDoes, <1>4 DEF ScanInv
    <2> QED BY <2>1 DEF ScanInv, Shapes, WorkersOK, Holds
  <1>5. ASSUME NEW f \in Files, NEW n \in Names, Written(f, n) PROVE WorkersOK'
    <2>1. UNCHANGED <<worker>>
      BY WrittenDoes, <1>5 DEF ScanInv
    <2> QED BY <2>1 DEF ScanInv, Shapes, WorkersOK, Holds
  <1>6. ASSUME NEW f \in Files, NEW n \in Names, Opened(f, n) PROVE WorkersOK'
    <2>1. UNCHANGED <<worker>>
      BY OpenedDoes, <1>6 DEF ScanInv
    <2> QED BY <2>1 DEF ScanInv, Shapes, WorkersOK, Holds
  <1>7. ASSUME NEW f \in Files, NEW n \in Names, ExecKnown(f, n) PROVE WorkersOK'
    <2>1. UNCHANGED <<worker>>
      BY ExecKnownDoes, <1>7 DEF ScanInv
    <2> QED BY <2>1 DEF ScanInv, Shapes, WorkersOK, Holds
  <1>8. ASSUME NEW f \in Files, NEW n \in Names, ExecOverBudget(f, n)
        PROVE  WorkersOK'
    <2>1. UNCHANGED <<worker>>
      BY ExecOverBudgetDoes, <1>8 DEF ScanInv
    <2> QED BY <2>1 DEF ScanInv, Shapes, WorkersOK, Holds
  <1>9. ASSUME NEW f \in Files, NEW n \in Names, ExecAsk(f, n) PROVE WorkersOK'
    <2>1. UNCHANGED <<worker>>
      BY ExecAskDoes, <1>9 DEF ScanInv
    <2> QED BY <2>1 DEF ScanInv, Shapes, WorkersOK, Holds
  <1>10. ASSUME GateScan PROVE WorkersOK'
    <2>1. UNCHANGED <<worker>>
      BY GateScanDoes, <1>10 DEF ScanInv
    <2> QED BY <2>1 DEF ScanInv, Shapes, WorkersOK, Holds
  <1>11. ASSUME GateAnswer PROVE WorkersOK'
    <2>1. UNCHANGED <<worker>>
      BY GateAnswerDoes, <1>11 DEF ScanInv
    <2> QED BY <2>1 DEF ScanInv, Shapes, WorkersOK, Holds
  <1>12. ASSUME NEW w \in Workers, TakeFollowUp(w) PROVE WorkersOK'
    <2> DEFINE x == [IdleWorker EXCEPT !.at = "act", !.name = Head(followups),
                                       !.kind = "denied"]
    <2>1. Head(followups) \in Names
      BY <1>12, TakeFollowUpDoes DEF ScanInv, Shapes, QueueOK
    <2>2. Apt(x)
      BY <2>1 DEF Apt, IdleWorker, WorkerT, NoKey, SomeKey, Outcome
    <2>3. worker' = [worker EXCEPT ![w] = x]
      BY <1>12 DEF TakeFollowUp, Goes
    <2> QED BY <2>2, <2>3, OneWorker
  <1>13. ASSUME NEW w \in Workers, NEW n \in Names, TakeScan(w, n) PROVE WorkersOK'
    <2> DEFINE x == [IdleWorker EXCEPT !.at = "look", !.name = n]
    <2>1. Apt(x)
      BY DEF Apt, IdleWorker, WorkerT, NoKey, SomeKey, Outcome
    <2>2. worker' = [worker EXCEPT ![w] = x]
      BY <1>13 DEF TakeScan, Goes
    <2> QED BY <2>1, <2>2, OneWorker
  <1>14. ASSUME NEW w \in Workers, Look(w) PROVE WorkersOK'
    <2> DEFINE f == dir[worker[w].name]
    <2>1. /\ worker[w].at = "look" /\ worker[w].name \in Names
          /\ f \in Files \cup {NoFile}
      BY <1>14, LookDoes DEF ScanInv, Shapes, FsOK
    <2>2. \/ worker' = [worker EXCEPT ![w] = IdleWorker]
          \/ /\ f \in Files
             /\ worker' = [worker EXCEPT ![w] = [worker[w] EXCEPT !.at = "scan",
                                                                  !.key = Key(f)]]
      BY <1>14, <2>1 DEF Look, Goes, Rest
    <2>3. CASE worker' = [worker EXCEPT ![w] = IdleWorker]
      BY <2>3, IdleIsApt, OneWorker
    <2>4. CASE /\ f \in Files
               /\ worker' = [worker EXCEPT ![w] = [worker[w] EXCEPT !.at = "scan",
                                                                    !.key = Key(f)]]
      <3>1. Key(f) \in Keys
        BY <2>4, KeyIs DEF ScanInv
      <3>2. Apt(worker[w])
        BY DEF Apt, ScanInv, Shapes, WorkersOK, Holds
      <3>3. Apt([worker[w] EXCEPT !.at = "scan", !.key = Key(f)])
        BY <2>1, <3>1, <3>2 DEF Apt, WorkerT, SomeKey
      <3> QED BY <2>4, <3>3, OneWorker
    <2> QED BY <2>2, <2>3, <2>4
  <1>15. ASSUME NEW w \in Workers, Scan(w) PROVE WorkersOK'
    <2>1. /\ worker[w].at = "scan" /\ worker'[w].at = "settle"
          /\ worker[w].key \in Keys
          /\ worker'[w].name = worker[w].name /\ worker'[w].key = worker[w].key
          /\ worker'[w] \in WorkerT /\ worker'[w].kind = worker[w].kind
      BY <1>15, ScanDoes DEF ScanInv
    <2>2. PICK x : worker' = [worker EXCEPT ![w] = x]
      BY <1>15 DEF Scan, Goes
    <2>3. Apt(worker[w]) /\ worker'[w] = x
      BY <2>2 DEF Apt, ScanInv, Shapes, WorkersOK, Holds
    <2>4. Apt(x)
      BY <2>1, <2>3 DEF Apt
    <2> QED BY <2>2, <2>4, OneWorker
  <1>16. ASSUME NEW w \in Workers, SettleInfected(w) PROVE WorkersOK'
    <2>1. worker[w].at = "settle" /\ worker[w].name \in Names
      BY <1>16, SettleInfectedDoes DEF ScanInv
    <2>2. \/ worker' = [worker EXCEPT ![w] = IdleWorker]
          \/ worker' = [worker EXCEPT ![w] = [worker[w] EXCEPT !.at = "act",
                                                               !.kind = "detected"]]
      BY <1>16 DEF SettleInfected, Goes, Rest
    <2>3. Apt(worker[w])
      BY DEF Apt, ScanInv, Shapes, WorkersOK, Holds
    <2>4. Apt([worker[w] EXCEPT !.at = "act", !.kind = "detected"])
      BY <2>1, <2>3 DEF Apt, WorkerT
    <2> QED BY <2>2, <2>4, IdleIsApt, OneWorker
  <1>17. ASSUME NEW w \in Workers, SettleClean(w) PROVE WorkersOK'
    BY <1>17, OneWorker, IdleIsApt DEF SettleClean, Goes, Rest
  <1>18. ASSUME NEW w \in Workers, SettleFailed(w) PROVE WorkersOK'
    BY <1>18, OneWorker, IdleIsApt DEF SettleFailed, Goes, Rest
  <1>19. ASSUME NEW w \in Workers, Act(w) PROVE WorkersOK'
    <2>1. worker[w].at = "act"
      BY <1>19, ActDoes DEF ScanInv
    <2>2. \/ worker' = [worker EXCEPT ![w] = IdleWorker]
          \/ worker' = [worker EXCEPT ![w] = [worker[w] EXCEPT !.at = "move"]]
      BY <1>19 DEF Act, Goes, Rest
    <2>3. Apt(worker[w])
      BY DEF Apt, ScanInv, Shapes, WorkersOK, Holds
    <2>4. Apt([worker[w] EXCEPT !.at = "move"])
      BY <2>1, <2>3 DEF Apt, WorkerT
    <2> QED BY <2>2, <2>4, IdleIsApt, OneWorker
  <1>20. ASSUME NEW w \in Workers, Move(w) PROVE WorkersOK'
    BY <1>20, OneWorker, IdleIsApt DEF Move, Goes, Rest
  <1>21. ASSUME SaveCache PROVE WorkersOK'
    <2>1. UNCHANGED <<worker>>
      BY SaveCacheDoes, <1>21 DEF ScanInv
    <2> QED BY <2>1 DEF ScanInv, Shapes, WorkersOK, Holds
  <1>22. ASSUME Stop PROVE WorkersOK'
    <2>1. UNCHANGED <<worker>>
      BY StopDoes, <1>22 DEF ScanInv
    <2> QED BY <2>1 DEF ScanInv, Shapes, WorkersOK, Holds
  <1>23. ASSUME Down PROVE WorkersOK'
    <2>1. UNCHANGED <<worker>>
      BY DownDoes, <1>23 DEF ScanInv
    <2> QED BY <2>1 DEF ScanInv, Shapes, WorkersOK, Holds
  <1>24. ASSUME Start PROVE WorkersOK'
    <2>1. UNCHANGED <<worker>>
      BY StartDoes, <1>24 DEF ScanInv
    <2> QED BY <2>1 DEF ScanInv, Shapes, WorkersOK, Holds
  <1>25. ASSUME Crash PROVE WorkersOK'
    <2>1. worker' = [v \in Workers |-> IdleWorker]
      BY <1>25, CrashDoes DEF ScanInv
    <2> QED BY <2>1, IdleIsApt DEF WorkersOK, Holds, Apt
  <1>26. CASE UNCHANGED vars
    BY <1>26 DEF vars, ScanInv, Shapes, WorkersOK, Holds
  <1> QED BY <1>1, <1>2, <1>3, <1>4, <1>5, <1>6, <1>7, <1>8, <1>9, <1>10, <1>11,
             <1>12, <1>13, <1>14, <1>15, <1>16, <1>17, <1>18, <1>19, <1>20, <1>21,
             <1>22, <1>23, <1>24, <1>25, <1>26 DEF Next, Others, IntakeStep,
             WorkerStep

(* The stamps keep to their bound.                                         *)
LEMMA UsedOKStays ==
    ASSUME ScanInv, [Next]_vars
    PROVE  UsedOK'
  <1>1. ASSUME NEW n \in Names, NEW f \in Files, NEW bad \in BOOLEAN, CloseWrite(n, f, bad)
        PROVE  UsedOK'
    <2>1. used' \in UsedT /\ used'.lifetimes = used.lifetimes
      BY <1>1, CloseWriteDoes DEF ScanInv
    <2>2. \/ used.stamps < MaxStamps /\ used'.stamps = used.stamps + 1
          \/ used'.stamps = used.stamps
      <3>1. Anew(f, bad) \/ Anyhow(n, f, bad)
        BY <1>1, CloseWriteDoes DEF ScanInv
      <3> QED BY <3>1 DEF Anew, Anyhow
    <2>3. used'.stamps <= MaxStamps
      BY <2>2 DEF ScanInv, Shapes, UsedOK, UsedT
    <2> QED BY <2>1, <2>3 DEF UsedOK, ScanInv, Shapes
  <1>2. ASSUME NEW n \in Names, NEW kind \in {"open", "exec"}, Use(n, kind)
        PROVE  UsedOK'
    BY <1>2, UseDoes DEF ScanInv, Shapes, UsedOK
  <1>3. ASSUME NEW n \in Names, NEW m \in Names, Rename(n, m) PROVE UsedOK'
    BY <1>3, RenameDoes DEF ScanInv, Shapes, UsedOK
  <1>4. ASSUME Vanished PROVE UsedOK'
    <2>1. UNCHANGED <<used>>
      BY VanishedDoes, <1>4 DEF ScanInv
    <2> QED BY <2>1 DEF ScanInv, Shapes, UsedOK
  <1>5. ASSUME NEW f \in Files, NEW n \in Names, Written(f, n) PROVE UsedOK'
    <2>1. UNCHANGED <<used>>
      BY WrittenDoes, <1>5 DEF ScanInv
    <2> QED BY <2>1 DEF ScanInv, Shapes, UsedOK
  <1>6. ASSUME NEW f \in Files, NEW n \in Names, Opened(f, n) PROVE UsedOK'
    <2>1. UNCHANGED <<used>>
      BY OpenedDoes, <1>6 DEF ScanInv
    <2> QED BY <2>1 DEF ScanInv, Shapes, UsedOK
  <1>7. ASSUME NEW f \in Files, NEW n \in Names, ExecKnown(f, n) PROVE UsedOK'
    <2>1. UNCHANGED <<used>>
      BY ExecKnownDoes, <1>7 DEF ScanInv
    <2> QED BY <2>1 DEF ScanInv, Shapes, UsedOK
  <1>8. ASSUME NEW f \in Files, NEW n \in Names, ExecOverBudget(f, n) PROVE UsedOK'
    <2>1. UNCHANGED <<used>>
      BY ExecOverBudgetDoes, <1>8 DEF ScanInv
    <2> QED BY <2>1 DEF ScanInv, Shapes, UsedOK
  <1>9. ASSUME NEW f \in Files, NEW n \in Names, ExecAsk(f, n) PROVE UsedOK'
    <2>1. UNCHANGED <<used>>
      BY ExecAskDoes, <1>9 DEF ScanInv
    <2> QED BY <2>1 DEF ScanInv, Shapes, UsedOK
  <1>10. ASSUME GateScan PROVE UsedOK'
    BY <1>10, GateScanDoes DEF ScanInv, Shapes, UsedOK
  <1>11. ASSUME GateAnswer PROVE UsedOK'
    <2>1. UNCHANGED <<used>>
      BY GateAnswerDoes, <1>11 DEF ScanInv
    <2> QED BY <2>1 DEF ScanInv, Shapes, UsedOK
  <1>12. ASSUME NEW w \in Workers, TakeFollowUp(w) PROVE UsedOK'
    <2>1. UNCHANGED <<used>>
      BY TakeFollowUpDoes, <1>12 DEF ScanInv
    <2> QED BY <2>1 DEF ScanInv, Shapes, UsedOK
  <1>13. ASSUME NEW w \in Workers, NEW n \in Names, TakeScan(w, n) PROVE UsedOK'
    <2>1. UNCHANGED <<used>>
      BY TakeScanDoes, <1>13 DEF ScanInv
    <2> QED BY <2>1 DEF ScanInv, Shapes, UsedOK
  <1>14. ASSUME NEW w \in Workers, Look(w) PROVE UsedOK'
    <2>1. UNCHANGED <<used>>
      BY LookDoes, <1>14 DEF ScanInv
    <2> QED BY <2>1 DEF ScanInv, Shapes, UsedOK
  <1>15. ASSUME NEW w \in Workers, Scan(w) PROVE UsedOK'
    BY <1>15, ScanDoes DEF ScanInv, Shapes, UsedOK
  <1>16. ASSUME NEW w \in Workers, SettleInfected(w) PROVE UsedOK'
    <2>1. UNCHANGED <<used>>
      BY SettleInfectedDoes, <1>16 DEF ScanInv
    <2> QED BY <2>1 DEF ScanInv, Shapes, UsedOK
  <1>17. ASSUME NEW w \in Workers, SettleClean(w) PROVE UsedOK'
    <2>1. UNCHANGED <<used>>
      BY SettleCleanDoes, <1>17 DEF ScanInv
    <2> QED BY <2>1 DEF ScanInv, Shapes, UsedOK
  <1>18. ASSUME NEW w \in Workers, SettleFailed(w) PROVE UsedOK'
    <2>1. UNCHANGED <<used>>
      BY SettleFailedDoes, <1>18 DEF ScanInv
    <2> QED BY <2>1 DEF ScanInv, Shapes, UsedOK
  <1>19. ASSUME NEW w \in Workers, Act(w) PROVE UsedOK'
    <2>1. UNCHANGED <<used>>
      BY ActDoes, <1>19 DEF ScanInv
    <2> QED BY <2>1 DEF ScanInv, Shapes, UsedOK
  <1>20. ASSUME NEW w \in Workers, Move(w) PROVE UsedOK'
    <2>1. UNCHANGED <<used>>
      BY MoveDoes, <1>20 DEF ScanInv
    <2> QED BY <2>1 DEF ScanInv, Shapes, UsedOK
  <1>21. ASSUME SaveCache PROVE UsedOK'
    <2>1. UNCHANGED <<used>>
      BY SaveCacheDoes, <1>21 DEF ScanInv
    <2> QED BY <2>1 DEF ScanInv, Shapes, UsedOK
  <1>22. ASSUME Stop PROVE UsedOK'
    <2>1. UNCHANGED <<used>>
      BY StopDoes, <1>22 DEF ScanInv
    <2> QED BY <2>1 DEF ScanInv, Shapes, UsedOK
  <1>23. ASSUME Down PROVE UsedOK'
    <2>1. UNCHANGED <<used>>
      BY DownDoes, <1>23 DEF ScanInv
    <2> QED BY <2>1 DEF ScanInv, Shapes, UsedOK
  <1>24. ASSUME Start PROVE UsedOK'
    <2>1. /\ used' \in UsedT /\ used'.lifetimes = used.lifetimes + 1
          /\ used'.stamps = used.stamps
      BY <1>24, StartDoes DEF ScanInv
    <2> QED BY <2>1 DEF UsedOK, UsedT, ScanInv, Shapes
  <1>25. ASSUME Crash PROVE UsedOK'
    <2>1. UNCHANGED <<used>>
      BY CrashDoes, <1>25 DEF ScanInv
    <2> QED BY <2>1 DEF ScanInv, Shapes, UsedOK
  <1>26. CASE UNCHANGED vars
    BY <1>26 DEF vars, ScanInv, Shapes, UsedOK
  <1> QED BY <1>1, <1>2, <1>3, <1>4, <1>5, <1>6, <1>7, <1>8, <1>9, <1>10, <1>11,
             <1>12, <1>13, <1>14, <1>15, <1>16, <1>17, <1>18, <1>19, <1>20, <1>21,
             <1>22, <1>23, <1>24, <1>25, <1>26 DEF Next, Others, IntakeStep,
             WorkerStep

(* The watcher is in one of its phases.                                    *)
LEMMA PhaseOKStays ==
    ASSUME ScanInv, [Next]_vars
    PROVE  PhaseOK'
  <1>1. ASSUME NEW n \in Names, NEW f \in Files, NEW bad \in BOOLEAN, CloseWrite(n, f, bad)
        PROVE  PhaseOK'
    <2>1. UNCHANGED <<phase>>
      BY CloseWriteDoes, <1>1 DEF ScanInv
    <2> QED BY <2>1 DEF ScanInv, Shapes, PhaseOK
  <1>2. ASSUME NEW n \in Names, NEW kind \in {"open", "exec"}, Use(n, kind)
        PROVE  PhaseOK'
    <2>1. UNCHANGED <<phase>>
      BY UseDoes, <1>2 DEF ScanInv
    <2> QED BY <2>1 DEF ScanInv, Shapes, PhaseOK
  <1>3. ASSUME NEW n \in Names, NEW m \in Names, Rename(n, m) PROVE PhaseOK'
    <2>1. UNCHANGED <<phase>>
      BY RenameDoes, <1>3 DEF ScanInv
    <2> QED BY <2>1 DEF ScanInv, Shapes, PhaseOK
  <1>4. ASSUME Vanished PROVE PhaseOK'
    <2>1. UNCHANGED <<phase>>
      BY VanishedDoes, <1>4 DEF ScanInv
    <2> QED BY <2>1 DEF ScanInv, Shapes, PhaseOK
  <1>5. ASSUME NEW f \in Files, NEW n \in Names, Written(f, n) PROVE PhaseOK'
    <2>1. UNCHANGED <<phase>>
      BY WrittenDoes, <1>5 DEF ScanInv
    <2> QED BY <2>1 DEF ScanInv, Shapes, PhaseOK
  <1>6. ASSUME NEW f \in Files, NEW n \in Names, Opened(f, n) PROVE PhaseOK'
    <2>1. UNCHANGED <<phase>>
      BY OpenedDoes, <1>6 DEF ScanInv
    <2> QED BY <2>1 DEF ScanInv, Shapes, PhaseOK
  <1>7. ASSUME NEW f \in Files, NEW n \in Names, ExecKnown(f, n) PROVE PhaseOK'
    <2>1. UNCHANGED <<phase>>
      BY ExecKnownDoes, <1>7 DEF ScanInv
    <2> QED BY <2>1 DEF ScanInv, Shapes, PhaseOK
  <1>8. ASSUME NEW f \in Files, NEW n \in Names, ExecOverBudget(f, n) PROVE PhaseOK'
    <2>1. UNCHANGED <<phase>>
      BY ExecOverBudgetDoes, <1>8 DEF ScanInv
    <2> QED BY <2>1 DEF ScanInv, Shapes, PhaseOK
  <1>9. ASSUME NEW f \in Files, NEW n \in Names, ExecAsk(f, n) PROVE PhaseOK'
    <2>1. UNCHANGED <<phase>>
      BY ExecAskDoes, <1>9 DEF ScanInv
    <2> QED BY <2>1 DEF ScanInv, Shapes, PhaseOK
  <1>10. ASSUME GateScan PROVE PhaseOK'
    <2>1. UNCHANGED <<phase>>
      BY GateScanDoes, <1>10 DEF ScanInv
    <2> QED BY <2>1 DEF ScanInv, Shapes, PhaseOK
  <1>11. ASSUME GateAnswer PROVE PhaseOK'
    <2>1. UNCHANGED <<phase>>
      BY GateAnswerDoes, <1>11 DEF ScanInv
    <2> QED BY <2>1 DEF ScanInv, Shapes, PhaseOK
  <1>12. ASSUME NEW w \in Workers, TakeFollowUp(w) PROVE PhaseOK'
    <2>1. UNCHANGED <<phase>>
      BY TakeFollowUpDoes, <1>12 DEF ScanInv
    <2> QED BY <2>1 DEF ScanInv, Shapes, PhaseOK
  <1>13. ASSUME NEW w \in Workers, NEW n \in Names, TakeScan(w, n) PROVE PhaseOK'
    <2>1. UNCHANGED <<phase>>
      BY TakeScanDoes, <1>13 DEF ScanInv
    <2> QED BY <2>1 DEF ScanInv, Shapes, PhaseOK
  <1>14. ASSUME NEW w \in Workers, Look(w) PROVE PhaseOK'
    <2>1. UNCHANGED <<phase>>
      BY LookDoes, <1>14 DEF ScanInv
    <2> QED BY <2>1 DEF ScanInv, Shapes, PhaseOK
  <1>15. ASSUME NEW w \in Workers, Scan(w) PROVE PhaseOK'
    <2>1. UNCHANGED <<phase>>
      BY ScanDoes, <1>15 DEF ScanInv
    <2> QED BY <2>1 DEF ScanInv, Shapes, PhaseOK
  <1>16. ASSUME NEW w \in Workers, SettleInfected(w) PROVE PhaseOK'
    <2>1. UNCHANGED <<phase>>
      BY SettleInfectedDoes, <1>16 DEF ScanInv
    <2> QED BY <2>1 DEF ScanInv, Shapes, PhaseOK
  <1>17. ASSUME NEW w \in Workers, SettleClean(w) PROVE PhaseOK'
    <2>1. UNCHANGED <<phase>>
      BY SettleCleanDoes, <1>17 DEF ScanInv
    <2> QED BY <2>1 DEF ScanInv, Shapes, PhaseOK
  <1>18. ASSUME NEW w \in Workers, SettleFailed(w) PROVE PhaseOK'
    <2>1. UNCHANGED <<phase>>
      BY SettleFailedDoes, <1>18 DEF ScanInv
    <2> QED BY <2>1 DEF ScanInv, Shapes, PhaseOK
  <1>19. ASSUME NEW w \in Workers, Act(w) PROVE PhaseOK'
    <2>1. UNCHANGED <<phase>>
      BY ActDoes, <1>19 DEF ScanInv
    <2> QED BY <2>1 DEF ScanInv, Shapes, PhaseOK
  <1>20. ASSUME NEW w \in Workers, Move(w) PROVE PhaseOK'
    <2>1. UNCHANGED <<phase>>
      BY MoveDoes, <1>20 DEF ScanInv
    <2> QED BY <2>1 DEF ScanInv, Shapes, PhaseOK
  <1>21. ASSUME SaveCache PROVE PhaseOK'
    <2>1. UNCHANGED <<phase>>
      BY SaveCacheDoes, <1>21 DEF ScanInv
    <2> QED BY <2>1 DEF ScanInv, Shapes, PhaseOK
  <1>22. ASSUME Stop PROVE PhaseOK'
    BY <1>22, StopDoes DEF ScanInv, Shapes, PhaseOK
  <1>23. ASSUME Down PROVE PhaseOK'
    BY <1>23, DownDoes DEF ScanInv, Shapes, PhaseOK
  <1>24. ASSUME Start PROVE PhaseOK'
    BY <1>24, StartDoes DEF ScanInv, Shapes, PhaseOK
  <1>25. ASSUME Crash PROVE PhaseOK'
    BY <1>25, CrashDoes DEF ScanInv, Shapes, PhaseOK
  <1>26. CASE UNCHANGED vars
    BY <1>26 DEF vars, ScanInv, Shapes, PhaseOK
  <1> QED BY <1>1, <1>2, <1>3, <1>4, <1>5, <1>6, <1>7, <1>8, <1>9, <1>10, <1>11,
             <1>12, <1>13, <1>14, <1>15, <1>16, <1>17, <1>18, <1>19, <1>20, <1>21,
             <1>22, <1>23, <1>24, <1>25, <1>26 DEF Next, Others, IntakeStep,
             WorkerStep

(* The histories name paths and keys.                                      *)
LEMMA HistoryOKStays ==
    ASSUME ScanInv, [Next]_vars
    PROVE  HistoryOK'
  <1>1. ASSUME NEW n \in Names, NEW f \in Files, NEW bad \in BOOLEAN, CloseWrite(n, f, bad)
        PROVE  HistoryOK'
    <2>1. UNCHANGED <<told, failed, denied, found, forgotten>>
      BY CloseWriteDoes, <1>1 DEF ScanInv
    <2> QED BY <2>1 DEF ScanInv, Shapes, HistoryOK
  <1>2. ASSUME NEW n \in Names, NEW kind \in {"open", "exec"}, Use(n, kind)
        PROVE  HistoryOK'
    <2>1. UNCHANGED <<told, failed, denied, found, forgotten>>
      BY UseDoes, <1>2 DEF ScanInv
    <2> QED BY <2>1 DEF ScanInv, Shapes, HistoryOK
  <1>3. ASSUME NEW n \in Names, NEW m \in Names, Rename(n, m) PROVE HistoryOK'
    BY <1>3, RenameDoes DEF ScanInv, Shapes, HistoryOK
  <1>4. ASSUME Vanished PROVE HistoryOK'
    <2>1. UNCHANGED <<told, failed, denied, found, forgotten>>
      BY VanishedDoes, <1>4 DEF ScanInv
    <2> QED BY <2>1 DEF ScanInv, Shapes, HistoryOK
  <1>5. ASSUME NEW f \in Files, NEW n \in Names, Written(f, n) PROVE HistoryOK'
    BY <1>5, WrittenDoes DEF ScanInv, Shapes, HistoryOK
  <1>6. ASSUME NEW f \in Files, NEW n \in Names, Opened(f, n) PROVE HistoryOK'
    BY <1>6, OpenedDoes DEF ScanInv, Shapes, HistoryOK
  <1>7. ASSUME NEW f \in Files, NEW n \in Names, ExecKnown(f, n) PROVE HistoryOK'
    BY <1>7, ExecKnownDoes DEF ScanInv, Shapes, HistoryOK
  <1>8. ASSUME NEW f \in Files, NEW n \in Names, ExecOverBudget(f, n)
        PROVE  HistoryOK'
    BY <1>8, ExecOverBudgetDoes DEF ScanInv, Shapes, HistoryOK
  <1>9. ASSUME NEW f \in Files, NEW n \in Names, ExecAsk(f, n) PROVE HistoryOK'
    <2>1. UNCHANGED <<told, failed, denied, found, forgotten>>
      BY ExecAskDoes, <1>9 DEF ScanInv
    <2> QED BY <2>1 DEF ScanInv, Shapes, HistoryOK
  <1>10. ASSUME GateScan PROVE HistoryOK'
    <2>1. UNCHANGED <<told, failed, denied, found, forgotten>>
      BY GateScanDoes, <1>10 DEF ScanInv
    <2> QED BY <2>1 DEF ScanInv, Shapes, HistoryOK
  <1>11. ASSUME GateAnswer PROVE HistoryOK'
    <2>1. intake.name \in Names /\ intake.key \in Keys
      BY <1>11, GateAnswerDoes, IntakeIs DEF ScanInv, Asks
    <2>2. /\ told' \subseteq told \cup {<<intake.name, intake.key>>}
          /\ denied' \subseteq denied \cup {<<intake.name, intake.key>>}
          /\ found' = found /\ failed' = failed
      BY <1>11, GateAnswerDoes DEF ScanInv
    <2>3. Forgets(cache')
      BY <1>11, GateAnswerDoes DEF ScanInv
    <2> QED BY <2>1, <2>2, <2>3 DEF ScanInv, Shapes, HistoryOK, Forgets
  <1>12. ASSUME NEW w \in Workers, TakeFollowUp(w) PROVE HistoryOK'
    <2>1. UNCHANGED <<told, failed, denied, found, forgotten>>
      BY TakeFollowUpDoes, <1>12 DEF ScanInv
    <2> QED BY <2>1 DEF ScanInv, Shapes, HistoryOK
  <1>13. ASSUME NEW w \in Workers, NEW n \in Names, TakeScan(w, n) PROVE HistoryOK'
    <2>1. UNCHANGED <<told, failed, denied, found, forgotten>>
      BY TakeScanDoes, <1>13 DEF ScanInv
    <2> QED BY <2>1 DEF ScanInv, Shapes, HistoryOK
  <1>14. ASSUME NEW w \in Workers, Look(w) PROVE HistoryOK'
    BY <1>14, LookDoes DEF ScanInv, Shapes, HistoryOK
  <1>15. ASSUME NEW w \in Workers, Scan(w) PROVE HistoryOK'
    <2>1. UNCHANGED <<told, failed, denied, found, forgotten>>
      BY ScanDoes, <1>15 DEF ScanInv
    <2> QED BY <2>1 DEF ScanInv, Shapes, HistoryOK
  <1>16. ASSUME NEW w \in Workers, SettleInfected(w) PROVE HistoryOK'
    <2>1. /\ told' \subseteq told /\ found' \subseteq found \cup {worker[w].key}
          /\ UNCHANGED <<failed, denied, forgotten>> /\ worker[w].key \in Keys
      BY <1>16, SettleInfectedDoes DEF ScanInv
    <2> QED BY <2>1 DEF ScanInv, Shapes, HistoryOK
  <1>17. ASSUME NEW w \in Workers, SettleClean(w) PROVE HistoryOK'
    BY <1>17, SettleCleanDoes DEF ScanInv, Shapes, HistoryOK, Forgets
  <1>18. ASSUME NEW w \in Workers, SettleFailed(w) PROVE HistoryOK'
    BY <1>18, SettleFailedDoes DEF ScanInv, Shapes, HistoryOK
  <1>19. ASSUME NEW w \in Workers, Act(w) PROVE HistoryOK'
    <2>1. /\ UNCHANGED <<told, failed, forgotten>> /\ denied' \subseteq denied
          /\ found' = found \cup {d[2] : d \in denied \ denied'}
      BY <1>19, ActDoes DEF ScanInv
    <2>2. {d[2] : d \in denied \ denied'} \subseteq Keys
      BY DEF ScanInv, Shapes, HistoryOK
    <2> QED BY <2>1, <2>2 DEF ScanInv, Shapes, HistoryOK
  <1>20. ASSUME NEW w \in Workers, Move(w) PROVE HistoryOK'
    <2>1. UNCHANGED <<told, failed, denied, found, forgotten>>
      BY MoveDoes, <1>20 DEF ScanInv
    <2> QED BY <2>1 DEF ScanInv, Shapes, HistoryOK
  <1>21. ASSUME SaveCache PROVE HistoryOK'
    <2>1. UNCHANGED <<told, failed, denied, found, forgotten>>
      BY SaveCacheDoes, <1>21 DEF ScanInv
    <2> QED BY <2>1 DEF ScanInv, Shapes, HistoryOK
  <1>22. ASSUME Stop PROVE HistoryOK'
    <2>1. UNCHANGED <<told, failed, denied, found, forgotten>>
      BY StopDoes, <1>22 DEF ScanInv
    <2> QED BY <2>1 DEF ScanInv, Shapes, HistoryOK
  <1>23. ASSUME Down PROVE HistoryOK'
    <2>1. UNCHANGED <<told, failed, denied, found, forgotten>>
      BY DownDoes, <1>23 DEF ScanInv
    <2> QED BY <2>1 DEF ScanInv, Shapes, HistoryOK
  <1>24. ASSUME Start PROVE HistoryOK'
    BY <1>24, StartDoes DEF ScanInv, Shapes, HistoryOK, Forgets
  <1>25. ASSUME Crash PROVE HistoryOK'
    BY <1>25, CrashDoes DEF ScanInv, Shapes, HistoryOK, Forgets
  <1>26. CASE UNCHANGED vars
    BY <1>26 DEF vars, ScanInv, Shapes, HistoryOK
  <1> QED BY <1>1, <1>2, <1>3, <1>4, <1>5, <1>6, <1>7, <1>8, <1>9, <1>10, <1>11,
             <1>12, <1>13, <1>14, <1>15, <1>16, <1>17, <1>18, <1>19, <1>20, <1>21,
             <1>22, <1>23, <1>24, <1>25, <1>26 DEF Next, Others, IntakeStep,
             WorkerStep

(* ... so every variable keeps its type.                                   *)
LEMMA ShapesStay ==
    ASSUME ScanInv, [Next]_vars
    PROVE  Shapes'
  BY FsOKStays, CacheOKStays, QueueOKStays, IntakeOKStays,
     WorkersOKStays, UsedOKStays, PhaseOKStays, HistoryOKStays
  DEF Shapes

-----------------------------------------------------------------------------
(* Inodes and stamps.                                                      *)

(* An inode keeps to one path.                                             *)
LEMMA SingleStays ==
    ASSUME ScanInv, Shapes', [Next]_vars
    PROVE  Single'
  <1>1. ASSUME NEW n \in Names, NEW f \in Files, NEW bad \in BOOLEAN, CloseWrite(n, f, bad)
        PROVE  Single'
    <2>1. dir[n] = f \/ (dir[n] = NoFile /\ \A m \in Names : dir[m] # f)
      BY <1>1, CloseWriteDoes DEF ScanInv
    <2>2. dir'[n] = f /\ \A m \in Names : m # n => dir'[m] = dir[m]
      BY <1>1, CloseWriteDoes DEF ScanInv
    <2>3. \A m \in Names : m # n => dir[m] # f
      BY <2>1 DEF ScanInv, Single
    <2> QED BY <2>2, <2>3 DEF ScanInv, Single
  <1>2. ASSUME NEW n \in Names, NEW kind \in {"open", "exec"}, Use(n, kind)
        PROVE  Single'
    <2>1. UNCHANGED <<dir>>
      BY UseDoes, <1>2 DEF ScanInv
    <2> QED BY <2>1 DEF ScanInv, Single
  <1>3. ASSUME NEW n \in Names, NEW m \in Names, Rename(n, m) PROVE Single'
    <2>1. /\ n # m /\ dir[n] # NoFile /\ dir'[m] = dir[n] /\ dir'[n] = NoFile
          /\ \A x \in Names : x # n /\ x # m => dir'[x] = dir[x]
      BY <1>3, RenameDoes DEF ScanInv
    <2> QED BY <2>1 DEF ScanInv, Single
  <1>4. ASSUME Vanished PROVE Single'
    <2>1. UNCHANGED <<dir>>
      BY VanishedDoes, <1>4 DEF ScanInv
    <2> QED BY <2>1 DEF ScanInv, Single
  <1>5. ASSUME NEW f \in Files, NEW n \in Names, Written(f, n) PROVE Single'
    <2>1. UNCHANGED <<dir>>
      BY WrittenDoes, <1>5 DEF ScanInv
    <2> QED BY <2>1 DEF ScanInv, Single
  <1>6. ASSUME NEW f \in Files, NEW n \in Names, Opened(f, n) PROVE Single'
    <2>1. UNCHANGED <<dir>>
      BY OpenedDoes, <1>6 DEF ScanInv
    <2> QED BY <2>1 DEF ScanInv, Single
  <1>7. ASSUME NEW f \in Files, NEW n \in Names, ExecKnown(f, n) PROVE Single'
    <2>1. UNCHANGED <<dir>>
      BY ExecKnownDoes, <1>7 DEF ScanInv
    <2> QED BY <2>1 DEF ScanInv, Single
  <1>8. ASSUME NEW f \in Files, NEW n \in Names, ExecOverBudget(f, n) PROVE Single'
    <2>1. UNCHANGED <<dir>>
      BY ExecOverBudgetDoes, <1>8 DEF ScanInv
    <2> QED BY <2>1 DEF ScanInv, Single
  <1>9. ASSUME NEW f \in Files, NEW n \in Names, ExecAsk(f, n) PROVE Single'
    <2>1. UNCHANGED <<dir>>
      BY ExecAskDoes, <1>9 DEF ScanInv
    <2> QED BY <2>1 DEF ScanInv, Single
  <1>10. ASSUME GateScan PROVE Single'
    <2>1. UNCHANGED <<dir>>
      BY GateScanDoes, <1>10 DEF ScanInv
    <2> QED BY <2>1 DEF ScanInv, Single
  <1>11. ASSUME GateAnswer PROVE Single'
    <2>1. UNCHANGED <<dir>>
      BY GateAnswerDoes, <1>11 DEF ScanInv
    <2> QED BY <2>1 DEF ScanInv, Single
  <1>12. ASSUME NEW w \in Workers, TakeFollowUp(w) PROVE Single'
    <2>1. UNCHANGED <<dir>>
      BY TakeFollowUpDoes, <1>12 DEF ScanInv
    <2> QED BY <2>1 DEF ScanInv, Single
  <1>13. ASSUME NEW w \in Workers, NEW n \in Names, TakeScan(w, n) PROVE Single'
    <2>1. UNCHANGED <<dir>>
      BY TakeScanDoes, <1>13 DEF ScanInv
    <2> QED BY <2>1 DEF ScanInv, Single
  <1>14. ASSUME NEW w \in Workers, Look(w) PROVE Single'
    <2>1. UNCHANGED <<dir>>
      BY LookDoes, <1>14 DEF ScanInv
    <2> QED BY <2>1 DEF ScanInv, Single
  <1>15. ASSUME NEW w \in Workers, Scan(w) PROVE Single'
    <2>1. UNCHANGED <<dir>>
      BY ScanDoes, <1>15 DEF ScanInv
    <2> QED BY <2>1 DEF ScanInv, Single
  <1>16. ASSUME NEW w \in Workers, SettleInfected(w) PROVE Single'
    <2>1. UNCHANGED <<dir>>
      BY SettleInfectedDoes, <1>16 DEF ScanInv
    <2> QED BY <2>1 DEF ScanInv, Single
  <1>17. ASSUME NEW w \in Workers, SettleClean(w) PROVE Single'
    <2>1. UNCHANGED <<dir>>
      BY SettleCleanDoes, <1>17 DEF ScanInv
    <2> QED BY <2>1 DEF ScanInv, Single
  <1>18. ASSUME NEW w \in Workers, SettleFailed(w) PROVE Single'
    <2>1. UNCHANGED <<dir>>
      BY SettleFailedDoes, <1>18 DEF ScanInv
    <2> QED BY <2>1 DEF ScanInv, Single
  <1>19. ASSUME NEW w \in Workers, Act(w) PROVE Single'
    <2>1. UNCHANGED <<dir>>
      BY ActDoes, <1>19 DEF ScanInv
    <2> QED BY <2>1 DEF ScanInv, Single
  <1>20. ASSUME NEW w \in Workers, Move(w) PROVE Single'
    <2>1. \A n \in Names : dir'[n] = dir[n] \/ dir'[n] = NoFile
      BY <1>20, MoveDoes DEF ScanInv
    <2> QED BY <2>1 DEF ScanInv, Single
  <1>21. ASSUME SaveCache PROVE Single'
    <2>1. UNCHANGED <<dir>>
      BY SaveCacheDoes, <1>21 DEF ScanInv
    <2> QED BY <2>1 DEF ScanInv, Single
  <1>22. ASSUME Stop PROVE Single'
    <2>1. UNCHANGED <<dir>>
      BY StopDoes, <1>22 DEF ScanInv
    <2> QED BY <2>1 DEF ScanInv, Single
  <1>23. ASSUME Down PROVE Single'
    <2>1. UNCHANGED <<dir>>
      BY DownDoes, <1>23 DEF ScanInv
    <2> QED BY <2>1 DEF ScanInv, Single
  <1>24. ASSUME Start PROVE Single'
    <2>1. UNCHANGED <<dir>>
      BY StartDoes, <1>24 DEF ScanInv
    <2> QED BY <2>1 DEF ScanInv, Single
  <1>25. ASSUME Crash PROVE Single'
    <2>1. UNCHANGED <<dir>>
      BY CrashDoes, <1>25 DEF ScanInv
    <2> QED BY <2>1 DEF ScanInv, Single
  <1>26. CASE UNCHANGED vars
    BY <1>26 DEF vars, ScanInv, Single
  <1> QED BY <1>1, <1>2, <1>3, <1>4, <1>5, <1>6, <1>7, <1>8, <1>9, <1>10, <1>11,
             <1>12, <1>13, <1>14, <1>15, <1>16, <1>17, <1>18, <1>19, <1>20, <1>21,
             <1>22, <1>23, <1>24, <1>25, <1>26 DEF Next, Others, IntakeStep,
             WorkerStep

(* Stamps, rewrites and renames are counted up.                            *)
Grows ==
    /\ used.stamps <= used'.stamps
    /\ used.coarse <= used'.coarse
    /\ used.renames <= used'.renames

(* Every step only adds to them.                                           *)
LEMMA UsedGrows ==
    ASSUME ScanInv, [Next]_vars
    PROVE  Grows
  <1> used \in UsedT
    BY DEF ScanInv, Shapes, UsedOK
  <1>1. ASSUME NEW n \in Names, NEW f \in Files, NEW bad \in BOOLEAN, CloseWrite(n, f, bad)
        PROVE  Grows
    <2>1. (Anew(f, bad) \/ Anyhow(n, f, bad)) /\ used'.renames = used.renames
      BY <1>1, CloseWriteDoes DEF ScanInv
    <2> QED BY <2>1 DEF Anew, Anyhow, Grows, UsedT
  <1>2. ASSUME NEW n \in Names, NEW kind \in {"open", "exec"}, Use(n, kind)
        PROVE  Grows
    <2>1. /\ used'.stamps = used.stamps /\ used'.coarse = used.coarse
          /\ used'.renames = used.renames
      BY <1>2, UseDoes DEF ScanInv
    <2> QED BY <2>1 DEF Grows, UsedT
  <1>3. ASSUME NEW n \in Names, NEW m \in Names, Rename(n, m) PROVE Grows
    <2>1. used'.renames = used.renames + 1 /\ used'.stamps = used.stamps
      BY <1>3, RenameDoes DEF ScanInv
    <2>2. used'.coarse = used.coarse
      BY <1>3 DEF Rename, ScanInv, Shapes, UsedOK, UsedT
    <2> QED BY <2>1, <2>2 DEF Grows, UsedT
  <1>4. ASSUME Vanished PROVE Grows
    <2>1. UNCHANGED used
      BY <1>4, VanishedDoes DEF ScanInv
    <2> QED BY <2>1 DEF Grows, UsedT
  <1>5. ASSUME NEW f \in Files, NEW n \in Names, Written(f, n) PROVE Grows
    <2>1. UNCHANGED used
      BY <1>5, WrittenDoes DEF ScanInv
    <2> QED BY <2>1 DEF Grows, UsedT
  <1>6. ASSUME NEW f \in Files, NEW n \in Names, Opened(f, n) PROVE Grows
    <2>1. UNCHANGED used
      BY <1>6, OpenedDoes DEF ScanInv
    <2> QED BY <2>1 DEF Grows, UsedT
  <1>7. ASSUME NEW f \in Files, NEW n \in Names, ExecKnown(f, n) PROVE Grows
    <2>1. UNCHANGED used
      BY <1>7, ExecKnownDoes DEF ScanInv
    <2> QED BY <2>1 DEF Grows, UsedT
  <1>8. ASSUME NEW f \in Files, NEW n \in Names, ExecOverBudget(f, n) PROVE Grows
    <2>1. UNCHANGED used
      BY <1>8, ExecOverBudgetDoes DEF ScanInv
    <2> QED BY <2>1 DEF Grows, UsedT
  <1>9. ASSUME NEW f \in Files, NEW n \in Names, ExecAsk(f, n) PROVE Grows
    <2>1. UNCHANGED used
      BY <1>9, ExecAskDoes DEF ScanInv
    <2> QED BY <2>1 DEF Grows, UsedT
  <1>10. ASSUME GateScan PROVE Grows
    <2>1. /\ used'.stamps = used.stamps /\ used'.coarse = used.coarse
          /\ used'.renames = used.renames
      BY <1>10, GateScanDoes DEF ScanInv
    <2> QED BY <2>1 DEF Grows, UsedT
  <1>11. ASSUME GateAnswer PROVE Grows
    <2>1. UNCHANGED used
      BY <1>11, GateAnswerDoes DEF ScanInv
    <2> QED BY <2>1 DEF Grows, UsedT
  <1>12. ASSUME NEW w \in Workers, TakeFollowUp(w) PROVE Grows
    <2>1. UNCHANGED used
      BY <1>12, TakeFollowUpDoes DEF ScanInv
    <2> QED BY <2>1 DEF Grows, UsedT
  <1>13. ASSUME NEW w \in Workers, NEW n \in Names, TakeScan(w, n) PROVE Grows
    <2>1. UNCHANGED used
      BY <1>13, TakeScanDoes DEF ScanInv
    <2> QED BY <2>1 DEF Grows, UsedT
  <1>14. ASSUME NEW w \in Workers, Look(w) PROVE Grows
    <2>1. UNCHANGED used
      BY <1>14, LookDoes DEF ScanInv
    <2> QED BY <2>1 DEF Grows, UsedT
  <1>15. ASSUME NEW w \in Workers, Scan(w) PROVE Grows
    <2>1. /\ used'.stamps = used.stamps /\ used'.coarse = used.coarse
          /\ used'.renames = used.renames
      BY <1>15, ScanDoes DEF ScanInv
    <2> QED BY <2>1 DEF Grows, UsedT
  <1>16. ASSUME NEW w \in Workers, SettleInfected(w) PROVE Grows
    <2>1. UNCHANGED used
      BY <1>16, SettleInfectedDoes DEF ScanInv
    <2> QED BY <2>1 DEF Grows, UsedT
  <1>17. ASSUME NEW w \in Workers, SettleClean(w) PROVE Grows
    <2>1. UNCHANGED used
      BY <1>17, SettleCleanDoes DEF ScanInv
    <2> QED BY <2>1 DEF Grows, UsedT
  <1>18. ASSUME NEW w \in Workers, SettleFailed(w) PROVE Grows
    <2>1. UNCHANGED used
      BY <1>18, SettleFailedDoes DEF ScanInv
    <2> QED BY <2>1 DEF Grows, UsedT
  <1>19. ASSUME NEW w \in Workers, Act(w) PROVE Grows
    <2>1. UNCHANGED used
      BY <1>19, ActDoes DEF ScanInv
    <2> QED BY <2>1 DEF Grows, UsedT
  <1>20. ASSUME NEW w \in Workers, Move(w) PROVE Grows
    <2>1. UNCHANGED used
      BY <1>20, MoveDoes DEF ScanInv
    <2> QED BY <2>1 DEF Grows, UsedT
  <1>21. ASSUME SaveCache PROVE Grows
    <2>1. UNCHANGED used
      BY <1>21, SaveCacheDoes DEF ScanInv
    <2> QED BY <2>1 DEF Grows, UsedT
  <1>22. ASSUME Stop PROVE Grows
    <2>1. UNCHANGED used
      BY <1>22, StopDoes DEF ScanInv
    <2> QED BY <2>1 DEF Grows, UsedT
  <1>23. ASSUME Down PROVE Grows
    <2>1. UNCHANGED used
      BY <1>23, DownDoes DEF ScanInv
    <2> QED BY <2>1 DEF Grows, UsedT
  <1>24. ASSUME Start PROVE Grows
    <2>1. /\ used'.stamps = used.stamps /\ used'.coarse = used.coarse
          /\ used'.renames = used.renames
      BY <1>24, StartDoes DEF ScanInv
    <2> QED BY <2>1 DEF Grows, UsedT
  <1>25. ASSUME Crash PROVE Grows
    <2>1. UNCHANGED used
      BY <1>25, CrashDoes DEF ScanInv
    <2> QED BY <2>1 DEF Grows, UsedT
  <1>26. CASE UNCHANGED vars
    BY <1>26 DEF vars, Grows, UsedT
  <1> QED BY <1>1, <1>2, <1>3, <1>4, <1>5, <1>6, <1>7, <1>8, <1>9, <1>10, <1>11,
             <1>12, <1>13, <1>14, <1>15, <1>16, <1>17, <1>18, <1>19, <1>20, <1>21,
             <1>22, <1>23, <1>24, <1>25, <1>26 DEF Next, Others, IntakeStep,
             WorkerStep

(* What was old enough is old enough later.                                *)
LEMMA OldStaysOld ==
    ASSUME ScanInv, Shapes', [Next]_vars, NEW s \in Nat, s <= used.stamps
    PROVE  s <= used'.stamps
  <1>1. used.stamps \in Nat /\ used'.stamps \in Nat
    BY DEF ScanInv, Shapes, UsedOK, UsedT
  <1> QED BY <1>1, UsedGrows DEF Grows

(* A stamp is a number.                                                    *)
LEMMA StampIs ==
    ASSUME NEW k \in Keys
    PROVE  k[1] \in Files /\ k[2] \in Nat
  BY DEF Keys

(* Files have old stamps.                                                  *)
LEMMA FileStampsStays ==
    ASSUME ScanInv, Shapes', [Next]_vars
    PROVE  FileStamps'
  <1>1. ASSUME NEW n \in Names, NEW f \in Files, NEW bad \in BOOLEAN, CloseWrite(n, f, bad)
        PROVE  FileStamps'
    <2>1. \A g \in Files : file[g].stamp \in Nat /\ file[g].stamp <= used.stamps
      BY DEF ScanInv, Stamped, FileStamps, Shapes, FsOK, FileT
    <2>2. ASSUME NEW g \in Files PROVE file'[g].stamp <= used'.stamps
      <3>1. CASE g # f
        <4>1. file'[g] = file[g]
          BY <3>1, <1>1, CloseWriteDoes DEF ScanInv
        <4> QED BY <4>1, <2>1, OldStaysOld
      <3>2. CASE g = f
        <4>1. Anew(f, bad) \/ Anyhow(n, f, bad)
          BY <1>1, CloseWriteDoes DEF ScanInv
        <4>2. used.stamps \in Nat
          BY DEF ScanInv, Shapes, UsedOK, UsedT
        <4> QED BY <3>2, <4>1, <4>2, <2>1 DEF Anew, Anyhow
      <3> QED BY <3>1, <3>2
    <2> QED BY <2>2 DEF FileStamps
  <1>2. ASSUME NEW n \in Names, NEW kind \in {"open", "exec"}, Use(n, kind)
        PROVE  FileStamps'
    <2>1. UNCHANGED <<file>>
      BY UseDoes, <1>2 DEF ScanInv
    <2>2. \A f \in Files : file[f].stamp \in Nat /\ file[f].stamp <= used.stamps
      BY DEF ScanInv, Stamped, FileStamps, Shapes, FsOK, FileT
    <2> QED BY <2>1, <2>2, OldStaysOld DEF FileStamps
  <1>3. ASSUME NEW n \in Names, NEW m \in Names, Rename(n, m) PROVE FileStamps'
    <2>1. UNCHANGED <<file>>
      BY RenameDoes, <1>3 DEF ScanInv
    <2>2. \A f \in Files : file[f].stamp \in Nat /\ file[f].stamp <= used.stamps
      BY DEF ScanInv, Stamped, FileStamps, Shapes, FsOK, FileT
    <2> QED BY <2>1, <2>2, OldStaysOld DEF FileStamps
  <1>4. ASSUME Vanished PROVE FileStamps'
    <2>1. UNCHANGED <<file>>
      BY VanishedDoes, <1>4 DEF ScanInv
    <2>2. \A f \in Files : file[f].stamp \in Nat /\ file[f].stamp <= used.stamps
      BY DEF ScanInv, Stamped, FileStamps, Shapes, FsOK, FileT
    <2> QED BY <2>1, <2>2, OldStaysOld DEF FileStamps
  <1>5. ASSUME NEW f \in Files, NEW n \in Names, Written(f, n) PROVE FileStamps'
    <2>1. UNCHANGED <<file>>
      BY WrittenDoes, <1>5 DEF ScanInv
    <2>2. \A g \in Files : file[g].stamp \in Nat /\ file[g].stamp <= used.stamps
      BY DEF ScanInv, Stamped, FileStamps, Shapes, FsOK, FileT
    <2> QED BY <2>1, <2>2, OldStaysOld DEF FileStamps
  <1>6. ASSUME NEW f \in Files, NEW n \in Names, Opened(f, n) PROVE FileStamps'
    <2>1. UNCHANGED <<file>>
      BY OpenedDoes, <1>6 DEF ScanInv
    <2>2. \A g \in Files : file[g].stamp \in Nat /\ file[g].stamp <= used.stamps
      BY DEF ScanInv, Stamped, FileStamps, Shapes, FsOK, FileT
    <2> QED BY <2>1, <2>2, OldStaysOld DEF FileStamps
  <1>7. ASSUME NEW f \in Files, NEW n \in Names, ExecKnown(f, n) PROVE FileStamps'
    <2>1. UNCHANGED <<file>>
      BY ExecKnownDoes, <1>7 DEF ScanInv
    <2>2. \A g \in Files : file[g].stamp \in Nat /\ file[g].stamp <= used.stamps
      BY DEF ScanInv, Stamped, FileStamps, Shapes, FsOK, FileT
    <2> QED BY <2>1, <2>2, OldStaysOld DEF FileStamps
  <1>8. ASSUME NEW f \in Files, NEW n \in Names, ExecOverBudget(f, n)
        PROVE  FileStamps'
    <2>1. UNCHANGED <<file>>
      BY ExecOverBudgetDoes, <1>8 DEF ScanInv
    <2>2. \A g \in Files : file[g].stamp \in Nat /\ file[g].stamp <= used.stamps
      BY DEF ScanInv, Stamped, FileStamps, Shapes, FsOK, FileT
    <2> QED BY <2>1, <2>2, OldStaysOld DEF FileStamps
  <1>9. ASSUME NEW f \in Files, NEW n \in Names, ExecAsk(f, n) PROVE FileStamps'
    <2>1. UNCHANGED <<file>>
      BY ExecAskDoes, <1>9 DEF ScanInv
    <2>2. \A g \in Files : file[g].stamp \in Nat /\ file[g].stamp <= used.stamps
      BY DEF ScanInv, Stamped, FileStamps, Shapes, FsOK, FileT
    <2> QED BY <2>1, <2>2, OldStaysOld DEF FileStamps
  <1>10. ASSUME GateScan PROVE FileStamps'
    <2>1. UNCHANGED <<file>>
      BY GateScanDoes, <1>10 DEF ScanInv
    <2>2. \A f \in Files : file[f].stamp \in Nat /\ file[f].stamp <= used.stamps
      BY DEF ScanInv, Stamped, FileStamps, Shapes, FsOK, FileT
    <2> QED BY <2>1, <2>2, OldStaysOld DEF FileStamps
  <1>11. ASSUME GateAnswer PROVE FileStamps'
    <2>1. UNCHANGED <<file>>
      BY GateAnswerDoes, <1>11 DEF ScanInv
    <2>2. \A f \in Files : file[f].stamp \in Nat /\ file[f].stamp <= used.stamps
      BY DEF ScanInv, Stamped, FileStamps, Shapes, FsOK, FileT
    <2> QED BY <2>1, <2>2, OldStaysOld DEF FileStamps
  <1>12. ASSUME NEW w \in Workers, TakeFollowUp(w) PROVE FileStamps'
    <2>1. UNCHANGED <<file>>
      BY TakeFollowUpDoes, <1>12 DEF ScanInv
    <2>2. \A f \in Files : file[f].stamp \in Nat /\ file[f].stamp <= used.stamps
      BY DEF ScanInv, Stamped, FileStamps, Shapes, FsOK, FileT
    <2> QED BY <2>1, <2>2, OldStaysOld DEF FileStamps
  <1>13. ASSUME NEW w \in Workers, NEW n \in Names, TakeScan(w, n) PROVE FileStamps'
    <2>1. UNCHANGED <<file>>
      BY TakeScanDoes, <1>13 DEF ScanInv
    <2>2. \A f \in Files : file[f].stamp \in Nat /\ file[f].stamp <= used.stamps
      BY DEF ScanInv, Stamped, FileStamps, Shapes, FsOK, FileT
    <2> QED BY <2>1, <2>2, OldStaysOld DEF FileStamps
  <1>14. ASSUME NEW w \in Workers, Look(w) PROVE FileStamps'
    <2>1. UNCHANGED <<file>>
      BY LookDoes, <1>14 DEF ScanInv
    <2>2. \A f \in Files : file[f].stamp \in Nat /\ file[f].stamp <= used.stamps
      BY DEF ScanInv, Stamped, FileStamps, Shapes, FsOK, FileT
    <2> QED BY <2>1, <2>2, OldStaysOld DEF FileStamps
  <1>15. ASSUME NEW w \in Workers, Scan(w) PROVE FileStamps'
    <2>1. UNCHANGED <<file>>
      BY ScanDoes, <1>15 DEF ScanInv
    <2>2. \A f \in Files : file[f].stamp \in Nat /\ file[f].stamp <= used.stamps
      BY DEF ScanInv, Stamped, FileStamps, Shapes, FsOK, FileT
    <2> QED BY <2>1, <2>2, OldStaysOld DEF FileStamps
  <1>16. ASSUME NEW w \in Workers, SettleInfected(w) PROVE FileStamps'
    <2>1. UNCHANGED <<file>>
      BY SettleInfectedDoes, <1>16 DEF ScanInv
    <2>2. \A f \in Files : file[f].stamp \in Nat /\ file[f].stamp <= used.stamps
      BY DEF ScanInv, Stamped, FileStamps, Shapes, FsOK, FileT
    <2> QED BY <2>1, <2>2, OldStaysOld DEF FileStamps
  <1>17. ASSUME NEW w \in Workers, SettleClean(w) PROVE FileStamps'
    <2>1. UNCHANGED <<file>>
      BY SettleCleanDoes, <1>17 DEF ScanInv
    <2>2. \A f \in Files : file[f].stamp \in Nat /\ file[f].stamp <= used.stamps
      BY DEF ScanInv, Stamped, FileStamps, Shapes, FsOK, FileT
    <2> QED BY <2>1, <2>2, OldStaysOld DEF FileStamps
  <1>18. ASSUME NEW w \in Workers, SettleFailed(w) PROVE FileStamps'
    <2>1. UNCHANGED <<file>>
      BY SettleFailedDoes, <1>18 DEF ScanInv
    <2>2. \A f \in Files : file[f].stamp \in Nat /\ file[f].stamp <= used.stamps
      BY DEF ScanInv, Stamped, FileStamps, Shapes, FsOK, FileT
    <2> QED BY <2>1, <2>2, OldStaysOld DEF FileStamps
  <1>19. ASSUME NEW w \in Workers, Act(w) PROVE FileStamps'
    <2>1. UNCHANGED <<file>>
      BY ActDoes, <1>19 DEF ScanInv
    <2>2. \A f \in Files : file[f].stamp \in Nat /\ file[f].stamp <= used.stamps
      BY DEF ScanInv, Stamped, FileStamps, Shapes, FsOK, FileT
    <2> QED BY <2>1, <2>2, OldStaysOld DEF FileStamps
  <1>20. ASSUME NEW w \in Workers, Move(w) PROVE FileStamps'
    <2>1. UNCHANGED <<file>>
      BY MoveDoes, <1>20 DEF ScanInv
    <2>2. \A f \in Files : file[f].stamp \in Nat /\ file[f].stamp <= used.stamps
      BY DEF ScanInv, Stamped, FileStamps, Shapes, FsOK, FileT
    <2> QED BY <2>1, <2>2, OldStaysOld DEF FileStamps
  <1>21. ASSUME SaveCache PROVE FileStamps'
    <2>1. UNCHANGED <<file>>
      BY SaveCacheDoes, <1>21 DEF ScanInv
    <2>2. \A f \in Files : file[f].stamp \in Nat /\ file[f].stamp <= used.stamps
      BY DEF ScanInv, Stamped, FileStamps, Shapes, FsOK, FileT
    <2> QED BY <2>1, <2>2, OldStaysOld DEF FileStamps
  <1>22. ASSUME Stop PROVE FileStamps'
    <2>1. UNCHANGED <<file>>
      BY StopDoes, <1>22 DEF ScanInv
    <2>2. \A f \in Files : file[f].stamp \in Nat /\ file[f].stamp <= used.stamps
      BY DEF ScanInv, Stamped, FileStamps, Shapes, FsOK, FileT
    <2> QED BY <2>1, <2>2, OldStaysOld DEF FileStamps
  <1>23. ASSUME Down PROVE FileStamps'
    <2>1. UNCHANGED <<file>>
      BY DownDoes, <1>23 DEF ScanInv
    <2>2. \A f \in Files : file[f].stamp \in Nat /\ file[f].stamp <= used.stamps
      BY DEF ScanInv, Stamped, FileStamps, Shapes, FsOK, FileT
    <2> QED BY <2>1, <2>2, OldStaysOld DEF FileStamps
  <1>24. ASSUME Start PROVE FileStamps'
    <2>1. UNCHANGED <<file>>
      BY StartDoes, <1>24 DEF ScanInv
    <2>2. \A f \in Files : file[f].stamp \in Nat /\ file[f].stamp <= used.stamps
      BY DEF ScanInv, Stamped, FileStamps, Shapes, FsOK, FileT
    <2> QED BY <2>1, <2>2, OldStaysOld DEF FileStamps
  <1>25. ASSUME Crash PROVE FileStamps'
    <2>1. UNCHANGED <<file>>
      BY CrashDoes, <1>25 DEF ScanInv
    <2>2. \A f \in Files : file[f].stamp \in Nat /\ file[f].stamp <= used.stamps
      BY DEF ScanInv, Stamped, FileStamps, Shapes, FsOK, FileT
    <2> QED BY <2>1, <2>2, OldStaysOld DEF FileStamps
  <1>26. CASE UNCHANGED vars
    <2>1. UNCHANGED <<file>>
      BY <1>26 DEF vars
    <2>2. \A f \in Files : file[f].stamp \in Nat /\ file[f].stamp <= used.stamps
      BY DEF ScanInv, Stamped, FileStamps, Shapes, FsOK, FileT
    <2> QED BY <2>1, <2>2, OldStaysOld DEF FileStamps
  <1> QED BY <1>1, <1>2, <1>3, <1>4, <1>5, <1>6, <1>7, <1>8, <1>9, <1>10, <1>11,
             <1>12, <1>13, <1>14, <1>15, <1>16, <1>17, <1>18, <1>19, <1>20, <1>21,
             <1>22, <1>23, <1>24, <1>25, <1>26 DEF Next, Others, IntakeStep,
             WorkerStep

(* The cache after a verdict was put into it.                              *)
LEMMA PutStamps ==
    ASSUME ScanInv, Shapes', [Next]_vars, NEW k \in Keys, k[2] <= used.stamps,
           NEW v \in Sure, cache' \in Put(k, v)
    PROVE  CacheStamps'
  <1>1. \A j \in Keys : j # k => cache'[j] \in {cache[j], "none"}
    BY PutDoes DEF ScanInv
  <1>2. \A j \in Keys : cache'[j] # "none" => j[2] <= used.stamps
    BY <1>1 DEF ScanInv, Stamped, CacheStamps
  <1> QED BY <1>2, StampIs, OldStaysOld DEF CacheStamps

(* The keys that threads hold are old.                                     *)
LEMMA HeldAreOld ==
    ASSUME ScanInv
    PROVE  /\ Asks => intake.key \in Keys /\ intake.key[2] <= used.stamps
           /\ \A w \in Workers :
                 Holds(w) => worker[w].key \in Keys /\ worker[w].key[2] <= used.stamps
           /\ \A f \in Files : Key(f) \in Keys /\ Key(f)[2] <= used.stamps
  <1>1. Asks => intake.key \in Keys /\ intake.key[2] <= used.stamps
    BY IntakeIs DEF ScanInv, Stamped, GateStamps
  <1>2. \A w \in Workers :
           Holds(w) => worker[w].key \in Keys /\ worker[w].key[2] <= used.stamps
    BY WorkerIs DEF ScanInv, Stamped, WorkerStamps
  <1>3. \A f \in Files : Key(f) \in Keys /\ Key(f)[2] <= used.stamps
    BY KeyIs DEF ScanInv, Stamped, FileStamps
  <1> QED BY <1>1, <1>2, <1>3

(* The cache has old keys.                                                 *)
LEMMA CacheStampsStays ==
    ASSUME ScanInv, Shapes', [Next]_vars
    PROVE  CacheStamps'
  <1>1. ASSUME NEW n \in Names, NEW f \in Files, NEW bad \in BOOLEAN, CloseWrite(n, f, bad)
        PROVE  CacheStamps'
    <2>1. UNCHANGED <<cache>>
      BY CloseWriteDoes, <1>1 DEF ScanInv
    <2> QED BY <2>1, StampIs, OldStaysOld DEF ScanInv, Stamped, CacheStamps
  <1>2. ASSUME NEW n \in Names, NEW kind \in {"open", "exec"}, Use(n, kind)
        PROVE  CacheStamps'
    <2>1. UNCHANGED <<cache>>
      BY UseDoes, <1>2 DEF ScanInv
    <2> QED BY <2>1, StampIs, OldStaysOld DEF ScanInv, Stamped, CacheStamps
  <1>3. ASSUME NEW n \in Names, NEW m \in Names, Rename(n, m) PROVE CacheStamps'
    <2>1. UNCHANGED <<cache>>
      BY RenameDoes, <1>3 DEF ScanInv
    <2> QED BY <2>1, StampIs, OldStaysOld DEF ScanInv, Stamped, CacheStamps
  <1>4. ASSUME Vanished PROVE CacheStamps'
    <2>1. UNCHANGED <<cache>>
      BY VanishedDoes, <1>4 DEF ScanInv
    <2> QED BY <2>1, StampIs, OldStaysOld DEF ScanInv, Stamped, CacheStamps
  <1>5. ASSUME NEW f \in Files, NEW n \in Names, Written(f, n) PROVE CacheStamps'
    <2>1. UNCHANGED <<cache>>
      BY WrittenDoes, <1>5 DEF ScanInv
    <2> QED BY <2>1, StampIs, OldStaysOld DEF ScanInv, Stamped, CacheStamps
  <1>6. ASSUME NEW f \in Files, NEW n \in Names, Opened(f, n) PROVE CacheStamps'
    <2>1. UNCHANGED <<cache>>
      BY OpenedDoes, <1>6 DEF ScanInv
    <2> QED BY <2>1, StampIs, OldStaysOld DEF ScanInv, Stamped, CacheStamps
  <1>7. ASSUME NEW f \in Files, NEW n \in Names, ExecKnown(f, n) PROVE CacheStamps'
    <2>1. UNCHANGED <<cache>>
      BY ExecKnownDoes, <1>7 DEF ScanInv
    <2> QED BY <2>1, StampIs, OldStaysOld DEF ScanInv, Stamped, CacheStamps
  <1>8. ASSUME NEW f \in Files, NEW n \in Names, ExecOverBudget(f, n)
        PROVE  CacheStamps'
    <2>1. UNCHANGED <<cache>>
      BY ExecOverBudgetDoes, <1>8 DEF ScanInv
    <2> QED BY <2>1, StampIs, OldStaysOld DEF ScanInv, Stamped, CacheStamps
  <1>9. ASSUME NEW f \in Files, NEW n \in Names, ExecAsk(f, n) PROVE CacheStamps'
    <2>1. UNCHANGED <<cache>>
      BY ExecAskDoes, <1>9 DEF ScanInv
    <2> QED BY <2>1, StampIs, OldStaysOld DEF ScanInv, Stamped, CacheStamps
  <1>10. ASSUME GateScan PROVE CacheStamps'
    <2>1. UNCHANGED <<cache>>
      BY GateScanDoes, <1>10 DEF ScanInv
    <2> QED BY <2>1, StampIs, OldStaysOld DEF ScanInv, Stamped, CacheStamps
  <1>11. ASSUME GateAnswer PROVE CacheStamps'
    <2>1. /\ Asks
          /\ \/ intake.outcome \in Sure /\ cache' \in Put(intake.key, intake.outcome)
             \/ UNCHANGED cache
      BY <1>11, GateAnswerDoes DEF ScanInv, Asks
    <2>2. CASE intake.outcome \in Sure /\ cache' \in Put(intake.key, intake.outcome)
      BY <2>1, <2>2, HeldAreOld, PutStamps
    <2>3. CASE UNCHANGED cache
      BY <2>3, StampIs, OldStaysOld DEF ScanInv, Stamped, CacheStamps
    <2> QED BY <2>1, <2>2, <2>3
  <1>12. ASSUME NEW w \in Workers, TakeFollowUp(w) PROVE CacheStamps'
    <2>1. UNCHANGED <<cache>>
      BY TakeFollowUpDoes, <1>12 DEF ScanInv
    <2> QED BY <2>1, StampIs, OldStaysOld DEF ScanInv, Stamped, CacheStamps
  <1>13. ASSUME NEW w \in Workers, NEW n \in Names, TakeScan(w, n)
         PROVE  CacheStamps'
    <2>1. UNCHANGED <<cache>>
      BY TakeScanDoes, <1>13 DEF ScanInv
    <2> QED BY <2>1, StampIs, OldStaysOld DEF ScanInv, Stamped, CacheStamps
  <1>14. ASSUME NEW w \in Workers, Look(w) PROVE CacheStamps'
    <2>1. UNCHANGED <<cache>>
      BY LookDoes, <1>14 DEF ScanInv
    <2> QED BY <2>1, StampIs, OldStaysOld DEF ScanInv, Stamped, CacheStamps
  <1>15. ASSUME NEW w \in Workers, Scan(w) PROVE CacheStamps'
    <2>1. UNCHANGED <<cache>>
      BY ScanDoes, <1>15 DEF ScanInv
    <2> QED BY <2>1, StampIs, OldStaysOld DEF ScanInv, Stamped, CacheStamps
  <1>16. ASSUME NEW w \in Workers, SettleInfected(w) PROVE CacheStamps'
    <2>1. Holds(w) /\ (cache' = [cache EXCEPT ![worker[w].key] = "infected"] \/ UNCHANGED cache)
      BY <1>16, SettleInfectedDoes DEF ScanInv, Holds
    <2>2. \A k \in Keys : cache'[k] # "none" => k[2] <= used.stamps
      BY <2>1, HeldAreOld DEF ScanInv, Stamped, CacheStamps, Shapes, CacheOK
    <2> QED BY <2>2, StampIs, OldStaysOld DEF CacheStamps
  <1>17. ASSUME NEW w \in Workers, SettleClean(w) PROVE CacheStamps'
    <2>1. Holds(w) /\ cache' \in Put(worker[w].key, "clean")
      BY <1>17, SettleCleanDoes DEF ScanInv, Holds
    <2> QED BY <2>1, HeldAreOld, PutStamps DEF Sure
  <1>18. ASSUME NEW w \in Workers, SettleFailed(w) PROVE CacheStamps'
    <2>1. UNCHANGED <<cache>>
      BY SettleFailedDoes, <1>18 DEF ScanInv
    <2> QED BY <2>1, StampIs, OldStaysOld DEF ScanInv, Stamped, CacheStamps
  <1>19. ASSUME NEW w \in Workers, Act(w) PROVE CacheStamps'
    <2>1. UNCHANGED <<cache>>
      BY ActDoes, <1>19 DEF ScanInv
    <2> QED BY <2>1, StampIs, OldStaysOld DEF ScanInv, Stamped, CacheStamps
  <1>20. ASSUME NEW w \in Workers, Move(w) PROVE CacheStamps'
    <2>1. UNCHANGED <<cache>>
      BY MoveDoes, <1>20 DEF ScanInv
    <2> QED BY <2>1, StampIs, OldStaysOld DEF ScanInv, Stamped, CacheStamps
  <1>21. ASSUME SaveCache PROVE CacheStamps'
    <2>1. UNCHANGED <<cache>>
      BY SaveCacheDoes, <1>21 DEF ScanInv
    <2> QED BY <2>1, StampIs, OldStaysOld DEF ScanInv, Stamped, CacheStamps
  <1>22. ASSUME Stop PROVE CacheStamps'
    <2>1. UNCHANGED <<cache>>
      BY StopDoes, <1>22 DEF ScanInv
    <2> QED BY <2>1, StampIs, OldStaysOld DEF ScanInv, Stamped, CacheStamps
  <1>23. ASSUME Down PROVE CacheStamps'
    <2>1. UNCHANGED <<cache>>
      BY DownDoes, <1>23 DEF ScanInv
    <2> QED BY <2>1, StampIs, OldStaysOld DEF ScanInv, Stamped, CacheStamps
  <1>24. ASSUME Start PROVE CacheStamps'
    <2>1. cache' = saved
      BY <1>24, StartDoes DEF ScanInv
    <2>2. \A k \in Keys : saved[k] # "none" => k[2] <= used.stamps
      BY DEF ScanInv, Stamped, SavedStamps
    <2> QED BY <2>1, <2>2, StampIs, OldStaysOld DEF CacheStamps
  <1>25. ASSUME Crash PROVE CacheStamps'
    <2>1. cache' = saved
      BY <1>25, CrashDoes DEF ScanInv
    <2>2. \A k \in Keys : saved[k] # "none" => k[2] <= used.stamps
      BY DEF ScanInv, Stamped, SavedStamps
    <2> QED BY <2>1, <2>2, StampIs, OldStaysOld DEF CacheStamps
  <1>26. CASE UNCHANGED vars
    <2>1. UNCHANGED <<cache>>
      BY <1>26 DEF vars
    <2> QED BY <2>1, StampIs, OldStaysOld DEF ScanInv, Stamped, CacheStamps
  <1> QED BY <1>1, <1>2, <1>3, <1>4, <1>5, <1>6, <1>7, <1>8, <1>9, <1>10, <1>11,
             <1>12, <1>13, <1>14, <1>15, <1>16, <1>17, <1>18, <1>19, <1>20, <1>21,
             <1>22, <1>23, <1>24, <1>25, <1>26 DEF Next, Others, IntakeStep,
             WorkerStep

(* So has its file.                                                        *)
LEMMA SavedStampsStays ==
    ASSUME ScanInv, Shapes', [Next]_vars
    PROVE  SavedStamps'
  <1>1. ASSUME NEW n \in Names, NEW f \in Files, NEW bad \in BOOLEAN, CloseWrite(n, f, bad)
        PROVE  SavedStamps'
    <2>1. UNCHANGED <<saved>>
      BY CloseWriteDoes, <1>1 DEF ScanInv
    <2> QED BY <2>1, StampIs, OldStaysOld DEF ScanInv, Stamped, SavedStamps
  <1>2. ASSUME NEW n \in Names, NEW kind \in {"open", "exec"}, Use(n, kind)
        PROVE  SavedStamps'
    <2>1. UNCHANGED <<saved>>
      BY UseDoes, <1>2 DEF ScanInv
    <2> QED BY <2>1, StampIs, OldStaysOld DEF ScanInv, Stamped, SavedStamps
  <1>3. ASSUME NEW n \in Names, NEW m \in Names, Rename(n, m) PROVE SavedStamps'
    <2>1. UNCHANGED <<saved>>
      BY RenameDoes, <1>3 DEF ScanInv
    <2> QED BY <2>1, StampIs, OldStaysOld DEF ScanInv, Stamped, SavedStamps
  <1>4. ASSUME Vanished PROVE SavedStamps'
    <2>1. UNCHANGED <<saved>>
      BY VanishedDoes, <1>4 DEF ScanInv
    <2> QED BY <2>1, StampIs, OldStaysOld DEF ScanInv, Stamped, SavedStamps
  <1>5. ASSUME NEW f \in Files, NEW n \in Names, Written(f, n) PROVE SavedStamps'
    <2>1. UNCHANGED <<saved>>
      BY WrittenDoes, <1>5 DEF ScanInv
    <2> QED BY <2>1, StampIs, OldStaysOld DEF ScanInv, Stamped, SavedStamps
  <1>6. ASSUME NEW f \in Files, NEW n \in Names, Opened(f, n) PROVE SavedStamps'
    <2>1. UNCHANGED <<saved>>
      BY OpenedDoes, <1>6 DEF ScanInv
    <2> QED BY <2>1, StampIs, OldStaysOld DEF ScanInv, Stamped, SavedStamps
  <1>7. ASSUME NEW f \in Files, NEW n \in Names, ExecKnown(f, n) PROVE SavedStamps'
    <2>1. UNCHANGED <<saved>>
      BY ExecKnownDoes, <1>7 DEF ScanInv
    <2> QED BY <2>1, StampIs, OldStaysOld DEF ScanInv, Stamped, SavedStamps
  <1>8. ASSUME NEW f \in Files, NEW n \in Names, ExecOverBudget(f, n)
        PROVE  SavedStamps'
    <2>1. UNCHANGED <<saved>>
      BY ExecOverBudgetDoes, <1>8 DEF ScanInv
    <2> QED BY <2>1, StampIs, OldStaysOld DEF ScanInv, Stamped, SavedStamps
  <1>9. ASSUME NEW f \in Files, NEW n \in Names, ExecAsk(f, n) PROVE SavedStamps'
    <2>1. UNCHANGED <<saved>>
      BY ExecAskDoes, <1>9 DEF ScanInv
    <2> QED BY <2>1, StampIs, OldStaysOld DEF ScanInv, Stamped, SavedStamps
  <1>10. ASSUME GateScan PROVE SavedStamps'
    <2>1. UNCHANGED <<saved>>
      BY GateScanDoes, <1>10 DEF ScanInv
    <2> QED BY <2>1, StampIs, OldStaysOld DEF ScanInv, Stamped, SavedStamps
  <1>11. ASSUME GateAnswer PROVE SavedStamps'
    <2>1. UNCHANGED <<saved>>
      BY GateAnswerDoes, <1>11 DEF ScanInv
    <2> QED BY <2>1, StampIs, OldStaysOld DEF ScanInv, Stamped, SavedStamps
  <1>12. ASSUME NEW w \in Workers, TakeFollowUp(w) PROVE SavedStamps'
    <2>1. UNCHANGED <<saved>>
      BY TakeFollowUpDoes, <1>12 DEF ScanInv
    <2> QED BY <2>1, StampIs, OldStaysOld DEF ScanInv, Stamped, SavedStamps
  <1>13. ASSUME NEW w \in Workers, NEW n \in Names, TakeScan(w, n)
         PROVE  SavedStamps'
    <2>1. UNCHANGED <<saved>>
      BY TakeScanDoes, <1>13 DEF ScanInv
    <2> QED BY <2>1, StampIs, OldStaysOld DEF ScanInv, Stamped, SavedStamps
  <1>14. ASSUME NEW w \in Workers, Look(w) PROVE SavedStamps'
    <2>1. UNCHANGED <<saved>>
      BY LookDoes, <1>14 DEF ScanInv
    <2> QED BY <2>1, StampIs, OldStaysOld DEF ScanInv, Stamped, SavedStamps
  <1>15. ASSUME NEW w \in Workers, Scan(w) PROVE SavedStamps'
    <2>1. UNCHANGED <<saved>>
      BY ScanDoes, <1>15 DEF ScanInv
    <2> QED BY <2>1, StampIs, OldStaysOld DEF ScanInv, Stamped, SavedStamps
  <1>16. ASSUME NEW w \in Workers, SettleInfected(w) PROVE SavedStamps'
    <2>1. UNCHANGED <<saved>>
      BY SettleInfectedDoes, <1>16 DEF ScanInv
    <2> QED BY <2>1, StampIs, OldStaysOld DEF ScanInv, Stamped, SavedStamps
  <1>17. ASSUME NEW w \in Workers, SettleClean(w) PROVE SavedStamps'
    <2>1. UNCHANGED <<saved>>
      BY SettleCleanDoes, <1>17 DEF ScanInv
    <2> QED BY <2>1, StampIs, OldStaysOld DEF ScanInv, Stamped, SavedStamps
  <1>18. ASSUME NEW w \in Workers, SettleFailed(w) PROVE SavedStamps'
    <2>1. UNCHANGED <<saved>>
      BY SettleFailedDoes, <1>18 DEF ScanInv
    <2> QED BY <2>1, StampIs, OldStaysOld DEF ScanInv, Stamped, SavedStamps
  <1>19. ASSUME NEW w \in Workers, Act(w) PROVE SavedStamps'
    <2>1. UNCHANGED <<saved>>
      BY ActDoes, <1>19 DEF ScanInv
    <2> QED BY <2>1, StampIs, OldStaysOld DEF ScanInv, Stamped, SavedStamps
  <1>20. ASSUME NEW w \in Workers, Move(w) PROVE SavedStamps'
    <2>1. UNCHANGED <<saved>>
      BY MoveDoes, <1>20 DEF ScanInv
    <2> QED BY <2>1, StampIs, OldStaysOld DEF ScanInv, Stamped, SavedStamps
  <1>21. ASSUME SaveCache PROVE SavedStamps'
    <2>1. saved' = cache
      BY <1>21, SaveCacheDoes DEF ScanInv
    <2>2. \A k \in Keys : cache[k] # "none" => k[2] <= used.stamps
      BY DEF ScanInv, Stamped, CacheStamps
    <2> QED BY <2>1, <2>2, StampIs, OldStaysOld DEF SavedStamps
  <1>22. ASSUME Stop PROVE SavedStamps'
    <2>1. UNCHANGED <<saved>>
      BY StopDoes, <1>22 DEF ScanInv
    <2> QED BY <2>1, StampIs, OldStaysOld DEF ScanInv, Stamped, SavedStamps
  <1>23. ASSUME Down PROVE SavedStamps'
    <2>1. saved' = cache
      BY <1>23, DownDoes DEF ScanInv
    <2>2. \A k \in Keys : cache[k] # "none" => k[2] <= used.stamps
      BY DEF ScanInv, Stamped, CacheStamps
    <2> QED BY <2>1, <2>2, StampIs, OldStaysOld DEF SavedStamps
  <1>24. ASSUME Start PROVE SavedStamps'
    <2>1. UNCHANGED <<saved>>
      BY StartDoes, <1>24 DEF ScanInv
    <2> QED BY <2>1, StampIs, OldStaysOld DEF ScanInv, Stamped, SavedStamps
  <1>25. ASSUME Crash PROVE SavedStamps'
    <2>1. UNCHANGED <<saved>>
      BY CrashDoes, <1>25 DEF ScanInv
    <2> QED BY <2>1, StampIs, OldStaysOld DEF ScanInv, Stamped, SavedStamps
  <1>26. CASE UNCHANGED vars
    <2>1. UNCHANGED <<saved>>
      BY <1>26 DEF vars
    <2> QED BY <2>1, StampIs, OldStaysOld DEF ScanInv, Stamped, SavedStamps
  <1> QED BY <1>1, <1>2, <1>3, <1>4, <1>5, <1>6, <1>7, <1>8, <1>9, <1>10, <1>11,
             <1>12, <1>13, <1>14, <1>15, <1>16, <1>17, <1>18, <1>19, <1>20, <1>21,
             <1>22, <1>23, <1>24, <1>25, <1>26 DEF Next, Others, IntakeStep,
             WorkerStep

(* The history after some pairs were forgotten, or a key was added.        *)
LEMMA SetStamps ==
    ASSUME ScanInv, Shapes', [Next]_vars, NEW S, S \subseteq Names \X Keys,
           \A t \in S : t[2][2] <= used.stamps
    PROVE  \A t \in S : t[2][2] <= used'.stamps
  BY StampIs, OldStaysOld

(* What was handed over is old.                                            *)
LEMMA ToldStampsStays ==
    ASSUME ScanInv, Shapes', [Next]_vars
    PROVE  ToldStamps'
  <1>1. ASSUME NEW n \in Names, NEW f \in Files, NEW bad \in BOOLEAN, CloseWrite(n, f, bad)
        PROVE  ToldStamps'
    <2>1. UNCHANGED <<told>>
      BY CloseWriteDoes, <1>1 DEF ScanInv
    <2>9. \A t \in told' : t[2][2] <= used.stamps
      BY <2>1 DEF ScanInv, Stamped, ToldStamps
    <2> QED BY <2>9, SetStamps DEF ToldStamps, Shapes, HistoryOK
  <1>2. ASSUME NEW n \in Names, NEW kind \in {"open", "exec"}, Use(n, kind)
        PROVE  ToldStamps'
    <2>1. UNCHANGED <<told>>
      BY UseDoes, <1>2 DEF ScanInv
    <2>9. \A t \in told' : t[2][2] <= used.stamps
      BY <2>1 DEF ScanInv, Stamped, ToldStamps
    <2> QED BY <2>9, SetStamps DEF ToldStamps, Shapes, HistoryOK
  <1>3. ASSUME NEW n \in Names, NEW m \in Names, Rename(n, m) PROVE ToldStamps'
    <2>1. told' \subseteq told
      BY <1>3, RenameDoes DEF ScanInv
    <2>9. \A t \in told' : t[2][2] <= used.stamps
      BY <2>1, HeldAreOld DEF ScanInv, Stamped, ToldStamps
    <2> QED BY <2>9, SetStamps DEF ToldStamps, Shapes, HistoryOK
  <1>4. ASSUME Vanished PROVE ToldStamps'
    <2>1. UNCHANGED <<told>>
      BY VanishedDoes, <1>4 DEF ScanInv
    <2>9. \A t \in told' : t[2][2] <= used.stamps
      BY <2>1 DEF ScanInv, Stamped, ToldStamps
    <2> QED BY <2>9, SetStamps DEF ToldStamps, Shapes, HistoryOK
  <1>5. ASSUME NEW f \in Files, NEW n \in Names, Written(f, n) PROVE ToldStamps'
    <2>1. told' \subseteq told \cup {<<n, Key(f)>>}
      BY <1>5, WrittenDoes DEF ScanInv
    <2>9. \A t \in told' : t[2][2] <= used.stamps
      BY <2>1, HeldAreOld DEF ScanInv, Stamped, ToldStamps
    <2> QED BY <2>9, SetStamps DEF ToldStamps, Shapes, HistoryOK
  <1>6. ASSUME NEW f \in Files, NEW n \in Names, Opened(f, n) PROVE ToldStamps'
    <2>1. told' \subseteq told \cup {<<n, Key(f)>>}
      BY <1>6, OpenedDoes DEF ScanInv
    <2>9. \A t \in told' : t[2][2] <= used.stamps
      BY <2>1, HeldAreOld DEF ScanInv, Stamped, ToldStamps
    <2> QED BY <2>9, SetStamps DEF ToldStamps, Shapes, HistoryOK
  <1>7. ASSUME NEW f \in Files, NEW n \in Names, ExecKnown(f, n) PROVE ToldStamps'
    <2>1. UNCHANGED <<told>>
      BY ExecKnownDoes, <1>7 DEF ScanInv
    <2>9. \A t \in told' : t[2][2] <= used.stamps
      BY <2>1 DEF ScanInv, Stamped, ToldStamps
    <2> QED BY <2>9, SetStamps DEF ToldStamps, Shapes, HistoryOK
  <1>8. ASSUME NEW f \in Files, NEW n \in Names, ExecOverBudget(f, n)
        PROVE  ToldStamps'
    <2>1. told' \subseteq told \cup {<<n, Key(f)>>}
      BY <1>8, ExecOverBudgetDoes DEF ScanInv
    <2>9. \A t \in told' : t[2][2] <= used.stamps
      BY <2>1, HeldAreOld DEF ScanInv, Stamped, ToldStamps
    <2> QED BY <2>9, SetStamps DEF ToldStamps, Shapes, HistoryOK
  <1>9. ASSUME NEW f \in Files, NEW n \in Names, ExecAsk(f, n) PROVE ToldStamps'
    <2>1. UNCHANGED <<told>>
      BY ExecAskDoes, <1>9 DEF ScanInv
    <2>9. \A t \in told' : t[2][2] <= used.stamps
      BY <2>1 DEF ScanInv, Stamped, ToldStamps
    <2> QED BY <2>9, SetStamps DEF ToldStamps, Shapes, HistoryOK
  <1>10. ASSUME GateScan PROVE ToldStamps'
    <2>1. UNCHANGED <<told>>
      BY GateScanDoes, <1>10 DEF ScanInv
    <2>9. \A t \in told' : t[2][2] <= used.stamps
      BY <2>1 DEF ScanInv, Stamped, ToldStamps
    <2> QED BY <2>9, SetStamps DEF ToldStamps, Shapes, HistoryOK
  <1>11. ASSUME GateAnswer PROVE ToldStamps'
    <2>1. Asks /\ told' \subseteq told \cup {<<intake.name, intake.key>>}
      BY <1>11, GateAnswerDoes DEF ScanInv, Asks
    <2>9. \A t \in told' : t[2][2] <= used.stamps
      BY <2>1, HeldAreOld DEF ScanInv, Stamped, ToldStamps
    <2> QED BY <2>9, SetStamps DEF ToldStamps, Shapes, HistoryOK
  <1>12. ASSUME NEW w \in Workers, TakeFollowUp(w) PROVE ToldStamps'
    <2>1. UNCHANGED <<told>>
      BY TakeFollowUpDoes, <1>12 DEF ScanInv
    <2>9. \A t \in told' : t[2][2] <= used.stamps
      BY <2>1 DEF ScanInv, Stamped, ToldStamps
    <2> QED BY <2>9, SetStamps DEF ToldStamps, Shapes, HistoryOK
  <1>13. ASSUME NEW w \in Workers, NEW n \in Names, TakeScan(w, n) PROVE ToldStamps'
    <2>1. UNCHANGED <<told>>
      BY TakeScanDoes, <1>13 DEF ScanInv
    <2>9. \A t \in told' : t[2][2] <= used.stamps
      BY <2>1 DEF ScanInv, Stamped, ToldStamps
    <2> QED BY <2>9, SetStamps DEF ToldStamps, Shapes, HistoryOK
  <1>14. ASSUME NEW w \in Workers, Look(w) PROVE ToldStamps'
    <2>1. told' \subseteq told
      BY <1>14, LookDoes DEF ScanInv
    <2>9. \A t \in told' : t[2][2] <= used.stamps
      BY <2>1, HeldAreOld DEF ScanInv, Stamped, ToldStamps
    <2> QED BY <2>9, SetStamps DEF ToldStamps, Shapes, HistoryOK
  <1>15. ASSUME NEW w \in Workers, Scan(w) PROVE ToldStamps'
    <2>1. UNCHANGED <<told>>
      BY ScanDoes, <1>15 DEF ScanInv
    <2>9. \A t \in told' : t[2][2] <= used.stamps
      BY <2>1 DEF ScanInv, Stamped, ToldStamps
    <2> QED BY <2>9, SetStamps DEF ToldStamps, Shapes, HistoryOK
  <1>16. ASSUME NEW w \in Workers, SettleInfected(w) PROVE ToldStamps'
    <2>1. told' \subseteq told
      BY <1>16, SettleInfectedDoes DEF ScanInv
    <2>9. \A t \in told' : t[2][2] <= used.stamps
      BY <2>1, HeldAreOld DEF ScanInv, Stamped, ToldStamps
    <2> QED BY <2>9, SetStamps DEF ToldStamps, Shapes, HistoryOK
  <1>17. ASSUME NEW w \in Workers, SettleClean(w) PROVE ToldStamps'
    <2>1. told' \subseteq told
      BY <1>17, SettleCleanDoes DEF ScanInv
    <2>9. \A t \in told' : t[2][2] <= used.stamps
      BY <2>1, HeldAreOld DEF ScanInv, Stamped, ToldStamps
    <2> QED BY <2>9, SetStamps DEF ToldStamps, Shapes, HistoryOK
  <1>18. ASSUME NEW w \in Workers, SettleFailed(w) PROVE ToldStamps'
    <2>1. UNCHANGED <<told>>
      BY SettleFailedDoes, <1>18 DEF ScanInv
    <2>9. \A t \in told' : t[2][2] <= used.stamps
      BY <2>1 DEF ScanInv, Stamped, ToldStamps
    <2> QED BY <2>9, SetStamps DEF ToldStamps, Shapes, HistoryOK
  <1>19. ASSUME NEW w \in Workers, Act(w) PROVE ToldStamps'
    <2>1. UNCHANGED <<told>>
      BY ActDoes, <1>19 DEF ScanInv
    <2>9. \A t \in told' : t[2][2] <= used.stamps
      BY <2>1 DEF ScanInv, Stamped, ToldStamps
    <2> QED BY <2>9, SetStamps DEF ToldStamps, Shapes, HistoryOK
  <1>20. ASSUME NEW w \in Workers, Move(w) PROVE ToldStamps'
    <2>1. UNCHANGED <<told>>
      BY MoveDoes, <1>20 DEF ScanInv
    <2>9. \A t \in told' : t[2][2] <= used.stamps
      BY <2>1 DEF ScanInv, Stamped, ToldStamps
    <2> QED BY <2>9, SetStamps DEF ToldStamps, Shapes, HistoryOK
  <1>21. ASSUME SaveCache PROVE ToldStamps'
    <2>1. UNCHANGED <<told>>
      BY SaveCacheDoes, <1>21 DEF ScanInv
    <2>9. \A t \in told' : t[2][2] <= used.stamps
      BY <2>1 DEF ScanInv, Stamped, ToldStamps
    <2> QED BY <2>9, SetStamps DEF ToldStamps, Shapes, HistoryOK
  <1>22. ASSUME Stop PROVE ToldStamps'
    <2>1. UNCHANGED <<told>>
      BY StopDoes, <1>22 DEF ScanInv
    <2>9. \A t \in told' : t[2][2] <= used.stamps
      BY <2>1 DEF ScanInv, Stamped, ToldStamps
    <2> QED BY <2>9, SetStamps DEF ToldStamps, Shapes, HistoryOK
  <1>23. ASSUME Down PROVE ToldStamps'
    <2>1. UNCHANGED <<told>>
      BY DownDoes, <1>23 DEF ScanInv
    <2>9. \A t \in told' : t[2][2] <= used.stamps
      BY <2>1 DEF ScanInv, Stamped, ToldStamps
    <2> QED BY <2>9, SetStamps DEF ToldStamps, Shapes, HistoryOK
  <1>24. ASSUME Start PROVE ToldStamps'
    <2>1. UNCHANGED <<told>>
      BY StartDoes, <1>24 DEF ScanInv
    <2>9. \A t \in told' : t[2][2] <= used.stamps
      BY <2>1 DEF ScanInv, Stamped, ToldStamps
    <2> QED BY <2>9, SetStamps DEF ToldStamps, Shapes, HistoryOK
  <1>25. ASSUME Crash PROVE ToldStamps'
    <2>1. told' \subseteq told
      BY <1>25, CrashDoes DEF ScanInv
    <2>9. \A t \in told' : t[2][2] <= used.stamps
      BY <2>1, HeldAreOld DEF ScanInv, Stamped, ToldStamps
    <2> QED BY <2>9, SetStamps DEF ToldStamps, Shapes, HistoryOK
  <1>26. CASE UNCHANGED vars
    <2>1. UNCHANGED <<told>>
      BY <1>26 DEF vars
    <2>9. \A t \in told' : t[2][2] <= used.stamps
      BY <2>1 DEF ScanInv, Stamped, ToldStamps
    <2> QED BY <2>9, SetStamps DEF ToldStamps, Shapes, HistoryOK
  <1> QED BY <1>1, <1>2, <1>3, <1>4, <1>5, <1>6, <1>7, <1>8, <1>9, <1>10, <1>11,
             <1>12, <1>13, <1>14, <1>15, <1>16, <1>17, <1>18, <1>19, <1>20, <1>21,
             <1>22, <1>23, <1>24, <1>25, <1>26 DEF Next, Others, IntakeStep,
             WorkerStep

(* What was denied is old.                                                 *)
LEMMA DeniedStampsStays ==
    ASSUME ScanInv, Shapes', [Next]_vars
    PROVE  DeniedStamps'
  <1>1. ASSUME NEW n \in Names, NEW f \in Files, NEW bad \in BOOLEAN, CloseWrite(n, f, bad)
        PROVE  DeniedStamps'
    <2>1. UNCHANGED <<denied>>
      BY CloseWriteDoes, <1>1 DEF ScanInv
    <2>9. \A t \in denied' : t[2][2] <= used.stamps
      BY <2>1 DEF ScanInv, Stamped, DeniedStamps
    <2> QED BY <2>9, SetStamps DEF DeniedStamps, Shapes, HistoryOK
  <1>2. ASSUME NEW n \in Names, NEW kind \in {"open", "exec"}, Use(n, kind)
        PROVE  DeniedStamps'
    <2>1. UNCHANGED <<denied>>
      BY UseDoes, <1>2 DEF ScanInv
    <2>9. \A t \in denied' : t[2][2] <= used.stamps
      BY <2>1 DEF ScanInv, Stamped, DeniedStamps
    <2> QED BY <2>9, SetStamps DEF DeniedStamps, Shapes, HistoryOK
  <1>3. ASSUME NEW n \in Names, NEW m \in Names, Rename(n, m) PROVE DeniedStamps'
    <2>1. UNCHANGED <<denied>>
      BY RenameDoes, <1>3 DEF ScanInv
    <2>9. \A t \in denied' : t[2][2] <= used.stamps
      BY <2>1 DEF ScanInv, Stamped, DeniedStamps
    <2> QED BY <2>9, SetStamps DEF DeniedStamps, Shapes, HistoryOK
  <1>4. ASSUME Vanished PROVE DeniedStamps'
    <2>1. UNCHANGED <<denied>>
      BY VanishedDoes, <1>4 DEF ScanInv
    <2>9. \A t \in denied' : t[2][2] <= used.stamps
      BY <2>1 DEF ScanInv, Stamped, DeniedStamps
    <2> QED BY <2>9, SetStamps DEF DeniedStamps, Shapes, HistoryOK
  <1>5. ASSUME NEW f \in Files, NEW n \in Names, Written(f, n) PROVE DeniedStamps'
    <2>1. UNCHANGED <<denied>>
      BY WrittenDoes, <1>5 DEF ScanInv
    <2>9. \A t \in denied' : t[2][2] <= used.stamps
      BY <2>1 DEF ScanInv, Stamped, DeniedStamps
    <2> QED BY <2>9, SetStamps DEF DeniedStamps, Shapes, HistoryOK
  <1>6. ASSUME NEW f \in Files, NEW n \in Names, Opened(f, n) PROVE DeniedStamps'
    <2>1. UNCHANGED <<denied>>
      BY OpenedDoes, <1>6 DEF ScanInv
    <2>9. \A t \in denied' : t[2][2] <= used.stamps
      BY <2>1 DEF ScanInv, Stamped, DeniedStamps
    <2> QED BY <2>9, SetStamps DEF DeniedStamps, Shapes, HistoryOK
  <1>7. ASSUME NEW f \in Files, NEW n \in Names, ExecKnown(f, n) PROVE DeniedStamps'
    <2>1. denied' \subseteq denied \cup {<<n, Key(f)>>}
      BY <1>7, ExecKnownDoes DEF ScanInv
    <2>9. \A t \in denied' : t[2][2] <= used.stamps
      BY <2>1, HeldAreOld DEF ScanInv, Stamped, DeniedStamps
    <2> QED BY <2>9, SetStamps DEF DeniedStamps, Shapes, HistoryOK
  <1>8. ASSUME NEW f \in Files, NEW n \in Names, ExecOverBudget(f, n)
        PROVE  DeniedStamps'
    <2>1. UNCHANGED <<denied>>
      BY ExecOverBudgetDoes, <1>8 DEF ScanInv
    <2>9. \A t \in denied' : t[2][2] <= used.stamps
      BY <2>1 DEF ScanInv, Stamped, DeniedStamps
    <2> QED BY <2>9, SetStamps DEF DeniedStamps, Shapes, HistoryOK
  <1>9. ASSUME NEW f \in Files, NEW n \in Names, ExecAsk(f, n) PROVE DeniedStamps'
    <2>1. UNCHANGED <<denied>>
      BY ExecAskDoes, <1>9 DEF ScanInv
    <2>9. \A t \in denied' : t[2][2] <= used.stamps
      BY <2>1 DEF ScanInv, Stamped, DeniedStamps
    <2> QED BY <2>9, SetStamps DEF DeniedStamps, Shapes, HistoryOK
  <1>10. ASSUME GateScan PROVE DeniedStamps'
    <2>1. UNCHANGED <<denied>>
      BY GateScanDoes, <1>10 DEF ScanInv
    <2>9. \A t \in denied' : t[2][2] <= used.stamps
      BY <2>1 DEF ScanInv, Stamped, DeniedStamps
    <2> QED BY <2>9, SetStamps DEF DeniedStamps, Shapes, HistoryOK
  <1>11. ASSUME GateAnswer PROVE DeniedStamps'
    <2>1. Asks /\ denied' \subseteq denied \cup {<<intake.name, intake.key>>}
      BY <1>11, GateAnswerDoes DEF ScanInv, Asks
    <2>9. \A t \in denied' : t[2][2] <= used.stamps
      BY <2>1, HeldAreOld DEF ScanInv, Stamped, DeniedStamps
    <2> QED BY <2>9, SetStamps DEF DeniedStamps, Shapes, HistoryOK
  <1>12. ASSUME NEW w \in Workers, TakeFollowUp(w) PROVE DeniedStamps'
    <2>1. UNCHANGED <<denied>>
      BY TakeFollowUpDoes, <1>12 DEF ScanInv
    <2>9. \A t \in denied' : t[2][2] <= used.stamps
      BY <2>1 DEF ScanInv, Stamped, DeniedStamps
    <2> QED BY <2>9, SetStamps DEF DeniedStamps, Shapes, HistoryOK
  <1>13. ASSUME NEW w \in Workers, NEW n \in Names, TakeScan(w, n)
         PROVE  DeniedStamps'
    <2>1. UNCHANGED <<denied>>
      BY TakeScanDoes, <1>13 DEF ScanInv
    <2>9. \A t \in denied' : t[2][2] <= used.stamps
      BY <2>1 DEF ScanInv, Stamped, DeniedStamps
    <2> QED BY <2>9, SetStamps DEF DeniedStamps, Shapes, HistoryOK
  <1>14. ASSUME NEW w \in Workers, Look(w) PROVE DeniedStamps'
    <2>1. UNCHANGED <<denied>>
      BY LookDoes, <1>14 DEF ScanInv
    <2>9. \A t \in denied' : t[2][2] <= used.stamps
      BY <2>1 DEF ScanInv, Stamped, DeniedStamps
    <2> QED BY <2>9, SetStamps DEF DeniedStamps, Shapes, HistoryOK
  <1>15. ASSUME NEW w \in Workers, Scan(w) PROVE DeniedStamps'
    <2>1. UNCHANGED <<denied>>
      BY ScanDoes, <1>15 DEF ScanInv
    <2>9. \A t \in denied' : t[2][2] <= used.stamps
      BY <2>1 DEF ScanInv, Stamped, DeniedStamps
    <2> QED BY <2>9, SetStamps DEF DeniedStamps, Shapes, HistoryOK
  <1>16. ASSUME NEW w \in Workers, SettleInfected(w) PROVE DeniedStamps'
    <2>1. UNCHANGED <<denied>>
      BY SettleInfectedDoes, <1>16 DEF ScanInv
    <2>9. \A t \in denied' : t[2][2] <= used.stamps
      BY <2>1 DEF ScanInv, Stamped, DeniedStamps
    <2> QED BY <2>9, SetStamps DEF DeniedStamps, Shapes, HistoryOK
  <1>17. ASSUME NEW w \in Workers, SettleClean(w) PROVE DeniedStamps'
    <2>1. UNCHANGED <<denied>>
      BY SettleCleanDoes, <1>17 DEF ScanInv
    <2>9. \A t \in denied' : t[2][2] <= used.stamps
      BY <2>1 DEF ScanInv, Stamped, DeniedStamps
    <2> QED BY <2>9, SetStamps DEF DeniedStamps, Shapes, HistoryOK
  <1>18. ASSUME NEW w \in Workers, SettleFailed(w) PROVE DeniedStamps'
    <2>1. UNCHANGED <<denied>>
      BY SettleFailedDoes, <1>18 DEF ScanInv
    <2>9. \A t \in denied' : t[2][2] <= used.stamps
      BY <2>1 DEF ScanInv, Stamped, DeniedStamps
    <2> QED BY <2>9, SetStamps DEF DeniedStamps, Shapes, HistoryOK
  <1>19. ASSUME NEW w \in Workers, Act(w) PROVE DeniedStamps'
    <2>1. denied' \subseteq denied
      BY <1>19, ActDoes DEF ScanInv
    <2>9. \A t \in denied' : t[2][2] <= used.stamps
      BY <2>1, HeldAreOld DEF ScanInv, Stamped, DeniedStamps
    <2> QED BY <2>9, SetStamps DEF DeniedStamps, Shapes, HistoryOK
  <1>20. ASSUME NEW w \in Workers, Move(w) PROVE DeniedStamps'
    <2>1. UNCHANGED <<denied>>
      BY MoveDoes, <1>20 DEF ScanInv
    <2>9. \A t \in denied' : t[2][2] <= used.stamps
      BY <2>1 DEF ScanInv, Stamped, DeniedStamps
    <2> QED BY <2>9, SetStamps DEF DeniedStamps, Shapes, HistoryOK
  <1>21. ASSUME SaveCache PROVE DeniedStamps'
    <2>1. UNCHANGED <<denied>>
      BY SaveCacheDoes, <1>21 DEF ScanInv
    <2>9. \A t \in denied' : t[2][2] <= used.stamps
      BY <2>1 DEF ScanInv, Stamped, DeniedStamps
    <2> QED BY <2>9, SetStamps DEF DeniedStamps, Shapes, HistoryOK
  <1>22. ASSUME Stop PROVE DeniedStamps'
    <2>1. UNCHANGED <<denied>>
      BY StopDoes, <1>22 DEF ScanInv
    <2>9. \A t \in denied' : t[2][2] <= used.stamps
      BY <2>1 DEF ScanInv, Stamped, DeniedStamps
    <2> QED BY <2>9, SetStamps DEF DeniedStamps, Shapes, HistoryOK
  <1>23. ASSUME Down PROVE DeniedStamps'
    <2>1. UNCHANGED <<denied>>
      BY DownDoes, <1>23 DEF ScanInv
    <2>9. \A t \in denied' : t[2][2] <= used.stamps
      BY <2>1 DEF ScanInv, Stamped, DeniedStamps
    <2> QED BY <2>9, SetStamps DEF DeniedStamps, Shapes, HistoryOK
  <1>24. ASSUME Start PROVE DeniedStamps'
    <2>1. UNCHANGED <<denied>>
      BY StartDoes, <1>24 DEF ScanInv
    <2>9. \A t \in denied' : t[2][2] <= used.stamps
      BY <2>1 DEF ScanInv, Stamped, DeniedStamps
    <2> QED BY <2>9, SetStamps DEF DeniedStamps, Shapes, HistoryOK
  <1>25. ASSUME Crash PROVE DeniedStamps'
    <2>1. denied' \subseteq denied
      BY <1>25, CrashDoes DEF ScanInv
    <2>9. \A t \in denied' : t[2][2] <= used.stamps
      BY <2>1, HeldAreOld DEF ScanInv, Stamped, DeniedStamps
    <2> QED BY <2>9, SetStamps DEF DeniedStamps, Shapes, HistoryOK
  <1>26. CASE UNCHANGED vars
    <2>1. UNCHANGED <<denied>>
      BY <1>26 DEF vars
    <2>9. \A t \in denied' : t[2][2] <= used.stamps
      BY <2>1 DEF ScanInv, Stamped, DeniedStamps
    <2> QED BY <2>9, SetStamps DEF DeniedStamps, Shapes, HistoryOK
  <1> QED BY <1>1, <1>2, <1>3, <1>4, <1>5, <1>6, <1>7, <1>8, <1>9, <1>10, <1>11,
             <1>12, <1>13, <1>14, <1>15, <1>16, <1>17, <1>18, <1>19, <1>20, <1>21,
             <1>22, <1>23, <1>24, <1>25, <1>26 DEF Next, Others, IntakeStep,
             WorkerStep

(* The gate has an old key.                                                *)
LEMMA GateStampsStays ==
    ASSUME ScanInv, Shapes', [Next]_vars
    PROVE  GateStamps'
  <1>1. ASSUME NEW n \in Names, NEW f \in Files, NEW bad \in BOOLEAN, CloseWrite(n, f, bad)
        PROVE  GateStamps'
    <2>1. UNCHANGED <<intake>>
      BY CloseWriteDoes, <1>1 DEF ScanInv
    <2>2. Asks => intake.key[2] \in Nat /\ intake.key[2] <= used.stamps
      BY HeldAreOld, StampIs
    <2> QED BY <2>1, <2>2, OldStaysOld DEF GateStamps, Asks
  <1>2. ASSUME NEW n \in Names, NEW kind \in {"open", "exec"}, Use(n, kind)
        PROVE  GateStamps'
    <2>1. UNCHANGED <<intake>>
      BY UseDoes, <1>2 DEF ScanInv
    <2>2. Asks => intake.key[2] \in Nat /\ intake.key[2] <= used.stamps
      BY HeldAreOld, StampIs
    <2> QED BY <2>1, <2>2, OldStaysOld DEF GateStamps, Asks
  <1>3. ASSUME NEW n \in Names, NEW m \in Names, Rename(n, m) PROVE GateStamps'
    <2>1. UNCHANGED <<intake>>
      BY RenameDoes, <1>3 DEF ScanInv
    <2>2. Asks => intake.key[2] \in Nat /\ intake.key[2] <= used.stamps
      BY HeldAreOld, StampIs
    <2> QED BY <2>1, <2>2, OldStaysOld DEF GateStamps, Asks
  <1>4. ASSUME Vanished PROVE GateStamps'
    <2>1. UNCHANGED <<intake>>
      BY VanishedDoes, <1>4 DEF ScanInv
    <2>2. Asks => intake.key[2] \in Nat /\ intake.key[2] <= used.stamps
      BY HeldAreOld, StampIs
    <2> QED BY <2>1, <2>2, OldStaysOld DEF GateStamps, Asks
  <1>5. ASSUME NEW f \in Files, NEW n \in Names, Written(f, n) PROVE GateStamps'
    <2>1. UNCHANGED <<intake>>
      BY WrittenDoes, <1>5 DEF ScanInv
    <2>2. Asks => intake.key[2] \in Nat /\ intake.key[2] <= used.stamps
      BY HeldAreOld, StampIs
    <2> QED BY <2>1, <2>2, OldStaysOld DEF GateStamps, Asks
  <1>6. ASSUME NEW f \in Files, NEW n \in Names, Opened(f, n) PROVE GateStamps'
    <2>1. UNCHANGED <<intake>>
      BY OpenedDoes, <1>6 DEF ScanInv
    <2>2. Asks => intake.key[2] \in Nat /\ intake.key[2] <= used.stamps
      BY HeldAreOld, StampIs
    <2> QED BY <2>1, <2>2, OldStaysOld DEF GateStamps, Asks
  <1>7. ASSUME NEW f \in Files, NEW n \in Names, ExecKnown(f, n) PROVE GateStamps'
    <2>1. UNCHANGED <<intake>>
      BY ExecKnownDoes, <1>7 DEF ScanInv
    <2>2. Asks => intake.key[2] \in Nat /\ intake.key[2] <= used.stamps
      BY HeldAreOld, StampIs
    <2> QED BY <2>1, <2>2, OldStaysOld DEF GateStamps, Asks
  <1>8. ASSUME NEW f \in Files, NEW n \in Names, ExecOverBudget(f, n)
        PROVE  GateStamps'
    <2>1. UNCHANGED <<intake>>
      BY ExecOverBudgetDoes, <1>8 DEF ScanInv
    <2>2. Asks => intake.key[2] \in Nat /\ intake.key[2] <= used.stamps
      BY HeldAreOld, StampIs
    <2> QED BY <2>1, <2>2, OldStaysOld DEF GateStamps, Asks
  <1>9. ASSUME NEW f \in Files, NEW n \in Names, ExecAsk(f, n) PROVE GateStamps'
    <2>1. intake'.key = Key(f)
      BY <1>9, ExecAskDoes DEF ScanInv
    <2> QED BY <2>1, HeldAreOld, StampIs, OldStaysOld DEF GateStamps
  <1>10. ASSUME GateScan PROVE GateStamps'
    <2>1. Asks /\ intake'.key = intake.key
      BY <1>10, GateScanDoes DEF ScanInv, Asks
    <2> QED BY <2>1, HeldAreOld, StampIs, OldStaysOld DEF GateStamps
  <1>11. ASSUME GateAnswer PROVE GateStamps'
    <2>1. intake' = IdleIntake
      BY <1>11, GateAnswerDoes DEF ScanInv
    <2> QED BY <2>1 DEF GateStamps, Asks, IdleIntake
  <1>12. ASSUME NEW w \in Workers, TakeFollowUp(w) PROVE GateStamps'
    <2>1. UNCHANGED <<intake>>
      BY TakeFollowUpDoes, <1>12 DEF ScanInv
    <2>2. Asks => intake.key[2] \in Nat /\ intake.key[2] <= used.stamps
      BY HeldAreOld, StampIs
    <2> QED BY <2>1, <2>2, OldStaysOld DEF GateStamps, Asks
  <1>13. ASSUME NEW w \in Workers, NEW n \in Names, TakeScan(w, n) PROVE GateStamps'
    <2>1. UNCHANGED <<intake>>
      BY TakeScanDoes, <1>13 DEF ScanInv
    <2>2. Asks => intake.key[2] \in Nat /\ intake.key[2] <= used.stamps
      BY HeldAreOld, StampIs
    <2> QED BY <2>1, <2>2, OldStaysOld DEF GateStamps, Asks
  <1>14. ASSUME NEW w \in Workers, Look(w) PROVE GateStamps'
    <2>1. UNCHANGED <<intake>>
      BY LookDoes, <1>14 DEF ScanInv
    <2>2. Asks => intake.key[2] \in Nat /\ intake.key[2] <= used.stamps
      BY HeldAreOld, StampIs
    <2> QED BY <2>1, <2>2, OldStaysOld DEF GateStamps, Asks
  <1>15. ASSUME NEW w \in Workers, Scan(w) PROVE GateStamps'
    <2>1. UNCHANGED <<intake>>
      BY ScanDoes, <1>15 DEF ScanInv
    <2>2. Asks => intake.key[2] \in Nat /\ intake.key[2] <= used.stamps
      BY HeldAreOld, StampIs
    <2> QED BY <2>1, <2>2, OldStaysOld DEF GateStamps, Asks
  <1>16. ASSUME NEW w \in Workers, SettleInfected(w) PROVE GateStamps'
    <2>1. UNCHANGED <<intake>>
      BY SettleInfectedDoes, <1>16 DEF ScanInv
    <2>2. Asks => intake.key[2] \in Nat /\ intake.key[2] <= used.stamps
      BY HeldAreOld, StampIs
    <2> QED BY <2>1, <2>2, OldStaysOld DEF GateStamps, Asks
  <1>17. ASSUME NEW w \in Workers, SettleClean(w) PROVE GateStamps'
    <2>1. UNCHANGED <<intake>>
      BY SettleCleanDoes, <1>17 DEF ScanInv
    <2>2. Asks => intake.key[2] \in Nat /\ intake.key[2] <= used.stamps
      BY HeldAreOld, StampIs
    <2> QED BY <2>1, <2>2, OldStaysOld DEF GateStamps, Asks
  <1>18. ASSUME NEW w \in Workers, SettleFailed(w) PROVE GateStamps'
    <2>1. UNCHANGED <<intake>>
      BY SettleFailedDoes, <1>18 DEF ScanInv
    <2>2. Asks => intake.key[2] \in Nat /\ intake.key[2] <= used.stamps
      BY HeldAreOld, StampIs
    <2> QED BY <2>1, <2>2, OldStaysOld DEF GateStamps, Asks
  <1>19. ASSUME NEW w \in Workers, Act(w) PROVE GateStamps'
    <2>1. UNCHANGED <<intake>>
      BY ActDoes, <1>19 DEF ScanInv
    <2>2. Asks => intake.key[2] \in Nat /\ intake.key[2] <= used.stamps
      BY HeldAreOld, StampIs
    <2> QED BY <2>1, <2>2, OldStaysOld DEF GateStamps, Asks
  <1>20. ASSUME NEW w \in Workers, Move(w) PROVE GateStamps'
    <2>1. UNCHANGED <<intake>>
      BY MoveDoes, <1>20 DEF ScanInv
    <2>2. Asks => intake.key[2] \in Nat /\ intake.key[2] <= used.stamps
      BY HeldAreOld, StampIs
    <2> QED BY <2>1, <2>2, OldStaysOld DEF GateStamps, Asks
  <1>21. ASSUME SaveCache PROVE GateStamps'
    <2>1. UNCHANGED <<intake>>
      BY SaveCacheDoes, <1>21 DEF ScanInv
    <2>2. Asks => intake.key[2] \in Nat /\ intake.key[2] <= used.stamps
      BY HeldAreOld, StampIs
    <2> QED BY <2>1, <2>2, OldStaysOld DEF GateStamps, Asks
  <1>22. ASSUME Stop PROVE GateStamps'
    <2>1. UNCHANGED <<intake>>
      BY StopDoes, <1>22 DEF ScanInv
    <2>2. Asks => intake.key[2] \in Nat /\ intake.key[2] <= used.stamps
      BY HeldAreOld, StampIs
    <2> QED BY <2>1, <2>2, OldStaysOld DEF GateStamps, Asks
  <1>23. ASSUME Down PROVE GateStamps'
    <2>1. UNCHANGED <<intake>>
      BY DownDoes, <1>23 DEF ScanInv
    <2>2. Asks => intake.key[2] \in Nat /\ intake.key[2] <= used.stamps
      BY HeldAreOld, StampIs
    <2> QED BY <2>1, <2>2, OldStaysOld DEF GateStamps, Asks
  <1>24. ASSUME Start PROVE GateStamps'
    <2>1. UNCHANGED <<intake>>
      BY StartDoes, <1>24 DEF ScanInv
    <2>2. Asks => intake.key[2] \in Nat /\ intake.key[2] <= used.stamps
      BY HeldAreOld, StampIs
    <2> QED BY <2>1, <2>2, OldStaysOld DEF GateStamps, Asks
  <1>25. ASSUME Crash PROVE GateStamps'
    <2>1. intake' = IdleIntake
      BY <1>25, CrashDoes DEF ScanInv
    <2> QED BY <2>1 DEF GateStamps, Asks, IdleIntake
  <1>26. CASE UNCHANGED vars
    <2>1. UNCHANGED <<intake>>
      BY <1>26 DEF vars
    <2>2. Asks => intake.key[2] \in Nat /\ intake.key[2] <= used.stamps
      BY HeldAreOld, StampIs
    <2> QED BY <2>1, <2>2, OldStaysOld DEF GateStamps, Asks
  <1> QED BY <1>1, <1>2, <1>3, <1>4, <1>5, <1>6, <1>7, <1>8, <1>9, <1>10, <1>11,
             <1>12, <1>13, <1>14, <1>15, <1>16, <1>17, <1>18, <1>19, <1>20, <1>21,
             <1>22, <1>23, <1>24, <1>25, <1>26 DEF Next, Others, IntakeStep,
             WorkerStep

(* A worker holds no key, or one that it or a file had.                    *)
Took(w) ==
    \/ worker'[w].at \notin {"scan", "settle"}
    \/ Holds(w) /\ worker'[w].key = worker[w].key
    \/ \E f \in Files : worker'[w].key = Key(f)

(* So the workers' keys are old.                                           *)
LEMMA TakenAreOld ==
    ASSUME ScanInv, Shapes', [Next]_vars, \A w \in Workers : Took(w)
    PROVE  WorkerStamps'
  BY HeldAreOld, StampIs, OldStaysOld DEF WorkerStamps, Took, Holds

(* Workers have old keys.                                                  *)
LEMMA WorkerStampsStays ==
    ASSUME ScanInv, Shapes', [Next]_vars
    PROVE  WorkerStamps'
  <1>1. ASSUME NEW n \in Names, NEW f \in Files, NEW bad \in BOOLEAN, CloseWrite(n, f, bad)
        PROVE  WorkerStamps'
    <2>1. UNCHANGED <<worker>>
      BY CloseWriteDoes, <1>1 DEF ScanInv
    <2>2. \A w \in Workers : Took(w)
      BY <2>1 DEF Took, Holds
    <2> QED BY <2>2, TakenAreOld
  <1>2. ASSUME NEW n \in Names, NEW kind \in {"open", "exec"}, Use(n, kind)
        PROVE  WorkerStamps'
    <2>1. UNCHANGED <<worker>>
      BY UseDoes, <1>2 DEF ScanInv
    <2>2. \A w \in Workers : Took(w)
      BY <2>1 DEF Took, Holds
    <2> QED BY <2>2, TakenAreOld
  <1>3. ASSUME NEW n \in Names, NEW m \in Names, Rename(n, m) PROVE WorkerStamps'
    <2>1. UNCHANGED <<worker>>
      BY RenameDoes, <1>3 DEF ScanInv
    <2>2. \A w \in Workers : Took(w)
      BY <2>1 DEF Took, Holds
    <2> QED BY <2>2, TakenAreOld
  <1>4. ASSUME Vanished PROVE WorkerStamps'
    <2>1. UNCHANGED <<worker>>
      BY VanishedDoes, <1>4 DEF ScanInv
    <2>2. \A w \in Workers : Took(w)
      BY <2>1 DEF Took, Holds
    <2> QED BY <2>2, TakenAreOld
  <1>5. ASSUME NEW f \in Files, NEW n \in Names, Written(f, n) PROVE WorkerStamps'
    <2>1. UNCHANGED <<worker>>
      BY WrittenDoes, <1>5 DEF ScanInv
    <2>2. \A w \in Workers : Took(w)
      BY <2>1 DEF Took, Holds
    <2> QED BY <2>2, TakenAreOld
  <1>6. ASSUME NEW f \in Files, NEW n \in Names, Opened(f, n) PROVE WorkerStamps'
    <2>1. UNCHANGED <<worker>>
      BY OpenedDoes, <1>6 DEF ScanInv
    <2>2. \A w \in Workers : Took(w)
      BY <2>1 DEF Took, Holds
    <2> QED BY <2>2, TakenAreOld
  <1>7. ASSUME NEW f \in Files, NEW n \in Names, ExecKnown(f, n) PROVE WorkerStamps'
    <2>1. UNCHANGED <<worker>>
      BY ExecKnownDoes, <1>7 DEF ScanInv
    <2>2. \A w \in Workers : Took(w)
      BY <2>1 DEF Took, Holds
    <2> QED BY <2>2, TakenAreOld
  <1>8. ASSUME NEW f \in Files, NEW n \in Names, ExecOverBudget(f, n)
        PROVE  WorkerStamps'
    <2>1. UNCHANGED <<worker>>
      BY ExecOverBudgetDoes, <1>8 DEF ScanInv
    <2>2. \A w \in Workers : Took(w)
      BY <2>1 DEF Took, Holds
    <2> QED BY <2>2, TakenAreOld
  <1>9. ASSUME NEW f \in Files, NEW n \in Names, ExecAsk(f, n) PROVE WorkerStamps'
    <2>1. UNCHANGED <<worker>>
      BY ExecAskDoes, <1>9 DEF ScanInv
    <2>2. \A w \in Workers : Took(w)
      BY <2>1 DEF Took, Holds
    <2> QED BY <2>2, TakenAreOld
  <1>10. ASSUME GateScan PROVE WorkerStamps'
    <2>1. UNCHANGED <<worker>>
      BY GateScanDoes, <1>10 DEF ScanInv
    <2>2. \A w \in Workers : Took(w)
      BY <2>1 DEF Took, Holds
    <2> QED BY <2>2, TakenAreOld
  <1>11. ASSUME GateAnswer PROVE WorkerStamps'
    <2>1. UNCHANGED <<worker>>
      BY GateAnswerDoes, <1>11 DEF ScanInv
    <2>2. \A w \in Workers : Took(w)
      BY <2>1 DEF Took, Holds
    <2> QED BY <2>2, TakenAreOld
  <1>12. ASSUME NEW w \in Workers, TakeFollowUp(w) PROVE WorkerStamps'
    <2>1. Took(w)
      BY <1>12, TakeFollowUpDoes DEF ScanInv, Took, IdleWorker
    <2>2. \A v \in Workers : v # w => Took(v)
      BY <1>12, TakeFollowUpDoes DEF ScanInv, Took, Holds
    <2> QED BY <2>1, <2>2, TakenAreOld
  <1>13. ASSUME NEW w \in Workers, NEW n \in Names, TakeScan(w, n)
         PROVE  WorkerStamps'
    <2>1. Took(w)
      BY <1>13, TakeScanDoes DEF ScanInv, Took, IdleWorker
    <2>2. \A v \in Workers : v # w => Took(v)
      BY <1>13, TakeScanDoes DEF ScanInv, Took, Holds
    <2> QED BY <2>1, <2>2, TakenAreOld
  <1>14. ASSUME NEW w \in Workers, Look(w) PROVE WorkerStamps'
    <2>0. worker[w].at = "look" /\ worker[w] \in WorkerT
      BY <1>14, LookDoes, WorkerIs DEF ScanInv
    <2>3. \/ worker'[w] = IdleWorker
          \/ /\ dir[worker[w].name] \in Files
             /\ worker'[w] = [worker[w] EXCEPT !.at = "scan",
                                             !.key = Key(dir[worker[w].name])]
      BY <1>14, LookDoes DEF ScanInv
    <2>4. \/ worker'[w].at \notin {"scan", "settle"}
          \/ \E f \in Files : worker'[w].key = Key(f)
      <3>1. CASE worker'[w] = IdleWorker
        BY <3>1 DEF IdleWorker
      <3>2. CASE worker'[w] # IdleWorker
        BY <2>0, <2>3, <3>2 DEF WorkerT
      <3> QED BY <3>1, <3>2
    <2>1. Took(w)
      BY <2>4 DEF Took
    <2>2. \A v \in Workers : v # w => Took(v)
      BY <1>14, LookDoes DEF ScanInv, Took, Holds
    <2> QED BY <2>1, <2>2, TakenAreOld
  <1>15. ASSUME NEW w \in Workers, Scan(w) PROVE WorkerStamps'
    <2>1. Took(w)
      BY <1>15, ScanDoes DEF ScanInv, Took, Holds
    <2>2. \A v \in Workers : v # w => Took(v)
      BY <1>15, ScanDoes DEF ScanInv, Took, Holds
    <2> QED BY <2>1, <2>2, TakenAreOld
  <1>16. ASSUME NEW w \in Workers, SettleInfected(w) PROVE WorkerStamps'
    <2>0. worker[w] \in WorkerT
      BY WorkerIs DEF ScanInv
    <2>3. \/ worker'[w] = IdleWorker
          \/ worker'[w] = [worker[w] EXCEPT !.at = "act", !.kind = "detected"]
      BY <1>16, SettleInfectedDoes DEF ScanInv
    <2>4. worker'[w].at \notin {"scan", "settle"}
      <3>1. CASE worker'[w] = IdleWorker
        BY <3>1 DEF IdleWorker
      <3>2. CASE worker'[w] # IdleWorker
        BY <2>0, <2>3, <3>2 DEF WorkerT
      <3> QED BY <3>1, <3>2
    <2>1. Took(w)
      BY <2>4 DEF Took
    <2>2. \A v \in Workers : v # w => Took(v)
      BY <1>16, SettleInfectedDoes DEF ScanInv, Took, Holds
    <2> QED BY <2>1, <2>2, TakenAreOld
  <1>17. ASSUME NEW w \in Workers, SettleClean(w) PROVE WorkerStamps'
    <2>1. Took(w)
      BY <1>17, SettleCleanDoes DEF ScanInv, Took, IdleWorker
    <2>2. \A v \in Workers : v # w => Took(v)
      BY <1>17, SettleCleanDoes DEF ScanInv, Took, Holds
    <2> QED BY <2>1, <2>2, TakenAreOld
  <1>18. ASSUME NEW w \in Workers, SettleFailed(w) PROVE WorkerStamps'
    <2>1. Took(w)
      BY <1>18, SettleFailedDoes DEF ScanInv, Took, IdleWorker
    <2>2. \A v \in Workers : v # w => Took(v)
      BY <1>18, SettleFailedDoes DEF ScanInv, Took, Holds
    <2> QED BY <2>1, <2>2, TakenAreOld
  <1>19. ASSUME NEW w \in Workers, Act(w) PROVE WorkerStamps'
    <2>0. worker[w] \in WorkerT
      BY WorkerIs DEF ScanInv
    <2>3. worker'[w] = IdleWorker \/ worker'[w] = [worker[w] EXCEPT !.at = "move"]
      BY <1>19, ActDoes DEF ScanInv
    <2>4. worker'[w].at \notin {"scan", "settle"}
      <3>1. CASE worker'[w] = IdleWorker
        BY <3>1 DEF IdleWorker
      <3>2. CASE worker'[w] # IdleWorker
        BY <2>0, <2>3, <3>2 DEF WorkerT
      <3> QED BY <3>1, <3>2
    <2>1. Took(w)
      BY <2>4 DEF Took
    <2>2. \A v \in Workers : v # w => Took(v)
      BY <1>19, ActDoes DEF ScanInv, Took, Holds
    <2> QED BY <2>1, <2>2, TakenAreOld
  <1>20. ASSUME NEW w \in Workers, Move(w) PROVE WorkerStamps'
    <2>1. Took(w)
      BY <1>20, MoveDoes DEF ScanInv, Took, IdleWorker
    <2>2. \A v \in Workers : v # w => Took(v)
      BY <1>20, MoveDoes DEF ScanInv, Took, Holds
    <2> QED BY <2>1, <2>2, TakenAreOld
  <1>21. ASSUME SaveCache PROVE WorkerStamps'
    <2>1. UNCHANGED <<worker>>
      BY SaveCacheDoes, <1>21 DEF ScanInv
    <2>2. \A w \in Workers : Took(w)
      BY <2>1 DEF Took, Holds
    <2> QED BY <2>2, TakenAreOld
  <1>22. ASSUME Stop PROVE WorkerStamps'
    <2>1. UNCHANGED <<worker>>
      BY StopDoes, <1>22 DEF ScanInv
    <2>2. \A w \in Workers : Took(w)
      BY <2>1 DEF Took, Holds
    <2> QED BY <2>2, TakenAreOld
  <1>23. ASSUME Down PROVE WorkerStamps'
    <2>1. UNCHANGED <<worker>>
      BY DownDoes, <1>23 DEF ScanInv
    <2>2. \A w \in Workers : Took(w)
      BY <2>1 DEF Took, Holds
    <2> QED BY <2>2, TakenAreOld
  <1>24. ASSUME Start PROVE WorkerStamps'
    <2>1. UNCHANGED <<worker>>
      BY StartDoes, <1>24 DEF ScanInv
    <2>2. \A w \in Workers : Took(w)
      BY <2>1 DEF Took, Holds
    <2> QED BY <2>2, TakenAreOld
  <1>25. ASSUME Crash PROVE WorkerStamps'
    <2>1. \A w \in Workers : worker'[w] = IdleWorker
      BY <1>25, CrashDoes DEF ScanInv
    <2>2. \A w \in Workers : Took(w)
      BY <2>1 DEF Took, IdleWorker
    <2> QED BY <2>2, TakenAreOld
  <1>26. CASE UNCHANGED vars
    <2>1. UNCHANGED <<worker>>
      BY <1>26 DEF vars
    <2>2. \A w \in Workers : Took(w)
      BY <2>1 DEF Took, Holds
    <2> QED BY <2>2, TakenAreOld
  <1> QED BY <1>1, <1>2, <1>3, <1>4, <1>5, <1>6, <1>7, <1>8, <1>9, <1>10, <1>11,
             <1>12, <1>13, <1>14, <1>15, <1>16, <1>17, <1>18, <1>19, <1>20, <1>21,
             <1>22, <1>23, <1>24, <1>25, <1>26 DEF Next, Others, IntakeStep,
             WorkerStep

(* So every key that is known is older than a new stamp.                   *)
LEMMA StampedStays ==
    ASSUME ScanInv, Shapes', [Next]_vars
    PROVE  Stamped'
  BY FileStampsStays, CacheStampsStays, SavedStampsStays, ToldStampsStays,
     DeniedStampsStays, GateStampsStays, WorkerStampsStays
  DEF Stamped

-----------------------------------------------------------------------------
(* What is current later was current before, unless its stamp is new or a  *)
(* rename moved it; and a rewrite that keeps a stamp is counted.           *)

SameBad(x) == file'[dir'[x]].bad <=> file[dir[x]].bad

(* The content that is current later under an old stamp was there before.  *)
LEMMA OldContentStays ==
    ASSUME ScanInv, Shapes', [Next]_vars, used'.renames = used.renames,
           NEW x \in Names, NEW k \in Keys, k[2] <= used.stamps, Current(x, k)'
    PROVE  Current(x, k) /\ (used'.coarse = used.coarse => SameBad(x))
  <1> DEFINE Goal == Current(x, k) /\ (used'.coarse = used.coarse => SameBad(x))
  <1>0. dir'[x] # NoFile /\ k = <<dir'[x], file'[dir'[x]].stamp>>
    BY DEF Current, Key
  <1>1. used.renames \in Nat /\ used.stamps \in Nat /\ used.coarse \in Nat
    BY DEF ScanInv, Shapes, UsedOK, UsedT
  <1>2. ASSUME UNCHANGED <<dir, file>> PROVE Goal
    BY <1>0, <1>2 DEF Current, Key, SameBad

  <1>3. ASSUME NEW n \in Names, NEW f \in Files, NEW bad \in BOOLEAN, CloseWrite(n, f, bad)
        PROVE  Goal
    <2>1. /\ dir'[n] = f /\ \A m \in Names : m # n => dir'[m] = dir[m]
          /\ \A g \in Files : g # f => file'[g] = file[g]
      BY <1>3, CloseWriteDoes DEF ScanInv
    <2>2. dir'[x] \in Files
      BY <1>0 DEF Shapes, FsOK
    <2>3. CASE dir'[x] # f
      <3>1. dir[x] = dir'[x] /\ file'[dir'[x]] = file[dir[x]]
        BY <2>1, <2>2, <2>3
      <3> QED BY <1>0, <3>1 DEF Current, Key, SameBad
    <2>4. CASE dir'[x] = f
      <3>1. Anew(f, bad) \/ Anyhow(n, f, bad)
        BY <1>3, CloseWriteDoes DEF ScanInv
      <3>2. Anyhow(n, f, bad)
        <4>1. k[2] = file'[f].stamp
          BY <1>0, <2>4
        <4> QED BY <1>1, <3>1, <4>1 DEF Anew
      <3>3. dir[x] = f
        BY <2>1, <2>4, <3>2 DEF Anyhow
      <3>4. file'[f].stamp = file[f].stamp /\ used'.coarse # used.coarse
        BY <1>1, <3>2 DEF Anyhow
      <3> QED BY <1>0, <2>4, <3>3, <3>4 DEF Current, Key
    <2> QED BY <2>3, <2>4
  <1>4. ASSUME NEW n \in Names, NEW kind \in {"open", "exec"}, Use(n, kind)
        PROVE  Goal
    <2>1. UNCHANGED <<dir, file>>
      BY <1>4, UseDoes DEF ScanInv
    <2> QED BY <1>2, <2>1
  <1>5. ASSUME NEW n \in Names, NEW m \in Names, Rename(n, m) PROVE Goal
    <2>1. used'.renames = used.renames + 1
      BY <1>5, RenameDoes DEF ScanInv
    <2> QED BY <1>1, <2>1
  <1>6. ASSUME Vanished PROVE Goal
    <2>1. UNCHANGED <<dir, file>>
      BY <1>6, VanishedDoes DEF ScanInv
    <2> QED BY <1>2, <2>1
  <1>7. ASSUME NEW f \in Files, NEW n \in Names, Written(f, n) PROVE Goal
    <2>1. UNCHANGED <<dir, file>>
      BY <1>7, WrittenDoes DEF ScanInv
    <2> QED BY <1>2, <2>1
  <1>8. ASSUME NEW f \in Files, NEW n \in Names, Opened(f, n) PROVE Goal
    <2>1. UNCHANGED <<dir, file>>
      BY <1>8, OpenedDoes DEF ScanInv
    <2> QED BY <1>2, <2>1
  <1>9. ASSUME NEW f \in Files, NEW n \in Names, ExecKnown(f, n) PROVE Goal
    <2>1. UNCHANGED <<dir, file>>
      BY <1>9, ExecKnownDoes DEF ScanInv
    <2> QED BY <1>2, <2>1
  <1>10. ASSUME NEW f \in Files, NEW n \in Names, ExecOverBudget(f, n) PROVE Goal
    <2>1. UNCHANGED <<dir, file>>
      BY <1>10, ExecOverBudgetDoes DEF ScanInv
    <2> QED BY <1>2, <2>1
  <1>11. ASSUME NEW f \in Files, NEW n \in Names, ExecAsk(f, n) PROVE Goal
    <2>1. UNCHANGED <<dir, file>>
      BY <1>11, ExecAskDoes DEF ScanInv
    <2> QED BY <1>2, <2>1
  <1>12. ASSUME GateScan PROVE Goal
    <2>1. UNCHANGED <<dir, file>>
      BY <1>12, GateScanDoes DEF ScanInv
    <2> QED BY <1>2, <2>1
  <1>13. ASSUME GateAnswer PROVE Goal
    <2>1. UNCHANGED <<dir, file>>
      BY <1>13, GateAnswerDoes DEF ScanInv
    <2> QED BY <1>2, <2>1
  <1>14. ASSUME NEW w \in Workers, TakeFollowUp(w) PROVE Goal
    <2>1. UNCHANGED <<dir, file>>
      BY <1>14, TakeFollowUpDoes DEF ScanInv
    <2> QED BY <1>2, <2>1
  <1>15. ASSUME NEW w \in Workers, NEW n \in Names, TakeScan(w, n) PROVE Goal
    <2>1. UNCHANGED <<dir, file>>
      BY <1>15, TakeScanDoes DEF ScanInv
    <2> QED BY <1>2, <2>1
  <1>16. ASSUME NEW w \in Workers, Look(w) PROVE Goal
    <2>1. UNCHANGED <<dir, file>>
      BY <1>16, LookDoes DEF ScanInv
    <2> QED BY <1>2, <2>1
  <1>17. ASSUME NEW w \in Workers, Scan(w) PROVE Goal
    <2>1. UNCHANGED <<dir, file>>
      BY <1>17, ScanDoes DEF ScanInv
    <2> QED BY <1>2, <2>1
  <1>18. ASSUME NEW w \in Workers, SettleInfected(w) PROVE Goal
    <2>1. UNCHANGED <<dir, file>>
      BY <1>18, SettleInfectedDoes DEF ScanInv
    <2> QED BY <1>2, <2>1
  <1>19. ASSUME NEW w \in Workers, SettleClean(w) PROVE Goal
    <2>1. UNCHANGED <<dir, file>>
      BY <1>19, SettleCleanDoes DEF ScanInv
    <2> QED BY <1>2, <2>1
  <1>20. ASSUME NEW w \in Workers, SettleFailed(w) PROVE Goal
    <2>1. UNCHANGED <<dir, file>>
      BY <1>20, SettleFailedDoes DEF ScanInv
    <2> QED BY <1>2, <2>1
  <1>21. ASSUME NEW w \in Workers, Act(w) PROVE Goal
    <2>1. UNCHANGED <<dir, file>>
      BY <1>21, ActDoes DEF ScanInv
    <2> QED BY <1>2, <2>1
  <1>22. ASSUME NEW w \in Workers, Move(w) PROVE Goal
    <2>1. dir'[x] = dir[x] /\ UNCHANGED file
      BY <1>22, <1>0, MoveDoes DEF ScanInv
    <2> QED BY <1>0, <2>1 DEF Current, Key, SameBad
  <1>23. ASSUME SaveCache PROVE Goal
    <2>1. UNCHANGED <<dir, file>>
      BY <1>23, SaveCacheDoes DEF ScanInv
    <2> QED BY <1>2, <2>1
  <1>24. ASSUME Stop PROVE Goal
    <2>1. UNCHANGED <<dir, file>>
      BY <1>24, StopDoes DEF ScanInv
    <2> QED BY <1>2, <2>1
  <1>25. ASSUME Down PROVE Goal
    <2>1. UNCHANGED <<dir, file>>
      BY <1>25, DownDoes DEF ScanInv
    <2> QED BY <1>2, <2>1
  <1>26. ASSUME Start PROVE Goal
    <2>1. UNCHANGED <<dir, file>>
      BY <1>26, StartDoes DEF ScanInv
    <2> QED BY <1>2, <2>1
  <1>27. ASSUME Crash PROVE Goal
    <2>1. UNCHANGED <<dir, file>>
      BY <1>27, CrashDoes DEF ScanInv
    <2> QED BY <1>2, <2>1
  <1>28. CASE UNCHANGED vars
    BY <1>28, <1>2 DEF vars
  <1> QED BY <1>3, <1>4, <1>5, <1>6, <1>7, <1>8, <1>9, <1>10, <1>11, <1>12, <1>13,
             <1>14, <1>15, <1>16, <1>17, <1>18, <1>19, <1>20, <1>21, <1>22, <1>23,
             <1>24, <1>25, <1>26, <1>27, <1>28 DEF Next, Others, IntakeStep,
             WorkerStep

(* Without renames and rewrites afterwards there were none before.         *)
LEMMA PlainWas ==
    ASSUME ScanInv, Shapes', [Next]_vars
    PROVE  /\ used'.renames = 0 => used.renames = 0 /\ used'.renames = used.renames
           /\ Plain' =>
                 Plain /\ used'.renames = used.renames /\ used'.coarse = used.coarse
  <1>1. /\ used.renames \in Nat /\ used'.renames \in Nat
        /\ used.coarse \in Nat /\ used'.coarse \in Nat
    BY DEF ScanInv, Shapes, UsedOK, UsedT
  <1> QED BY <1>1, UsedGrows DEF Grows, Plain

(* Fits and At after the step, of a key from before it.                    *)
FitsLater(k, v) ==
    \A x \in Names :
       dir'[x] # NoFile /\ <<dir'[x], file'[dir'[x]].stamp>> = k =>
          (v = "infected" <=> file'[dir'[x]].bad)
AtLater(k, m) ==
    \A x \in Names : dir'[x] # NoFile /\ <<dir'[x], file'[dir'[x]].stamp>> = k => x = m

(* A verdict that was right stays right.                                   *)
LEMMA FitsStay ==
    ASSUME ScanInv, Shapes', [Next]_vars, Plain',
           NEW k \in Keys, k[2] <= used.stamps, NEW v, Fits(k, v)
    PROVE  FitsLater(k, v)
  <1>1. used'.renames = used.renames /\ used'.coarse = used.coarse
    BY PlainWas
  <1>2. ASSUME NEW x \in Names, dir'[x] # NoFile, <<dir'[x], file'[dir'[x]].stamp>> = k
        PROVE  v = "infected" <=> file'[dir'[x]].bad
    <2>1. Current(x, k)'
      BY <1>2 DEF Current, Key
    <2>2. Current(x, k) /\ SameBad(x)
      BY <1>1, <2>1, OldContentStays
    <2>3. v = "infected" <=> file[dir[x]].bad
      BY <2>2 DEF Fits
    <2> QED BY <2>2, <2>3 DEF SameBad
  <1> QED BY <1>2 DEF FitsLater

(* A key that was at no other path is at no other path later.              *)
LEMMA AtStays ==
    ASSUME ScanInv, Shapes', [Next]_vars, used'.renames = used.renames,
           NEW k \in Keys, k[2] <= used.stamps, NEW m, At(k, m)
    PROVE  AtLater(k, m)
  <1>1. ASSUME NEW x \in Names, dir'[x] # NoFile, <<dir'[x], file'[dir'[x]].stamp>> = k
        PROVE  x = m
    <2>1. Current(x, k)'
      BY <1>1 DEF Current, Key
    <2> QED BY <2>1, OldContentStays DEF At
  <1> QED BY <1>1 DEF AtLater

(* The key of the inode that a path names is at no other path.             *)
LEMMA KeyIsAt ==
    ASSUME ScanInv, NEW f \in Files, NEW n \in Names, dir[n] = f
    PROVE  At(Key(f), n)
  <1>1. ASSUME NEW x \in Names, Current(x, Key(f)) PROVE x = n
    <2>1. Key(f) \in Keys /\ Key(f)[1] = f
      BY KeyIs DEF ScanInv
    <2>2. dir[x] = f
      BY <1>1, <2>1, CurrentIs DEF ScanInv
    <2> QED BY <2>2 DEF ScanInv, Single
  <1> QED BY <1>1 DEF At

-----------------------------------------------------------------------------
(* What was handed over keeps to its path.                                 *)

(* Renames included: what is current later under a path it was handed over *)
(* with was so before.                                                     *)
LEMMA ToldContentStays ==
    ASSUME ScanInv, Shapes', [Next]_vars, NEW t \in told, t \in told',
           NEW x \in Names, Current(x, t[2])'
    PROVE  Current(t[1], t[2]) /\ x = t[1]
  <1>0. t[1] \in Names /\ t[2] \in Keys /\ t[2][2] <= used.stamps
    BY DEF ScanInv, Shapes, HistoryOK, Stamped, ToldStamps
  <1>1. CASE used'.renames = used.renames
    <2>1. Current(x, t[2])
      BY <1>0, <1>1, OldContentStays
    <2> QED BY <1>0, <2>1 DEF ScanInv, Placed
  <1>2. CASE used'.renames # used.renames
    <2>1. PICK n \in Names, m \in Names : Rename(n, m)
      <3>1. \A f \in Files, n \in Names, b \in BOOLEAN : CloseWrite(n, f, b) =>
               FALSE
        BY <1>2, CloseWriteDoes DEF ScanInv

      <3>2. \A n \in Names, kind \in {"open", "exec"} : Use(n, kind) => FALSE
        BY <1>2, UseDoes DEF ScanInv
      <3>3. Vanished => FALSE
        BY <1>2, VanishedDoes DEF ScanInv
      <3>4. \A f \in Files, n \in Names : Written(f, n) => FALSE
        BY <1>2, WrittenDoes DEF ScanInv
      <3>5. \A f \in Files, n \in Names : Opened(f, n) => FALSE
        BY <1>2, OpenedDoes DEF ScanInv
      <3>6. \A f \in Files, n \in Names : ExecKnown(f, n) => FALSE
        BY <1>2, ExecKnownDoes DEF ScanInv
      <3>7. \A f \in Files, n \in Names : ExecOverBudget(f, n) => FALSE
        BY <1>2, ExecOverBudgetDoes DEF ScanInv
      <3>8. \A f \in Files, n \in Names : ExecAsk(f, n) => FALSE
        BY <1>2, ExecAskDoes DEF ScanInv
      <3>9. GateScan => FALSE
        BY <1>2, GateScanDoes DEF ScanInv
      <3>10. GateAnswer => FALSE
        BY <1>2, GateAnswerDoes DEF ScanInv
      <3>11. \A w \in Workers : TakeFollowUp(w) => FALSE
        BY <1>2, TakeFollowUpDoes DEF ScanInv
      <3>12. \A w \in Workers, n \in Names : TakeScan(w, n) => FALSE
        BY <1>2, TakeScanDoes DEF ScanInv
      <3>13. \A w \in Workers : Look(w) => FALSE
        BY <1>2, LookDoes DEF ScanInv
      <3>14. \A w \in Workers : Scan(w) => FALSE
        BY <1>2, ScanDoes DEF ScanInv
      <3>15. \A w \in Workers : SettleInfected(w) => FALSE
        BY <1>2, SettleInfectedDoes DEF ScanInv
      <3>16. \A w \in Workers : SettleClean(w) => FALSE
        BY <1>2, SettleCleanDoes DEF ScanInv
      <3>17. \A w \in Workers : SettleFailed(w) => FALSE
        BY <1>2, SettleFailedDoes DEF ScanInv
      <3>18. \A w \in Workers : Act(w) => FALSE
        BY <1>2, ActDoes DEF ScanInv
      <3>19. \A w \in Workers : Move(w) => FALSE
        BY <1>2, MoveDoes DEF ScanInv
      <3>20. SaveCache => FALSE
        BY <1>2, SaveCacheDoes DEF ScanInv
      <3>21. Stop => FALSE
        BY <1>2, StopDoes DEF ScanInv
      <3>22. Down => FALSE
        BY <1>2, DownDoes DEF ScanInv
      <3>23. Start => FALSE
        BY <1>2, StartDoes DEF ScanInv
      <3>24. Crash => FALSE
        BY <1>2, CrashDoes DEF ScanInv
      <3>25. ~UNCHANGED vars
        BY <1>2 DEF vars
      <3> QED BY <3>1, <3>2, <3>3, <3>4, <3>5, <3>6, <3>7, <3>8, <3>9, <3>10, <3>11,
                 <3>12, <3>13, <3>14, <3>15, <3>16, <3>17, <3>18, <3>19, <3>20, <3>21,
                 <3>22, <3>23, <3>24, <3>25 DEF Next, Others, IntakeStep, WorkerStep
    <2>2. /\ n # m /\ dir[n] # NoFile /\ dir'[m] = dir[n] /\ dir'[n] = NoFile
          /\ \A y \in Names : y # n /\ y # m => dir'[y] = dir[y]
          /\ told' = {u \in told : u[1] # n} /\ UNCHANGED file
      BY <2>1, RenameDoes DEF ScanInv
    <2>3. t[1] # n
      BY <2>2
    <2>4. x # n
      BY <2>2 DEF Current
    <2>5. x # m
      <3>1. SUFFICES ASSUME x = m PROVE FALSE
        OBVIOUS
      <3>2. Current(n, t[2])
        BY <2>2, <3>1 DEF Current, Key
      <3> QED BY <2>3, <3>2 DEF ScanInv, Placed
    <2>6. Current(x, t[2])
      BY <2>2, <2>4, <2>5 DEF Current, Key
    <2> QED BY <2>6 DEF ScanInv, Placed
  <1> QED BY <1>1, <1>2

(* A pair is only added with a path that names the inode.                  *)
Fresh(t) == \E n \in Names, f \in Files : t = <<n, Key(f)>> /\ dir[n] = f
Adds == UNCHANGED <<dir, file>> /\ \A t \in told' : t \in told \/ Fresh(t)

(* Such a step keeps to the paths.                                         *)
LEMMA AddsPlaced ==
    ASSUME ScanInv, Shapes', [Next]_vars, Adds \/ told' \subseteq told
    PROVE  Placed'
  <1>1. ASSUME NEW t \in told', NEW x \in Names, Current(x, t[2])' PROVE x = t[1]
    <2>1. CASE t \in told
      BY <1>1, <2>1, ToldContentStays
    <2>2. CASE t \notin told
      <3>1. PICK n \in Names, f \in Files : t = <<n, Key(f)>> /\ dir[n] = f
        BY <2>2 DEF Adds, Fresh
      <3>2. Current(x, t[2])
        BY <1>1, <2>2 DEF Adds, Current, Key
      <3> QED BY <3>1, <3>2, KeyIsAt DEF At
    <2> QED BY <2>1, <2>2
  <1> QED BY <1>1 DEF Placed

(* So it does after every step.                                            *)
LEMMA PlacedStays ==
    ASSUME ScanInv, Shapes', [Next]_vars
    PROVE  Placed'
  <1>1. ASSUME NEW n \in Names, NEW f \in Files, NEW bad \in BOOLEAN, CloseWrite(n, f, bad)
        PROVE  Placed'
    <2>1. UNCHANGED <<told>>
      BY CloseWriteDoes, <1>1 DEF ScanInv
    <2> QED BY <2>1, AddsPlaced
  <1>2. ASSUME NEW n \in Names, NEW kind \in {"open", "exec"}, Use(n, kind)
        PROVE  Placed'
    <2>1. UNCHANGED <<told>>
      BY UseDoes, <1>2 DEF ScanInv
    <2> QED BY <2>1, AddsPlaced
  <1>3. ASSUME NEW n \in Names, NEW m \in Names, Rename(n, m) PROVE Placed'
    <2>1. told' \subseteq told
      BY <1>3, RenameDoes DEF ScanInv
    <2> QED BY <2>1, AddsPlaced
  <1>4. ASSUME Vanished PROVE Placed'
    <2>1. UNCHANGED <<told>>
      BY VanishedDoes, <1>4 DEF ScanInv
    <2> QED BY <2>1, AddsPlaced
  <1>5. ASSUME NEW f \in Files, NEW n \in Names, Written(f, n) PROVE Placed'
    <2>1. /\ dir[n] = f /\ UNCHANGED <<dir, file>>
          /\ told' \subseteq told \cup {<<n, Key(f)>>}
      BY <1>5, WrittenDoes DEF ScanInv
    <2>2. Adds
      BY <2>1 DEF Adds, Fresh
    <2> QED BY <2>2, AddsPlaced
  <1>6. ASSUME NEW f \in Files, NEW n \in Names, Opened(f, n) PROVE Placed'
    <2>1. /\ dir[n] = f /\ UNCHANGED <<dir, file>>
          /\ told' \subseteq told \cup {<<n, Key(f)>>}
      BY <1>6, OpenedDoes DEF ScanInv
    <2>2. Adds
      BY <2>1 DEF Adds, Fresh
    <2> QED BY <2>2, AddsPlaced
  <1>7. ASSUME NEW f \in Files, NEW n \in Names, ExecKnown(f, n) PROVE Placed'
    <2>1. UNCHANGED <<told>>
      BY ExecKnownDoes, <1>7 DEF ScanInv
    <2> QED BY <2>1, AddsPlaced
  <1>8. ASSUME NEW f \in Files, NEW n \in Names, ExecOverBudget(f, n) PROVE Placed'
    <2>1. /\ dir[n] = f /\ UNCHANGED <<dir, file>>
          /\ told' \subseteq told \cup {<<n, Key(f)>>}
      BY <1>8, ExecOverBudgetDoes DEF ScanInv
    <2>2. Adds
      BY <2>1 DEF Adds, Fresh
    <2> QED BY <2>2, AddsPlaced
  <1>9. ASSUME NEW f \in Files, NEW n \in Names, ExecAsk(f, n) PROVE Placed'
    <2>1. UNCHANGED <<told>>
      BY ExecAskDoes, <1>9 DEF ScanInv
    <2> QED BY <2>1, AddsPlaced
  <1>10. ASSUME GateScan PROVE Placed'
    <2>1. UNCHANGED <<told>>
      BY GateScanDoes, <1>10 DEF ScanInv
    <2> QED BY <2>1, AddsPlaced
  <1>11. ASSUME GateAnswer PROVE Placed'
    <2> DEFINE n == intake.name
               k == intake.key
    <2>1. /\ Asks /\ UNCHANGED <<dir, file>>
          /\ told' \subseteq told \cup {t \in {<<n, k>>} : dir[n] = k[1]}
      BY <1>11, GateAnswerDoes DEF ScanInv, Asks
    <2>2. n \in Names /\ k \in Keys
      BY <2>1, IntakeIs DEF ScanInv
    <2>3. ASSUME NEW x \in Names, NEW t \in told', t \notin told, Current(x, t[2])'
          PROVE  x = t[1]
      <3>1. t = <<n, k>> /\ dir[n] = k[1]
        BY <2>1, <2>3
      <3>2. Current(x, k)
        BY <2>1, <2>3, <3>1 DEF Current, Key
      <3>3. dir[x] = k[1] /\ k[1] # NoFile
        BY <2>2, <3>2, CurrentIs, StampIs DEF ScanInv
      <3> QED BY <2>2, <3>1, <3>3 DEF ScanInv, Single
    <2> QED BY <2>3, ToldContentStays DEF Placed
  <1>12. ASSUME NEW w \in Workers, TakeFollowUp(w) PROVE Placed'
    <2>1. UNCHANGED <<told>>
      BY TakeFollowUpDoes, <1>12 DEF ScanInv
    <2> QED BY <2>1, AddsPlaced
  <1>13. ASSUME NEW w \in Workers, NEW n \in Names, TakeScan(w, n) PROVE Placed'
    <2>1. UNCHANGED <<told>>
      BY TakeScanDoes, <1>13 DEF ScanInv
    <2> QED BY <2>1, AddsPlaced
  <1>14. ASSUME NEW w \in Workers, Look(w) PROVE Placed'
    <2>1. told' \subseteq told
      BY <1>14, LookDoes DEF ScanInv
    <2> QED BY <2>1, AddsPlaced
  <1>15. ASSUME NEW w \in Workers, Scan(w) PROVE Placed'
    <2>1. UNCHANGED <<told>>
      BY ScanDoes, <1>15 DEF ScanInv
    <2> QED BY <2>1, AddsPlaced
  <1>16. ASSUME NEW w \in Workers, SettleInfected(w) PROVE Placed'
    <2>1. told' \subseteq told
      BY <1>16, SettleInfectedDoes DEF ScanInv
    <2> QED BY <2>1, AddsPlaced
  <1>17. ASSUME NEW w \in Workers, SettleClean(w) PROVE Placed'
    <2>1. told' \subseteq told
      BY <1>17, SettleCleanDoes DEF ScanInv
    <2> QED BY <2>1, AddsPlaced
  <1>18. ASSUME NEW w \in Workers, SettleFailed(w) PROVE Placed'
    <2>1. UNCHANGED <<told>>
      BY SettleFailedDoes, <1>18 DEF ScanInv
    <2> QED BY <2>1, AddsPlaced
  <1>19. ASSUME NEW w \in Workers, Act(w) PROVE Placed'
    <2>1. UNCHANGED <<told>>
      BY ActDoes, <1>19 DEF ScanInv
    <2> QED BY <2>1, AddsPlaced
  <1>20. ASSUME NEW w \in Workers, Move(w) PROVE Placed'
    <2>1. UNCHANGED <<told>>
      BY MoveDoes, <1>20 DEF ScanInv
    <2> QED BY <2>1, AddsPlaced
  <1>21. ASSUME SaveCache PROVE Placed'
    <2>1. UNCHANGED <<told>>
      BY SaveCacheDoes, <1>21 DEF ScanInv
    <2> QED BY <2>1, AddsPlaced
  <1>22. ASSUME Stop PROVE Placed'
    <2>1. UNCHANGED <<told>>
      BY StopDoes, <1>22 DEF ScanInv
    <2> QED BY <2>1, AddsPlaced
  <1>23. ASSUME Down PROVE Placed'
    <2>1. UNCHANGED <<told>>
      BY DownDoes, <1>23 DEF ScanInv
    <2> QED BY <2>1, AddsPlaced
  <1>24. ASSUME Start PROVE Placed'
    <2>1. UNCHANGED <<told>>
      BY StartDoes, <1>24 DEF ScanInv
    <2> QED BY <2>1, AddsPlaced
  <1>25. ASSUME Crash PROVE Placed'
    <2>1. told' \subseteq told
      BY <1>25, CrashDoes DEF ScanInv
    <2> QED BY <2>1, AddsPlaced
  <1>26. CASE UNCHANGED vars
    <2>1. UNCHANGED <<told>>
      BY <1>26 DEF vars
    <2> QED BY <2>1, AddsPlaced
  <1> QED BY <1>1, <1>2, <1>3, <1>4, <1>5, <1>6, <1>7, <1>8, <1>9, <1>10, <1>11,
             <1>12, <1>13, <1>14, <1>15, <1>16, <1>17, <1>18, <1>19, <1>20, <1>21,
             <1>22, <1>23, <1>24, <1>25, <1>26 DEF Next, Others, IntakeStep,
             WorkerStep

-----------------------------------------------------------------------------
(* The keys that threads hold are at their paths.                          *)

(* The gate's is.                                                          *)
LEMMA GateHomedStays ==
    ASSUME ScanInv, Shapes', [Next]_vars
    PROVE  GateHomed'
  <1>1. ASSUME NEW n \in Names, NEW f \in Files, NEW bad \in BOOLEAN, CloseWrite(n, f, bad)
        PROVE  GateHomed'
    <2>1. UNCHANGED <<intake>>
      BY CloseWriteDoes, <1>1 DEF ScanInv
    <2>2. used'.renames = 0 /\ Asks => AtLater(intake.key, intake.name)
      BY PlainWas, HeldAreOld, AtStays DEF ScanInv, Homed, GateHomed
    <2> QED BY <2>1, <2>2 DEF GateHomed, Asks, AtLater, At, Current, Key
  <1>2. ASSUME NEW n \in Names, NEW kind \in {"open", "exec"}, Use(n, kind)
        PROVE  GateHomed'
    <2>1. UNCHANGED <<intake>>
      BY UseDoes, <1>2 DEF ScanInv
    <2>2. used'.renames = 0 /\ Asks => AtLater(intake.key, intake.name)
      BY PlainWas, HeldAreOld, AtStays DEF ScanInv, Homed, GateHomed
    <2> QED BY <2>1, <2>2 DEF GateHomed, Asks, AtLater, At, Current, Key
  <1>3. ASSUME NEW n \in Names, NEW m \in Names, Rename(n, m) PROVE GateHomed'
    <2>1. UNCHANGED <<intake>>
      BY RenameDoes, <1>3 DEF ScanInv
    <2>2. used'.renames = 0 /\ Asks => AtLater(intake.key, intake.name)
      BY PlainWas, HeldAreOld, AtStays DEF ScanInv, Homed, GateHomed
    <2> QED BY <2>1, <2>2 DEF GateHomed, Asks, AtLater, At, Current, Key
  <1>4. ASSUME Vanished PROVE GateHomed'
    <2>1. UNCHANGED <<intake>>
      BY VanishedDoes, <1>4 DEF ScanInv
    <2>2. used'.renames = 0 /\ Asks => AtLater(intake.key, intake.name)
      BY PlainWas, HeldAreOld, AtStays DEF ScanInv, Homed, GateHomed
    <2> QED BY <2>1, <2>2 DEF GateHomed, Asks, AtLater, At, Current, Key
  <1>5. ASSUME NEW f \in Files, NEW n \in Names, Written(f, n) PROVE GateHomed'
    <2>1. UNCHANGED <<intake>>
      BY WrittenDoes, <1>5 DEF ScanInv
    <2>2. used'.renames = 0 /\ Asks => AtLater(intake.key, intake.name)
      BY PlainWas, HeldAreOld, AtStays DEF ScanInv, Homed, GateHomed
    <2> QED BY <2>1, <2>2 DEF GateHomed, Asks, AtLater, At, Current, Key
  <1>6. ASSUME NEW f \in Files, NEW n \in Names, Opened(f, n) PROVE GateHomed'
    <2>1. UNCHANGED <<intake>>
      BY OpenedDoes, <1>6 DEF ScanInv
    <2>2. used'.renames = 0 /\ Asks => AtLater(intake.key, intake.name)
      BY PlainWas, HeldAreOld, AtStays DEF ScanInv, Homed, GateHomed
    <2> QED BY <2>1, <2>2 DEF GateHomed, Asks, AtLater, At, Current, Key
  <1>7. ASSUME NEW f \in Files, NEW n \in Names, ExecKnown(f, n) PROVE GateHomed'
    <2>1. UNCHANGED <<intake>>
      BY ExecKnownDoes, <1>7 DEF ScanInv
    <2>2. used'.renames = 0 /\ Asks => AtLater(intake.key, intake.name)
      BY PlainWas, HeldAreOld, AtStays DEF ScanInv, Homed, GateHomed
    <2> QED BY <2>1, <2>2 DEF GateHomed, Asks, AtLater, At, Current, Key
  <1>8. ASSUME NEW f \in Files, NEW n \in Names, ExecOverBudget(f, n)
        PROVE  GateHomed'
    <2>1. UNCHANGED <<intake>>
      BY ExecOverBudgetDoes, <1>8 DEF ScanInv
    <2>2. used'.renames = 0 /\ Asks => AtLater(intake.key, intake.name)
      BY PlainWas, HeldAreOld, AtStays DEF ScanInv, Homed, GateHomed
    <2> QED BY <2>1, <2>2 DEF GateHomed, Asks, AtLater, At, Current, Key
  <1>9. ASSUME NEW f \in Files, NEW n \in Names, ExecAsk(f, n) PROVE GateHomed'
    <2>1. dir[n] = f /\ intake'.key = Key(f) /\ intake'.name = n /\ UNCHANGED used
      BY <1>9, ExecAskDoes DEF ScanInv
    <2>2. At(Key(f), n)
      BY <2>1, KeyIsAt
    <2>3. AtLater(Key(f), n)
      BY <2>1, <2>2, HeldAreOld, AtStays
    <2> QED BY <2>1, <2>3 DEF GateHomed, AtLater, At, Current, Key
  <1>10. ASSUME GateScan PROVE GateHomed'
    <2>1. Asks /\ intake'.key = intake.key /\ intake'.name = intake.name
      BY <1>10, GateScanDoes DEF ScanInv, Asks
    <2>2. used'.renames = 0 => AtLater(intake.key, intake.name)
      BY <2>1, PlainWas, HeldAreOld, AtStays DEF ScanInv, Homed, GateHomed
    <2> QED BY <2>1, <2>2 DEF GateHomed, AtLater, At, Current, Key
  <1>11. ASSUME GateAnswer PROVE GateHomed'
    <2>1. intake' = IdleIntake
      BY <1>11, GateAnswerDoes DEF ScanInv
    <2> QED BY <2>1 DEF GateHomed, Asks, IdleIntake
  <1>12. ASSUME NEW w \in Workers, TakeFollowUp(w) PROVE GateHomed'
    <2>1. UNCHANGED <<intake>>
      BY TakeFollowUpDoes, <1>12 DEF ScanInv
    <2>2. used'.renames = 0 /\ Asks => AtLater(intake.key, intake.name)
      BY PlainWas, HeldAreOld, AtStays DEF ScanInv, Homed, GateHomed
    <2> QED BY <2>1, <2>2 DEF GateHomed, Asks, AtLater, At, Current, Key
  <1>13. ASSUME NEW w \in Workers, NEW n \in Names, TakeScan(w, n) PROVE GateHomed'
    <2>1. UNCHANGED <<intake>>
      BY TakeScanDoes, <1>13 DEF ScanInv
    <2>2. used'.renames = 0 /\ Asks => AtLater(intake.key, intake.name)
      BY PlainWas, HeldAreOld, AtStays DEF ScanInv, Homed, GateHomed
    <2> QED BY <2>1, <2>2 DEF GateHomed, Asks, AtLater, At, Current, Key
  <1>14. ASSUME NEW w \in Workers, Look(w) PROVE GateHomed'
    <2>1. UNCHANGED <<intake>>
      BY LookDoes, <1>14 DEF ScanInv
    <2>2. used'.renames = 0 /\ Asks => AtLater(intake.key, intake.name)
      BY PlainWas, HeldAreOld, AtStays DEF ScanInv, Homed, GateHomed
    <2> QED BY <2>1, <2>2 DEF GateHomed, Asks, AtLater, At, Current, Key
  <1>15. ASSUME NEW w \in Workers, Scan(w) PROVE GateHomed'
    <2>1. UNCHANGED <<intake>>
      BY ScanDoes, <1>15 DEF ScanInv
    <2>2. used'.renames = 0 /\ Asks => AtLater(intake.key, intake.name)
      BY PlainWas, HeldAreOld, AtStays DEF ScanInv, Homed, GateHomed
    <2> QED BY <2>1, <2>2 DEF GateHomed, Asks, AtLater, At, Current, Key
  <1>16. ASSUME NEW w \in Workers, SettleInfected(w) PROVE GateHomed'
    <2>1. UNCHANGED <<intake>>
      BY SettleInfectedDoes, <1>16 DEF ScanInv
    <2>2. used'.renames = 0 /\ Asks => AtLater(intake.key, intake.name)
      BY PlainWas, HeldAreOld, AtStays DEF ScanInv, Homed, GateHomed
    <2> QED BY <2>1, <2>2 DEF GateHomed, Asks, AtLater, At, Current, Key
  <1>17. ASSUME NEW w \in Workers, SettleClean(w) PROVE GateHomed'
    <2>1. UNCHANGED <<intake>>
      BY SettleCleanDoes, <1>17 DEF ScanInv
    <2>2. used'.renames = 0 /\ Asks => AtLater(intake.key, intake.name)
      BY PlainWas, HeldAreOld, AtStays DEF ScanInv, Homed, GateHomed
    <2> QED BY <2>1, <2>2 DEF GateHomed, Asks, AtLater, At, Current, Key
  <1>18. ASSUME NEW w \in Workers, SettleFailed(w) PROVE GateHomed'
    <2>1. UNCHANGED <<intake>>
      BY SettleFailedDoes, <1>18 DEF ScanInv
    <2>2. used'.renames = 0 /\ Asks => AtLater(intake.key, intake.name)
      BY PlainWas, HeldAreOld, AtStays DEF ScanInv, Homed, GateHomed
    <2> QED BY <2>1, <2>2 DEF GateHomed, Asks, AtLater, At, Current, Key
  <1>19. ASSUME NEW w \in Workers, Act(w) PROVE GateHomed'
    <2>1. UNCHANGED <<intake>>
      BY ActDoes, <1>19 DEF ScanInv
    <2>2. used'.renames = 0 /\ Asks => AtLater(intake.key, intake.name)
      BY PlainWas, HeldAreOld, AtStays DEF ScanInv, Homed, GateHomed
    <2> QED BY <2>1, <2>2 DEF GateHomed, Asks, AtLater, At, Current, Key
  <1>20. ASSUME NEW w \in Workers, Move(w) PROVE GateHomed'
    <2>1. UNCHANGED <<intake>>
      BY MoveDoes, <1>20 DEF ScanInv
    <2>2. used'.renames = 0 /\ Asks => AtLater(intake.key, intake.name)
      BY PlainWas, HeldAreOld, AtStays DEF ScanInv, Homed, GateHomed
    <2> QED BY <2>1, <2>2 DEF GateHomed, Asks, AtLater, At, Current, Key
  <1>21. ASSUME SaveCache PROVE GateHomed'
    <2>1. UNCHANGED <<intake>>
      BY SaveCacheDoes, <1>21 DEF ScanInv
    <2>2. used'.renames = 0 /\ Asks => AtLater(intake.key, intake.name)
      BY PlainWas, HeldAreOld, AtStays DEF ScanInv, Homed, GateHomed
    <2> QED BY <2>1, <2>2 DEF GateHomed, Asks, AtLater, At, Current, Key
  <1>22. ASSUME Stop PROVE GateHomed'
    <2>1. UNCHANGED <<intake>>
      BY StopDoes, <1>22 DEF ScanInv
    <2>2. used'.renames = 0 /\ Asks => AtLater(intake.key, intake.name)
      BY PlainWas, HeldAreOld, AtStays DEF ScanInv, Homed, GateHomed
    <2> QED BY <2>1, <2>2 DEF GateHomed, Asks, AtLater, At, Current, Key
  <1>23. ASSUME Down PROVE GateHomed'
    <2>1. UNCHANGED <<intake>>
      BY DownDoes, <1>23 DEF ScanInv
    <2>2. used'.renames = 0 /\ Asks => AtLater(intake.key, intake.name)
      BY PlainWas, HeldAreOld, AtStays DEF ScanInv, Homed, GateHomed
    <2> QED BY <2>1, <2>2 DEF GateHomed, Asks, AtLater, At, Current, Key
  <1>24. ASSUME Start PROVE GateHomed'
    <2>1. UNCHANGED <<intake>>
      BY StartDoes, <1>24 DEF ScanInv
    <2>2. used'.renames = 0 /\ Asks => AtLater(intake.key, intake.name)
      BY PlainWas, HeldAreOld, AtStays DEF ScanInv, Homed, GateHomed
    <2> QED BY <2>1, <2>2 DEF GateHomed, Asks, AtLater, At, Current, Key
  <1>25. ASSUME Crash PROVE GateHomed'
    <2>1. intake' = IdleIntake
      BY <1>25, CrashDoes DEF ScanInv
    <2> QED BY <2>1 DEF GateHomed, Asks, IdleIntake
  <1>26. CASE UNCHANGED vars
    <2>1. UNCHANGED <<intake>>
      BY <1>26 DEF vars
    <2>2. used'.renames = 0 /\ Asks => AtLater(intake.key, intake.name)
      BY PlainWas, HeldAreOld, AtStays DEF ScanInv, Homed, GateHomed
    <2> QED BY <2>1, <2>2 DEF GateHomed, Asks, AtLater, At, Current, Key
  <1> QED BY <1>1, <1>2, <1>3, <1>4, <1>5, <1>6, <1>7, <1>8, <1>9, <1>10, <1>11,
             <1>12, <1>13, <1>14, <1>15, <1>16, <1>17, <1>18, <1>19, <1>20, <1>21,
             <1>22, <1>23, <1>24, <1>25, <1>26 DEF Next, Others, IntakeStep,
             WorkerStep

(* A worker keeps its key and its path, or takes both from the directory.  *)
TookBoth(w) ==
    \/ worker'[w].at \notin {"scan", "settle"}
    \/ Holds(w) /\ worker'[w].key = worker[w].key /\ worker'[w].name = worker[w].name
    \/ \E f \in Files, n \in Names :
          dir[n] = f /\ worker'[w].key = Key(f) /\ worker'[w].name = n

(* So the workers' keys are at their paths.                                *)
LEMMA TakenAreHomed ==
    ASSUME ScanInv, Shapes', [Next]_vars, \A w \in Workers : TookBoth(w)
    PROVE  WorkersHomed'
  <1>1. ASSUME used'.renames = 0, NEW w \in Workers, Holds(w)'
        PROVE  At(worker[w].key, worker[w].name)'
    <2>1. used.renames = 0 /\ used'.renames = used.renames
      BY <1>1, PlainWas
    <2>2. CASE /\ Holds(w) /\ worker'[w].key = worker[w].key
               /\ worker'[w].name = worker[w].name
      <3>1. At(worker[w].key, worker[w].name)
        BY <2>1, <2>2 DEF ScanInv, Homed, WorkersHomed
      <3>2. AtLater(worker[w].key, worker[w].name)
        BY <2>1, <2>2, <3>1, HeldAreOld, AtStays
      <3> QED BY <2>2, <3>2 DEF AtLater, At, Current, Key
    <2>3. CASE \E f \in Files, n \in Names :
                  dir[n] = f /\ worker'[w].key = Key(f) /\ worker'[w].name = n
      <3>1. PICK f \in Files, n \in Names :
                  dir[n] = f /\ worker'[w].key = Key(f) /\ worker'[w].name = n
        BY <2>3
      <3>2. AtLater(Key(f), n)
        BY <2>1, <3>1, KeyIsAt, HeldAreOld, AtStays
      <3> QED BY <3>1, <3>2 DEF AtLater, At, Current, Key
    <2> QED BY <1>1, <2>2, <2>3 DEF TookBoth, Holds
  <1> QED BY <1>1 DEF WorkersHomed

(* The workers' are.                                                       *)
LEMMA WorkersHomedStays ==
    ASSUME ScanInv, Shapes', [Next]_vars
    PROVE  WorkersHomed'
  <1>1. ASSUME NEW n \in Names, NEW f \in Files, NEW bad \in BOOLEAN, CloseWrite(n, f, bad)
        PROVE  WorkersHomed'
    <2>1. UNCHANGED <<worker>>
      BY CloseWriteDoes, <1>1 DEF ScanInv
    <2>2. \A w \in Workers : TookBoth(w)
      BY <2>1 DEF TookBoth, Holds
    <2> QED BY <2>2, TakenAreHomed
  <1>2. ASSUME NEW n \in Names, NEW kind \in {"open", "exec"}, Use(n, kind)
        PROVE  WorkersHomed'
    <2>1. UNCHANGED <<worker>>
      BY UseDoes, <1>2 DEF ScanInv
    <2>2. \A w \in Workers : TookBoth(w)
      BY <2>1 DEF TookBoth, Holds
    <2> QED BY <2>2, TakenAreHomed
  <1>3. ASSUME NEW n \in Names, NEW m \in Names, Rename(n, m) PROVE WorkersHomed'
    <2>1. UNCHANGED <<worker>>
      BY RenameDoes, <1>3 DEF ScanInv
    <2>2. \A w \in Workers : TookBoth(w)
      BY <2>1 DEF TookBoth, Holds
    <2> QED BY <2>2, TakenAreHomed
  <1>4. ASSUME Vanished PROVE WorkersHomed'
    <2>1. UNCHANGED <<worker>>
      BY VanishedDoes, <1>4 DEF ScanInv
    <2>2. \A w \in Workers : TookBoth(w)
      BY <2>1 DEF TookBoth, Holds
    <2> QED BY <2>2, TakenAreHomed
  <1>5. ASSUME NEW f \in Files, NEW n \in Names, Written(f, n) PROVE WorkersHomed'
    <2>1. UNCHANGED <<worker>>
      BY WrittenDoes, <1>5 DEF ScanInv
    <2>2. \A w \in Workers : TookBoth(w)
      BY <2>1 DEF TookBoth, Holds
    <2> QED BY <2>2, TakenAreHomed
  <1>6. ASSUME NEW f \in Files, NEW n \in Names, Opened(f, n) PROVE WorkersHomed'
    <2>1. UNCHANGED <<worker>>
      BY OpenedDoes, <1>6 DEF ScanInv
    <2>2. \A w \in Workers : TookBoth(w)
      BY <2>1 DEF TookBoth, Holds
    <2> QED BY <2>2, TakenAreHomed
  <1>7. ASSUME NEW f \in Files, NEW n \in Names, ExecKnown(f, n) PROVE WorkersHomed'
    <2>1. UNCHANGED <<worker>>
      BY ExecKnownDoes, <1>7 DEF ScanInv
    <2>2. \A w \in Workers : TookBoth(w)
      BY <2>1 DEF TookBoth, Holds
    <2> QED BY <2>2, TakenAreHomed
  <1>8. ASSUME NEW f \in Files, NEW n \in Names, ExecOverBudget(f, n)
        PROVE  WorkersHomed'
    <2>1. UNCHANGED <<worker>>
      BY ExecOverBudgetDoes, <1>8 DEF ScanInv
    <2>2. \A w \in Workers : TookBoth(w)
      BY <2>1 DEF TookBoth, Holds
    <2> QED BY <2>2, TakenAreHomed
  <1>9. ASSUME NEW f \in Files, NEW n \in Names, ExecAsk(f, n) PROVE WorkersHomed'
    <2>1. UNCHANGED <<worker>>
      BY ExecAskDoes, <1>9 DEF ScanInv
    <2>2. \A w \in Workers : TookBoth(w)
      BY <2>1 DEF TookBoth, Holds
    <2> QED BY <2>2, TakenAreHomed
  <1>10. ASSUME GateScan PROVE WorkersHomed'
    <2>1. UNCHANGED <<worker>>
      BY GateScanDoes, <1>10 DEF ScanInv
    <2>2. \A w \in Workers : TookBoth(w)
      BY <2>1 DEF TookBoth, Holds
    <2> QED BY <2>2, TakenAreHomed
  <1>11. ASSUME GateAnswer PROVE WorkersHomed'
    <2>1. UNCHANGED <<worker>>
      BY GateAnswerDoes, <1>11 DEF ScanInv
    <2>2. \A w \in Workers : TookBoth(w)
      BY <2>1 DEF TookBoth, Holds
    <2> QED BY <2>2, TakenAreHomed
  <1>12. ASSUME NEW w \in Workers, TakeFollowUp(w) PROVE WorkersHomed'
    <2>1. TookBoth(w)
      BY <1>12, TakeFollowUpDoes DEF ScanInv, TookBoth, IdleWorker
    <2>2. \A v \in Workers : v # w => TookBoth(v)
      BY <1>12, TakeFollowUpDoes DEF ScanInv, TookBoth, Holds
    <2> QED BY <2>1, <2>2, TakenAreHomed
  <1>13. ASSUME NEW w \in Workers, NEW n \in Names, TakeScan(w, n)
         PROVE  WorkersHomed'
    <2>1. TookBoth(w)
      BY <1>13, TakeScanDoes DEF ScanInv, TookBoth, IdleWorker
    <2>2. \A v \in Workers : v # w => TookBoth(v)
      BY <1>13, TakeScanDoes DEF ScanInv, TookBoth, Holds
    <2> QED BY <2>1, <2>2, TakenAreHomed
  <1>14. ASSUME NEW w \in Workers, Look(w) PROVE WorkersHomed'
    <2> DEFINE f == dir[worker[w].name]
    <2>0. worker[w].name \in Names /\ worker[w] \in WorkerT
      BY <1>14, LookDoes, WorkerIs DEF ScanInv
    <2>3. \/ worker'[w] = IdleWorker
          \/ f \in Files /\ worker'[w] = [worker[w] EXCEPT !.at = "scan",
                                                           !.key = Key(f)]
      BY <1>14, LookDoes DEF ScanInv
    <2>1. TookBoth(w)
      <3>1. CASE worker'[w] = IdleWorker
        BY <3>1 DEF TookBoth, IdleWorker
      <3>2. CASE worker'[w] # IdleWorker
        <4>1. /\ f \in Files /\ worker'[w].key = Key(f)
              /\ worker'[w].name = worker[w].name
          BY <2>0, <2>3, <3>2 DEF WorkerT
        <4> QED BY <2>0, <4>1 DEF TookBoth
      <3> QED BY <3>1, <3>2
    <2>2. \A v \in Workers : v # w => TookBoth(v)
      BY <1>14, LookDoes DEF ScanInv, TookBoth, Holds
    <2> QED BY <2>1, <2>2, TakenAreHomed
  <1>15. ASSUME NEW w \in Workers, Scan(w) PROVE WorkersHomed'
    <2>1. TookBoth(w)
      BY <1>15, ScanDoes DEF ScanInv, TookBoth, Holds
    <2>2. \A v \in Workers : v # w => TookBoth(v)
      BY <1>15, ScanDoes DEF ScanInv, TookBoth, Holds
    <2> QED BY <2>1, <2>2, TakenAreHomed
  <1>16. ASSUME NEW w \in Workers, SettleInfected(w) PROVE WorkersHomed'
    <2>0. worker[w] \in WorkerT
      BY WorkerIs DEF ScanInv
    <2>3. worker'[w] = IdleWorker \/ worker'[w] = [worker[w] EXCEPT !.at = "act",
                                                                    !.kind = "detected"]
      BY <1>16, SettleInfectedDoes DEF ScanInv
    <2>4. worker'[w].at \notin {"scan", "settle"}
      <3>1. CASE worker'[w] = IdleWorker
        BY <3>1 DEF IdleWorker
      <3>2. CASE worker'[w] # IdleWorker
        BY <2>0, <2>3, <3>2 DEF WorkerT
      <3> QED BY <3>1, <3>2
    <2>1. TookBoth(w)
      BY <2>4 DEF TookBoth
    <2>2. \A v \in Workers : v # w => TookBoth(v)
      BY <1>16, SettleInfectedDoes DEF ScanInv, TookBoth, Holds
    <2> QED BY <2>1, <2>2, TakenAreHomed
  <1>17. ASSUME NEW w \in Workers, SettleClean(w) PROVE WorkersHomed'
    <2>1. TookBoth(w)
      BY <1>17, SettleCleanDoes DEF ScanInv, TookBoth, IdleWorker
    <2>2. \A v \in Workers : v # w => TookBoth(v)
      BY <1>17, SettleCleanDoes DEF ScanInv, TookBoth, Holds
    <2> QED BY <2>1, <2>2, TakenAreHomed
  <1>18. ASSUME NEW w \in Workers, SettleFailed(w) PROVE WorkersHomed'
    <2>1. TookBoth(w)
      BY <1>18, SettleFailedDoes DEF ScanInv, TookBoth, IdleWorker
    <2>2. \A v \in Workers : v # w => TookBoth(v)
      BY <1>18, SettleFailedDoes DEF ScanInv, TookBoth, Holds
    <2> QED BY <2>1, <2>2, TakenAreHomed
  <1>19. ASSUME NEW w \in Workers, Act(w) PROVE WorkersHomed'
    <2>0. worker[w] \in WorkerT
      BY WorkerIs DEF ScanInv
    <2>3. worker'[w] = IdleWorker \/ worker'[w] = [worker[w] EXCEPT !.at = "move"]
      BY <1>19, ActDoes DEF ScanInv
    <2>4. worker'[w].at \notin {"scan", "settle"}
      <3>1. CASE worker'[w] = IdleWorker
        BY <3>1 DEF IdleWorker
      <3>2. CASE worker'[w] # IdleWorker
        BY <2>0, <2>3, <3>2 DEF WorkerT
      <3> QED BY <3>1, <3>2
    <2>1. TookBoth(w)
      BY <2>4 DEF TookBoth
    <2>2. \A v \in Workers : v # w => TookBoth(v)
      BY <1>19, ActDoes DEF ScanInv, TookBoth, Holds
    <2> QED BY <2>1, <2>2, TakenAreHomed
  <1>20. ASSUME NEW w \in Workers, Move(w) PROVE WorkersHomed'
    <2>1. TookBoth(w)
      BY <1>20, MoveDoes DEF ScanInv, TookBoth, IdleWorker
    <2>2. \A v \in Workers : v # w => TookBoth(v)
      BY <1>20, MoveDoes DEF ScanInv, TookBoth, Holds
    <2> QED BY <2>1, <2>2, TakenAreHomed
  <1>21. ASSUME SaveCache PROVE WorkersHomed'
    <2>1. UNCHANGED <<worker>>
      BY SaveCacheDoes, <1>21 DEF ScanInv
    <2>2. \A w \in Workers : TookBoth(w)
      BY <2>1 DEF TookBoth, Holds
    <2> QED BY <2>2, TakenAreHomed
  <1>22. ASSUME Stop PROVE WorkersHomed'
    <2>1. UNCHANGED <<worker>>
      BY StopDoes, <1>22 DEF ScanInv
    <2>2. \A w \in Workers : TookBoth(w)
      BY <2>1 DEF TookBoth, Holds
    <2> QED BY <2>2, TakenAreHomed
  <1>23. ASSUME Down PROVE WorkersHomed'
    <2>1. UNCHANGED <<worker>>
      BY DownDoes, <1>23 DEF ScanInv
    <2>2. \A w \in Workers : TookBoth(w)
      BY <2>1 DEF TookBoth, Holds
    <2> QED BY <2>2, TakenAreHomed
  <1>24. ASSUME Start PROVE WorkersHomed'
    <2>1. UNCHANGED <<worker>>
      BY StartDoes, <1>24 DEF ScanInv
    <2>2. \A w \in Workers : TookBoth(w)
      BY <2>1 DEF TookBoth, Holds
    <2> QED BY <2>2, TakenAreHomed
  <1>25. ASSUME Crash PROVE WorkersHomed'
    <2>1. \A w \in Workers : worker'[w] = IdleWorker
      BY <1>25, CrashDoes DEF ScanInv
    <2>2. \A w \in Workers : TookBoth(w)
      BY <2>1 DEF TookBoth, IdleWorker
    <2> QED BY <2>2, TakenAreHomed
  <1>26. CASE UNCHANGED vars
    <2>1. UNCHANGED <<worker>>
      BY <1>26 DEF vars
    <2>2. \A w \in Workers : TookBoth(w)
      BY <2>1 DEF TookBoth, Holds
    <2> QED BY <2>2, TakenAreHomed
  <1> QED BY <1>1, <1>2, <1>3, <1>4, <1>5, <1>6, <1>7, <1>8, <1>9, <1>10, <1>11,
             <1>12, <1>13, <1>14, <1>15, <1>16, <1>17, <1>18, <1>19, <1>20, <1>21,
             <1>22, <1>23, <1>24, <1>25, <1>26 DEF Next, Others, IntakeStep,
             WorkerStep

-----------------------------------------------------------------------------
(* The verdicts are right.                                                 *)

(* A cache whose entries are right verdicts of old keys is right later.    *)
RightFor(c) ==
    Plain => \A k \in Keys : c[k] # "none" => k[2] <= used.stamps /\ Fits(k, c[k])

(* Such a cache is right after a step.                                     *)
LEMMA RightForStays ==
    ASSUME ScanInv, Shapes', [Next]_vars, NEW c, RightFor(c)
    PROVE  Plain' => \A k \in Keys : c[k] # "none" => FitsLater(k, c[k])
  BY PlainWas, FitsStay DEF RightFor

(* The cache and its file are such caches.                                 *)
LEMMA RightNow ==
    ASSUME ScanInv
    PROVE  RightFor(cache) /\ RightFor(saved)
  BY DEF ScanInv, Right, RightCache, RightSaved, Stamped, CacheStamps, SavedStamps, RightFor

(* Putting a right verdict keeps it right.                                 *)
LEMMA PutRight ==
    ASSUME ScanInv, Shapes', [Next]_vars, NEW k \in Keys, k[2] <= used.stamps,
           NEW v \in Sure, Plain => Fits(k, v), NEW c \in Put(k, v)
    PROVE  RightFor(c)
  <1>1. c[k] = v /\ \A j \in Keys : j # k => c[j] \in {cache[j], "none"}
    BY PutDoes DEF ScanInv
  <1> QED BY <1>1, RightNow DEF RightFor

(* Those in the cache are.                                                 *)
LEMMA RightCacheStays ==
    ASSUME ScanInv, Shapes', [Next]_vars
    PROVE  RightCache'
  <1>1. ASSUME NEW n \in Names, NEW f \in Files, NEW bad \in BOOLEAN, CloseWrite(n, f, bad)
        PROVE  RightCache'
    <2>1. UNCHANGED <<cache>>
      BY CloseWriteDoes, <1>1 DEF ScanInv
    <2> QED BY <2>1, RightNow, RightForStays DEF RightCache, FitsLater, Fits, Current, Key
  <1>2. ASSUME NEW n \in Names, NEW kind \in {"open", "exec"}, Use(n, kind)
        PROVE  RightCache'
    <2>1. UNCHANGED <<cache>>
      BY UseDoes, <1>2 DEF ScanInv
    <2> QED BY <2>1, RightNow, RightForStays DEF RightCache, FitsLater, Fits, Current, Key
  <1>3. ASSUME NEW n \in Names, NEW m \in Names, Rename(n, m) PROVE RightCache'
    <2>1. UNCHANGED <<cache>>
      BY RenameDoes, <1>3 DEF ScanInv
    <2> QED BY <2>1, RightNow, RightForStays DEF RightCache, FitsLater, Fits, Current, Key
  <1>4. ASSUME Vanished PROVE RightCache'
    <2>1. UNCHANGED <<cache>>
      BY VanishedDoes, <1>4 DEF ScanInv
    <2> QED BY <2>1, RightNow, RightForStays DEF RightCache, FitsLater, Fits, Current, Key
  <1>5. ASSUME NEW f \in Files, NEW n \in Names, Written(f, n) PROVE RightCache'
    <2>1. UNCHANGED <<cache>>
      BY WrittenDoes, <1>5 DEF ScanInv
    <2> QED BY <2>1, RightNow, RightForStays DEF RightCache, FitsLater, Fits, Current, Key
  <1>6. ASSUME NEW f \in Files, NEW n \in Names, Opened(f, n) PROVE RightCache'
    <2>1. UNCHANGED <<cache>>
      BY OpenedDoes, <1>6 DEF ScanInv
    <2> QED BY <2>1, RightNow, RightForStays DEF RightCache, FitsLater, Fits, Current, Key
  <1>7. ASSUME NEW f \in Files, NEW n \in Names, ExecKnown(f, n) PROVE RightCache'
    <2>1. UNCHANGED <<cache>>
      BY ExecKnownDoes, <1>7 DEF ScanInv
    <2> QED BY <2>1, RightNow, RightForStays DEF RightCache, FitsLater, Fits, Current, Key
  <1>8. ASSUME NEW f \in Files, NEW n \in Names, ExecOverBudget(f, n)
        PROVE  RightCache'
    <2>1. UNCHANGED <<cache>>
      BY ExecOverBudgetDoes, <1>8 DEF ScanInv
    <2> QED BY <2>1, RightNow, RightForStays DEF RightCache, FitsLater, Fits, Current, Key
  <1>9. ASSUME NEW f \in Files, NEW n \in Names, ExecAsk(f, n) PROVE RightCache'
    <2>1. UNCHANGED <<cache>>
      BY ExecAskDoes, <1>9 DEF ScanInv
    <2> QED BY <2>1, RightNow, RightForStays DEF RightCache, FitsLater, Fits, Current, Key
  <1>10. ASSUME GateScan PROVE RightCache'
    <2>1. UNCHANGED <<cache>>
      BY GateScanDoes, <1>10 DEF ScanInv
    <2> QED BY <2>1, RightNow, RightForStays DEF RightCache, FitsLater, Fits, Current, Key
  <1>11. ASSUME GateAnswer PROVE RightCache'
    <2>1. /\ intake.at = "answer"
          /\ \/ intake.outcome \in Sure /\ cache' \in Put(intake.key, intake.outcome)
             \/ UNCHANGED cache
      BY <1>11, GateAnswerDoes DEF ScanInv
    <2>2. RightFor(cache')
      <3>1. CASE /\ intake.outcome \in Sure
                 /\ cache' \in Put(intake.key, intake.outcome)
        <4>1. Plain => Fits(intake.key, intake.outcome)
          BY <2>1, <3>1 DEF ScanInv, Right, RightGate
        <4> QED BY <2>1, <3>1, <4>1, HeldAreOld, PutRight DEF Asks
      <3>2. CASE UNCHANGED cache
        BY <3>2, RightNow DEF RightFor
      <3> QED BY <2>1, <3>1, <3>2
    <2> QED BY <2>2, RightForStays DEF RightCache, FitsLater, Fits, Current, Key
  <1>12. ASSUME NEW w \in Workers, TakeFollowUp(w) PROVE RightCache'
    <2>1. UNCHANGED <<cache>>
      BY TakeFollowUpDoes, <1>12 DEF ScanInv
    <2> QED BY <2>1, RightNow, RightForStays DEF RightCache, FitsLater, Fits, Current, Key
  <1>13. ASSUME NEW w \in Workers, NEW n \in Names, TakeScan(w, n) PROVE RightCache'
    <2>1. UNCHANGED <<cache>>
      BY TakeScanDoes, <1>13 DEF ScanInv
    <2> QED BY <2>1, RightNow, RightForStays DEF RightCache, FitsLater, Fits, Current, Key
  <1>14. ASSUME NEW w \in Workers, Look(w) PROVE RightCache'
    <2>1. UNCHANGED <<cache>>
      BY LookDoes, <1>14 DEF ScanInv
    <2> QED BY <2>1, RightNow, RightForStays DEF RightCache, FitsLater, Fits, Current, Key
  <1>15. ASSUME NEW w \in Workers, Scan(w) PROVE RightCache'
    <2>1. UNCHANGED <<cache>>
      BY ScanDoes, <1>15 DEF ScanInv
    <2> QED BY <2>1, RightNow, RightForStays DEF RightCache, FitsLater, Fits, Current, Key
  <1>16. ASSUME NEW w \in Workers, SettleInfected(w) PROVE RightCache'
    <2> DEFINE k == worker[w].key
    <2>1. /\ worker[w].at = "settle" /\ worker[w].outcome = "infected"
          /\ cache' = [cache EXCEPT ![k] = "infected"] \/ UNCHANGED cache
      BY <1>16, SettleInfectedDoes DEF ScanInv
    <2>2. Plain => Fits(k, "infected")
      BY <2>1 DEF ScanInv, Right, RightWorkers, Sure
    <2>3. k \in Keys /\ k[2] <= used.stamps
      BY <2>1, HeldAreOld DEF Holds
    <2>4. \A j \in Keys : cache'[j] = cache[j] \/ (j = k /\ cache'[j] = "infected")
      BY <2>1, <2>3 DEF ScanInv, Shapes, CacheOK
    <2>5. RightFor(cache')
      BY <2>2, <2>3, <2>4, RightNow DEF RightFor
    <2> QED BY <2>5, RightForStays DEF RightCache, FitsLater, Fits, Current, Key
  <1>17. ASSUME NEW w \in Workers, SettleClean(w) PROVE RightCache'
    <2>1. /\ worker[w].at = "settle" /\ worker[w].outcome = "clean"
          /\ cache' \in Put(worker[w].key, "clean")
      BY <1>17, SettleCleanDoes DEF ScanInv
    <2>2. Plain => Fits(worker[w].key, "clean")
      BY <2>1 DEF ScanInv, Right, RightWorkers, Sure
    <2>3. RightFor(cache')
      BY <2>1, <2>2, HeldAreOld, PutRight DEF Holds, Sure
    <2> QED BY <2>3, RightForStays DEF RightCache, FitsLater, Fits, Current, Key
  <1>18. ASSUME NEW w \in Workers, SettleFailed(w) PROVE RightCache'
    <2>1. UNCHANGED <<cache>>
      BY SettleFailedDoes, <1>18 DEF ScanInv
    <2> QED BY <2>1, RightNow, RightForStays DEF RightCache, FitsLater, Fits, Current, Key
  <1>19. ASSUME NEW w \in Workers, Act(w) PROVE RightCache'
    <2>1. UNCHANGED <<cache>>
      BY ActDoes, <1>19 DEF ScanInv
    <2> QED BY <2>1, RightNow, RightForStays DEF RightCache, FitsLater, Fits, Current, Key
  <1>20. ASSUME NEW w \in Workers, Move(w) PROVE RightCache'
    <2>1. UNCHANGED <<cache>>
      BY MoveDoes, <1>20 DEF ScanInv
    <2> QED BY <2>1, RightNow, RightForStays DEF RightCache, FitsLater, Fits, Current, Key
  <1>21. ASSUME SaveCache PROVE RightCache'
    <2>1. UNCHANGED <<cache>>
      BY SaveCacheDoes, <1>21 DEF ScanInv
    <2> QED BY <2>1, RightNow, RightForStays DEF RightCache, FitsLater, Fits, Current, Key
  <1>22. ASSUME Stop PROVE RightCache'
    <2>1. UNCHANGED <<cache>>
      BY StopDoes, <1>22 DEF ScanInv
    <2> QED BY <2>1, RightNow, RightForStays DEF RightCache, FitsLater, Fits, Current, Key
  <1>23. ASSUME Down PROVE RightCache'
    <2>1. UNCHANGED <<cache>>
      BY DownDoes, <1>23 DEF ScanInv
    <2> QED BY <2>1, RightNow, RightForStays DEF RightCache, FitsLater, Fits, Current, Key
  <1>24. ASSUME Start PROVE RightCache'
    <2>1. cache' = saved
      BY <1>24, StartDoes DEF ScanInv
    <2> QED BY <2>1, RightNow, RightForStays DEF RightCache, FitsLater, Fits, Current, Key
  <1>25. ASSUME Crash PROVE RightCache'
    <2>1. cache' = saved
      BY <1>25, CrashDoes DEF ScanInv
    <2> QED BY <2>1, RightNow, RightForStays DEF RightCache, FitsLater, Fits, Current, Key
  <1>26. CASE UNCHANGED vars
    <2>1. UNCHANGED <<cache>>
      BY <1>26 DEF vars
    <2> QED BY <2>1, RightNow, RightForStays DEF RightCache, FitsLater, Fits, Current, Key
  <1> QED BY <1>1, <1>2, <1>3, <1>4, <1>5, <1>6, <1>7, <1>8, <1>9, <1>10, <1>11,
             <1>12, <1>13, <1>14, <1>15, <1>16, <1>17, <1>18, <1>19, <1>20, <1>21,
             <1>22, <1>23, <1>24, <1>25, <1>26 DEF Next, Others, IntakeStep,
             WorkerStep

(* Those in its file are.                                                  *)
LEMMA RightSavedStays ==
    ASSUME ScanInv, Shapes', [Next]_vars
    PROVE  RightSaved'
  <1>1. ASSUME NEW n \in Names, NEW f \in Files, NEW bad \in BOOLEAN, CloseWrite(n, f, bad)
        PROVE  RightSaved'
    <2>1. UNCHANGED <<saved>>
      BY CloseWriteDoes, <1>1 DEF ScanInv
    <2> QED BY <2>1, RightNow, RightForStays DEF RightSaved, FitsLater, Fits, Current, Key
  <1>2. ASSUME NEW n \in Names, NEW kind \in {"open", "exec"}, Use(n, kind)
        PROVE  RightSaved'
    <2>1. UNCHANGED <<saved>>
      BY UseDoes, <1>2 DEF ScanInv
    <2> QED BY <2>1, RightNow, RightForStays DEF RightSaved, FitsLater, Fits, Current, Key
  <1>3. ASSUME NEW n \in Names, NEW m \in Names, Rename(n, m) PROVE RightSaved'
    <2>1. UNCHANGED <<saved>>
      BY RenameDoes, <1>3 DEF ScanInv
    <2> QED BY <2>1, RightNow, RightForStays DEF RightSaved, FitsLater, Fits, Current, Key
  <1>4. ASSUME Vanished PROVE RightSaved'
    <2>1. UNCHANGED <<saved>>
      BY VanishedDoes, <1>4 DEF ScanInv
    <2> QED BY <2>1, RightNow, RightForStays DEF RightSaved, FitsLater, Fits, Current, Key
  <1>5. ASSUME NEW f \in Files, NEW n \in Names, Written(f, n) PROVE RightSaved'
    <2>1. UNCHANGED <<saved>>
      BY WrittenDoes, <1>5 DEF ScanInv
    <2> QED BY <2>1, RightNow, RightForStays DEF RightSaved, FitsLater, Fits, Current, Key
  <1>6. ASSUME NEW f \in Files, NEW n \in Names, Opened(f, n) PROVE RightSaved'
    <2>1. UNCHANGED <<saved>>
      BY OpenedDoes, <1>6 DEF ScanInv
    <2> QED BY <2>1, RightNow, RightForStays DEF RightSaved, FitsLater, Fits, Current, Key
  <1>7. ASSUME NEW f \in Files, NEW n \in Names, ExecKnown(f, n) PROVE RightSaved'
    <2>1. UNCHANGED <<saved>>
      BY ExecKnownDoes, <1>7 DEF ScanInv
    <2> QED BY <2>1, RightNow, RightForStays DEF RightSaved, FitsLater, Fits, Current, Key
  <1>8. ASSUME NEW f \in Files, NEW n \in Names, ExecOverBudget(f, n)
        PROVE  RightSaved'
    <2>1. UNCHANGED <<saved>>
      BY ExecOverBudgetDoes, <1>8 DEF ScanInv
    <2> QED BY <2>1, RightNow, RightForStays DEF RightSaved, FitsLater, Fits, Current, Key
  <1>9. ASSUME NEW f \in Files, NEW n \in Names, ExecAsk(f, n) PROVE RightSaved'
    <2>1. UNCHANGED <<saved>>
      BY ExecAskDoes, <1>9 DEF ScanInv
    <2> QED BY <2>1, RightNow, RightForStays DEF RightSaved, FitsLater, Fits, Current, Key
  <1>10. ASSUME GateScan PROVE RightSaved'
    <2>1. UNCHANGED <<saved>>
      BY GateScanDoes, <1>10 DEF ScanInv
    <2> QED BY <2>1, RightNow, RightForStays DEF RightSaved, FitsLater, Fits, Current, Key
  <1>11. ASSUME GateAnswer PROVE RightSaved'
    <2>1. UNCHANGED <<saved>>
      BY GateAnswerDoes, <1>11 DEF ScanInv
    <2> QED BY <2>1, RightNow, RightForStays DEF RightSaved, FitsLater, Fits, Current, Key
  <1>12. ASSUME NEW w \in Workers, TakeFollowUp(w) PROVE RightSaved'
    <2>1. UNCHANGED <<saved>>
      BY TakeFollowUpDoes, <1>12 DEF ScanInv
    <2> QED BY <2>1, RightNow, RightForStays DEF RightSaved, FitsLater, Fits, Current, Key
  <1>13. ASSUME NEW w \in Workers, NEW n \in Names, TakeScan(w, n) PROVE RightSaved'
    <2>1. UNCHANGED <<saved>>
      BY TakeScanDoes, <1>13 DEF ScanInv
    <2> QED BY <2>1, RightNow, RightForStays DEF RightSaved, FitsLater, Fits, Current, Key
  <1>14. ASSUME NEW w \in Workers, Look(w) PROVE RightSaved'
    <2>1. UNCHANGED <<saved>>
      BY LookDoes, <1>14 DEF ScanInv
    <2> QED BY <2>1, RightNow, RightForStays DEF RightSaved, FitsLater, Fits, Current, Key
  <1>15. ASSUME NEW w \in Workers, Scan(w) PROVE RightSaved'
    <2>1. UNCHANGED <<saved>>
      BY ScanDoes, <1>15 DEF ScanInv
    <2> QED BY <2>1, RightNow, RightForStays DEF RightSaved, FitsLater, Fits, Current, Key
  <1>16. ASSUME NEW w \in Workers, SettleInfected(w) PROVE RightSaved'
    <2>1. UNCHANGED <<saved>>
      BY SettleInfectedDoes, <1>16 DEF ScanInv
    <2> QED BY <2>1, RightNow, RightForStays DEF RightSaved, FitsLater, Fits, Current, Key
  <1>17. ASSUME NEW w \in Workers, SettleClean(w) PROVE RightSaved'
    <2>1. UNCHANGED <<saved>>
      BY SettleCleanDoes, <1>17 DEF ScanInv
    <2> QED BY <2>1, RightNow, RightForStays DEF RightSaved, FitsLater, Fits, Current, Key
  <1>18. ASSUME NEW w \in Workers, SettleFailed(w) PROVE RightSaved'
    <2>1. UNCHANGED <<saved>>
      BY SettleFailedDoes, <1>18 DEF ScanInv
    <2> QED BY <2>1, RightNow, RightForStays DEF RightSaved, FitsLater, Fits, Current, Key
  <1>19. ASSUME NEW w \in Workers, Act(w) PROVE RightSaved'
    <2>1. UNCHANGED <<saved>>
      BY ActDoes, <1>19 DEF ScanInv
    <2> QED BY <2>1, RightNow, RightForStays DEF RightSaved, FitsLater, Fits, Current, Key
  <1>20. ASSUME NEW w \in Workers, Move(w) PROVE RightSaved'
    <2>1. UNCHANGED <<saved>>
      BY MoveDoes, <1>20 DEF ScanInv
    <2> QED BY <2>1, RightNow, RightForStays DEF RightSaved, FitsLater, Fits, Current, Key
  <1>21. ASSUME SaveCache PROVE RightSaved'
    <2>1. saved' = cache
      BY <1>21, SaveCacheDoes DEF ScanInv
    <2> QED BY <2>1, RightNow, RightForStays DEF RightSaved, FitsLater, Fits, Current, Key
  <1>22. ASSUME Stop PROVE RightSaved'
    <2>1. UNCHANGED <<saved>>
      BY StopDoes, <1>22 DEF ScanInv
    <2> QED BY <2>1, RightNow, RightForStays DEF RightSaved, FitsLater, Fits, Current, Key
  <1>23. ASSUME Down PROVE RightSaved'
    <2>1. saved' = cache
      BY <1>23, DownDoes DEF ScanInv
    <2> QED BY <2>1, RightNow, RightForStays DEF RightSaved, FitsLater, Fits, Current, Key
  <1>24. ASSUME Start PROVE RightSaved'
    <2>1. UNCHANGED <<saved>>
      BY StartDoes, <1>24 DEF ScanInv
    <2> QED BY <2>1, RightNow, RightForStays DEF RightSaved, FitsLater, Fits, Current, Key
  <1>25. ASSUME Crash PROVE RightSaved'
    <2>1. UNCHANGED <<saved>>
      BY CrashDoes, <1>25 DEF ScanInv
    <2> QED BY <2>1, RightNow, RightForStays DEF RightSaved, FitsLater, Fits, Current, Key
  <1>26. CASE UNCHANGED vars
    <2>1. UNCHANGED <<saved>>
      BY <1>26 DEF vars
    <2> QED BY <2>1, RightNow, RightForStays DEF RightSaved, FitsLater, Fits, Current, Key
  <1> QED BY <1>1, <1>2, <1>3, <1>4, <1>5, <1>6, <1>7, <1>8, <1>9, <1>10, <1>11,
             <1>12, <1>13, <1>14, <1>15, <1>16, <1>17, <1>18, <1>19, <1>20, <1>21,
             <1>22, <1>23, <1>24, <1>25, <1>26 DEF Next, Others, IntakeStep,
             WorkerStep

(* What the engine says of the path a key is at is right about the key.    *)
LEMMA EngineFits ==
    ASSUME ScanInv, NEW k \in Keys, NEW n \in Names, At(k, n), NEW v,
           v = "infected" <=> file[dir[n]].bad
    PROVE  Fits(k, v)
  BY DEF Fits, At

(* The gate's is.                                                          *)
LEMMA RightGateStays ==
    ASSUME ScanInv, Shapes', [Next]_vars
    PROVE  RightGate'
  <1>1. ASSUME NEW n \in Names, NEW f \in Files, NEW bad \in BOOLEAN, CloseWrite(n, f, bad)
        PROVE  RightGate'
    <2>1. UNCHANGED <<intake>>
      BY CloseWriteDoes, <1>1 DEF ScanInv
    <2>2. Plain' /\ intake.at = "answer" /\ intake.outcome \in Sure =>
             FitsLater(intake.key, intake.outcome)
      BY PlainWas, FitsStay, HeldAreOld DEF Asks, ScanInv, Right, RightGate
    <2> QED BY <2>1, <2>2 DEF RightGate, FitsLater, Fits, Current, Key
  <1>2. ASSUME NEW n \in Names, NEW kind \in {"open", "exec"}, Use(n, kind)
        PROVE  RightGate'
    <2>1. UNCHANGED <<intake>>
      BY UseDoes, <1>2 DEF ScanInv
    <2>2. Plain' /\ intake.at = "answer" /\ intake.outcome \in Sure =>
             FitsLater(intake.key, intake.outcome)
      BY PlainWas, FitsStay, HeldAreOld DEF Asks, ScanInv, Right, RightGate
    <2> QED BY <2>1, <2>2 DEF RightGate, FitsLater, Fits, Current, Key
  <1>3. ASSUME NEW n \in Names, NEW m \in Names, Rename(n, m) PROVE RightGate'
    <2>1. UNCHANGED <<intake>>
      BY RenameDoes, <1>3 DEF ScanInv
    <2>2. Plain' /\ intake.at = "answer" /\ intake.outcome \in Sure =>
             FitsLater(intake.key, intake.outcome)
      BY PlainWas, FitsStay, HeldAreOld DEF Asks, ScanInv, Right, RightGate
    <2> QED BY <2>1, <2>2 DEF RightGate, FitsLater, Fits, Current, Key
  <1>4. ASSUME Vanished PROVE RightGate'
    <2>1. UNCHANGED <<intake>>
      BY VanishedDoes, <1>4 DEF ScanInv
    <2>2. Plain' /\ intake.at = "answer" /\ intake.outcome \in Sure =>
             FitsLater(intake.key, intake.outcome)
      BY PlainWas, FitsStay, HeldAreOld DEF Asks, ScanInv, Right, RightGate
    <2> QED BY <2>1, <2>2 DEF RightGate, FitsLater, Fits, Current, Key
  <1>5. ASSUME NEW f \in Files, NEW n \in Names, Written(f, n) PROVE RightGate'
    <2>1. UNCHANGED <<intake>>
      BY WrittenDoes, <1>5 DEF ScanInv
    <2>2. Plain' /\ intake.at = "answer" /\ intake.outcome \in Sure =>
             FitsLater(intake.key, intake.outcome)
      BY PlainWas, FitsStay, HeldAreOld DEF Asks, ScanInv, Right, RightGate
    <2> QED BY <2>1, <2>2 DEF RightGate, FitsLater, Fits, Current, Key
  <1>6. ASSUME NEW f \in Files, NEW n \in Names, Opened(f, n) PROVE RightGate'
    <2>1. UNCHANGED <<intake>>
      BY OpenedDoes, <1>6 DEF ScanInv
    <2>2. Plain' /\ intake.at = "answer" /\ intake.outcome \in Sure =>
             FitsLater(intake.key, intake.outcome)
      BY PlainWas, FitsStay, HeldAreOld DEF Asks, ScanInv, Right, RightGate
    <2> QED BY <2>1, <2>2 DEF RightGate, FitsLater, Fits, Current, Key
  <1>7. ASSUME NEW f \in Files, NEW n \in Names, ExecKnown(f, n) PROVE RightGate'
    <2>1. UNCHANGED <<intake>>
      BY ExecKnownDoes, <1>7 DEF ScanInv
    <2>2. Plain' /\ intake.at = "answer" /\ intake.outcome \in Sure =>
             FitsLater(intake.key, intake.outcome)
      BY PlainWas, FitsStay, HeldAreOld DEF Asks, ScanInv, Right, RightGate
    <2> QED BY <2>1, <2>2 DEF RightGate, FitsLater, Fits, Current, Key
  <1>8. ASSUME NEW f \in Files, NEW n \in Names, ExecOverBudget(f, n)
        PROVE  RightGate'
    <2>1. UNCHANGED <<intake>>
      BY ExecOverBudgetDoes, <1>8 DEF ScanInv
    <2>2. Plain' /\ intake.at = "answer" /\ intake.outcome \in Sure =>
             FitsLater(intake.key, intake.outcome)
      BY PlainWas, FitsStay, HeldAreOld DEF Asks, ScanInv, Right, RightGate
    <2> QED BY <2>1, <2>2 DEF RightGate, FitsLater, Fits, Current, Key
  <1>9. ASSUME NEW f \in Files, NEW n \in Names, ExecAsk(f, n) PROVE RightGate'
    <2>1. intake'.at = "scan"
      BY <1>9, ExecAskDoes DEF ScanInv
    <2> QED BY <2>1 DEF RightGate
  <1>10. ASSUME GateScan PROVE RightGate'
    <2>1. /\ Asks /\ intake'.key = intake.key /\ UNCHANGED <<dir, file>>
          /\ intake'.outcome \in Sure =>
                (intake'.outcome = "infected" <=> file[dir[intake.name]].bad)
      BY <1>10, GateScanDoes DEF ScanInv, Asks
    <2>2. intake.key \in Keys /\ intake.name \in Names
      BY <2>1, IntakeIs DEF ScanInv
    <2>3. Plain' => At(intake.key, intake.name)
      BY <2>1, PlainWas DEF Plain, ScanInv, Homed, GateHomed
    <2>4. Plain' /\ intake'.outcome \in Sure => Fits(intake.key, intake'.outcome)
      BY <2>1, <2>2, <2>3, EngineFits
    <2> QED BY <2>1, <2>4 DEF RightGate, Fits, Current, Key
  <1>11. ASSUME GateAnswer PROVE RightGate'
    <2>1. intake' = IdleIntake
      BY <1>11, GateAnswerDoes DEF ScanInv
    <2> QED BY <2>1 DEF RightGate, IdleIntake
  <1>12. ASSUME NEW w \in Workers, TakeFollowUp(w) PROVE RightGate'
    <2>1. UNCHANGED <<intake>>
      BY TakeFollowUpDoes, <1>12 DEF ScanInv
    <2>2. Plain' /\ intake.at = "answer" /\ intake.outcome \in Sure =>
             FitsLater(intake.key, intake.outcome)
      BY PlainWas, FitsStay, HeldAreOld DEF Asks, ScanInv, Right, RightGate
    <2> QED BY <2>1, <2>2 DEF RightGate, FitsLater, Fits, Current, Key
  <1>13. ASSUME NEW w \in Workers, NEW n \in Names, TakeScan(w, n) PROVE RightGate'
    <2>1. UNCHANGED <<intake>>
      BY TakeScanDoes, <1>13 DEF ScanInv
    <2>2. Plain' /\ intake.at = "answer" /\ intake.outcome \in Sure =>
             FitsLater(intake.key, intake.outcome)
      BY PlainWas, FitsStay, HeldAreOld DEF Asks, ScanInv, Right, RightGate
    <2> QED BY <2>1, <2>2 DEF RightGate, FitsLater, Fits, Current, Key
  <1>14. ASSUME NEW w \in Workers, Look(w) PROVE RightGate'
    <2>1. UNCHANGED <<intake>>
      BY LookDoes, <1>14 DEF ScanInv
    <2>2. Plain' /\ intake.at = "answer" /\ intake.outcome \in Sure =>
             FitsLater(intake.key, intake.outcome)
      BY PlainWas, FitsStay, HeldAreOld DEF Asks, ScanInv, Right, RightGate
    <2> QED BY <2>1, <2>2 DEF RightGate, FitsLater, Fits, Current, Key
  <1>15. ASSUME NEW w \in Workers, Scan(w) PROVE RightGate'
    <2>1. UNCHANGED <<intake>>
      BY ScanDoes, <1>15 DEF ScanInv
    <2>2. Plain' /\ intake.at = "answer" /\ intake.outcome \in Sure =>
             FitsLater(intake.key, intake.outcome)
      BY PlainWas, FitsStay, HeldAreOld DEF Asks, ScanInv, Right, RightGate
    <2> QED BY <2>1, <2>2 DEF RightGate, FitsLater, Fits, Current, Key
  <1>16. ASSUME NEW w \in Workers, SettleInfected(w) PROVE RightGate'
    <2>1. UNCHANGED <<intake>>
      BY SettleInfectedDoes, <1>16 DEF ScanInv
    <2>2. Plain' /\ intake.at = "answer" /\ intake.outcome \in Sure =>
             FitsLater(intake.key, intake.outcome)
      BY PlainWas, FitsStay, HeldAreOld DEF Asks, ScanInv, Right, RightGate
    <2> QED BY <2>1, <2>2 DEF RightGate, FitsLater, Fits, Current, Key
  <1>17. ASSUME NEW w \in Workers, SettleClean(w) PROVE RightGate'
    <2>1. UNCHANGED <<intake>>
      BY SettleCleanDoes, <1>17 DEF ScanInv
    <2>2. Plain' /\ intake.at = "answer" /\ intake.outcome \in Sure =>
             FitsLater(intake.key, intake.outcome)
      BY PlainWas, FitsStay, HeldAreOld DEF Asks, ScanInv, Right, RightGate
    <2> QED BY <2>1, <2>2 DEF RightGate, FitsLater, Fits, Current, Key
  <1>18. ASSUME NEW w \in Workers, SettleFailed(w) PROVE RightGate'
    <2>1. UNCHANGED <<intake>>
      BY SettleFailedDoes, <1>18 DEF ScanInv
    <2>2. Plain' /\ intake.at = "answer" /\ intake.outcome \in Sure =>
             FitsLater(intake.key, intake.outcome)
      BY PlainWas, FitsStay, HeldAreOld DEF Asks, ScanInv, Right, RightGate
    <2> QED BY <2>1, <2>2 DEF RightGate, FitsLater, Fits, Current, Key
  <1>19. ASSUME NEW w \in Workers, Act(w) PROVE RightGate'
    <2>1. UNCHANGED <<intake>>
      BY ActDoes, <1>19 DEF ScanInv
    <2>2. Plain' /\ intake.at = "answer" /\ intake.outcome \in Sure =>
             FitsLater(intake.key, intake.outcome)
      BY PlainWas, FitsStay, HeldAreOld DEF Asks, ScanInv, Right, RightGate
    <2> QED BY <2>1, <2>2 DEF RightGate, FitsLater, Fits, Current, Key
  <1>20. ASSUME NEW w \in Workers, Move(w) PROVE RightGate'
    <2>1. UNCHANGED <<intake>>
      BY MoveDoes, <1>20 DEF ScanInv
    <2>2. Plain' /\ intake.at = "answer" /\ intake.outcome \in Sure =>
             FitsLater(intake.key, intake.outcome)
      BY PlainWas, FitsStay, HeldAreOld DEF Asks, ScanInv, Right, RightGate
    <2> QED BY <2>1, <2>2 DEF RightGate, FitsLater, Fits, Current, Key
  <1>21. ASSUME SaveCache PROVE RightGate'
    <2>1. UNCHANGED <<intake>>
      BY SaveCacheDoes, <1>21 DEF ScanInv
    <2>2. Plain' /\ intake.at = "answer" /\ intake.outcome \in Sure =>
             FitsLater(intake.key, intake.outcome)
      BY PlainWas, FitsStay, HeldAreOld DEF Asks, ScanInv, Right, RightGate
    <2> QED BY <2>1, <2>2 DEF RightGate, FitsLater, Fits, Current, Key
  <1>22. ASSUME Stop PROVE RightGate'
    <2>1. UNCHANGED <<intake>>
      BY StopDoes, <1>22 DEF ScanInv
    <2>2. Plain' /\ intake.at = "answer" /\ intake.outcome \in Sure =>
             FitsLater(intake.key, intake.outcome)
      BY PlainWas, FitsStay, HeldAreOld DEF Asks, ScanInv, Right, RightGate
    <2> QED BY <2>1, <2>2 DEF RightGate, FitsLater, Fits, Current, Key
  <1>23. ASSUME Down PROVE RightGate'
    <2>1. UNCHANGED <<intake>>
      BY DownDoes, <1>23 DEF ScanInv
    <2>2. Plain' /\ intake.at = "answer" /\ intake.outcome \in Sure =>
             FitsLater(intake.key, intake.outcome)
      BY PlainWas, FitsStay, HeldAreOld DEF Asks, ScanInv, Right, RightGate
    <2> QED BY <2>1, <2>2 DEF RightGate, FitsLater, Fits, Current, Key
  <1>24. ASSUME Start PROVE RightGate'
    <2>1. UNCHANGED <<intake>>
      BY StartDoes, <1>24 DEF ScanInv
    <2>2. Plain' /\ intake.at = "answer" /\ intake.outcome \in Sure =>
             FitsLater(intake.key, intake.outcome)
      BY PlainWas, FitsStay, HeldAreOld DEF Asks, ScanInv, Right, RightGate
    <2> QED BY <2>1, <2>2 DEF RightGate, FitsLater, Fits, Current, Key
  <1>25. ASSUME Crash PROVE RightGate'
    <2>1. intake' = IdleIntake
      BY <1>25, CrashDoes DEF ScanInv
    <2> QED BY <2>1 DEF RightGate, IdleIntake
  <1>26. CASE UNCHANGED vars
    <2>1. UNCHANGED <<intake>>
      BY <1>26 DEF vars
    <2>2. Plain' /\ intake.at = "answer" /\ intake.outcome \in Sure =>
             FitsLater(intake.key, intake.outcome)
      BY PlainWas, FitsStay, HeldAreOld DEF Asks, ScanInv, Right, RightGate
    <2> QED BY <2>1, <2>2 DEF RightGate, FitsLater, Fits, Current, Key
  <1> QED BY <1>1, <1>2, <1>3, <1>4, <1>5, <1>6, <1>7, <1>8, <1>9, <1>10, <1>11,
             <1>12, <1>13, <1>14, <1>15, <1>16, <1>17, <1>18, <1>19, <1>20, <1>21,
             <1>22, <1>23, <1>24, <1>25, <1>26 DEF Next, Others, IntakeStep,
             WorkerStep

(* A worker that keeps its verdict, or has none.                           *)
Same(w) ==
    \/ worker'[w].at # "settle"
    \/ /\ worker[w].at = "settle" /\ worker'[w].key = worker[w].key
       /\ worker'[w].outcome = worker[w].outcome
RightOf(w) ==
    Plain /\ worker[w].at = "settle" /\ worker[w].outcome \in Sure =>
       Fits(worker[w].key, worker[w].outcome)

(* A verdict that a worker keeps stays right.                              *)
LEMMA SameRight ==
    ASSUME ScanInv, Shapes', [Next]_vars, NEW w \in Workers, Same(w)
    PROVE  RightOf(w)'
  <1>1. ASSUME Plain', worker'[w].at = "settle", worker'[w].outcome \in Sure
        PROVE  Fits(worker[w].key, worker[w].outcome)'
    <2>1. /\ worker[w].at = "settle" /\ worker'[w].key = worker[w].key
          /\ worker'[w].outcome = worker[w].outcome
      BY <1>1 DEF Same
    <2>2. Fits(worker[w].key, worker[w].outcome)
      BY <1>1, <2>1, PlainWas DEF ScanInv, Right, RightWorkers
    <2>3. worker[w].key \in Keys /\ worker[w].key[2] <= used.stamps
      BY <2>1, HeldAreOld DEF Holds
    <2>4. FitsLater(worker[w].key, worker[w].outcome)
      BY <1>1, <2>2, <2>3, FitsStay
    <2> QED BY <2>1, <2>4 DEF FitsLater, Fits, Current, Key
  <1> QED BY <1>1 DEF RightOf

(* The workers' verdicts are right if each is.                             *)
LEMMA AllRight ==
    ASSUME \A w \in Workers : RightOf(w)'
    PROVE  RightWorkers'
  BY DEF RightOf, RightWorkers

(* The workers' are.                                                       *)
LEMMA RightWorkersStays ==
    ASSUME ScanInv, Shapes', [Next]_vars
    PROVE  RightWorkers'
  <1>1. ASSUME NEW n \in Names, NEW f \in Files, NEW bad \in BOOLEAN, CloseWrite(n, f, bad)
        PROVE  RightWorkers'
    <2>1. UNCHANGED <<worker>>
      BY CloseWriteDoes, <1>1 DEF ScanInv
    <2>2. \A w \in Workers : Same(w)
      BY <2>1 DEF Same
    <2> QED BY <2>2, SameRight, AllRight
  <1>2. ASSUME NEW n \in Names, NEW kind \in {"open", "exec"}, Use(n, kind)
        PROVE  RightWorkers'
    <2>1. UNCHANGED <<worker>>
      BY UseDoes, <1>2 DEF ScanInv
    <2>2. \A w \in Workers : Same(w)
      BY <2>1 DEF Same
    <2> QED BY <2>2, SameRight, AllRight
  <1>3. ASSUME NEW n \in Names, NEW m \in Names, Rename(n, m) PROVE RightWorkers'
    <2>1. UNCHANGED <<worker>>
      BY RenameDoes, <1>3 DEF ScanInv
    <2>2. \A w \in Workers : Same(w)
      BY <2>1 DEF Same
    <2> QED BY <2>2, SameRight, AllRight
  <1>4. ASSUME Vanished PROVE RightWorkers'
    <2>1. UNCHANGED <<worker>>
      BY VanishedDoes, <1>4 DEF ScanInv
    <2>2. \A w \in Workers : Same(w)
      BY <2>1 DEF Same
    <2> QED BY <2>2, SameRight, AllRight
  <1>5. ASSUME NEW f \in Files, NEW n \in Names, Written(f, n) PROVE RightWorkers'
    <2>1. UNCHANGED <<worker>>
      BY WrittenDoes, <1>5 DEF ScanInv
    <2>2. \A w \in Workers : Same(w)
      BY <2>1 DEF Same
    <2> QED BY <2>2, SameRight, AllRight
  <1>6. ASSUME NEW f \in Files, NEW n \in Names, Opened(f, n) PROVE RightWorkers'
    <2>1. UNCHANGED <<worker>>
      BY OpenedDoes, <1>6 DEF ScanInv
    <2>2. \A w \in Workers : Same(w)
      BY <2>1 DEF Same
    <2> QED BY <2>2, SameRight, AllRight
  <1>7. ASSUME NEW f \in Files, NEW n \in Names, ExecKnown(f, n) PROVE RightWorkers'
    <2>1. UNCHANGED <<worker>>
      BY ExecKnownDoes, <1>7 DEF ScanInv
    <2>2. \A w \in Workers : Same(w)
      BY <2>1 DEF Same
    <2> QED BY <2>2, SameRight, AllRight
  <1>8. ASSUME NEW f \in Files, NEW n \in Names, ExecOverBudget(f, n)
        PROVE  RightWorkers'
    <2>1. UNCHANGED <<worker>>
      BY ExecOverBudgetDoes, <1>8 DEF ScanInv
    <2>2. \A w \in Workers : Same(w)
      BY <2>1 DEF Same
    <2> QED BY <2>2, SameRight, AllRight
  <1>9. ASSUME NEW f \in Files, NEW n \in Names, ExecAsk(f, n) PROVE RightWorkers'
    <2>1. UNCHANGED <<worker>>
      BY ExecAskDoes, <1>9 DEF ScanInv
    <2>2. \A w \in Workers : Same(w)
      BY <2>1 DEF Same
    <2> QED BY <2>2, SameRight, AllRight
  <1>10. ASSUME GateScan PROVE RightWorkers'
    <2>1. UNCHANGED <<worker>>
      BY GateScanDoes, <1>10 DEF ScanInv
    <2>2. \A w \in Workers : Same(w)
      BY <2>1 DEF Same
    <2> QED BY <2>2, SameRight, AllRight
  <1>11. ASSUME GateAnswer PROVE RightWorkers'
    <2>1. UNCHANGED <<worker>>
      BY GateAnswerDoes, <1>11 DEF ScanInv
    <2>2. \A w \in Workers : Same(w)
      BY <2>1 DEF Same
    <2> QED BY <2>2, SameRight, AllRight
  <1>12. ASSUME NEW w \in Workers, TakeFollowUp(w) PROVE RightWorkers'
    <2>1. Same(w)
      BY <1>12, TakeFollowUpDoes DEF ScanInv, Same, IdleWorker
    <2>2. \A v \in Workers : v # w => Same(v)
      BY <1>12, TakeFollowUpDoes DEF ScanInv, Same
    <2> QED BY <2>1, <2>2, SameRight, AllRight
  <1>13. ASSUME NEW w \in Workers, NEW n \in Names, TakeScan(w, n)
         PROVE  RightWorkers'
    <2>1. Same(w)
      BY <1>13, TakeScanDoes DEF ScanInv, Same, IdleWorker
    <2>2. \A v \in Workers : v # w => Same(v)
      BY <1>13, TakeScanDoes DEF ScanInv, Same
    <2> QED BY <2>1, <2>2, SameRight, AllRight
  <1>14. ASSUME NEW w \in Workers, Look(w) PROVE RightWorkers'
    <2>0. worker[w] \in WorkerT
      BY WorkerIs DEF ScanInv
    <2>3. worker'[w] = IdleWorker \/ worker'[w] = [worker[w] EXCEPT !.at = "scan",
                                                                    !.key = Key(dir[worker[w].name])]
      BY <1>14, LookDoes DEF ScanInv
    <2>4. worker'[w].at # "settle"
      <3>1. CASE worker'[w] = IdleWorker
        BY <3>1 DEF IdleWorker
      <3>2. CASE worker'[w] # IdleWorker
        BY <2>0, <2>3, <3>2 DEF WorkerT
      <3> QED BY <3>1, <3>2
    <2>1. Same(w)
      BY <2>4 DEF Same
    <2>2. \A v \in Workers : v # w => Same(v)
      BY <1>14, LookDoes DEF ScanInv, Same
    <2> QED BY <2>1, <2>2, SameRight, AllRight
  <1>15. ASSUME NEW w \in Workers, Scan(w) PROVE RightWorkers'
    <2>1. /\ Holds(w) /\ UNCHANGED <<dir, file>>
          /\ worker'[w].key = worker[w].key
          /\ worker'[w].outcome \in Sure =>
                (worker'[w].outcome = "infected" <=> file[dir[worker[w].name]].bad)
      BY <1>15, ScanDoes DEF ScanInv, Holds
    <2>2. worker[w].key \in Keys /\ worker[w].name \in Names
      BY <1>15, ScanDoes DEF ScanInv
    <2>3. Plain' => At(worker[w].key, worker[w].name)
      BY <2>1, PlainWas DEF Plain, ScanInv, Homed, WorkersHomed
    <2>4. Plain' /\ worker'[w].outcome \in Sure =>
             Fits(worker[w].key, worker'[w].outcome)
      BY <2>1, <2>2, <2>3, EngineFits
    <2>5. RightOf(w)'
      BY <2>1, <2>4 DEF RightOf, Fits, Current, Key
    <2>6. \A v \in Workers : v # w => Same(v)
      BY <1>15, ScanDoes DEF ScanInv, Same
    <2> QED BY <2>5, <2>6, SameRight, AllRight
  <1>16. ASSUME NEW w \in Workers, SettleInfected(w) PROVE RightWorkers'
    <2>0. worker[w] \in WorkerT
      BY WorkerIs DEF ScanInv
    <2>3. worker'[w] = IdleWorker \/ worker'[w] = [worker[w] EXCEPT !.at = "act",
                                                                    !.kind = "detected"]
      BY <1>16, SettleInfectedDoes DEF ScanInv
    <2>4. worker'[w].at # "settle"
      <3>1. CASE worker'[w] = IdleWorker
        BY <3>1 DEF IdleWorker
      <3>2. CASE worker'[w] # IdleWorker
        BY <2>0, <2>3, <3>2 DEF WorkerT
      <3> QED BY <3>1, <3>2
    <2>1. Same(w)
      BY <2>4 DEF Same
    <2>2. \A v \in Workers : v # w => Same(v)
      BY <1>16, SettleInfectedDoes DEF ScanInv, Same
    <2> QED BY <2>1, <2>2, SameRight, AllRight
  <1>17. ASSUME NEW w \in Workers, SettleClean(w) PROVE RightWorkers'
    <2>1. Same(w)
      BY <1>17, SettleCleanDoes DEF ScanInv, Same, IdleWorker
    <2>2. \A v \in Workers : v # w => Same(v)
      BY <1>17, SettleCleanDoes DEF ScanInv, Same
    <2> QED BY <2>1, <2>2, SameRight, AllRight
  <1>18. ASSUME NEW w \in Workers, SettleFailed(w) PROVE RightWorkers'
    <2>1. Same(w)
      BY <1>18, SettleFailedDoes DEF ScanInv, Same, IdleWorker
    <2>2. \A v \in Workers : v # w => Same(v)
      BY <1>18, SettleFailedDoes DEF ScanInv, Same
    <2> QED BY <2>1, <2>2, SameRight, AllRight
  <1>19. ASSUME NEW w \in Workers, Act(w) PROVE RightWorkers'
    <2>0. worker[w] \in WorkerT
      BY WorkerIs DEF ScanInv
    <2>3. worker'[w] = IdleWorker \/ worker'[w] = [worker[w] EXCEPT !.at = "move"]
      BY <1>19, ActDoes DEF ScanInv
    <2>4. worker'[w].at # "settle"
      <3>1. CASE worker'[w] = IdleWorker
        BY <3>1 DEF IdleWorker
      <3>2. CASE worker'[w] # IdleWorker
        BY <2>0, <2>3, <3>2 DEF WorkerT
      <3> QED BY <3>1, <3>2
    <2>1. Same(w)
      BY <2>4 DEF Same
    <2>2. \A v \in Workers : v # w => Same(v)
      BY <1>19, ActDoes DEF ScanInv, Same
    <2> QED BY <2>1, <2>2, SameRight, AllRight
  <1>20. ASSUME NEW w \in Workers, Move(w) PROVE RightWorkers'
    <2>1. Same(w)
      BY <1>20, MoveDoes DEF ScanInv, Same, IdleWorker
    <2>2. \A v \in Workers : v # w => Same(v)
      BY <1>20, MoveDoes DEF ScanInv, Same
    <2> QED BY <2>1, <2>2, SameRight, AllRight
  <1>21. ASSUME SaveCache PROVE RightWorkers'
    <2>1. UNCHANGED <<worker>>
      BY SaveCacheDoes, <1>21 DEF ScanInv
    <2>2. \A w \in Workers : Same(w)
      BY <2>1 DEF Same
    <2> QED BY <2>2, SameRight, AllRight
  <1>22. ASSUME Stop PROVE RightWorkers'
    <2>1. UNCHANGED <<worker>>
      BY StopDoes, <1>22 DEF ScanInv
    <2>2. \A w \in Workers : Same(w)
      BY <2>1 DEF Same
    <2> QED BY <2>2, SameRight, AllRight
  <1>23. ASSUME Down PROVE RightWorkers'
    <2>1. UNCHANGED <<worker>>
      BY DownDoes, <1>23 DEF ScanInv
    <2>2. \A w \in Workers : Same(w)
      BY <2>1 DEF Same
    <2> QED BY <2>2, SameRight, AllRight
  <1>24. ASSUME Start PROVE RightWorkers'
    <2>1. UNCHANGED <<worker>>
      BY StartDoes, <1>24 DEF ScanInv
    <2>2. \A w \in Workers : Same(w)
      BY <2>1 DEF Same
    <2> QED BY <2>2, SameRight, AllRight
  <1>25. ASSUME Crash PROVE RightWorkers'
    <2>1. \A w \in Workers : worker'[w] = IdleWorker
      BY <1>25, CrashDoes DEF ScanInv
    <2>2. \A w \in Workers : Same(w)
      BY <2>1 DEF Same, IdleWorker
    <2> QED BY <2>2, SameRight, AllRight
  <1>26. CASE UNCHANGED vars
    <2>1. UNCHANGED <<worker>>
      BY <1>26 DEF vars
    <2>2. \A w \in Workers : Same(w)
      BY <2>1 DEF Same
    <2> QED BY <2>2, SameRight, AllRight
  <1> QED BY <1>1, <1>2, <1>3, <1>4, <1>5, <1>6, <1>7, <1>8, <1>9, <1>10, <1>11,
             <1>12, <1>13, <1>14, <1>15, <1>16, <1>17, <1>18, <1>19, <1>20, <1>21,
             <1>22, <1>23, <1>24, <1>25, <1>26 DEF Next, Others, IntakeStep,
             WorkerStep

(* Denials of old keys that are infected.                                  *)
BadFor(D) == Plain => \A d \in D : Fits(d[2], "infected")

(* They stay right.                                                        *)
LEMMA BadForStays ==
    ASSUME ScanInv, Shapes', [Next]_vars, BadFor(denied'),
           \A d \in denied' : d[2] \in Keys /\ d[2][2] <= used.stamps
    PROVE  RightDenied'
  <1>1. ASSUME Plain', NEW d \in denied' PROVE FitsLater(d[2], "infected")
    BY <1>1, PlainWas, FitsStay DEF BadFor
  <1> QED BY <1>1 DEF RightDenied, FitsLater, Fits, Current, Key

(* A step that denies nothing keeps that.                                  *)
LEMMA FewerDenied ==
    ASSUME ScanInv, Shapes', [Next]_vars, denied' \subseteq denied
    PROVE  RightDenied'
  <1>1. \A d \in denied' : d[2] \in Keys /\ d[2][2] <= used.stamps
    BY DEF ScanInv, Shapes, HistoryOK, Stamped, DeniedStamps
  <1>2. BadFor(denied')
    BY DEF ScanInv, Right, RightDenied, BadFor
  <1> QED BY <1>1, <1>2, BadForStays

(* So does one that denies a key that is infected.                         *)
LEMMA MoreDenied ==
    ASSUME ScanInv, Shapes', [Next]_vars, NEW n, NEW k \in Keys, k[2] <= used.stamps,
           denied' \subseteq denied \cup {<<n, k>>}, Plain => Fits(k, "infected")
    PROVE  RightDenied'
  <1>1. \A d \in denied' : d[2] \in Keys /\ d[2][2] <= used.stamps
    BY DEF ScanInv, Shapes, HistoryOK, Stamped, DeniedStamps
  <1>2. BadFor(denied')
    BY DEF ScanInv, Right, RightDenied, BadFor
  <1> QED BY <1>1, <1>2, BadForStays

(* What was denied is infected.                                            *)
LEMMA RightDeniedStays ==
    ASSUME ScanInv, Shapes', [Next]_vars
    PROVE  RightDenied'
  <1>1. ASSUME NEW n \in Names, NEW f \in Files, NEW bad \in BOOLEAN, CloseWrite(n, f, bad)
        PROVE  RightDenied'
    <2>1. UNCHANGED <<denied>>
      BY CloseWriteDoes, <1>1 DEF ScanInv
    <2> QED BY <2>1, FewerDenied
  <1>2. ASSUME NEW n \in Names, NEW kind \in {"open", "exec"}, Use(n, kind)
        PROVE  RightDenied'
    <2>1. UNCHANGED <<denied>>
      BY UseDoes, <1>2 DEF ScanInv
    <2> QED BY <2>1, FewerDenied
  <1>3. ASSUME NEW n \in Names, NEW m \in Names, Rename(n, m) PROVE RightDenied'
    <2>1. UNCHANGED <<denied>>
      BY RenameDoes, <1>3 DEF ScanInv
    <2> QED BY <2>1, FewerDenied
  <1>4. ASSUME Vanished PROVE RightDenied'
    <2>1. UNCHANGED <<denied>>
      BY VanishedDoes, <1>4 DEF ScanInv
    <2> QED BY <2>1, FewerDenied
  <1>5. ASSUME NEW f \in Files, NEW n \in Names, Written(f, n) PROVE RightDenied'
    <2>1. UNCHANGED <<denied>>
      BY WrittenDoes, <1>5 DEF ScanInv
    <2> QED BY <2>1, FewerDenied
  <1>6. ASSUME NEW f \in Files, NEW n \in Names, Opened(f, n) PROVE RightDenied'
    <2>1. UNCHANGED <<denied>>
      BY OpenedDoes, <1>6 DEF ScanInv
    <2> QED BY <2>1, FewerDenied
  <1>7. ASSUME NEW f \in Files, NEW n \in Names, ExecKnown(f, n) PROVE RightDenied'
    <2>1. \/ cache[Key(f)] = "infected" /\ denied' = denied \cup {<<n, Key(f)>>}
          \/ UNCHANGED denied
      BY <1>7, ExecKnownDoes DEF ScanInv
    <2>2. CASE cache[Key(f)] = "infected" /\ denied' = denied \cup {<<n, Key(f)>>}
      <3>1. Key(f) \in Keys /\ Key(f)[2] <= used.stamps
        BY HeldAreOld
      <3>2. Plain => Fits(Key(f), "infected")
        BY <2>2, <3>1 DEF ScanInv, Right, RightCache
      <3> QED BY <2>2, <3>1, <3>2, MoreDenied
    <2>3. CASE UNCHANGED denied
      BY <2>3, FewerDenied
    <2> QED BY <2>1, <2>2, <2>3
  <1>8. ASSUME NEW f \in Files, NEW n \in Names, ExecOverBudget(f, n)
        PROVE  RightDenied'
    <2>1. UNCHANGED <<denied>>
      BY ExecOverBudgetDoes, <1>8 DEF ScanInv
    <2> QED BY <2>1, FewerDenied
  <1>9. ASSUME NEW f \in Files, NEW n \in Names, ExecAsk(f, n) PROVE RightDenied'
    <2>1. UNCHANGED <<denied>>
      BY ExecAskDoes, <1>9 DEF ScanInv
    <2> QED BY <2>1, FewerDenied
  <1>10. ASSUME GateScan PROVE RightDenied'
    <2>1. UNCHANGED <<denied>>
      BY GateScanDoes, <1>10 DEF ScanInv
    <2> QED BY <2>1, FewerDenied
  <1>11. ASSUME GateAnswer PROVE RightDenied'
    <2>1. /\ intake.at = "answer"
          /\ \/ /\ intake.outcome = "infected"
                /\ denied' = denied \cup {<<intake.name, intake.key>>}
             \/ UNCHANGED denied
      BY <1>11, GateAnswerDoes DEF ScanInv
    <2>2. CASE /\ intake.outcome = "infected"
               /\ denied' = denied \cup {<<intake.name, intake.key>>}
      <3>1. intake.key \in Keys /\ intake.key[2] <= used.stamps
        BY <2>1, HeldAreOld DEF Asks
      <3>2. Plain => Fits(intake.key, "infected")
        BY <2>1, <2>2 DEF ScanInv, Right, RightGate, Sure
      <3> QED BY <2>2, <3>1, <3>2, MoreDenied
    <2>3. CASE UNCHANGED denied
      BY <2>3, FewerDenied
    <2> QED BY <2>1, <2>2, <2>3
  <1>12. ASSUME NEW w \in Workers, TakeFollowUp(w) PROVE RightDenied'
    <2>1. UNCHANGED <<denied>>
      BY TakeFollowUpDoes, <1>12 DEF ScanInv
    <2> QED BY <2>1, FewerDenied
  <1>13. ASSUME NEW w \in Workers, NEW n \in Names, TakeScan(w, n)
         PROVE  RightDenied'
    <2>1. UNCHANGED <<denied>>
      BY TakeScanDoes, <1>13 DEF ScanInv
    <2> QED BY <2>1, FewerDenied
  <1>14. ASSUME NEW w \in Workers, Look(w) PROVE RightDenied'
    <2>1. UNCHANGED <<denied>>
      BY LookDoes, <1>14 DEF ScanInv
    <2> QED BY <2>1, FewerDenied
  <1>15. ASSUME NEW w \in Workers, Scan(w) PROVE RightDenied'
    <2>1. UNCHANGED <<denied>>
      BY ScanDoes, <1>15 DEF ScanInv
    <2> QED BY <2>1, FewerDenied
  <1>16. ASSUME NEW w \in Workers, SettleInfected(w) PROVE RightDenied'
    <2>1. UNCHANGED <<denied>>
      BY SettleInfectedDoes, <1>16 DEF ScanInv
    <2> QED BY <2>1, FewerDenied
  <1>17. ASSUME NEW w \in Workers, SettleClean(w) PROVE RightDenied'
    <2>1. UNCHANGED <<denied>>
      BY SettleCleanDoes, <1>17 DEF ScanInv
    <2> QED BY <2>1, FewerDenied
  <1>18. ASSUME NEW w \in Workers, SettleFailed(w) PROVE RightDenied'
    <2>1. UNCHANGED <<denied>>
      BY SettleFailedDoes, <1>18 DEF ScanInv
    <2> QED BY <2>1, FewerDenied
  <1>19. ASSUME NEW w \in Workers, Act(w) PROVE RightDenied'
    <2>1. denied' \subseteq denied
      BY <1>19, ActDoes DEF ScanInv
    <2> QED BY <2>1, FewerDenied
  <1>20. ASSUME NEW w \in Workers, Move(w) PROVE RightDenied'
    <2>1. UNCHANGED <<denied>>
      BY MoveDoes, <1>20 DEF ScanInv
    <2> QED BY <2>1, FewerDenied
  <1>21. ASSUME SaveCache PROVE RightDenied'
    <2>1. UNCHANGED <<denied>>
      BY SaveCacheDoes, <1>21 DEF ScanInv
    <2> QED BY <2>1, FewerDenied
  <1>22. ASSUME Stop PROVE RightDenied'
    <2>1. UNCHANGED <<denied>>
      BY StopDoes, <1>22 DEF ScanInv
    <2> QED BY <2>1, FewerDenied
  <1>23. ASSUME Down PROVE RightDenied'
    <2>1. UNCHANGED <<denied>>
      BY DownDoes, <1>23 DEF ScanInv
    <2> QED BY <2>1, FewerDenied
  <1>24. ASSUME Start PROVE RightDenied'
    <2>1. UNCHANGED <<denied>>
      BY StartDoes, <1>24 DEF ScanInv
    <2> QED BY <2>1, FewerDenied
  <1>25. ASSUME Crash PROVE RightDenied'
    <2>1. denied' \subseteq denied
      BY <1>25, CrashDoes DEF ScanInv
    <2> QED BY <2>1, FewerDenied
  <1>26. CASE UNCHANGED vars
    <2>1. UNCHANGED <<denied>>
      BY <1>26 DEF vars
    <2> QED BY <2>1, FewerDenied
  <1> QED BY <1>1, <1>2, <1>3, <1>4, <1>5, <1>6, <1>7, <1>8, <1>9, <1>10, <1>11,
             <1>12, <1>13, <1>14, <1>15, <1>16, <1>17, <1>18, <1>19, <1>20, <1>21,
             <1>22, <1>23, <1>24, <1>25, <1>26 DEF Next, Others, IntakeStep,
             WorkerStep

-----------------------------------------------------------------------------
(* What was handed over is worked on.                                      *)

(* A step that takes no path away and leaves the workers alone: what it    *)
(* adds it queues.                                                         *)
LEMMA QueueHandles ==
    ASSUME ScanInv, Shapes', [Next]_vars, UNCHANGED <<worker, failed>>,
           waiting \subseteq waiting',
           \A t \in told' : t \in told \/ t[1] \in waiting'
    PROVE  Handled'
  <1>1. ASSUME NEW t \in told' \ failed', Current(t[1], t[2])', t[1] \notin waiting'
        PROVE  \E w \in Workers : OnIt(w, t[1], t[2])'
    <2>1. t \in told \ failed /\ t[1] \notin waiting /\ t[1] \in Names
      BY <1>1 DEF ScanInv, Shapes, HistoryOK
    <2>2. Current(t[1], t[2])
      BY <1>1, <2>1, ToldContentStays
    <2>3. PICK w \in Workers : OnIt(w, t[1], t[2])
      BY <2>1, <2>2 DEF ScanInv, Handled
    <2> QED BY <2>3 DEF OnIt
  <1> QED BY <1>1 DEF Handled, OnIt

(* A step of a worker that leaves the others alone: it stays on what it    *)
(* was on, and is on what it takes, as long as the content is there.       *)
LEMMA WorkerHandles ==
    ASSUME ScanInv, Shapes', [Next]_vars, NEW w \in Workers,
           \A v \in Workers : v # w => worker'[v] = worker[v],
           told' \subseteq told, failed \subseteq failed',
           \A t \in told' \ failed' :
              Current(t[1], t[2]) /\ t[1] \in waiting =>
                 t[1] \in waiting' \/ OnIt(w, t[1], t[2])',
           \A t \in told' \ failed' :
              Current(t[1], t[2]) /\ OnIt(w, t[1], t[2]) => OnIt(w, t[1], t[2])'
    PROVE  Handled'
  <1>1. ASSUME NEW t \in told' \ failed', Current(t[1], t[2])', t[1] \notin waiting'
        PROVE  \E v \in Workers : OnIt(v, t[1], t[2])'
    <2>1. t \in told \ failed /\ t[1] \in Names
      BY <1>1 DEF ScanInv, Shapes, HistoryOK
    <2>2. Current(t[1], t[2])
      BY <1>1, <2>1, ToldContentStays
    <2>3. CASE t[1] \in waiting
      BY <1>1, <2>2, <2>3
    <2>4. CASE t[1] \notin waiting
      <3>1. PICK v \in Workers : OnIt(v, t[1], t[2])
        BY <2>1, <2>2, <2>4 DEF ScanInv, Handled
      <3>2. CASE v = w
        BY <1>1, <2>2, <3>1, <3>2
      <3>3. CASE v # w
        <4>1. OnIt(v, t[1], t[2])'
          BY <3>1, <3>3 DEF OnIt
        <4> QED BY <4>1
      <3> QED BY <3>2, <3>3
    <2> QED BY <2>3, <2>4
  <1> QED BY <1>1 DEF Handled, OnIt

(* ... in particular if it was on nothing.                                 *)
LEMMA FreeHandles ==
    ASSUME ScanInv, Shapes', [Next]_vars, NEW w \in Workers,
           \A v \in Workers : v # w => worker'[v] = worker[v],
           told' \subseteq told, failed \subseteq failed', waiting \subseteq waiting',
           \A t \in told' \ failed' : Current(t[1], t[2]) => ~OnIt(w, t[1], t[2])
    PROVE  Handled'
  BY WorkerHandles

(* Every step keeps to that.                                               *)
LEMMA HandledStays ==
    ASSUME ScanInv, Shapes', [Next]_vars
    PROVE  Handled'
  <1>1. ASSUME NEW n \in Names, NEW f \in Files, NEW bad \in BOOLEAN, CloseWrite(n, f, bad)
        PROVE  Handled'
    <2>1. UNCHANGED <<waiting, worker, told, failed>>
      BY CloseWriteDoes, <1>1 DEF ScanInv
    <2> QED BY <2>1, QueueHandles
  <1>2. ASSUME NEW n \in Names, NEW kind \in {"open", "exec"}, Use(n, kind)
        PROVE  Handled'
    <2>1. UNCHANGED <<waiting, worker, told, failed>>
      BY UseDoes, <1>2 DEF ScanInv
    <2> QED BY <2>1, QueueHandles
  <1>3. ASSUME NEW n \in Names, NEW m \in Names, Rename(n, m) PROVE Handled'
    <2>1. told' \subseteq told /\ UNCHANGED <<worker, failed, waiting>>
      BY <1>3, RenameDoes DEF ScanInv
    <2> QED BY <2>1, QueueHandles
  <1>4. ASSUME Vanished PROVE Handled'
    <2>1. UNCHANGED <<waiting, worker, told, failed>>
      BY VanishedDoes, <1>4 DEF ScanInv
    <2> QED BY <2>1, QueueHandles
  <1>5. ASSUME NEW f \in Files, NEW n \in Names, Written(f, n) PROVE Handled'
    <2>1. /\ n \in waiting' /\ waiting \subseteq waiting'
          /\ UNCHANGED <<worker, failed>>
          /\ told' \subseteq told \cup {<<n, Key(f)>>}
      BY <1>5, WrittenDoes DEF ScanInv
    <2> QED BY <2>1, QueueHandles
  <1>6. ASSUME NEW f \in Files, NEW n \in Names, Opened(f, n) PROVE Handled'
    <2>1. UNCHANGED <<worker, failed>>
      BY <1>6, OpenedDoes DEF ScanInv
    <2>2. \/ waiting' = waiting \cup {n} /\ told' = told \cup {<<n, Key(f)>>}
          \/ UNCHANGED <<waiting, told>>
      BY <1>6, OpenedDoes DEF ScanInv
    <2>3. /\ waiting \subseteq waiting'
          /\ \A t \in told' : t \in told \/ t[1] \in waiting'
      BY <2>2
    <2> QED BY <2>1, <2>3, QueueHandles
  <1>7. ASSUME NEW f \in Files, NEW n \in Names, ExecKnown(f, n) PROVE Handled'
    <2>1. UNCHANGED <<waiting, worker, told, failed>>
      BY ExecKnownDoes, <1>7 DEF ScanInv
    <2> QED BY <2>1, QueueHandles
  <1>8. ASSUME NEW f \in Files, NEW n \in Names, ExecOverBudget(f, n) PROVE Handled'
    <2>1. /\ n \in waiting' /\ waiting \subseteq waiting'
          /\ UNCHANGED <<worker, failed>>
          /\ told' \subseteq told \cup {<<n, Key(f)>>}
      BY <1>8, ExecOverBudgetDoes DEF ScanInv
    <2> QED BY <2>1, QueueHandles
  <1>9. ASSUME NEW f \in Files, NEW n \in Names, ExecAsk(f, n) PROVE Handled'
    <2>1. UNCHANGED <<waiting, worker, told, failed>>
      BY ExecAskDoes, <1>9 DEF ScanInv
    <2> QED BY <2>1, QueueHandles
  <1>10. ASSUME GateScan PROVE Handled'
    <2>1. UNCHANGED <<waiting, worker, told, failed>>
      BY GateScanDoes, <1>10 DEF ScanInv
    <2> QED BY <2>1, QueueHandles
  <1>11. ASSUME GateAnswer PROVE Handled'
    <2>1. UNCHANGED <<worker, failed>>
      BY <1>11, GateAnswerDoes DEF ScanInv
    <2>2. \/ told' \subseteq told /\ UNCHANGED waiting
          \/ /\ waiting' = waiting \cup {intake.name}
             /\ told' \subseteq told \cup {<<intake.name, intake.key>>}
      BY <1>11, GateAnswerDoes DEF ScanInv
    <2>3. /\ waiting \subseteq waiting'
          /\ \A t \in told' : t \in told \/ t[1] \in waiting'
      BY <2>2
    <2> QED BY <2>1, <2>3, QueueHandles
  <1>12. ASSUME NEW w \in Workers, TakeFollowUp(w) PROVE Handled'
    <2>1. /\ worker[w].at = "idle" /\ UNCHANGED <<told, failed, waiting>>
          /\ \A v \in Workers : v # w => worker'[v] = worker[v]
      BY <1>12, TakeFollowUpDoes DEF ScanInv
    <2>2. \A t \in told' : ~OnIt(w, t[1], t[2])
      BY <2>1 DEF OnIt
    <2> QED BY <2>1, <2>2, FreeHandles
  <1>13. ASSUME NEW w \in Workers, NEW n \in Names, TakeScan(w, n) PROVE Handled'
    <2>1. /\ worker[w].at = "idle" /\ waiting' = waiting \ {n}
          /\ UNCHANGED <<told, failed>>
          /\ worker'[w] = [IdleWorker EXCEPT !.at = "look", !.name = n]
          /\ \A v \in Workers : v # w => worker'[v] = worker[v]
      BY <1>13, TakeScanDoes DEF ScanInv
    <2>2. worker'[w].at = "look" /\ worker'[w].name = n
      BY <2>1 DEF IdleWorker
    <2>3. \A t \in told' \ failed' : t[1] \in waiting =>
             t[1] \in waiting' \/ OnIt(w, t[1], t[2])'
      BY <2>1, <2>2 DEF OnIt
    <2>4. \A t \in told' \ failed' : ~OnIt(w, t[1], t[2])
      BY <2>1 DEF OnIt
    <2> QED BY <2>1, <2>3, <2>4, WorkerHandles
  <1>14. ASSUME NEW w \in Workers, Look(w) PROVE Handled'
    <2> DEFINE n == worker[w].name
               f == dir[n]
    <2>1. /\ worker[w].at = "look" /\ n \in Names /\ UNCHANGED <<failed, waiting>>
          /\ \A v \in Workers : v # w => worker'[v] = worker[v]
      BY <1>14, LookDoes DEF ScanInv
    <2>2. \/ f = NoFile /\ UNCHANGED told
          \/ f \in Files /\ told' = told \ {<<n, Key(f)>>}
          \/ /\ f \in Files /\ UNCHANGED told
             /\ worker'[w] = [worker[w] EXCEPT !.at = "scan", !.key = Key(f)]
      BY <1>14, LookDoes DEF ScanInv
    <2>3. CASE f = NoFile /\ UNCHANGED told
      <3>1. ASSUME NEW t \in told', Current(t[1], t[2]), OnIt(w, t[1], t[2])
            PROVE  FALSE
        BY <2>3, <3>1 DEF OnIt, Current
      <3> QED BY <2>1, <2>3, <3>1, FreeHandles
    <2>4. CASE f \in Files /\ told' = told \ {<<n, Key(f)>>}
      <3>1. ASSUME NEW t \in told', Current(t[1], t[2]), OnIt(w, t[1], t[2])
            PROVE  FALSE
        <4>1. t[1] = n /\ t[2] = Key(f)
          BY <3>1 DEF OnIt, Current
        <4>2. t = <<t[1], t[2]>>
          BY DEF Shapes, HistoryOK
        <4> QED BY <2>4, <4>1, <4>2
      <3> QED BY <2>1, <2>4, <3>1, FreeHandles
    <2>5. CASE /\ f \in Files /\ UNCHANGED told
               /\ worker'[w] = [worker[w] EXCEPT !.at = "scan", !.key = Key(f)]
      <3>1. worker'[w].at = "scan" /\ worker'[w].name = n /\ worker'[w].key = Key(f)
        BY <2>5, WorkerIs DEF ScanInv, WorkerT
      <3>2. ASSUME NEW t \in told', Current(t[1], t[2]), OnIt(w, t[1], t[2])
            PROVE  OnIt(w, t[1], t[2])'
        <4>1. t[1] = n /\ t[2] = Key(f)
          BY <3>2 DEF OnIt, Current
        <4> QED BY <3>1, <4>1 DEF OnIt
      <3> QED BY <2>1, <2>5, <3>2, WorkerHandles
    <2> QED BY <2>2, <2>3, <2>4, <2>5
  <1>15. ASSUME NEW w \in Workers, Scan(w) PROVE Handled'
    <2>1. /\ worker[w].at = "scan" /\ worker'[w].at = "settle"
          /\ worker'[w].name = worker[w].name /\ worker'[w].key = worker[w].key
          /\ worker'[w].outcome = "gone" => dir[worker[w].name] = NoFile
      BY <1>15, ScanDoes DEF ScanInv
    <2>2. /\ UNCHANGED <<told, failed, waiting>>
          /\ \A v \in Workers : v # w => worker'[v] = worker[v]
      BY <1>15, ScanDoes DEF ScanInv
    <2>3. ASSUME NEW t \in told', Current(t[1], t[2]), OnIt(w, t[1], t[2])
          PROVE  OnIt(w, t[1], t[2])'
      BY <2>1, <2>3 DEF OnIt, Current
    <2> QED BY <2>2, <2>3, WorkerHandles
  <1>16. ASSUME NEW w \in Workers, SettleInfected(w) PROVE Handled'
    <2>1. /\ worker[w].at = "settle"
          /\ told' = told \ {<<worker[w].name, worker[w].key>>}
          /\ UNCHANGED <<failed, waiting>>
          /\ \A v \in Workers : v # w => worker'[v] = worker[v]
      BY <1>16, SettleInfectedDoes DEF ScanInv
    <2>2. ASSUME NEW t \in told', OnIt(w, t[1], t[2]) PROVE FALSE
      <3>1. t[1] = worker[w].name /\ t[2] = worker[w].key
        BY <2>1, <2>2 DEF OnIt
      <3>2. t = <<t[1], t[2]>>
        BY DEF Shapes, HistoryOK
      <3> QED BY <2>1, <2>2, <3>1, <3>2
    <2> QED BY <2>1, <2>2, FreeHandles
  <1>17. ASSUME NEW w \in Workers, SettleClean(w) PROVE Handled'
    <2>1. /\ worker[w].at = "settle"
          /\ told' = told \ {<<worker[w].name, worker[w].key>>}
          /\ UNCHANGED <<failed, waiting>>
          /\ \A v \in Workers : v # w => worker'[v] = worker[v]
      BY <1>17, SettleCleanDoes DEF ScanInv
    <2>2. ASSUME NEW t \in told', OnIt(w, t[1], t[2]) PROVE FALSE
      <3>1. t[1] = worker[w].name /\ t[2] = worker[w].key
        BY <2>1, <2>2 DEF OnIt
      <3>2. t = <<t[1], t[2]>>
        BY DEF Shapes, HistoryOK
      <3> QED BY <2>1, <2>2, <3>1, <3>2
    <2> QED BY <2>1, <2>2, FreeHandles
  <1>18. ASSUME NEW w \in Workers, SettleFailed(w) PROVE Handled'
    <2>1. /\ worker[w].at = "settle" /\ UNCHANGED <<told, waiting>>
          /\ \A v \in Workers : v # w => worker'[v] = worker[v]
      BY <1>18, SettleFailedDoes DEF ScanInv
    <2>2. \/ worker[w].outcome = "gone" /\ failed' = failed
          \/ failed' = failed \cup {<<worker[w].name, worker[w].key>>}
      BY <1>18, SettleFailedDoes DEF ScanInv
    <2>3. ASSUME NEW t \in told' \ failed', OnIt(w, t[1], t[2]) PROVE FALSE
      <3>1. /\ t[1] = worker[w].name /\ t[2] = worker[w].key
            /\ worker[w].outcome # "gone"
        BY <2>1, <2>3 DEF OnIt
      <3>2. t = <<t[1], t[2]>>
        BY DEF Shapes, HistoryOK
      <3> QED BY <2>2, <3>1, <3>2
    <2> QED BY <2>1, <2>2, <2>3, FreeHandles
  <1>19. ASSUME NEW w \in Workers, Act(w) PROVE Handled'
    <2>1. /\ worker[w].at = "act" /\ UNCHANGED <<told, failed, waiting>>
          /\ \A v \in Workers : v # w => worker'[v] = worker[v]
      BY <1>19, ActDoes DEF ScanInv
    <2>2. \A t \in told' : ~OnIt(w, t[1], t[2])
      BY <2>1 DEF OnIt
    <2> QED BY <2>1, <2>2, FreeHandles
  <1>20. ASSUME NEW w \in Workers, Move(w) PROVE Handled'
    <2>1. /\ worker[w].at = "move" /\ UNCHANGED <<told, failed, waiting>>
          /\ \A v \in Workers : v # w => worker'[v] = worker[v]
      BY <1>20, MoveDoes DEF ScanInv
    <2>2. \A t \in told' : ~OnIt(w, t[1], t[2])
      BY <2>1 DEF OnIt
    <2> QED BY <2>1, <2>2, FreeHandles
  <1>21. ASSUME SaveCache PROVE Handled'
    <2>1. UNCHANGED <<waiting, worker, told, failed>>
      BY SaveCacheDoes, <1>21 DEF ScanInv
    <2> QED BY <2>1, QueueHandles
  <1>22. ASSUME Stop PROVE Handled'
    <2>1. UNCHANGED <<waiting, worker, told, failed>>
      BY StopDoes, <1>22 DEF ScanInv
    <2> QED BY <2>1, QueueHandles
  <1>23. ASSUME Down PROVE Handled'
    <2>1. waiting \subseteq waiting' /\ UNCHANGED <<told, worker, failed>>
      BY <1>23, DownDoes DEF ScanInv
    <2> QED BY <2>1, QueueHandles
  <1>24. ASSUME Start PROVE Handled'
    <2>1. UNCHANGED <<waiting, worker, told, failed>>
      BY StartDoes, <1>24 DEF ScanInv
    <2> QED BY <2>1, QueueHandles
  <1>25. ASSUME Crash PROVE Handled'
    <2>1. told' = {t \in told : t[1] \in waiting'}
      BY <1>25, CrashDoes DEF ScanInv
    <2> QED BY <2>1 DEF Handled
  <1>26. CASE UNCHANGED vars
    <2>1. UNCHANGED <<waiting, worker, told, failed>>
      BY <1>26 DEF vars
    <2> QED BY <2>1, QueueHandles
  <1> QED BY <1>1, <1>2, <1>3, <1>4, <1>5, <1>6, <1>7, <1>8, <1>9, <1>10, <1>11,
             <1>12, <1>13, <1>14, <1>15, <1>16, <1>17, <1>18, <1>19, <1>20, <1>21,
             <1>22, <1>23, <1>24, <1>25, <1>26 DEF Next, Others, IntakeStep,
             WorkerStep

-----------------------------------------------------------------------------
(* What was denied is followed up.                                         *)

(* The paths of a lane after its end or its head changed.                  *)
LEMMA LaneGrows ==
    ASSUME NEW s \in Seq(Names), NEW n \in Names
    PROVE  Elems(Append(s, n)) = Elems(s) \cup {n}
  <1>1. Append(s, n) \in Seq(Names) /\ Len(Append(s, n)) = Len(s) + 1
    OBVIOUS
  <1>2. \A i \in 1..Len(s) : Append(s, n)[i] = s[i]
    OBVIOUS
  <1>3. Append(s, n)[Len(s) + 1] = n
    OBVIOUS
  <1>4. ASSUME NEW x \in Elems(Append(s, n)) PROVE x \in Elems(s) \cup {n}
    <2>1. PICK i \in 1..(Len(s) + 1) : x = Append(s, n)[i]
      BY <1>1, <1>4 DEF Elems
    <2>2. CASE i = Len(s) + 1
      BY <1>3, <2>1, <2>2
    <2>3. CASE i # Len(s) + 1
      <3>1. i \in 1..Len(s)
        BY <2>1, <2>3
      <3> QED BY <1>2, <2>1, <3>1 DEF Elems
    <2> QED BY <2>2, <2>3
  <1>5. Elems(s) \subseteq Elems(Append(s, n))
    BY <1>1, <1>2 DEF Elems
  <1>6. n \in Elems(Append(s, n))
    BY <1>1, <1>3 DEF Elems
  <1> QED BY <1>4, <1>5, <1>6

(* Taking the head away leaves the rest.                                   *)
LEMMA LaneShrinks ==
    ASSUME NEW s \in Seq(Names), s # <<>>
    PROVE  Elems(s) \subseteq Elems(Tail(s)) \cup {Head(s)}
  <1>1. Len(Tail(s)) = Len(s) - 1 /\ Tail(s) \in Seq(Names)
    OBVIOUS
  <1>2. \A i \in 1..Len(s) - 1 : Tail(s)[i] = s[i + 1]
    OBVIOUS
  <1>3. ASSUME NEW i \in 1..Len(s), i # 1 PROVE s[i] \in Elems(Tail(s))
    <2>1. i - 1 \in 1..Len(s) - 1 /\ s[i] = Tail(s)[i - 1]
      BY <1>2, <1>3
    <2>2. DOMAIN Tail(s) = 1..Len(s) - 1
      BY <1>1
    <2> QED BY <2>1, <2>2 DEF Elems
  <1> QED BY <1>3 DEF Elems

(* A denial is followed up if its path is somewhere.                       *)
Followed(n) ==
    \/ n \in Elems(followups)
    \/ phase = "down" /\ n \in waiting
    \/ \E w \in Workers : worker[w].name = n /\ worker[w].at = "act"

(* The invariant in these words.                                           *)
LEMMA FollowingIs == Following <=> (used.lifetimes = 1 => \A d \in denied : Followed(d[1]))
  BY DEF Following, Followed

(* A step of the same lifetime leaves the follow-ups where they are, and   *)
(* what it denies is followed up.                                          *)
LEMMA LeavesFollowing ==
    ASSUME ScanInv, used'.lifetimes = used.lifetimes,
           \A d \in denied' : (d \in denied => Followed(d[1])) => Followed(d[1])'
    PROVE  Following'
  <1>1. Following <=> (used.lifetimes = 1 => \A d \in denied : Followed(d[1]))
    BY FollowingIs
  <1>2. ASSUME used.lifetimes = 1, NEW d \in denied' PROVE Followed(d[1])'
    BY <1>1, <1>2 DEF ScanInv
  <1> QED BY <1>2 DEF Following, Followed

(* ... as one does that leaves the lane and the workers alone.             *)
LEMMA StillFollowing ==
    ASSUME ScanInv, UNCHANGED <<followups, worker, phase, denied>>,
           used'.lifetimes = used.lifetimes, waiting \subseteq waiting'
    PROVE  Following'
  <1>1. \A d \in denied' : Followed(d[1]) => Followed(d[1])'
    BY DEF Followed
  <1> QED BY <1>1, LeavesFollowing

(* ... or a worker's that records nothing.                                 *)
LEMMA WorkerFollowing ==
    ASSUME ScanInv, NEW w \in Workers, worker[w].at # "act",
           \A v \in Workers : v # w => worker'[v] = worker[v],
           UNCHANGED <<followups, phase, denied>>,
           used'.lifetimes = used.lifetimes, phase = "running" \/ waiting \subseteq waiting'
    PROVE  Following'
  <1>1. ASSUME NEW d \in denied', Followed(d[1]) PROVE Followed(d[1])'
    <2>1. CASE d[1] \in Elems(followups)
      BY <2>1 DEF Followed
    <2>2. CASE phase = "down" /\ d[1] \in waiting
      BY <2>2 DEF Followed
    <2>3. CASE \E v \in Workers : worker[v].name = d[1] /\ worker[v].at = "act"
      <3>1. PICK v \in Workers : worker[v].name = d[1] /\ worker[v].at = "act"
        BY <2>3
      <3>2. worker'[v] = worker[v]
        BY <3>1
      <3> QED BY <3>1, <3>2 DEF Followed
    <2> QED BY <1>1, <2>1, <2>2, <2>3 DEF Followed
  <1> QED BY <1>1, LeavesFollowing

(* ... or one that denies and puts the path into the lane.                 *)
LEMMA DenyFollowing ==
    ASSUME ScanInv, NEW n \in Names, NEW k, followups' = Append(followups, n),
           denied' = denied \cup {<<n, k>>}, UNCHANGED <<worker, phase>>,
           used'.lifetimes = used.lifetimes, waiting \subseteq waiting'
    PROVE  Following'
  <1>1. Elems(followups') = Elems(followups) \cup {n}
    BY LaneGrows DEF ScanInv, Shapes, QueueOK
  <1>2. ASSUME NEW d \in denied', d \in denied => Followed(d[1])
        PROVE  Followed(d[1])'
    <2>1. CASE d = <<n, k>>
      <3>1. n \in Elems(followups)'
        BY <1>1 DEF Elems
      <3> QED BY <2>1, <3>1 DEF Followed
    <2>2. CASE d # <<n, k>>
      <3>1. Followed(d[1])
        BY <1>2, <2>2
      <3>2. Elems(followups)' = Elems(followups) \cup {n}
        BY <1>1 DEF Elems
      <3> QED BY <3>1, <3>2 DEF Followed
    <2> QED BY <2>1, <2>2
  <1> QED BY <1>2, LeavesFollowing

(* Every step keeps to that.                                               *)
LEMMA FollowingStays ==
    ASSUME ScanInv, Shapes', [Next]_vars
    PROVE  Following'
  <1>1. ASSUME NEW n \in Names, NEW f \in Files, NEW bad \in BOOLEAN, CloseWrite(n, f, bad)
        PROVE  Following'
    <2>1. /\ UNCHANGED <<followups, worker, phase, denied>>
          /\ used'.lifetimes = used.lifetimes /\ waiting \subseteq waiting'
      BY <1>1, CloseWriteDoes DEF ScanInv
    <2> QED BY <2>1, StillFollowing
  <1>2. ASSUME NEW n \in Names, NEW kind \in {"open", "exec"}, Use(n, kind)
        PROVE  Following'
    <2>1. /\ UNCHANGED <<followups, worker, phase, denied>>
          /\ used'.lifetimes = used.lifetimes /\ waiting \subseteq waiting'
      BY <1>2, UseDoes DEF ScanInv
    <2> QED BY <2>1, StillFollowing
  <1>3. ASSUME NEW n \in Names, NEW m \in Names, Rename(n, m) PROVE Following'
    <2>1. /\ UNCHANGED <<followups, worker, phase, denied>>
          /\ used'.lifetimes = used.lifetimes /\ waiting \subseteq waiting'
      BY <1>3, RenameDoes DEF ScanInv
    <2> QED BY <2>1, StillFollowing
  <1>4. ASSUME Vanished PROVE Following'
    <2>1. UNCHANGED <<waiting, followups, worker, phase, used, denied>>
      BY VanishedDoes, <1>4 DEF ScanInv
    <2> QED BY <2>1, StillFollowing
  <1>5. ASSUME NEW f \in Files, NEW n \in Names, Written(f, n) PROVE Following'
    <2>1. /\ UNCHANGED <<followups, worker, phase, denied>>
          /\ used'.lifetimes = used.lifetimes /\ waiting \subseteq waiting'
      BY <1>5, WrittenDoes DEF ScanInv
    <2> QED BY <2>1, StillFollowing
  <1>6. ASSUME NEW f \in Files, NEW n \in Names, Opened(f, n) PROVE Following'
    <2>1. /\ UNCHANGED <<followups, worker, phase, denied>>
          /\ used'.lifetimes = used.lifetimes /\ waiting \subseteq waiting'
      BY <1>6, OpenedDoes DEF ScanInv
    <2> QED BY <2>1, StillFollowing
  <1>7. ASSUME NEW f \in Files, NEW n \in Names, ExecKnown(f, n) PROVE Following'
    <2>1. UNCHANGED <<worker, phase, used, waiting>>
      BY <1>7, ExecKnownDoes DEF ScanInv
    <2>2. \/ followups' = Append(followups, n) /\ denied' = denied \cup {<<n, Key(f)>>}
          \/ UNCHANGED <<followups, denied>>
      BY <1>7, ExecKnownDoes DEF ScanInv
    <2> QED BY <2>1, <2>2, DenyFollowing, StillFollowing
  <1>8. ASSUME NEW f \in Files, NEW n \in Names, ExecOverBudget(f, n)
        PROVE  Following'
    <2>1. /\ UNCHANGED <<followups, worker, phase, denied>>
          /\ used'.lifetimes = used.lifetimes /\ waiting \subseteq waiting'
      BY <1>8, ExecOverBudgetDoes DEF ScanInv
    <2> QED BY <2>1, StillFollowing
  <1>9. ASSUME NEW f \in Files, NEW n \in Names, ExecAsk(f, n) PROVE Following'
    <2>1. UNCHANGED <<waiting, followups, worker, phase, used, denied>>
      BY ExecAskDoes, <1>9 DEF ScanInv
    <2> QED BY <2>1, StillFollowing
  <1>10. ASSUME GateScan PROVE Following'
    <2>1. /\ UNCHANGED <<followups, worker, phase, denied>>
          /\ used'.lifetimes = used.lifetimes /\ waiting \subseteq waiting'
      BY <1>10, GateScanDoes DEF ScanInv
    <2> QED BY <2>1, StillFollowing
  <1>11. ASSUME GateAnswer PROVE Following'
    <2>1. /\ UNCHANGED <<worker, phase, used>>
          /\ waiting \subseteq waiting' /\ intake.name \in Names
      BY <1>11, GateAnswerDoes, IntakeIs DEF ScanInv, Asks
    <2>2. \/ /\ followups' = Append(followups, intake.name)
             /\ denied' = denied \cup {<<intake.name, intake.key>>}
          \/ UNCHANGED <<followups, denied>>
      BY <1>11, GateAnswerDoes DEF ScanInv
    <2> QED BY <2>1, <2>2, DenyFollowing, StillFollowing
  <1>12. ASSUME NEW w \in Workers, TakeFollowUp(w) PROVE Following'
    <2>1. /\ worker[w].at = "idle" /\ followups # <<>>
          /\ followups' = Tail(followups)
          /\ worker'[w] = [IdleWorker EXCEPT !.at = "act", !.name = Head(followups),
                                             !.kind = "denied"]
          /\ \A v \in Workers : v # w => worker'[v] = worker[v]
      BY <1>12, TakeFollowUpDoes DEF ScanInv
    <2>2. UNCHANGED <<used, phase, denied, waiting>>
      BY <1>12, TakeFollowUpDoes DEF ScanInv
    <2>3. worker'[w].at = "act" /\ worker'[w].name = Head(followups)
      BY <2>1 DEF IdleWorker
    <2>4. Elems(followups) \subseteq Elems(followups)' \cup {Head(followups)}
      <3>1. Elems(followups)' = Elems(Tail(followups))
        BY <2>1 DEF Elems
      <3> QED BY <2>1, <3>1, LaneShrinks DEF ScanInv, Shapes, QueueOK
    <2>5. ASSUME NEW d \in denied', Followed(d[1]) PROVE Followed(d[1])'
      <3>1. CASE d[1] \in Elems(followups)
        BY <2>3, <2>4, <3>1 DEF Followed
      <3>2. CASE phase = "down" /\ d[1] \in waiting
        BY <2>2, <3>2 DEF Followed
      <3>3. CASE \E v \in Workers : worker[v].name = d[1] /\ worker[v].at = "act"
        <4>1. PICK v \in Workers : worker[v].name = d[1] /\ worker[v].at = "act"
          BY <3>3
        <4>2. worker'[v] = worker[v]
          BY <2>1, <4>1
        <4> QED BY <4>1, <4>2 DEF Followed
      <3> QED BY <2>5, <3>1, <3>2, <3>3 DEF Followed
    <2> QED BY <2>2, <2>5, LeavesFollowing
  <1>13. ASSUME NEW w \in Workers, NEW n \in Names, TakeScan(w, n) PROVE Following'
    <2>1. /\ worker[w].at = "idle" /\ UNCHANGED <<followups, phase, denied>>
          /\ \A v \in Workers : v # w => worker'[v] = worker[v]
          /\ used'.lifetimes = used.lifetimes /\ phase = "running"
      BY <1>13, TakeScanDoes DEF ScanInv
    <2> QED BY <2>1, WorkerFollowing
  <1>14. ASSUME NEW w \in Workers, Look(w) PROVE Following'
    <2>1. /\ worker[w].at = "look" /\ UNCHANGED <<followups, phase, denied>>
          /\ \A v \in Workers : v # w => worker'[v] = worker[v]
          /\ used'.lifetimes = used.lifetimes /\ waiting \subseteq waiting'
      BY <1>14, LookDoes DEF ScanInv
    <2> QED BY <2>1, WorkerFollowing
  <1>15. ASSUME NEW w \in Workers, Scan(w) PROVE Following'
    <2>1. /\ worker[w].at = "scan" /\ UNCHANGED <<followups, phase, denied>>
          /\ \A v \in Workers : v # w => worker'[v] = worker[v]
          /\ used'.lifetimes = used.lifetimes /\ waiting \subseteq waiting'
      BY <1>15, ScanDoes DEF ScanInv
    <2> QED BY <2>1, WorkerFollowing
  <1>16. ASSUME NEW w \in Workers, SettleInfected(w) PROVE Following'
    <2>1. /\ worker[w].at = "settle" /\ UNCHANGED <<followups, phase, denied>>
          /\ \A v \in Workers : v # w => worker'[v] = worker[v]
          /\ used'.lifetimes = used.lifetimes /\ waiting \subseteq waiting'
      BY <1>16, SettleInfectedDoes DEF ScanInv
    <2> QED BY <2>1, WorkerFollowing
  <1>17. ASSUME NEW w \in Workers, SettleClean(w) PROVE Following'
    <2>1. /\ worker[w].at = "settle" /\ UNCHANGED <<followups, phase, denied>>
          /\ \A v \in Workers : v # w => worker'[v] = worker[v]
          /\ used'.lifetimes = used.lifetimes /\ waiting \subseteq waiting'
      BY <1>17, SettleCleanDoes DEF ScanInv
    <2> QED BY <2>1, WorkerFollowing
  <1>18. ASSUME NEW w \in Workers, SettleFailed(w) PROVE Following'
    <2>1. /\ worker[w].at = "settle" /\ UNCHANGED <<followups, phase, denied>>
          /\ \A v \in Workers : v # w => worker'[v] = worker[v]
          /\ used'.lifetimes = used.lifetimes /\ waiting \subseteq waiting'
      BY <1>18, SettleFailedDoes DEF ScanInv
    <2> QED BY <2>1, WorkerFollowing
  <1>19. ASSUME NEW w \in Workers, Act(w) PROVE Following'
    <2>1. /\ denied' = {d \in denied : d[1] # worker[w].name}
          /\ \A v \in Workers : v # w => worker'[v] = worker[v]
      BY <1>19, ActDoes DEF ScanInv
    <2>2. UNCHANGED <<used, phase, followups, waiting>>
      BY <1>19, ActDoes DEF ScanInv
    <2>3. ASSUME NEW d \in denied', Followed(d[1]) PROVE Followed(d[1])'
      <3>1. CASE d[1] \in Elems(followups) \/ (phase = "down" /\ d[1] \in waiting)
        BY <2>2, <3>1 DEF Followed
      <3>2. CASE \E v \in Workers : worker[v].name = d[1] /\ worker[v].at = "act"
        <4>1. PICK v \in Workers : worker[v].name = d[1] /\ worker[v].at = "act"
          BY <3>2
        <4>2. worker'[v] = worker[v]
          BY <2>1, <4>1
        <4> QED BY <4>1, <4>2 DEF Followed
      <3> QED BY <2>3, <3>1, <3>2 DEF Followed
    <2>4. denied' \subseteq denied
      BY <2>1
    <2> QED BY <2>2, <2>3, <2>4, LeavesFollowing
  <1>20. ASSUME NEW w \in Workers, Move(w) PROVE Following'
    <2>1. /\ worker[w].at = "move" /\ UNCHANGED <<followups, phase, denied>>
          /\ \A v \in Workers : v # w => worker'[v] = worker[v]
          /\ used'.lifetimes = used.lifetimes /\ waiting \subseteq waiting'
      BY <1>20, MoveDoes DEF ScanInv
    <2> QED BY <2>1, WorkerFollowing
  <1>21. ASSUME SaveCache PROVE Following'
    <2>1. UNCHANGED <<waiting, followups, worker, phase, used, denied>>
      BY SaveCacheDoes, <1>21 DEF ScanInv
    <2> QED BY <2>1, StillFollowing
  <1>22. ASSUME Stop PROVE Following'
    <2>1. /\ phase = "running"
          /\ UNCHANGED <<used, worker, followups, waiting, denied>>
      BY <1>22, StopDoes DEF ScanInv
    <2>2. \A d \in denied' : Followed(d[1]) => Followed(d[1])'
      BY <2>1 DEF Followed
    <2> QED BY <2>1, <2>2, LeavesFollowing
  <1>23. ASSUME Down PROVE Following'
    <2>1. /\ phase' = "down" /\ \A w \in Workers : worker[w].at = "idle"
          /\ waiting' = waiting \cup Elems(followups) /\ UNCHANGED <<used, denied>>
      BY <1>23, DownDoes DEF ScanInv
    <2>2. \A d \in denied' : Followed(d[1]) => Followed(d[1])'
      BY <2>1 DEF Followed
    <2> QED BY <2>1, <2>2, LeavesFollowing
  <1>24. ASSUME Start PROVE Following'
    <2>1. /\ used'.lifetimes = used.lifetimes + 1
          /\ used \in UsedT /\ used.lifetimes >= 1
      BY <1>24, StartDoes DEF ScanInv, Shapes, UsedOK
    <2>2. used'.lifetimes # 1
      BY <2>1 DEF UsedT
    <2> QED BY <2>2 DEF Following
  <1>25. ASSUME Crash PROVE Following'
    <2>1. denied' = {}
      BY <1>25, CrashDoes DEF ScanInv
    <2> QED BY <2>1 DEF Following
  <1>26. CASE UNCHANGED vars
    <2>1. UNCHANGED <<waiting, followups, worker, phase, used, denied>>
      BY <1>26 DEF vars
    <2> QED BY <2>1, StillFollowing
  <1> QED BY <1>1, <1>2, <1>3, <1>4, <1>5, <1>6, <1>7, <1>8, <1>9, <1>10, <1>11,
             <1>12, <1>13, <1>14, <1>15, <1>16, <1>17, <1>18, <1>19, <1>20, <1>21,
             <1>22, <1>23, <1>24, <1>25, <1>26 DEF Next, Others, IntakeStep,
             WorkerStep

-----------------------------------------------------------------------------
(* Detections.                                                             *)

(* A verdict that leaves the cache is remembered as such.                  *)
LEMMA OnceForgets ==
    ASSUME ScanInv, UNCHANGED <<found, again>>, denied' \subseteq denied, Forgets(cache')
    PROVE  Once'
  <1>1. \A k \in Keys : Seen(k)' => Seen(k)
    BY DEF Seen
  <1>2. \A k \in Keys : cache[k] = "infected" => cache'[k] = "infected" \/ k \in forgotten'
    BY DEF Forgets
  <1>3. forgotten \subseteq forgotten'
    BY DEF Forgets
  <1> QED BY <1>1, <1>2, <1>3 DEF ScanInv, Once

(* A step without a new infected verdict, denial or detection.             *)
LEMMA ForgetsDetections ==
    ASSUME ScanInv, UNCHANGED <<found, again, denied>>, Forgets(cache'),
           used'.lifetimes = used.lifetimes, phase' # "down" => phase # "down",
           \A k \in Keys : cache'[k] = "infected" => cache[k] = "infected"
    PROVE  Once' /\ Reported'
  <1>1. Once'
    BY OnceForgets
  <1>2. \A k \in Keys : Seen(k)' <=> Seen(k)
    BY DEF Seen
  <1>3. Reported'
    BY <1>2 DEF ScanInv, Reported
  <1> QED BY <1>1, <1>3

(* ... and one that leaves the cache alone.                                *)
LEMMA SameDetections ==
    ASSUME ScanInv, UNCHANGED <<cache, found, again, denied, forgotten>>,
           used'.lifetimes = used.lifetimes, phase' # "down" => phase # "down"
    PROVE  Once' /\ Reported'
  <1>1. Forgets(cache')
    <2>1. {k \in Keys : cache[k] = "infected" /\ cache'[k] # "infected"} = {}
      OBVIOUS
    <2>2. forgotten' = forgotten
      OBVIOUS
    <2> QED BY <2>1, <2>2 DEF Forgets
  <1>2. \A k \in Keys : cache'[k] = "infected" => cache[k] = "infected"
    OBVIOUS
  <1> QED BY <1>1, <1>2, ForgetsDetections

(* A denial comes with the infected verdict.                               *)
LEMMA DeniesDetection ==
    ASSUME ScanInv, NEW n, NEW j \in Keys, denied' = denied \cup {<<n, j>>},
           UNCHANGED <<found, again>>, Forgets(cache'), cache'[j] = "infected",
           used'.lifetimes = used.lifetimes, phase' # "down" => phase # "down",
           \A k \in Keys : k # j /\ cache'[k] = "infected" => cache[k] = "infected"
    PROVE  Once' /\ Reported'
  <1>1. ASSUME NEW k \in Keys PROVE Seen(k)' <=> Seen(k) \/ k = j
    <2>1. <<n, j>>[2] = j
      OBVIOUS
    <2>2. (\E d \in denied' : d[2] = k) <=> (\E d \in denied : d[2] = k) \/ k = j
      BY <2>1
    <2>3. Seen(k) <=> k \in found \/ \E d \in denied : d[2] = k
      BY DEF Seen
    <2>4. Seen(k)' <=> k \in found' \/ \E d \in denied' : d[2] = k
      BY DEF Seen
    <2> QED BY <2>2, <2>3, <2>4
  <1>2. \A k \in Keys : cache[k] = "infected" => cache'[k] = "infected" \/ k \in forgotten'
    BY DEF Forgets
  <1>3. forgotten \subseteq forgotten'
    BY DEF Forgets
  <1>4. Once'
    BY <1>1, <1>2, <1>3 DEF ScanInv, Once
  <1>5. Reported'
    BY <1>1 DEF ScanInv, Reported
  <1> QED BY <1>4, <1>5

(* Every step keeps to that.                                               *)
LEMMA DetectionsStay ==
    ASSUME ScanInv, [Next]_vars
    PROVE  Once' /\ Reported'
  <1>1. ASSUME NEW n \in Names, NEW f \in Files, NEW bad \in BOOLEAN, CloseWrite(n, f, bad)
        PROVE  Once' /\ Reported'
    <2>1. /\ UNCHANGED <<cache, found, again, denied, forgotten>>
          /\ used'.lifetimes = used.lifetimes /\ (phase' # "down" => phase # "down")
      BY <1>1, CloseWriteDoes DEF ScanInv
    <2> QED BY <2>1, SameDetections
  <1>2. ASSUME NEW n \in Names, NEW kind \in {"open", "exec"}, Use(n, kind)
        PROVE  Once' /\ Reported'
    <2>1. /\ UNCHANGED <<cache, found, again, denied, forgotten>>
          /\ used'.lifetimes = used.lifetimes /\ (phase' # "down" => phase # "down")
      BY <1>2, UseDoes DEF ScanInv
    <2> QED BY <2>1, SameDetections
  <1>3. ASSUME NEW n \in Names, NEW m \in Names, Rename(n, m)
        PROVE  Once' /\ Reported'
    <2>1. /\ UNCHANGED <<cache, found, again, denied, forgotten>>
          /\ used'.lifetimes = used.lifetimes /\ (phase' # "down" => phase # "down")
      BY <1>3, RenameDoes DEF ScanInv
    <2> QED BY <2>1, SameDetections
  <1>4. ASSUME Vanished
        PROVE  Once' /\ Reported'
    <2>1. /\ UNCHANGED <<cache, found, again, denied, forgotten>>
          /\ used'.lifetimes = used.lifetimes /\ (phase' # "down" => phase # "down")
      BY <1>4, VanishedDoes DEF ScanInv
    <2> QED BY <2>1, SameDetections
  <1>5. ASSUME NEW f \in Files, NEW n \in Names, Written(f, n)
        PROVE  Once' /\ Reported'
    <2>1. /\ UNCHANGED <<cache, found, again, denied, forgotten>>
          /\ used'.lifetimes = used.lifetimes /\ (phase' # "down" => phase # "down")
      BY <1>5, WrittenDoes DEF ScanInv
    <2> QED BY <2>1, SameDetections
  <1>6. ASSUME NEW f \in Files, NEW n \in Names, Opened(f, n)
        PROVE  Once' /\ Reported'
    <2>1. /\ UNCHANGED <<cache, found, again, denied, forgotten>>
          /\ used'.lifetimes = used.lifetimes /\ (phase' # "down" => phase # "down")
      BY <1>6, OpenedDoes DEF ScanInv
    <2> QED BY <2>1, SameDetections
  <1>7. ASSUME NEW f \in Files, NEW n \in Names, ExecKnown(f, n)
        PROVE  Once' /\ Reported'
    <2>1. UNCHANGED <<cache, found, again, forgotten, phase, used>> /\ Key(f) \in Keys
      BY <1>7, ExecKnownDoes DEF ScanInv
    <2>2. CASE UNCHANGED denied
      BY <2>1, <2>2, SameDetections
    <2>3. CASE cache[Key(f)] = "infected" /\ denied' = denied \cup {<<n, Key(f)>>}
      <3>1. cache'[Key(f)] = "infected"
        BY <2>1, <2>3
      <3>2. \A k \in Keys : cache'[k] = "infected" => cache[k] = "infected"
        BY <2>1
      <3>3. Forgets(cache')
        BY <2>1 DEF Forgets
      <3> QED BY <2>1, <2>3, <3>1, <3>2, <3>3, DeniesDetection
    <2> QED BY <1>7, <2>2, <2>3, ExecKnownDoes DEF ScanInv
  <1>8. ASSUME NEW f \in Files, NEW n \in Names, ExecOverBudget(f, n)
        PROVE  Once' /\ Reported'
    <2>1. /\ UNCHANGED <<cache, found, again, denied, forgotten>>
          /\ used'.lifetimes = used.lifetimes /\ (phase' # "down" => phase # "down")
      BY <1>8, ExecOverBudgetDoes DEF ScanInv
    <2> QED BY <2>1, SameDetections
  <1>9. ASSUME NEW f \in Files, NEW n \in Names, ExecAsk(f, n)
        PROVE  Once' /\ Reported'
    <2>1. /\ UNCHANGED <<cache, found, again, denied, forgotten>>
          /\ used'.lifetimes = used.lifetimes /\ (phase' # "down" => phase # "down")
      BY <1>9, ExecAskDoes DEF ScanInv
    <2> QED BY <2>1, SameDetections
  <1>10. ASSUME GateScan
        PROVE  Once' /\ Reported'
    <2>1. /\ UNCHANGED <<cache, found, again, denied, forgotten>>
          /\ used'.lifetimes = used.lifetimes /\ (phase' # "down" => phase # "down")
      BY <1>10, GateScanDoes DEF ScanInv
    <2> QED BY <2>1, SameDetections
  <1>11. ASSUME GateAnswer
        PROVE  Once' /\ Reported'
    <2>1. /\ UNCHANGED <<found, again, phase, used>> /\ Forgets(cache')
          /\ intake.key \in Keys
      BY <1>11, GateAnswerDoes, IntakeIs DEF ScanInv, Asks
    <2>2. CASE intake.outcome = "infected"
      <3>1. cache' \in Put(intake.key, "infected")
        BY <1>11, <2>2, GateAnswerDoes DEF ScanInv, Sure
      <3>2. /\ cache'[intake.key] = "infected"
            /\ \A k \in Keys : k # intake.key /\ cache'[k] = "infected"
                  => cache[k] = "infected"
        BY <2>1, <3>1, PutDoes DEF ScanInv, Sure
      <3>3. denied' = denied \cup {<<intake.name, intake.key>>}
        BY <1>11, <2>2, GateAnswerDoes DEF ScanInv
      <3> QED BY <2>1, <3>2, <3>3, DeniesDetection
    <2>3. CASE intake.outcome # "infected"
      <3>1. UNCHANGED denied
        BY <1>11, <2>3, GateAnswerDoes DEF ScanInv
      <3>2. UNCHANGED cache \/ cache' \in Put(intake.key, "clean")
        BY <1>11, <2>3, GateAnswerDoes DEF ScanInv, Sure
      <3>3. \A k \in Keys : cache'[k] = "infected" => cache[k] = "infected"
        BY <2>1, <3>2, PutDoes DEF ScanInv, Sure
      <3> QED BY <2>1, <3>1, <3>3, ForgetsDetections
    <2> QED BY <2>2, <2>3
  <1>12. ASSUME NEW w \in Workers, TakeFollowUp(w)
        PROVE  Once' /\ Reported'
    <2>1. /\ UNCHANGED <<cache, found, again, denied, forgotten>>
          /\ used'.lifetimes = used.lifetimes /\ (phase' # "down" => phase # "down")
      BY <1>12, TakeFollowUpDoes DEF ScanInv
    <2> QED BY <2>1, SameDetections
  <1>13. ASSUME NEW w \in Workers, NEW n \in Names, TakeScan(w, n)
        PROVE  Once' /\ Reported'
    <2>1. /\ UNCHANGED <<cache, found, again, denied, forgotten>>
          /\ used'.lifetimes = used.lifetimes /\ (phase' # "down" => phase # "down")
      BY <1>13, TakeScanDoes DEF ScanInv
    <2> QED BY <2>1, SameDetections
  <1>14. ASSUME NEW w \in Workers, Look(w)
        PROVE  Once' /\ Reported'
    <2>1. /\ UNCHANGED <<cache, found, again, denied, forgotten>>
          /\ used'.lifetimes = used.lifetimes /\ (phase' # "down" => phase # "down")
      BY <1>14, LookDoes DEF ScanInv
    <2> QED BY <2>1, SameDetections
  <1>15. ASSUME NEW w \in Workers, Scan(w)
        PROVE  Once' /\ Reported'
    <2>1. /\ UNCHANGED <<cache, found, again, denied, forgotten>>
          /\ used'.lifetimes = used.lifetimes /\ (phase' # "down" => phase # "down")
      BY <1>15, ScanDoes DEF ScanInv
    <2> QED BY <2>1, SameDetections
  <1>16. ASSUME NEW w \in Workers, SettleInfected(w)
        PROVE  Once' /\ Reported'
    <2> DEFINE k == worker[w].key
    <2>1. /\ k \in Keys /\ UNCHANGED <<denied, forgotten, phase, used>>
          /\ \/ /\ cache[k] # "infected" /\ cache' = [cache EXCEPT ![k] = "infected"]
                /\ found' = found \cup {k} /\ again' = again \cup ({k} \cap found)
             \/ UNCHANGED <<cache, found, again>>
      BY <1>16, SettleInfectedDoes DEF ScanInv
    <2>2. CASE UNCHANGED <<cache, found, again>>
      BY <2>1, <2>2, SameDetections
    <2>3. CASE /\ cache[k] # "infected" /\ cache' = [cache EXCEPT ![k] = "infected"]
               /\ found' = found \cup {k} /\ again' = again \cup ({k} \cap found)
      <3>1. k \in found => k \in forgotten
        BY <2>1, <2>3 DEF ScanInv, Once, Seen
      <3>2. again' \subseteq forgotten'
        BY <2>1, <2>3, <3>1 DEF ScanInv, Once
      <3>3. \A j \in Keys : Seen(j)' <=> Seen(j) \/ j = k
        BY <2>1, <2>3 DEF Seen
      <3>4. cache'[k] = "infected" /\ \A j \in Keys : j # k => cache'[j] = cache[j]
        BY <2>1, <2>3 DEF ScanInv, Shapes, CacheOK
      <3>5. Once'
        BY <2>1, <3>2, <3>3, <3>4 DEF ScanInv, Once
      <3>6. Reported'
        BY <2>1, <3>3, <3>4 DEF ScanInv, Reported
      <3> QED BY <3>5, <3>6
    <2> QED BY <2>1, <2>2, <2>3
  <1>17. ASSUME NEW w \in Workers, SettleClean(w)
        PROVE  Once' /\ Reported'
    <2>1. /\ UNCHANGED <<found, again, denied, phase, used>> /\ Forgets(cache')
          /\ worker[w].key \in Keys /\ cache' \in Put(worker[w].key, "clean")
      BY <1>17, SettleCleanDoes DEF ScanInv
    <2>2. \A k \in Keys : cache'[k] = "infected" => cache[k] = "infected"
      BY <2>1, PutDoes DEF ScanInv, Sure
    <2> QED BY <2>1, <2>2, ForgetsDetections
  <1>18. ASSUME NEW w \in Workers, SettleFailed(w)
        PROVE  Once' /\ Reported'
    <2>1. /\ UNCHANGED <<cache, found, again, denied, forgotten>>
          /\ used'.lifetimes = used.lifetimes /\ (phase' # "down" => phase # "down")
      BY <1>18, SettleFailedDoes DEF ScanInv
    <2> QED BY <2>1, SameDetections
  <1>19. ASSUME NEW w \in Workers, Act(w)
        PROVE  Once' /\ Reported'
    <2>1. /\ UNCHANGED <<cache, again, forgotten, phase, used>> /\ denied' \subseteq denied
          /\ found' = found \cup {d[2] : d \in denied \ denied'}
      BY <1>19, ActDoes DEF ScanInv
    <2>2. \A k \in Keys : Seen(k)' <=> Seen(k)
      BY <2>1 DEF Seen
    <2>3. Once'
      BY <2>1, <2>2 DEF ScanInv, Once
    <2>4. Reported'
      BY <2>1, <2>2 DEF ScanInv, Reported
    <2> QED BY <2>3, <2>4
  <1>20. ASSUME NEW w \in Workers, Move(w)
        PROVE  Once' /\ Reported'
    <2>1. /\ UNCHANGED <<cache, found, again, denied, forgotten>>
          /\ used'.lifetimes = used.lifetimes /\ (phase' # "down" => phase # "down")
      BY <1>20, MoveDoes DEF ScanInv
    <2> QED BY <2>1, SameDetections
  <1>21. ASSUME SaveCache
        PROVE  Once' /\ Reported'
    <2>1. /\ UNCHANGED <<cache, found, again, denied, forgotten>>
          /\ used'.lifetimes = used.lifetimes /\ (phase' # "down" => phase # "down")
      BY <1>21, SaveCacheDoes DEF ScanInv
    <2> QED BY <2>1, SameDetections
  <1>22. ASSUME Stop
        PROVE  Once' /\ Reported'
    <2>1. /\ UNCHANGED <<cache, found, again, denied, forgotten>>
          /\ used'.lifetimes = used.lifetimes /\ (phase' # "down" => phase # "down")
      BY <1>22, StopDoes DEF ScanInv
    <2> QED BY <2>1, SameDetections
  <1>23. ASSUME Down
        PROVE  Once' /\ Reported'
    <2>1. /\ UNCHANGED <<cache, found, again, denied, forgotten>>
          /\ used'.lifetimes = used.lifetimes /\ (phase' # "down" => phase # "down")
      BY <1>23, DownDoes DEF ScanInv
    <2> QED BY <2>1, SameDetections
  <1>24. ASSUME Start
        PROVE  Once' /\ Reported'
    <2>1. /\ UNCHANGED <<found, again, denied>> /\ Forgets(saved) /\ cache' = saved
          /\ used'.lifetimes = used.lifetimes + 1
      BY <1>24, StartDoes DEF ScanInv
    <2>2. Once'
      BY <2>1, OnceForgets DEF Forgets
    <2>3. used.lifetimes \in Nat /\ used.lifetimes >= 1
      BY DEF ScanInv, Shapes, UsedOK, UsedT
    <2>4. Reported'
      BY <2>1, <2>3 DEF Reported
    <2> QED BY <2>2, <2>4
  <1>25. ASSUME Crash
        PROVE  Once' /\ Reported'
    <2>1. /\ UNCHANGED <<found, again>> /\ Forgets(saved) /\ cache' = saved
          /\ denied' \subseteq denied /\ phase' = "down"
      BY <1>25, CrashDoes DEF ScanInv
    <2>2. Once'
      BY <2>1, OnceForgets DEF Forgets
    <2>3. Reported'
      BY <2>1 DEF Reported
    <2> QED BY <2>2, <2>3
  <1>26. CASE UNCHANGED vars
    BY <1>26, SameDetections DEF vars
  <1> QED BY <1>1, <1>2, <1>3, <1>4, <1>5, <1>6, <1>7, <1>8, <1>9, <1>10, <1>11,
             <1>12, <1>13, <1>14, <1>15, <1>16, <1>17, <1>18, <1>19, <1>20, <1>21,
             <1>22, <1>23, <1>24, <1>25, <1>26 DEF Next, Others, IntakeStep,
             WorkerStep

-----------------------------------------------------------------------------
(* The theorems.                                                           *)

(* The first state has the invariant.                                      *)
LEMMA InitScanInv ==
    ASSUME Init
    PROVE  ScanInv
  <1>1. FsOK
    <2>1. <<>> \in Seq(EventT)
      OBVIOUS
    <2> QED BY <2>1 DEF Init, FsOK, FileT
  <1>2. CacheOK
    BY DEF Init, CacheOK, Verdicts
  <1>3. QueueOK
    <2>1. <<>> \in Seq(Names)
      OBVIOUS
    <2> QED BY <2>1 DEF Init, QueueOK
  <1>4. IntakeOK
    BY DEF Init, IntakeOK, IntakeT, IdleIntake, Asks, NoKey, SomeKey, Outcome
  <1>5. WorkersOK
    BY IdleIsApt DEF Init, WorkersOK, Holds, Apt, IdleWorker
  <1>6. UsedOK /\ PhaseOK
    BY DEF Init, UsedOK, UsedT, PhaseOK
  <1>7. HistoryOK
    BY DEF Init, HistoryOK
  <1>8. Single
    BY DEF Init, Single
  <1>9. \A w \in Workers : ~Holds(w)
    BY DEF Init, Holds, IdleWorker
  <1>10. ~Asks
    BY DEF Init, Asks, IdleIntake
  <1>11. \A k \in Keys : cache[k] = "none" /\ saved[k] = "none"
    BY DEF Init
  <1>12. Stamped
    <2>1. FileStamps
      BY DEF Init, FileStamps
    <2> QED BY <2>1, <1>9, <1>10, <1>11
        DEF Init, Stamped, CacheStamps, SavedStamps, ToldStamps, DeniedStamps,
            GateStamps, WorkerStamps
  <1>13. Placed /\ Handled /\ Following /\ Once /\ Reported
    BY DEF Init, Placed, Handled, Following, Once, Reported, Seen
  <1>14. Homed
    BY <1>9, <1>10 DEF Homed, GateHomed, WorkersHomed
  <1>15. Right
    BY <1>9, <1>10, <1>11
    DEF Init, Right, RightCache, RightSaved, RightGate, RightWorkers, RightDenied, Asks, Holds
  <1> QED BY <1>1, <1>2, <1>3, <1>4, <1>5, <1>6, <1>7, <1>8, <1>12, <1>13, <1>14, <1>15
      DEF ScanInv, Shapes

(* Every step keeps the invariant.                                         *)
LEMMA ScanInvStays ==
    ASSUME ScanInv, [Next]_vars
    PROVE  ScanInv'
  <1>1. Shapes'
    BY ShapesStay
  <1>2. Single' /\ Stamped' /\ Placed'
    BY <1>1, SingleStays, StampedStays, PlacedStays
  <1>3. Homed'
    BY <1>1, GateHomedStays, WorkersHomedStays DEF Homed
  <1>4. Right'
    BY <1>1, RightCacheStays, RightSavedStays, RightGateStays, RightWorkersStays,
       RightDeniedStays
    DEF Right
  <1>5. Handled' /\ Following' /\ Once' /\ Reported'
    BY <1>1, HandledStays, FollowingStays, DetectionsStay
  <1> QED BY <1>1, <1>2, <1>3, <1>4, <1>5 DEF ScanInv

(* The invariant holds in every state of every behaviour.                  *)
THEOREM ScanningInvariant == Spec => []ScanInv
  <1>1. Init => ScanInv
    BY InitScanInv
  <1>2. ScanInv /\ [Next]_vars => ScanInv'
    BY ScanInvStays
  <1> QED BY <1>1, <1>2, PTL DEF Spec

(* The cache is sound (realtime.rs exec_verdict, scan_one): however the    *)
(* gate, the workers, the save, a restart and the writers interleave, a    *)
(* verdict that the gate or a lookup would use is the engine's verdict on  *)
(* the content that is there, as long as nothing is renamed and no rewrite *)
(* keeps second and size.                                                  *)
THEOREM CacheStaysSound == Spec => []CacheIsSound
  <1>1. ScanInv => TypeOK
    <2> SUFFICES ASSUME ScanInv PROVE TypeOK
      OBVIOUS
    <2>1. found \subseteq SomeKey /\ again \subseteq SomeKey
      BY DEF ScanInv, Shapes, HistoryOK, Once, SomeKey, Keys
    <2>2. /\ intake \in IntakeT
          /\ intake.at = "idle" <=> intake.name = NoName
      BY DEF ScanInv, Shapes, IntakeOK
    <2>3. worker \in [Workers -> WorkerT]
      BY DEF ScanInv, Shapes, WorkersOK
    <2>4. \A w \in Workers :
             /\ worker[w].at = "idle" <=> worker[w].name = NoName
             /\ worker[w].at \in {"scan", "settle"} => worker[w].key \in Keys
             /\ worker[w].kind # "none" <=> worker[w].at \in {"act", "move"}
      BY DEF ScanInv, Shapes, WorkersOK, Holds
    <2>5. FsOK /\ CacheOK /\ QueueOK /\ used \in UsedT /\ PhaseOK /\ HistoryOK
      BY DEF ScanInv, Shapes, UsedOK
    <2> QED BY <2>1, <2>2, <2>3, <2>4, <2>5
        DEF TypeOK, FsOK, CacheOK, QueueOK, PhaseOK, HistoryOK, IntakeT, WorkerT,
            UsedT, FileT, EventT
  <1>2. ScanInv => VerdictsAreTrue
    <2> SUFFICES ASSUME ScanInv, used.renames = 0, used.coarse = 0 PROVE
             /\ \A n \in Names :
                   dir[n] # NoFile /\ cache[Key(dir[n])] # "none"
                      => (cache[Key(dir[n])] = "infected") = file[dir[n]].bad
             /\ \A d \in denied : Current(d[1], d[2]) => file[dir[d[1]]].bad
      BY DEF VerdictsAreTrue
    <2>1. Plain
      BY DEF Plain
    <2>2. ASSUME NEW n \in Names, dir[n] # NoFile, cache[Key(dir[n])] # "none"
          PROVE  (cache[Key(dir[n])] = "infected") = file[dir[n]].bad
      <3>1. dir[n] \in Files /\ file[dir[n]].bad \in BOOLEAN
        BY <2>2 DEF ScanInv, Shapes, FsOK, FileT
      <3>2. Key(dir[n]) \in Keys /\ Current(n, Key(dir[n]))
        BY <2>2, <3>1, KeyIs DEF ScanInv, Current
      <3>3. Fits(Key(dir[n]), cache[Key(dir[n])])
        BY <2>1, <2>2, <3>2 DEF ScanInv, Right, RightCache
      <3>4. cache[Key(dir[n])] = "infected" <=> file[dir[n]].bad
        BY <3>2, <3>3 DEF Fits
      <3> QED BY <3>1, <3>4
    <2>3. ASSUME NEW d \in denied, Current(d[1], d[2]) PROVE file[dir[d[1]]].bad
      <3>1. d[1] \in Names
        BY DEF ScanInv, Shapes, HistoryOK
      <3>2. Fits(d[2], "infected")
        BY <2>1 DEF ScanInv, Right, RightDenied
      <3> QED BY <2>3, <3>1, <3>2 DEF Fits
    <2> QED BY <2>2, <2>3
  <1>3. ScanInv => CacheIsSound
    BY <1>1, <1>2 DEF CacheIsSound
  <1> QED BY <1>3, ScanningInvariant, PTL

(* What a write, a cache-miss open or the gate's fail-open hands over is   *)
(* judged, waiting or worked on as long as the content stays, renames and  *)
(* rewrites included; only a failed, skipped or interrupted scan drops it  *)
(* (realtime.rs intake_event, scan_one).                                   *)
THEOREM HandedIsCovered == Spec => []Covered
  <1>1. ScanInv => Covered
    BY DEF ScanInv, Handled, Covered, AtWork, OnIt
  <1> QED BY <1>1, ScanningInvariant, PTL

(* "A DENY's follow-up must not be lost" (realtime.rs                      *)
(* push_gate_detection): until a restart, the path of a denied exec is in  *)
(* the lane, saved, or in a worker's hand.                                 *)
THEOREM DenialsAreFollowed == Spec => []DenyFollowedUpInLife
  <1>1. ScanInv => DenyFollowedUpInLife
    BY DEF ScanInv, Following, DenyFollowedUpInLife, DenyFollowedUp
  <1> QED BY <1>1, ScanningInvariant, PTL

(* "Concurrent scans of the same file version must produce exactly one     *)
(* detection" (realtime.rs scan_one), with any number of workers and       *)
(* whatever the gate and the evictions do: until a restart every infected  *)
(* verdict in the cache is one that a worker acted on or has in its hand,  *)
(* or that waits in the lane; and no version is acted on twice whose       *)
(* verdict has not left the cache in between.                              *)
THEOREM DetectionsAreSingle == Spec => []OneDetection
  <1>1. ScanInv => AtMostOne
    BY DEF ScanInv, Once, AtMostOne
  <1>2. ScanInv => AtLeastOne
    <2> SUFFICES ASSUME ScanInv, used.lifetimes = 1, phase # "down", NEW k \in Keys,
                        cache[k] = "infected"
                 PROVE  \/ k \in found
                        \/ \E d \in denied :
                              /\ d[2] = k
                              /\ \/ d[1] \in Elems(followups)
                                 \/ \E w \in Workers :
                                       worker[w].name = d[1] /\ worker[w].at = "act"
      BY DEF AtLeastOne
    <2>1. Seen(k)
      BY DEF ScanInv, Reported
    <2>2. CASE k \in found
      BY <2>2
    <2>3. ASSUME NEW d \in denied, d[2] = k
          PROVE  \/ d[1] \in Elems(followups)
                 \/ \E w \in Workers : worker[w].name = d[1] /\ worker[w].at = "act"
      BY DEF ScanInv, Following
    <2> QED BY <2>1, <2>2, <2>3 DEF Seen
  <1>3. ScanInv => OneDetection
    BY <1>1, <1>2 DEF OneDetection
  <1> QED BY <1>3, ScanningInvariant, PTL

=============================================================================
