---------------------------- MODULE SettingsProofs ----------------------------
(***************************************************************************)
(* Proofs about Settings, for any clients, entries, built-in lists and     *)
(* lists a client may set, and any number of sets, faults and lifetimes.   *)
(***************************************************************************)
EXTENDS Settings, SequenceTheorems, FiniteSetTheorems, TLAPS

-----------------------------------------------------------------------------
(* What is typed: documents are as a set leaves them.                      *)

CleanList(list) ==
    /\ IsInjective(list)
    /\ \A i \in DOMAIN list : list[i] = Trim[list[i]] /\ list[i] \notin Blank \cup Relative
Clean == {d \in Documents : CleanList(d.paths)}
Points == {"idle", "editing", "load", "open", "write", "rename", "store", "sync",
           "slot", "start"}
Saving == {"open", "write", "rename"}
Syncing == {"sync", "slot", "start"}
Thread == [at : Points, known : Clean, want : Clean, fd : Inodes \cup {None},
           enabled : BOOLEAN, alone : BOOLEAN, before : SUBSET Clean]

ProcOK == proc \in [Threads -> Thread]
DiskOK == disk \in [file : Inodes \cup {None}, tmp : Inodes \cup {None}]
DataOK == data \in [Inodes -> Seq(Clean)]
MemOK == mem \in Clean
SlotOK == slot = None \/ slot \in Clean
MayOK == may \in SUBSET Clean
PhaseOK == phase \in {"starting", "up", "stopping", "down"}
Opened == \A t \in Threads : (proc[t].fd # None) <=> (proc[t].at = "write")
Locked == \A t \in Threads : (slotLock = t) <=> (proc[t].at = "start")
Shapes == ProcOK /\ DiskOK /\ DataOK /\ MemOK /\ SlotOK /\ MayOK /\ PhaseOK /\ Opened /\ Locked

(* Who is where: main is at work while the daemon starts, clients after.   *)
ClientsWait == phase = "starting" => \A c \in Clients : proc[c].at = "idle"
MainRests == phase # "starting" => proc[Main].at = "idle"
AllRest == phase = "down" => \A t \in Threads : proc[t].at = "idle"
Placed == ClientsWait /\ MainRests /\ AllRest

(* A set that met no other one is the only one there is; while something   *)
(* is promised, every set is one.                                          *)
OnlyOne == \A t \in Threads : proc[t].alone =>
    t \in Clients /\ Setting(t) /\ \A u \in Clients \ {t} : ~Setting(u)
NoneMet == may # {} => \A c \in Clients : Setting(c) => proc[c].alone
Alone == OnlyOne /\ NoneMet

(* The temporary file is never the file, and a thread that works alone     *)
(* finds on the disk what it has put there.                                *)
Sole(t) == proc[t].alone \/ t = Main
Apart == disk.tmp # None => disk.tmp # disk.file
Truncated == \A t \in Threads : Sole(t) /\ proc[t].at = "write" =>
    disk.tmp = proc[t].fd /\ data[proc[t].fd] = <<>>
Written == \A t \in Threads : Sole(t) /\ proc[t].at = "rename" =>
    disk.tmp # None /\ data[disk.tmp] = <<proc[t].want>>
Saved == \A t \in Threads : Sole(t) /\ proc[t].at = "store" => Stored = proc[t].want
Kept == \A t \in Threads : Sole(t) /\ proc[t].at \in Syncing => Stored = mem
Whole == \A t \in Threads : proc[t].alone /\ proc[t].at \in Syncing \cup {"store"}
    /\ disk.file # None => Len(data[disk.file]) = 1
FirstSave == proc[Main].at \in Saving => disk.file = None /\ proc[Main].want = Default
OnDisk == Apart /\ Truncated /\ Written /\ Saved /\ Kept /\ Whole /\ FirstSave

(* What memory and watcher make of it.                                     *)
Running == slot = IF mem.enabled /\ detail # "failed" THEN mem ELSE None
Taken == \A t \in Threads : proc[t].alone /\ proc[t].at \in Syncing => mem = proc[t].want
Read == \A t \in Threads : Sole(t) /\ proc[t].at = "slot" => proc[t].enabled = mem.enabled
On == \A t \in Threads : Sole(t) /\ proc[t].at = "start" => mem.enabled
Emptied == slotLock # None => slot = None
Current == slot = None \/ slot = mem \/ \E t \in Threads : proc[t].at \in {"sync", "slot"}
InMemory == Taken /\ Read /\ On /\ Emptied /\ Current

(* What is promised: what held before stays true until the file is the new *)
(* one, and from then on the new one is among what may be in force.        *)
Wanted == \A t \in Threads : proc[t].alone /\ may # {} => proc[t].want \in may
Nothing == \A t \in Threads :
    proc[t].alone /\ proc[t].at \in Saving /\ may = {} => proc[t].before = {}
Something == \A t \in Threads : proc[t].alone /\ proc[t].at \in Saving /\ may # {} =>
    may = proc[t].before \cup {proc[t].want} /\ Stored \in proc[t].before
Still == \A t \in Threads :
    phase = "up" /\ proc[t].alone /\ proc[t].at \in Saving /\ may # {} =>
        mem \in proc[t].before /\ Stored = mem /\ Running
Settled == Quiet /\ may # {} => mem \in may /\ Stored = mem /\ Running
Promised == Wanted /\ Nothing /\ Something /\ Still /\ Settled /\ FilePromised

SetInv == Shapes /\ Placed /\ Alone /\ OnDisk /\ InMemory /\ Promised

-----------------------------------------------------------------------------
(* Lists: what Picked, Normal and Restored make of them, without an        *)
(* induction. The place of an entry among those that are picked is a       *)
(* number of its own, and every number up to their count is a place.       *)

(* Picked is a list of the entries at different picked positions.          *)
LEMMA PickedIsList ==
    ASSUME NEW S, NEW n \in Nat, NEW list \in [1..n -> S], NEW places \in SUBSET (1..n)
    PROVE  /\ Picked(list, places) \in Seq(S)
           /\ \E nth \in [DOMAIN Picked(list, places) -> places] :
                 /\ IsInjective(nth)
                 /\ \A k \in DOMAIN Picked(list, places) :
                       Picked(list, places)[k] = list[nth[k]]
  <1> DEFINE N == Cardinality(places)
             Upto(i) == {j \in places : j <= i}
             rank == [i \in places |-> Cardinality(Upto(i))]
             Nth(k) == CHOOSE i \in places : Cardinality({j \in places : j <= i}) = k
             nth == [k \in 1..N |-> Nth(k)]
  <1>1. IsFiniteSet(places) /\ N \in Nat
    <2>1. IsFiniteSet(1..n)
      BY FS_Interval
    <2> QED BY <2>1, FS_Subset, FS_CardinalityType
  <1>2. \A i \in places : Upto(i) \in SUBSET places /\ IsFiniteSet(Upto(i))
    BY <1>1, FS_Subset
  <1>3. \A i \in places : rank[i] \in 1..N
    <2> TAKE i \in places
    <2>1. rank[i] \in Nat /\ rank[i] <= N
      BY <1>1, <1>2, FS_Subset, FS_CardinalityType
    <2>2. i \in Upto(i)
      <3>1. i \in 1..n
        OBVIOUS
      <3>2. i <= i
        BY <3>1
      <3> QED BY <3>2
    <2>3. rank[i] # 0
      BY <1>2, <2>2, FS_EmptySet
    <2> QED BY <1>1, <2>1, <2>3
  <1>4. \A i, j \in places : i < j => rank[i] # rank[j]
    <2> TAKE i, j \in places
    <2> HAVE i < j
    <2>1. Upto(i) \in SUBSET Upto(j) /\ j \in Upto(j) /\ j \notin Upto(i)
      <3>1. i \in Nat /\ j \in Nat /\ \A k \in places : k \in Nat
        OBVIOUS
      <3>2. \A k \in places : k <= i => k <= j
        BY <3>1
      <3>3. j <= j /\ ~(j <= i)
        BY <3>1
      <3> QED BY <3>2, <3>3
    <2>2. Upto(i) # Upto(j)
      BY <2>1
    <2>3. Cardinality(Upto(i)) # Cardinality(Upto(j))
      BY <1>2, <2>1, <2>2, FS_Subset
    <2> QED BY <2>3
  <1>5. rank \in Injection(places, 1..N)
    <2>1. rank \in [places -> 1..N]
      BY <1>3
    <2>2. \A i, j \in places : rank[i] = rank[j] => i = j
      <3> TAKE i, j \in places
      <3>1. i < j \/ j < i \/ i = j
        OBVIOUS
      <3> HIDE DEF rank
      <3> QED BY <1>4, <3>1
    <2> HIDE DEF rank
    <2> QED BY <2>1, <2>2 DEF Injection, IsInjective
  <1>6. rank \in Surjection(places, 1..N)
    <2>1. IsFiniteSet(1..N) /\ Cardinality(1..N) = N
      BY <1>1, FS_Interval
    <2> HIDE DEF rank
    <2> QED BY <1>5, <2>1, FS_Injection
  <1>7. \A k \in 1..N : Nth(k) \in places /\ rank[Nth(k)] = k
    <2> TAKE k \in 1..N
    <2>1. \E i \in places : rank[i] = k
      <3> HIDE DEF rank
      <3> QED BY <1>6 DEF Surjection
    <2>2. \E i \in places : Cardinality({j \in places : j <= i}) = k
      BY <2>1
    <2> QED BY <2>2
  <1>8. Picked(list, places) = [k \in 1..N |-> list[Nth(k)]]
    BY DEF Picked
  <1> HIDE DEF Nth, rank, N
  <1>9. Picked(list, places) \in Seq(S)
    <2>1. \A k \in 1..N : list[Nth(k)] \in S
      BY <1>7
    <2>2. [k \in 1..N |-> list[Nth(k)]] \in [1..N -> S]
      BY <2>1
    <2> QED BY <1>1, <1>8, <2>2, SeqDef DEF N
  <1>10. nth \in [1..N -> places] /\ IsInjective(nth)
    <2>1. \A k, l \in 1..N : nth[k] = nth[l] => k = l
      BY <1>7
    <2>2. nth \in [1..N -> places]
      BY <1>7
    <2> HIDE DEF nth
    <2> QED BY <2>1, <2>2 DEF IsInjective
  <1>11. DOMAIN Picked(list, places) = 1..N
    BY <1>8
  <1>12. \A k \in 1..N : Picked(list, places)[k] = list[nth[k]]
    BY <1>8
  <1> HIDE DEF nth
  <1> QED BY <1>9, <1>10, <1>11, <1>12

USE MainAssumption, RawAssumption, BuiltinsAssumption, BoundAssumption

(* What a set makes of a list that is not refused is clean.                *)
LEMMA NormalIsClean ==
    ASSUME NEW list \in Seq(Raw), ~Refused(list)
    PROVE  Normal(list) \in Seq(Raw) /\ CleanList(Normal(list))
  <1> DEFINE n == Len(list)
             trimmed == [i \in DOMAIN list |-> Trim[list[i]]]
             places == {i \in DOMAIN list : /\ trimmed[i] \notin Blank
                                            /\ \A j \in 1..i-1 : trimmed[j] # trimmed[i]}
  <1>1. Len(list) \in Nat /\ DOMAIN list = 1..Len(list) /\ \A i \in DOMAIN list : list[i] \in Raw
    BY LenProperties, ElementOfSeq
  <1>2. n \in Nat /\ trimmed \in [1..n -> Raw] /\ places \in SUBSET (1..n)
    BY <1>1
  <1>3. Normal(list) = Picked(trimmed, places)
    BY DEF Normal
  <1>4. \A i, j \in places : trimmed[i] = trimmed[j] => i = j
    <2> TAKE i, j \in places
    <2>1. i \in Nat /\ j \in Nat /\ i >= 1 /\ j >= 1
      BY <1>1
    <2>2. i < j \/ j < i \/ i = j
      BY <2>1
    <2>3. i < j => i \in 1..j-1
      BY <2>1
    <2>4. j < i => j \in 1..i-1
      BY <2>1
    <2> QED BY <2>2, <2>3, <2>4
  <1>5. \A i \in places : /\ trimmed[i] = Trim[trimmed[i]]
                          /\ trimmed[i] \notin Blank \cup Relative
    BY <1>1 DEF Refused
  <1> HIDE DEF trimmed, places, n
  <1>6. Normal(list) \in Seq(Raw)
    BY SMTT(60), <1>2, <1>3, PickedIsList
  <1>7. PICK nth \in [DOMAIN Normal(list) -> places] :
           /\ IsInjective(nth)
           /\ \A k \in DOMAIN Normal(list) : Normal(list)[k] = trimmed[nth[k]]
    BY SMTT(60), <1>2, <1>3, PickedIsList
  <1>8. IsInjective(Normal(list))
    BY <1>4, <1>7 DEF IsInjective
  <1> QED BY <1>5, <1>6, <1>7, <1>8 DEF CleanList

(* Putting the built-in entries back makes a list.                         *)
LEMMA RestoredIsList ==
    ASSUME NEW list \in Seq(Raw)
    PROVE  Restored(list) \in Seq(Raw)
  <1> DEFINE places == {i \in DOMAIN Builtins : ~Contains(list, Builtins[i])}
  <1>1. Len(Builtins) \in Nat /\ Builtins \in [1..Len(Builtins) -> Raw]
        /\ DOMAIN Builtins = 1..Len(Builtins)
    BY LenProperties
  <1>2. places \in SUBSET (1..Len(Builtins))
    BY <1>1
  <1> HIDE DEF places
  <1>3. Picked(Builtins, places) \in Seq(Raw)
    BY <1>1, <1>2, PickedIsList
  <1> QED BY <1>3, ConcatProperties DEF Restored, places

(* A client edits a document into a document.                              *)
LEMMA EditsAreDocuments ==
    ASSUME NEW d \in Documents, NEW s \in Edits(d)
    PROVE  s \in Documents
  <1>1. \A l \in Lists : l \in Seq(Raw)
    OBVIOUS
  <1>2. Restored(d.paths) \in Seq(Raw)
    BY RestoredIsList DEF Documents
  <1> QED BY <1>1, <1>2 DEF Edits, Documents

(* What is accepted is clean, and so is what the daemon begins with.       *)
LEMMA AcceptedIsClean ==
    ASSUME NEW s \in Documents, ~Refused(s.paths)
    PROVE  [s EXCEPT !.paths = Normal(@)] \in Clean
  <1>1. Normal(s.paths) \in Seq(Raw) /\ CleanList(Normal(s.paths))
    BY NormalIsClean DEF Documents
  <1>2. [s EXCEPT !.paths = Normal(@)] \in Documents
    BY <1>1 DEF Documents
  <1>3. [s EXCEPT !.paths = Normal(@)].paths = Normal(s.paths)
    BY DEF Documents
  <1> QED BY <1>1, <1>2, <1>3 DEF Clean

(* The built-in document is clean, and an idle thread holds nothing.       *)
LEMMA IdleIs ==
    /\ Default \in Clean
    /\ Idle \in Thread
    /\ Idle.at = "idle" /\ Idle.fd = None /\ Idle.alone = FALSE /\ Idle.want = Default
  <1>1. Default \in Clean
    BY DEF Default, Documents, Clean, CleanList
  <1> QED BY <1>1 DEF Idle, Thread, Points

(* What is parsed from clean documents is clean.                           *)
LEMMA StoredIsClean ==
    ASSUME DiskOK, DataOK
    PROVE  Stored \in Clean
  <1>1. \A text \in Seq(Clean) : Parsed(text) \in Clean
    BY IdleIs, ElementOfSeq DEF Parsed
  <1> QED BY <1>1, IdleIs DEF DiskOK, DataOK, Stored

(* While there is no temporary file, some inode is neither the file nor    *)
(* open: threads have one open each.                                       *)
LEMMA SomeIsFree ==
    ASSUME ProcOK, DiskOK, disk.tmp = None
    PROVE  \E j \in Inodes : Free(j)
  <1> DEFINE fds == {proc[t].fd : t \in Threads}
             of == [t \in Threads |-> proc[t].fd]
             n == Cardinality(Threads)
  <1>1. IsFiniteSet(Threads) /\ n \in Nat
    BY FS_AddElement, FS_CardinalityType DEF Threads
  <1>2. IsFiniteSet(fds) /\ Cardinality(fds) \in Nat /\ Cardinality(fds) <= n
    <2>1. of \in Surjection(Threads, fds)
      BY DEF Surjection
    <2> HIDE DEF of, fds
    <2> QED BY <1>1, <2>1, FS_Surjection, FS_CardinalityType
  <1>3. /\ IsFiniteSet(fds \cup {disk.file}) /\ Cardinality(fds \cup {disk.file}) \in Nat
        /\ Cardinality(fds \cup {disk.file}) <= n + 1
    <2> HIDE DEF fds, n
    <2>1. /\ IsFiniteSet(fds \cup {disk.file})
          /\ \/ Cardinality(fds \cup {disk.file}) = Cardinality(fds)
             \/ Cardinality(fds \cup {disk.file}) = Cardinality(fds) + 1
      BY <1>2, FS_AddElement
    <2> QED BY <1>1, <1>2, <2>1
  <1>4. Inodes = 1..(n + 2) /\ IsFiniteSet(Inodes) /\ Cardinality(Inodes) = n + 2
    <2>1. Inodes = 1..(n + 2)
      BY DEF Inodes
    <2> HIDE DEF n
    <2>2. IsFiniteSet(1..(n + 2)) /\ Cardinality(1..(n + 2)) = n + 2
      <3> DEFINE m == n + 2
      <3>1. m \in Int /\ 1 \in Int /\ ~(1 > m) /\ m - 1 + 1 = m
        BY <1>1
      <3> HIDE DEF m
      <3>2. IsFiniteSet(1..m) /\ Cardinality(1..m) = m
        BY <3>1, FS_Interval
      <3> QED BY <3>2 DEF m
    <2> QED BY <2>1, <2>2
  <1>5. ~(Inodes \subseteq fds \cup {disk.file})
    <2> HIDE DEF fds, n
    <2> QED BY <1>1, <1>3, <1>4, FS_Subset
  <1>6. None \notin Inodes
    BY <1>1, <1>4
  <1> QED BY <1>5, <1>6 DEF Free

-----------------------------------------------------------------------------
(* Threads: who works alone, who does not, and what may hold then.         *)

(* Beside a thread in the middle of a set, nobody works alone, and main    *)
(* rests; beside one that works alone nobody is in the middle of a set;    *)
(* beside one that does not, nothing is promised.                          *)
LEMMA Company ==
    ASSUME SetInv, NEW t \in Threads, proc[t].at \notin {"idle", "editing"}
    PROVE  /\ \A u \in Threads : u # t =>
                 ~proc[u].alone /\ (u = Main => proc[u].at = "idle")
           /\ t # Main => phase # "starting" /\ t \in Clients
           /\ t = Main => phase = "starting" /\ ~proc[t].alone
           /\ Sole(t) => \A u \in Threads : u # t => proc[u].at \in {"idle", "editing"}
           /\ ~Sole(t) => may = {}
  <1>1. \A u \in Threads : u = Main \/ u \in Clients
    BY DEF Threads
  <1>2. Main \in Threads /\ Main \notin Clients /\ \A c \in Clients : c \in Threads
    BY DEF Threads
  <1>3. t = Main => phase = "starting"
    BY DEF SetInv, Placed, MainRests
  <1>4. t # Main => phase # "starting" /\ t \in Clients
    BY <1>1 DEF SetInv, Placed, ClientsWait
  <1>5. ~proc[Main].alone
    BY <1>2 DEF SetInv, Alone, OnlyOne
  <1>6. ASSUME NEW u \in Threads, u # t
        PROVE  ~proc[u].alone /\ (u = Main => proc[u].at = "idle")
    <2>1. u = Main => proc[u].at = "idle"
      BY <1>4, <1>6 DEF SetInv, Placed, MainRests
    <2>2. ~proc[u].alone
      <3>1. CASE u = Main
        BY <1>5, <3>1
      <3>2. CASE u # Main /\ t = Main
        <4>1. proc[u].at = "idle"
          BY <1>1, <1>3, <3>2 DEF SetInv, Placed, ClientsWait
        <4> QED BY <4>1 DEF SetInv, Alone, OnlyOne, Setting
      <3>3. CASE u # Main /\ t # Main
        BY <1>4, <1>6, <3>3 DEF SetInv, Alone, OnlyOne, Setting
      <3> QED BY <3>1, <3>2, <3>3
    <2> QED BY <2>1, <2>2
  <1>7. ASSUME Sole(t), NEW u \in Threads, u # t
        PROVE  proc[u].at \in {"idle", "editing"}
    <2>1. CASE t = Main
      BY <1>1, <1>3, <1>7, <2>1 DEF SetInv, Placed, ClientsWait
    <2>2. CASE t # Main
      <3>1. proc[t].alone
        BY <1>7, <2>2 DEF Sole
      <3>2. u = Main => proc[u].at = "idle"
        BY <1>6, <1>7
      <3>3. u \in Clients \ {t} => ~Setting(u)
        BY <3>1 DEF SetInv, Alone, OnlyOne
      <3> QED BY <1>1, <1>7, <3>2, <3>3 DEF Setting
    <2> QED BY <2>1, <2>2
  <1>8. ~Sole(t) => may = {}
    BY <1>1 DEF SetInv, Alone, NoneMet, Setting, Sole
  <1> QED BY <1>3, <1>4, <1>5, <1>6, <1>7, <1>8

(* As long as the file and what it holds stay, so does what is stored.     *)
LEMMA StoredStays ==
    ASSUME disk'.file = disk.file, disk.file # None => data'[disk.file] = data[disk.file]
    PROVE  Stored' = Stored
  BY DEF Stored

(* No inode is the sign that there is none.                                *)
LEMMA NoInodeIsNone == \A i \in Inodes : i # None
  <1>1. Cardinality(Threads) \in Nat
    BY FS_AddElement, FS_CardinalityType DEF Threads
  <1> QED BY <1>1 DEF Inodes

(* The copy in memory: what is saved is in memory now.                     *)
LEMMA StoreKeeps ==
    ASSUME SetInv, NEW t \in Threads, Store(t)
    PROVE  SetInv'
  <1>1. t \in Threads /\ phase # "down" /\ proc[t].at = "store"
    BY DEF Store, Runs, Threads
  <1>2. proc \in [Threads -> Thread] /\ proc[t] \in Thread
    BY <1>1 DEF SetInv, Shapes, ProcOK
  <1>3. /\ \A u \in Threads : u # t => proc'[u] = proc[u]
        /\ proc'[t].at = "sync"
        /\ proc'[t].want = proc[t].want
        /\ proc'[t].fd = proc[t].fd
        /\ proc'[t].enabled = proc[t].enabled
        /\ proc'[t].alone = proc[t].alone
        /\ proc'[t].before = proc[t].before
        /\ proc'[t].known = proc[t].known
    BY <1>1, <1>2 DEF Store, Go, Thread
  <1>4. UNCHANGED <<disk, data, slot, slotLock, detail, phase, may>>
    BY DEF Store
  <1>5. /\ \A u \in Threads : u # t => ~proc[u].alone /\ (u = Main => proc[u].at = "idle")
        /\ t # Main => phase # "starting" /\ t \in Clients
        /\ t = Main => phase = "starting" /\ ~proc[t].alone
        /\ Sole(t) => \A u \in Threads : u # t => proc[u].at \in {"idle", "editing"}
        /\ ~Sole(t) => may = {}
    BY <1>1, Company
  <1>6. Main \in Threads /\ Main \notin Clients /\ \A d \in Clients : d \in Threads
    BY DEF Threads
  <1>7. mem' = proc[t].want
    BY DEF Store
  <1>8. Stored' = Stored
    BY <1>4, StoredStays
  <1>9. proc' \in [Threads -> Thread]
    BY <1>1, <1>2, <1>1 DEF Store, Go, Thread, Points
  <1>10. ProcOK'
    BY <1>9 DEF ProcOK
  <1>11. DiskOK'
    BY <1>1, <1>2, <1>3, <1>4, <1>5, <1>6, <1>7, <1>8 DEF DiskOK, SetInv, Shapes
  <1>12. DataOK'
    BY <1>1, <1>2, <1>3, <1>4, <1>5, <1>6, <1>7, <1>8 DEF DataOK, SetInv, Shapes
  <1>13. MemOK'
    BY <1>1, <1>2, <1>3, <1>4, <1>5, <1>6, <1>7, <1>8 DEF MemOK, Thread, SetInv,
       Shapes
  <1>14. SlotOK'
    BY <1>1, <1>2, <1>3, <1>4, <1>5, <1>6, <1>7, <1>8 DEF SlotOK, SetInv, Shapes
  <1>15. MayOK'
    BY <1>1, <1>2, <1>3, <1>4, <1>5, <1>6, <1>7, <1>8 DEF MayOK, Thread, SetInv,
       Shapes
  <1>16. PhaseOK'
    BY <1>1, <1>2, <1>3, <1>4, <1>5, <1>6, <1>7, <1>8 DEF PhaseOK, SetInv, Shapes
  <1>17. Opened'
    BY <1>1, <1>2, <1>3, <1>4, <1>5, <1>6, <1>7, <1>8 DEF Opened, SetInv, Shapes
  <1>18. Locked'
    BY <1>1, <1>2, <1>3, <1>4, <1>5, <1>6, <1>7, <1>8 DEF Locked, SetInv, Shapes
  <1>19. ClientsWait'
    BY <1>1, <1>2, <1>3, <1>4, <1>5, <1>6, <1>7, <1>8 DEF ClientsWait, Sole, Setting,
       SetInv, Placed
  <1>20. MainRests'
    BY <1>1, <1>2, <1>3, <1>4, <1>5, <1>6, <1>7, <1>8 DEF MainRests, Sole, Setting,
       SetInv, Placed
  <1>21. AllRest'
    BY <1>1, <1>2, <1>3, <1>4, <1>5, <1>6, <1>7, <1>8 DEF AllRest, Sole, Setting,
       SetInv, Placed
  <1>22. OnlyOne'
    BY <1>1, <1>2, <1>3, <1>4, <1>5, <1>6, <1>7, <1>8 DEF OnlyOne, Sole, Setting,
       SetInv, Alone
  <1>23. NoneMet'
    BY <1>1, <1>2, <1>3, <1>4, <1>5, <1>6, <1>7, <1>8 DEF NoneMet, Sole, Setting,
       SetInv, Alone
  <1>24. Apart'
    BY <1>1, <1>2, <1>3, <1>4, <1>5, <1>6, <1>7, <1>8 DEF Apart, Sole, Setting,
       SetInv, OnDisk
  <1>25. Truncated'
    BY <1>1, <1>2, <1>3, <1>4, <1>5, <1>6, <1>7, <1>8 DEF Truncated, Sole, Setting,
       SetInv, OnDisk
  <1>26. Written'
    BY <1>1, <1>2, <1>3, <1>4, <1>5, <1>6, <1>7, <1>8 DEF Written, Sole, Setting,
       SetInv, OnDisk
  <1>27. Saved'
    BY <1>1, <1>2, <1>3, <1>4, <1>5, <1>6, <1>7, <1>8 DEF Saved, Sole, Setting,
       SetInv, OnDisk
  <1>28. Kept'
    BY <1>1, <1>2, <1>3, <1>4, <1>5, <1>6, <1>7, <1>8 DEF Kept, Syncing, Saved, Sole,
       Setting, SetInv, OnDisk
  <1>29. Whole'
    BY <1>1, <1>2, <1>3, <1>4, <1>5, <1>6, <1>7, <1>8 DEF Whole, Syncing, Sole,
       Setting, SetInv, OnDisk
  <1>30. FirstSave'
    BY <1>1, <1>2, <1>3, <1>4, <1>5, <1>6, <1>7, <1>8 DEF FirstSave, Saving, Sole,
       Setting, SetInv, OnDisk
  <1>31. Taken'
    BY <1>1, <1>2, <1>3, <1>4, <1>5, <1>6, <1>7, <1>8 DEF Taken, Syncing, Sole,
       Setting, SetInv, InMemory
  <1>32. Read'
    BY <1>1, <1>2, <1>3, <1>4, <1>5, <1>6, <1>7, <1>8 DEF Read, Sole, Setting, SetInv,
       InMemory
  <1>33. On'
    BY <1>1, <1>2, <1>3, <1>4, <1>5, <1>6, <1>7, <1>8 DEF On, Sole, Setting, SetInv,
       InMemory
  <1>34. Emptied'
    BY <1>1, <1>2, <1>3, <1>4, <1>5, <1>6, <1>7, <1>8 DEF Emptied, Sole, Setting,
       SetInv, InMemory
  <1>35. Current'
    BY <1>1, <1>2, <1>3, <1>4, <1>5, <1>6, <1>7, <1>8 DEF Current, Sole, Setting,
       SetInv, InMemory
  <1>36. Wanted'
    BY <1>1, <1>2, <1>3, <1>4, <1>5, <1>6, <1>7, <1>8 DEF Wanted, Sole, Setting,
       SetInv, Promised
  <1>37. Nothing'
    BY <1>1, <1>2, <1>3, <1>4, <1>5, <1>6, <1>7, <1>8 DEF Nothing, Saving, Sole,
       Setting, SetInv, Promised
  <1>38. Something'
    BY <1>1, <1>2, <1>3, <1>4, <1>5, <1>6, <1>7, <1>8 DEF Something, Saving, Sole,
       Setting, SetInv, Promised
  <1>39. Still'
    BY <1>1, <1>2, <1>3, <1>4, <1>5, <1>6, <1>7, <1>8 DEF Still, Saving, Running,
       Sole, Setting, SetInv, Promised
  <1>40. Settled'
    BY <1>1, <1>2, <1>3, <1>4, <1>5, <1>6, <1>7, <1>8 DEF Settled, Quiet, Running,
       Sole, Setting, SetInv, Promised
  <1>41. FilePromised'
    BY <1>1, <1>2, <1>3, <1>4, <1>5, <1>6, <1>7, <1>8 DEF FilePromised, Sole, Setting,
       SetInv, Promised
  <1> QED BY <1>10, <1>11, <1>12, <1>13, <1>14, <1>15, <1>16, <1>17, <1>18, <1>19,
     <1>20, <1>21, <1>22, <1>23, <1>24, <1>25, <1>26, <1>27, <1>28, <1>29, <1>30,
     <1>31, <1>32, <1>33, <1>34, <1>35, <1>36, <1>37, <1>38, <1>39, <1>40, <1>41 DEF
     SetInv, Shapes, Placed, Alone, OnDisk, InMemory, Promised

(* The first read of the settings in sync_realtime.                        *)
LEMMA ReadEnabledKeeps ==
    ASSUME SetInv, NEW t \in Threads, ReadEnabled(t)
    PROVE  SetInv'
  <1>1. t \in Threads /\ phase # "down" /\ proc[t].at = "sync"
    BY DEF ReadEnabled, Runs, Threads
  <1>2. proc \in [Threads -> Thread] /\ proc[t] \in Thread
    BY <1>1 DEF SetInv, Shapes, ProcOK
  <1>3. /\ \A u \in Threads : u # t => proc'[u] = proc[u]
        /\ proc'[t].at = "slot"
        /\ proc'[t].want = proc[t].want
        /\ proc'[t].fd = proc[t].fd
        /\ proc'[t].enabled = mem.enabled
        /\ proc'[t].alone = proc[t].alone
        /\ proc'[t].before = proc[t].before
        /\ proc'[t].known = proc[t].known
    BY <1>1, <1>2 DEF ReadEnabled, Go, Thread
  <1>4. UNCHANGED <<disk, data, mem, slot, slotLock, detail, phase, may>>
    BY DEF ReadEnabled
  <1>5. /\ \A u \in Threads : u # t => ~proc[u].alone /\ (u = Main => proc[u].at = "idle")
        /\ t # Main => phase # "starting" /\ t \in Clients
        /\ t = Main => phase = "starting" /\ ~proc[t].alone
        /\ Sole(t) => \A u \in Threads : u # t => proc[u].at \in {"idle", "editing"}
        /\ ~Sole(t) => may = {}
    BY <1>1, Company
  <1>6. Main \in Threads /\ Main \notin Clients /\ \A d \in Clients : d \in Threads
    BY DEF Threads
  <1>7. Stored' = Stored
    BY <1>4, StoredStays
  <1>8. proc' \in [Threads -> Thread]
    BY <1>1, <1>2, SetInv DEF ReadEnabled, Go, Thread, Points, SetInv, Shapes, MemOK,
       Clean, Documents
  <1>9. ProcOK'
    BY <1>8 DEF ProcOK
  <1>10. DiskOK'
    BY <1>1, <1>2, <1>3, <1>4, <1>5, <1>6, <1>7 DEF DiskOK, SetInv, Shapes
  <1>11. DataOK'
    BY <1>1, <1>2, <1>3, <1>4, <1>5, <1>6, <1>7 DEF DataOK, SetInv, Shapes
  <1>12. MemOK'
    BY <1>1, <1>2, <1>3, <1>4, <1>5, <1>6, <1>7 DEF MemOK, Thread, SetInv, Shapes
  <1>13. SlotOK'
    BY <1>1, <1>2, <1>3, <1>4, <1>5, <1>6, <1>7 DEF SlotOK, SetInv, Shapes
  <1>14. MayOK'
    BY <1>1, <1>2, <1>3, <1>4, <1>5, <1>6, <1>7 DEF MayOK, Thread, SetInv, Shapes
  <1>15. PhaseOK'
    BY <1>1, <1>2, <1>3, <1>4, <1>5, <1>6, <1>7 DEF PhaseOK, SetInv, Shapes
  <1>16. Opened'
    BY <1>1, <1>2, <1>3, <1>4, <1>5, <1>6, <1>7 DEF Opened, SetInv, Shapes
  <1>17. Locked'
    BY <1>1, <1>2, <1>3, <1>4, <1>5, <1>6, <1>7 DEF Locked, SetInv, Shapes
  <1>18. ClientsWait'
    BY <1>1, <1>2, <1>3, <1>4, <1>5, <1>6, <1>7 DEF ClientsWait, Sole, Setting,
       SetInv, Placed
  <1>19. MainRests'
    BY <1>1, <1>2, <1>3, <1>4, <1>5, <1>6, <1>7 DEF MainRests, Sole, Setting, SetInv,
       Placed
  <1>20. AllRest'
    BY <1>1, <1>2, <1>3, <1>4, <1>5, <1>6, <1>7 DEF AllRest, Sole, Setting, SetInv,
       Placed
  <1>21. OnlyOne'
    BY <1>1, <1>2, <1>3, <1>4, <1>5, <1>6, <1>7 DEF OnlyOne, Sole, Setting, SetInv,
       Alone
  <1>22. NoneMet'
    BY <1>1, <1>2, <1>3, <1>4, <1>5, <1>6, <1>7 DEF NoneMet, Sole, Setting, SetInv,
       Alone
  <1>23. Apart'
    BY <1>1, <1>2, <1>3, <1>4, <1>5, <1>6, <1>7 DEF Apart, Sole, Setting, SetInv,
       OnDisk
  <1>24. Truncated'
    BY <1>1, <1>2, <1>3, <1>4, <1>5, <1>6, <1>7 DEF Truncated, Sole, Setting, SetInv,
       OnDisk
  <1>25. Written'
    BY <1>1, <1>2, <1>3, <1>4, <1>5, <1>6, <1>7 DEF Written, Sole, Setting, SetInv,
       OnDisk
  <1>26. Saved'
    BY <1>1, <1>2, <1>3, <1>4, <1>5, <1>6, <1>7 DEF Saved, Sole, Setting, SetInv,
       OnDisk
  <1>27. Kept'
    BY <1>1, <1>2, <1>3, <1>4, <1>5, <1>6, <1>7 DEF Kept, Syncing, Sole, Setting,
       SetInv, OnDisk
  <1>28. Whole'
    BY <1>1, <1>2, <1>3, <1>4, <1>5, <1>6, <1>7 DEF Whole, Syncing, Sole, Setting,
       SetInv, OnDisk
  <1>29. FirstSave'
    BY <1>1, <1>2, <1>3, <1>4, <1>5, <1>6, <1>7 DEF FirstSave, Saving, Sole, Setting,
       SetInv, OnDisk
  <1>30. Taken'
    BY <1>1, <1>2, <1>3, <1>4, <1>5, <1>6, <1>7 DEF Taken, Syncing, Sole, Setting,
       SetInv, InMemory
  <1>31. Read'
    BY <1>1, <1>2, <1>3, <1>4, <1>5, <1>6, <1>7 DEF Read, Sole, Setting, SetInv,
       InMemory
  <1>32. On'
    BY <1>1, <1>2, <1>3, <1>4, <1>5, <1>6, <1>7 DEF On, Sole, Setting, SetInv,
       InMemory
  <1>33. Emptied'
    BY <1>1, <1>2, <1>3, <1>4, <1>5, <1>6, <1>7 DEF Emptied, Sole, Setting, SetInv,
       InMemory
  <1>34. Current'
    BY <1>1, <1>2, <1>3, <1>4, <1>5, <1>6, <1>7 DEF Current, Sole, Setting, SetInv,
       InMemory
  <1>35. Wanted'
    BY <1>1, <1>2, <1>3, <1>4, <1>5, <1>6, <1>7 DEF Wanted, Sole, Setting, SetInv,
       Promised
  <1>36. Nothing'
    BY <1>1, <1>2, <1>3, <1>4, <1>5, <1>6, <1>7 DEF Nothing, Saving, Sole, Setting,
       SetInv, Promised
  <1>37. Something'
    BY <1>1, <1>2, <1>3, <1>4, <1>5, <1>6, <1>7 DEF Something, Saving, Sole, Setting,
       SetInv, Promised
  <1>38. Still'
    BY <1>1, <1>2, <1>3, <1>4, <1>5, <1>6, <1>7 DEF Still, Saving, Running, Sole,
       Setting, SetInv, Promised
  <1>39. Settled'
    BY <1>1, <1>2, <1>3, <1>4, <1>5, <1>6, <1>7 DEF Settled, Quiet, Running, Sole,
       Setting, SetInv, Promised
  <1>40. FilePromised'
    BY <1>1, <1>2, <1>3, <1>4, <1>5, <1>6, <1>7 DEF FilePromised, Sole, Setting,
       SetInv, Promised
  <1> QED BY <1>9, <1>10, <1>11, <1>12, <1>13, <1>14, <1>15, <1>16, <1>17, <1>18,
     <1>19, <1>20, <1>21, <1>22, <1>23, <1>24, <1>25, <1>26, <1>27, <1>28, <1>29,
     <1>30, <1>31, <1>32, <1>33, <1>34, <1>35, <1>36, <1>37, <1>38, <1>39, <1>40 DEF
     SetInv, Shapes, Placed, Alone, OnDisk, InMemory, Promised

(* The setting was off when it was read: there is no watcher now.          *)
LEMMA SyncOffKeeps ==
    ASSUME SetInv, NEW t \in Threads, SyncOff(t)
    PROVE  SetInv'
  <1>1. t \in Threads /\ phase # "down" /\ proc[t].at = "slot"
    BY DEF SyncOff, Runs, Threads, StopOld, Finish, Rest, Idle
  <1>2. proc \in [Threads -> Thread] /\ proc[t] \in Thread
    BY <1>1 DEF SetInv, Shapes, ProcOK
  <1>3. /\ \A u \in Threads : u # t => proc'[u] = proc[u]
        /\ proc'[t].at = "idle"
        /\ proc'[t].want = Default
        /\ proc'[t].fd = None
        /\ proc'[t].enabled = FALSE
        /\ proc'[t].alone = FALSE
        /\ proc'[t].before = {}
        /\ proc'[t].known = Default
    BY <1>1, <1>2 DEF SyncOff, Go, Thread, StopOld, Finish, Rest, Idle
  <1>4. UNCHANGED <<disk, data, mem, slotLock>>
    BY DEF SyncOff, StopOld, Finish, Rest, Idle
  <1>5. /\ \A u \in Threads : u # t => ~proc[u].alone /\ (u = Main => proc[u].at = "idle")
        /\ t # Main => phase # "starting" /\ t \in Clients
        /\ t = Main => phase = "starting" /\ ~proc[t].alone
        /\ Sole(t) => \A u \in Threads : u # t => proc[u].at \in {"idle", "editing"}
        /\ ~Sole(t) => may = {}
    BY <1>1, Company
  <1>6. Main \in Threads /\ Main \notin Clients /\ \A d \in Clients : d \in Threads
    BY DEF Threads
  <1>7. slot' = None /\ slotLock = None /\ detail' # "failed" /\ ~proc[t].enabled
    BY DEF SyncOff, StopOld
  <1>8. Stored' = Stored
    BY <1>4, StoredStays
  <1>9. phase' = IF t = Main THEN "up" ELSE phase
    BY DEF SyncOff, Finish
  <1>10. may' = IF proc[t].alone THEN {proc[t].want} ELSE may
    BY DEF SyncOff, Finish
  <1>11. proc' \in [Threads -> Thread]
    BY <1>1, <1>2, IdleIs DEF SyncOff, Go, Thread, Points, StopOld, Finish, Rest, Idle
  <1>12. ProcOK'
    BY <1>11 DEF ProcOK
  <1>13. DiskOK'
    BY <1>1, <1>2, <1>3, <1>4, <1>5, <1>6, <1>7, <1>8, <1>9, <1>10 DEF DiskOK, SetInv,
       Shapes
  <1>14. DataOK'
    BY <1>1, <1>2, <1>3, <1>4, <1>5, <1>6, <1>7, <1>8, <1>9, <1>10 DEF DataOK, SetInv,
       Shapes
  <1>15. MemOK'
    BY <1>1, <1>2, <1>3, <1>4, <1>5, <1>6, <1>7, <1>8, <1>9, <1>10 DEF MemOK, Thread,
       SetInv, Shapes
  <1>16. SlotOK'
    BY <1>1, <1>2, <1>3, <1>4, <1>5, <1>6, <1>7, <1>8, <1>9, <1>10 DEF SlotOK, SetInv,
       Shapes
  <1>17. MayOK'
    BY <1>1, <1>2, <1>3, <1>4, <1>5, <1>6, <1>7, <1>8, <1>9, <1>10 DEF MayOK, Thread,
       SetInv, Shapes
  <1>18. PhaseOK'
    BY <1>1, <1>2, <1>3, <1>4, <1>5, <1>6, <1>7, <1>8, <1>9, <1>10 DEF PhaseOK,
       SetInv, Shapes
  <1>19. Opened'
    BY <1>1, <1>2, <1>3, <1>4, <1>5, <1>6, <1>7, <1>8, <1>9, <1>10 DEF Opened, SetInv,
       Shapes
  <1>20. Locked'
    BY <1>1, <1>2, <1>3, <1>4, <1>5, <1>6, <1>7, <1>8, <1>9, <1>10 DEF Locked, SetInv,
       Shapes
  <1>21. ClientsWait'
    BY <1>1, <1>2, <1>3, <1>4, <1>5, <1>6, <1>7, <1>8, <1>9, <1>10 DEF ClientsWait,
       Sole, Setting, SetInv, Placed
  <1>22. MainRests'
    BY <1>1, <1>2, <1>3, <1>4, <1>5, <1>6, <1>7, <1>8, <1>9, <1>10 DEF MainRests,
       Sole, Setting, SetInv, Placed
  <1>23. AllRest'
    BY <1>1, <1>2, <1>3, <1>4, <1>5, <1>6, <1>7, <1>8, <1>9, <1>10 DEF AllRest, Sole,
       Setting, SetInv, Placed
  <1>24. OnlyOne'
    BY <1>1, <1>2, <1>3, <1>4, <1>5, <1>6, <1>7, <1>8, <1>9, <1>10 DEF OnlyOne, Sole,
       Setting, SetInv, Alone
  <1>25. NoneMet'
    BY <1>1, <1>2, <1>3, <1>4, <1>5, <1>6, <1>7, <1>8, <1>9, <1>10 DEF NoneMet, Sole,
       Setting, SetInv, Alone
  <1>26. Apart'
    BY <1>1, <1>2, <1>3, <1>4, <1>5, <1>6, <1>7, <1>8, <1>9, <1>10 DEF Apart, Sole,
       Setting, SetInv, OnDisk
  <1>27. Truncated'
    BY <1>1, <1>2, <1>3, <1>4, <1>5, <1>6, <1>7, <1>8, <1>9, <1>10 DEF Truncated,
       Sole, Setting, SetInv, OnDisk
  <1>28. Written'
    BY <1>1, <1>2, <1>3, <1>4, <1>5, <1>6, <1>7, <1>8, <1>9, <1>10 DEF Written, Sole,
       Setting, SetInv, OnDisk
  <1>29. Saved'
    BY <1>1, <1>2, <1>3, <1>4, <1>5, <1>6, <1>7, <1>8, <1>9, <1>10 DEF Saved, Sole,
       Setting, SetInv, OnDisk
  <1>30. Kept'
    BY <1>1, <1>2, <1>3, <1>4, <1>5, <1>6, <1>7, <1>8, <1>9, <1>10 DEF Kept, Syncing,
       Sole, Setting, SetInv, OnDisk
  <1>31. Whole'
    BY <1>1, <1>2, <1>3, <1>4, <1>5, <1>6, <1>7, <1>8, <1>9, <1>10 DEF Whole, Syncing,
       Sole, Setting, SetInv, OnDisk
  <1>32. FirstSave'
    BY <1>1, <1>2, <1>3, <1>4, <1>5, <1>6, <1>7, <1>8, <1>9, <1>10 DEF FirstSave,
       Saving, Sole, Setting, SetInv, OnDisk
  <1>33. Taken'
    BY <1>1, <1>2, <1>3, <1>4, <1>5, <1>6, <1>7, <1>8, <1>9, <1>10 DEF Taken, Syncing,
       Sole, Setting, SetInv, InMemory
  <1>34. Read'
    BY <1>1, <1>2, <1>3, <1>4, <1>5, <1>6, <1>7, <1>8, <1>9, <1>10 DEF Read, Sole,
       Setting, SetInv, InMemory
  <1>35. On'
    BY <1>1, <1>2, <1>3, <1>4, <1>5, <1>6, <1>7, <1>8, <1>9, <1>10 DEF On, Sole,
       Setting, SetInv, InMemory
  <1>36. Emptied'
    BY <1>1, <1>2, <1>3, <1>4, <1>5, <1>6, <1>7, <1>8, <1>9, <1>10 DEF Emptied, Sole,
       Setting, SetInv, InMemory
  <1>37. Current'
    BY <1>1, <1>2, <1>3, <1>4, <1>5, <1>6, <1>7, <1>8, <1>9, <1>10 DEF Current, Sole,
       Setting, SetInv, InMemory
  <1>38. Wanted'
    BY <1>1, <1>2, <1>3, <1>4, <1>5, <1>6, <1>7, <1>8, <1>9, <1>10 DEF Wanted, Sole,
       Setting, SetInv, Promised
  <1>39. Nothing'
    BY <1>1, <1>2, <1>3, <1>4, <1>5, <1>6, <1>7, <1>8, <1>9, <1>10 DEF Nothing,
       Saving, Sole, Setting, SetInv, Promised
  <1>40. Something'
    BY <1>1, <1>2, <1>3, <1>4, <1>5, <1>6, <1>7, <1>8, <1>9, <1>10 DEF Something,
       Saving, Sole, Setting, SetInv, Promised
  <1>41. Still'
    BY <1>1, <1>2, <1>3, <1>4, <1>5, <1>6, <1>7, <1>8, <1>9, <1>10 DEF Still, Saving,
       Running, Sole, Setting, SetInv, Promised
  <1>42. Settled'
    <2>1. Sole(t) => Stored' = mem /\ Running'
      BY <1>1, <1>4, <1>8, <1>7 DEF Syncing, Sole, SetInv, OnDisk, InMemory, Kept, Read, On, Running
    <2>2. CASE proc[t].alone
      <3>1. mem = proc[t].want
        BY <1>1, <2>2 DEF Syncing, SetInv, InMemory, Taken
      <3> QED BY <1>4, <2>1, <2>2, <3>1, <1>10 DEF Settled, Sole
    <2>3. CASE ~proc[t].alone /\ t = Main
      BY <1>4, <2>1, <2>3, <1>8, <1>10 DEF Settled, Sole, SetInv, Promised, FilePromised
    <2>4. CASE ~Sole(t)
      BY <1>5, <2>4, <1>10 DEF Settled, Sole
    <2> QED BY <2>2, <2>3, <2>4 DEF Sole
  <1>43. FilePromised'
    <2>1. CASE proc[t].alone
      <3>1. Stored' = proc[t].want /\ (disk.file # None => Len(data[disk.file]) = 1)
        BY <1>1, <1>4, <2>1, <1>8 DEF Syncing, Sole, SetInv, OnDisk, InMemory, Whole, Kept, Taken
      <3> QED BY <1>4, <2>1, <3>1, <1>10 DEF FilePromised
    <2>2. CASE ~proc[t].alone
      BY <1>4, <2>2, <1>8, <1>10 DEF SetInv, Promised, FilePromised
    <2> QED BY <2>1, <2>2
  <1> QED BY <1>12, <1>13, <1>14, <1>15, <1>16, <1>17, <1>18, <1>19, <1>20, <1>21,
     <1>22, <1>23, <1>24, <1>25, <1>26, <1>27, <1>28, <1>29, <1>30, <1>31, <1>32,
     <1>33, <1>34, <1>35, <1>36, <1>37, <1>38, <1>39, <1>40, <1>41, <1>42, <1>43 DEF
     SetInv, Shapes, Placed, Alone, OnDisk, InMemory, Promised

(* The setting was on when it was read: a watcher is to be started.        *)
LEMMA SyncOnKeeps ==
    ASSUME SetInv, NEW t \in Threads, SyncOn(t)
    PROVE  SetInv'
  <1>1. t \in Threads /\ phase # "down" /\ proc[t].at = "slot"
    BY DEF SyncOn, Runs, Threads, StopOld
  <1>2. proc \in [Threads -> Thread] /\ proc[t] \in Thread
    BY <1>1 DEF SetInv, Shapes, ProcOK
  <1>3. /\ \A u \in Threads : u # t => proc'[u] = proc[u]
        /\ proc'[t].at = "start"
        /\ proc'[t].want = proc[t].want
        /\ proc'[t].fd = proc[t].fd
        /\ proc'[t].enabled = proc[t].enabled
        /\ proc'[t].alone = proc[t].alone
        /\ proc'[t].before = proc[t].before
        /\ proc'[t].known = proc[t].known
    BY <1>1, <1>2 DEF SyncOn, Go, Thread, StopOld
  <1>4. UNCHANGED <<disk, data, mem, detail, phase, may>>
    BY DEF SyncOn, StopOld
  <1>5. /\ \A u \in Threads : u # t => ~proc[u].alone /\ (u = Main => proc[u].at = "idle")
        /\ t # Main => phase # "starting" /\ t \in Clients
        /\ t = Main => phase = "starting" /\ ~proc[t].alone
        /\ Sole(t) => \A u \in Threads : u # t => proc[u].at \in {"idle", "editing"}
        /\ ~Sole(t) => may = {}
    BY <1>1, Company
  <1>6. Main \in Threads /\ Main \notin Clients /\ \A d \in Clients : d \in Threads
    BY DEF Threads
  <1>7. slot' = None /\ slotLock = None /\ slotLock' = t /\ proc[t].enabled
    BY DEF SyncOn, StopOld
  <1>8. Stored' = Stored
    BY <1>4, StoredStays
  <1>9. proc' \in [Threads -> Thread]
    BY <1>1, <1>2, <1>1 DEF SyncOn, Go, Thread, Points, StopOld
  <1>10. ProcOK'
    BY <1>9 DEF ProcOK
  <1>11. DiskOK'
    BY <1>1, <1>2, <1>3, <1>4, <1>5, <1>6, <1>7, <1>8 DEF DiskOK, SetInv, Shapes
  <1>12. DataOK'
    BY <1>1, <1>2, <1>3, <1>4, <1>5, <1>6, <1>7, <1>8 DEF DataOK, SetInv, Shapes
  <1>13. MemOK'
    BY <1>1, <1>2, <1>3, <1>4, <1>5, <1>6, <1>7, <1>8 DEF MemOK, Thread, SetInv,
       Shapes
  <1>14. SlotOK'
    BY <1>1, <1>2, <1>3, <1>4, <1>5, <1>6, <1>7, <1>8 DEF SlotOK, SetInv, Shapes
  <1>15. MayOK'
    BY <1>1, <1>2, <1>3, <1>4, <1>5, <1>6, <1>7, <1>8 DEF MayOK, Thread, SetInv,
       Shapes
  <1>16. PhaseOK'
    BY <1>1, <1>2, <1>3, <1>4, <1>5, <1>6, <1>7, <1>8 DEF PhaseOK, SetInv, Shapes
  <1>17. Opened'
    BY <1>1, <1>2, <1>3, <1>4, <1>5, <1>6, <1>7, <1>8 DEF Opened, SetInv, Shapes
  <1>18. Locked'
    BY <1>1, <1>2, <1>3, <1>4, <1>5, <1>6, <1>7, <1>8 DEF Locked, Threads, SetInv,
       Shapes
  <1>19. ClientsWait'
    BY <1>1, <1>2, <1>3, <1>4, <1>5, <1>6, <1>7, <1>8 DEF ClientsWait, Sole, Setting,
       SetInv, Placed
  <1>20. MainRests'
    BY <1>1, <1>2, <1>3, <1>4, <1>5, <1>6, <1>7, <1>8 DEF MainRests, Sole, Setting,
       SetInv, Placed
  <1>21. AllRest'
    BY <1>1, <1>2, <1>3, <1>4, <1>5, <1>6, <1>7, <1>8 DEF AllRest, Sole, Setting,
       SetInv, Placed
  <1>22. OnlyOne'
    BY <1>1, <1>2, <1>3, <1>4, <1>5, <1>6, <1>7, <1>8 DEF OnlyOne, Sole, Setting,
       SetInv, Alone
  <1>23. NoneMet'
    BY <1>1, <1>2, <1>3, <1>4, <1>5, <1>6, <1>7, <1>8 DEF NoneMet, Sole, Setting,
       SetInv, Alone
  <1>24. Apart'
    BY <1>1, <1>2, <1>3, <1>4, <1>5, <1>6, <1>7, <1>8 DEF Apart, Sole, Setting,
       SetInv, OnDisk
  <1>25. Truncated'
    BY <1>1, <1>2, <1>3, <1>4, <1>5, <1>6, <1>7, <1>8 DEF Truncated, Sole, Setting,
       SetInv, OnDisk
  <1>26. Written'
    BY <1>1, <1>2, <1>3, <1>4, <1>5, <1>6, <1>7, <1>8 DEF Written, Sole, Setting,
       SetInv, OnDisk
  <1>27. Saved'
    BY <1>1, <1>2, <1>3, <1>4, <1>5, <1>6, <1>7, <1>8 DEF Saved, Sole, Setting,
       SetInv, OnDisk
  <1>28. Kept'
    BY <1>1, <1>2, <1>3, <1>4, <1>5, <1>6, <1>7, <1>8 DEF Kept, Syncing, Sole,
       Setting, SetInv, OnDisk
  <1>29. Whole'
    BY <1>1, <1>2, <1>3, <1>4, <1>5, <1>6, <1>7, <1>8 DEF Whole, Syncing, Sole,
       Setting, SetInv, OnDisk
  <1>30. FirstSave'
    BY <1>1, <1>2, <1>3, <1>4, <1>5, <1>6, <1>7, <1>8 DEF FirstSave, Saving, Sole,
       Setting, SetInv, OnDisk
  <1>31. Taken'
    BY <1>1, <1>2, <1>3, <1>4, <1>5, <1>6, <1>7, <1>8 DEF Taken, Syncing, Sole,
       Setting, SetInv, InMemory
  <1>32. Read'
    BY <1>1, <1>2, <1>3, <1>4, <1>5, <1>6, <1>7, <1>8 DEF Read, Sole, Setting, SetInv,
       InMemory
  <1>33. On'
    BY <1>1, <1>2, <1>3, <1>4, <1>5, <1>6, <1>7, <1>8 DEF On, Read, Sole, Setting,
       SetInv, InMemory
  <1>34. Emptied'
    BY <1>1, <1>2, <1>3, <1>4, <1>5, <1>6, <1>7, <1>8 DEF Emptied, Sole, Setting,
       SetInv, InMemory
  <1>35. Current'
    BY <1>1, <1>2, <1>3, <1>4, <1>5, <1>6, <1>7, <1>8 DEF Current, Sole, Setting,
       SetInv, InMemory
  <1>36. Wanted'
    BY <1>1, <1>2, <1>3, <1>4, <1>5, <1>6, <1>7, <1>8 DEF Wanted, Sole, Setting,
       SetInv, Promised
  <1>37. Nothing'
    BY <1>1, <1>2, <1>3, <1>4, <1>5, <1>6, <1>7, <1>8 DEF Nothing, Saving, Sole,
       Setting, SetInv, Promised
  <1>38. Something'
    BY <1>1, <1>2, <1>3, <1>4, <1>5, <1>6, <1>7, <1>8 DEF Something, Saving, Sole,
       Setting, SetInv, Promised
  <1>39. Still'
    BY <1>1, <1>2, <1>3, <1>4, <1>5, <1>6, <1>7, <1>8 DEF Still, Saving, Running,
       Sole, Setting, SetInv, Promised
  <1>40. Settled'
    BY <1>1, <1>2, <1>3, <1>4, <1>5, <1>6, <1>7, <1>8 DEF Settled, Quiet, Running,
       Sole, Setting, SetInv, Promised
  <1>41. FilePromised'
    BY <1>1, <1>2, <1>3, <1>4, <1>5, <1>6, <1>7, <1>8 DEF FilePromised, Sole, Setting,
       SetInv, Promised
  <1> QED BY <1>10, <1>11, <1>12, <1>13, <1>14, <1>15, <1>16, <1>17, <1>18, <1>19,
     <1>20, <1>21, <1>22, <1>23, <1>24, <1>25, <1>26, <1>27, <1>28, <1>29, <1>30,
     <1>31, <1>32, <1>33, <1>34, <1>35, <1>36, <1>37, <1>38, <1>39, <1>40, <1>41 DEF
     SetInv, Shapes, Placed, Alone, OnDisk, InMemory, Promised

(* A watcher starts with what is in memory then, or fails to.              *)
LEMMA StartWatcherKeeps ==
    ASSUME SetInv, NEW t \in Threads, StartWatcher(t)
    PROVE  SetInv'
  <1>1. t \in Threads /\ phase # "down" /\ proc[t].at = "start"
    BY DEF StartWatcher, Runs, Threads, Finish, Rest, Idle
  <1>2. proc \in [Threads -> Thread] /\ proc[t] \in Thread
    BY <1>1 DEF SetInv, Shapes, ProcOK
  <1>3. /\ \A u \in Threads : u # t => proc'[u] = proc[u]
        /\ proc'[t].at = "idle"
        /\ proc'[t].want = Default
        /\ proc'[t].fd = None
        /\ proc'[t].enabled = FALSE
        /\ proc'[t].alone = FALSE
        /\ proc'[t].before = {}
        /\ proc'[t].known = Default
    BY <1>1, <1>2 DEF StartWatcher, Go, Thread, Finish, Rest, Idle
  <1>4. UNCHANGED <<disk, data, mem>>
    BY DEF StartWatcher, Finish, Rest, Idle
  <1>5. /\ \A u \in Threads : u # t => ~proc[u].alone /\ (u = Main => proc[u].at = "idle")
        /\ t # Main => phase # "starting" /\ t \in Clients
        /\ t = Main => phase = "starting" /\ ~proc[t].alone
        /\ Sole(t) => \A u \in Threads : u # t => proc[u].at \in {"idle", "editing"}
        /\ ~Sole(t) => may = {}
    BY <1>1, Company
  <1>6. Main \in Threads /\ Main \notin Clients /\ \A d \in Clients : d \in Threads
    BY DEF Threads
  <1>7. slotLock = t /\ slotLock' = None /\ t # None
    BY <1>1 DEF StartWatcher, SetInv, Shapes, Locked, Threads
  <1>8. \/ slot' = mem /\ detail' # "failed"
        \/ slot' = None /\ detail' = "failed"
    BY <1>7 DEF StartWatcher, SetInv, InMemory, Emptied
  <1>9. Stored' = Stored
    BY <1>4, StoredStays
  <1>10. phase' = IF t = Main THEN "up" ELSE phase
    BY DEF StartWatcher, Finish
  <1>11. may' = IF proc[t].alone THEN {proc[t].want} ELSE may
    BY DEF StartWatcher, Finish
  <1>12. proc' \in [Threads -> Thread]
    BY <1>1, <1>2, IdleIs DEF StartWatcher, Go, Thread, Points, Finish, Rest, Idle
  <1>13. ProcOK'
    BY <1>12 DEF ProcOK
  <1>14. DiskOK'
    BY <1>1, <1>2, <1>3, <1>4, <1>5, <1>6, <1>7, <1>8, <1>9, <1>10, <1>11 DEF DiskOK,
       SetInv, Shapes
  <1>15. DataOK'
    BY <1>1, <1>2, <1>3, <1>4, <1>5, <1>6, <1>7, <1>8, <1>9, <1>10, <1>11 DEF DataOK,
       SetInv, Shapes
  <1>16. MemOK'
    BY <1>1, <1>2, <1>3, <1>4, <1>5, <1>6, <1>7, <1>8, <1>9, <1>10, <1>11 DEF MemOK,
       Thread, SetInv, Shapes
  <1>17. SlotOK'
    BY <1>1, <1>2, <1>3, <1>4, <1>5, <1>6, <1>7, <1>8, <1>9, <1>10, <1>11 DEF SlotOK,
       MemOK, SetInv, Shapes
  <1>18. MayOK'
    BY <1>1, <1>2, <1>3, <1>4, <1>5, <1>6, <1>7, <1>8, <1>9, <1>10, <1>11 DEF MayOK,
       Thread, SetInv, Shapes
  <1>19. PhaseOK'
    BY <1>1, <1>2, <1>3, <1>4, <1>5, <1>6, <1>7, <1>8, <1>9, <1>10, <1>11 DEF PhaseOK,
       SetInv, Shapes
  <1>20. Opened'
    BY <1>1, <1>2, <1>3, <1>4, <1>5, <1>6, <1>7, <1>8, <1>9, <1>10, <1>11 DEF Opened,
       SetInv, Shapes
  <1>21. Locked'
    BY <1>1, <1>2, <1>3, <1>4, <1>5, <1>6, <1>7, <1>8, <1>9, <1>10, <1>11 DEF Locked,
       Threads, SetInv, Shapes
  <1>22. ClientsWait'
    BY <1>1, <1>2, <1>3, <1>4, <1>5, <1>6, <1>7, <1>8, <1>9, <1>10, <1>11 DEF
       ClientsWait, Sole, Setting, SetInv, Placed
  <1>23. MainRests'
    BY <1>1, <1>2, <1>3, <1>4, <1>5, <1>6, <1>7, <1>8, <1>9, <1>10, <1>11 DEF
       MainRests, Sole, Setting, SetInv, Placed
  <1>24. AllRest'
    BY <1>1, <1>2, <1>3, <1>4, <1>5, <1>6, <1>7, <1>8, <1>9, <1>10, <1>11 DEF AllRest,
       Sole, Setting, SetInv, Placed
  <1>25. OnlyOne'
    BY <1>1, <1>2, <1>3, <1>4, <1>5, <1>6, <1>7, <1>8, <1>9, <1>10, <1>11 DEF OnlyOne,
       Sole, Setting, SetInv, Alone
  <1>26. NoneMet'
    BY <1>1, <1>2, <1>3, <1>4, <1>5, <1>6, <1>7, <1>8, <1>9, <1>10, <1>11 DEF NoneMet,
       Sole, Setting, SetInv, Alone
  <1>27. Apart'
    BY <1>1, <1>2, <1>3, <1>4, <1>5, <1>6, <1>7, <1>8, <1>9, <1>10, <1>11 DEF Apart,
       Sole, Setting, SetInv, OnDisk
  <1>28. Truncated'
    BY <1>1, <1>2, <1>3, <1>4, <1>5, <1>6, <1>7, <1>8, <1>9, <1>10, <1>11 DEF
       Truncated, Sole, Setting, SetInv, OnDisk
  <1>29. Written'
    BY <1>1, <1>2, <1>3, <1>4, <1>5, <1>6, <1>7, <1>8, <1>9, <1>10, <1>11 DEF Written,
       Sole, Setting, SetInv, OnDisk
  <1>30. Saved'
    BY <1>1, <1>2, <1>3, <1>4, <1>5, <1>6, <1>7, <1>8, <1>9, <1>10, <1>11 DEF Saved,
       Sole, Setting, SetInv, OnDisk
  <1>31. Kept'
    BY <1>1, <1>2, <1>3, <1>4, <1>5, <1>6, <1>7, <1>8, <1>9, <1>10, <1>11 DEF Kept,
       Syncing, Sole, Setting, SetInv, OnDisk
  <1>32. Whole'
    BY <1>1, <1>2, <1>3, <1>4, <1>5, <1>6, <1>7, <1>8, <1>9, <1>10, <1>11 DEF Whole,
       Syncing, Sole, Setting, SetInv, OnDisk
  <1>33. FirstSave'
    BY <1>1, <1>2, <1>3, <1>4, <1>5, <1>6, <1>7, <1>8, <1>9, <1>10, <1>11 DEF
       FirstSave, Saving, Sole, Setting, SetInv, OnDisk
  <1>34. Taken'
    BY <1>1, <1>2, <1>3, <1>4, <1>5, <1>6, <1>7, <1>8, <1>9, <1>10, <1>11 DEF Taken,
       Syncing, Sole, Setting, SetInv, InMemory
  <1>35. Read'
    BY <1>1, <1>2, <1>3, <1>4, <1>5, <1>6, <1>7, <1>8, <1>9, <1>10, <1>11 DEF Read,
       Sole, Setting, SetInv, InMemory
  <1>36. On'
    BY <1>1, <1>2, <1>3, <1>4, <1>5, <1>6, <1>7, <1>8, <1>9, <1>10, <1>11 DEF On,
       Sole, Setting, SetInv, InMemory
  <1>37. Emptied'
    BY <1>1, <1>2, <1>3, <1>4, <1>5, <1>6, <1>7, <1>8, <1>9, <1>10, <1>11 DEF Emptied,
       Sole, Setting, SetInv, InMemory
  <1>38. Current'
    BY <1>1, <1>2, <1>3, <1>4, <1>5, <1>6, <1>7, <1>8, <1>9, <1>10, <1>11 DEF Current,
       Sole, Setting, SetInv, InMemory
  <1>39. Wanted'
    BY <1>1, <1>2, <1>3, <1>4, <1>5, <1>6, <1>7, <1>8, <1>9, <1>10, <1>11 DEF Wanted,
       Sole, Setting, SetInv, Promised
  <1>40. Nothing'
    BY <1>1, <1>2, <1>3, <1>4, <1>5, <1>6, <1>7, <1>8, <1>9, <1>10, <1>11 DEF Nothing,
       Saving, Sole, Setting, SetInv, Promised
  <1>41. Something'
    BY <1>1, <1>2, <1>3, <1>4, <1>5, <1>6, <1>7, <1>8, <1>9, <1>10, <1>11 DEF
       Something, Saving, Sole, Setting, SetInv, Promised
  <1>42. Still'
    BY <1>1, <1>2, <1>3, <1>4, <1>5, <1>6, <1>7, <1>8, <1>9, <1>10, <1>11 DEF Still,
       Saving, Running, Sole, Setting, SetInv, Promised
  <1>43. Settled'
    <2>1. Sole(t) => Stored' = mem /\ Running'
      BY <1>1, <1>4, <1>9, <1>8 DEF Syncing, Sole, SetInv, OnDisk, InMemory, Kept, Read, On, Running
    <2>2. CASE proc[t].alone
      <3>1. mem = proc[t].want
        BY <1>1, <2>2 DEF Syncing, SetInv, InMemory, Taken
      <3> QED BY <1>4, <2>1, <2>2, <3>1, <1>11 DEF Settled, Sole
    <2>3. CASE ~proc[t].alone /\ t = Main
      BY <1>4, <2>1, <2>3, <1>9, <1>11 DEF Settled, Sole, SetInv, Promised, FilePromised
    <2>4. CASE ~Sole(t)
      BY <1>5, <2>4, <1>11 DEF Settled, Sole
    <2> QED BY <2>2, <2>3, <2>4 DEF Sole
  <1>44. FilePromised'
    <2>1. CASE proc[t].alone
      <3>1. Stored' = proc[t].want /\ (disk.file # None => Len(data[disk.file]) = 1)
        BY <1>1, <1>4, <2>1, <1>9 DEF Syncing, Sole, SetInv, OnDisk, InMemory, Whole, Kept, Taken
      <3> QED BY <1>4, <2>1, <3>1, <1>11 DEF FilePromised
    <2>2. CASE ~proc[t].alone
      BY <1>4, <2>2, <1>9, <1>11 DEF SetInv, Promised, FilePromised
    <2> QED BY <2>1, <2>2
  <1> QED BY <1>13, <1>14, <1>15, <1>16, <1>17, <1>18, <1>19, <1>20, <1>21, <1>22,
     <1>23, <1>24, <1>25, <1>26, <1>27, <1>28, <1>29, <1>30, <1>31, <1>32, <1>33,
     <1>34, <1>35, <1>36, <1>37, <1>38, <1>39, <1>40, <1>41, <1>42, <1>43, <1>44 DEF
     SetInv, Shapes, Placed, Alone, OnDisk, InMemory, Promised

(* The temporary file is opened: it is empty, and not the file.            *)
LEMMA TruncateKeeps ==
    ASSUME SetInv, NEW t \in Threads, Truncate(t)
    PROVE  SetInv'
  <1>1. t \in Threads /\ phase # "down" /\ proc[t].at = "open"
    BY DEF Truncate, Runs, Threads
  <1>2. proc \in [Threads -> Thread] /\ proc[t] \in Thread
    BY <1>1 DEF SetInv, Shapes, ProcOK
  <1>3. /\ \A u \in Threads : u # t => proc'[u] = proc[u]
        /\ proc'[t].at = "write"
        /\ proc'[t].want = proc[t].want
        /\ proc'[t].fd = disk'.tmp
        /\ proc'[t].enabled = proc[t].enabled
        /\ proc'[t].alone = proc[t].alone
        /\ proc'[t].before = proc[t].before
        /\ proc'[t].known = proc[t].known
    BY <1>1, <1>2 DEF Truncate, SetInv, Shapes, DiskOK, Thread
  <1>4. UNCHANGED <<mem, slot, slotLock, detail, phase, may>>
    BY DEF Truncate
  <1>5. /\ \A u \in Threads : u # t => ~proc[u].alone /\ (u = Main => proc[u].at = "idle")
        /\ t # Main => phase # "starting" /\ t \in Clients
        /\ t = Main => phase = "starting" /\ ~proc[t].alone
        /\ Sole(t) => \A u \in Threads : u # t => proc[u].at \in {"idle", "editing"}
        /\ ~Sole(t) => may = {}
    BY <1>1, Company
  <1>6. Main \in Threads /\ Main \notin Clients /\ \A d \in Clients : d \in Threads
    BY DEF Threads
  <1>7. /\ disk' \in [file : Inodes \cup {None}, tmp : Inodes \cup {None}]
        /\ disk'.file = disk.file /\ disk'.tmp \in Inodes
        /\ disk'.tmp # disk.file /\ disk'.tmp # None
        /\ data' = [data EXCEPT ![disk'.tmp] = <<>>]
    <2> DEFINE i == IF disk.tmp = None THEN CHOOSE j \in Inodes : Free(j) ELSE disk.tmp
    <2>1. disk \in [file : Inodes \cup {None}, tmp : Inodes \cup {None}]
      BY DEF SetInv, Shapes, DiskOK
    <2>2. i \in Inodes /\ i # disk.file
      <3>1. CASE disk.tmp = None
        <4>1. \E j \in Inodes : Free(j)
          BY <3>1, SomeIsFree DEF SetInv, Shapes
        <4>2. i \in Inodes /\ Free(i)
          BY <3>1, <4>1
        <4> QED BY <4>2 DEF Free
      <3>2. CASE disk.tmp # None
        BY <2>1, <3>2 DEF SetInv, OnDisk, Apart
      <3> QED BY <3>1, <3>2
    <2>3. disk' = [disk EXCEPT !.tmp = i] /\ data' = [data EXCEPT ![i] = <<>>]
      BY DEF Truncate
    <2>4. i # None
      BY <2>2, NoInodeIsNone
    <2> HIDE DEF i
    <2> QED BY <2>1, <2>2, <2>3, <2>4
  <1>8. /\ data' \in [Inodes -> Seq(Clean)] /\ data'[disk'.tmp] = <<>>
        /\ \A j \in Inodes : j # disk'.tmp => data'[j] = data[j]
    <2>1. <<>> \in Seq(Clean)
      OBVIOUS
    <2> QED BY <1>7, <2>1 DEF SetInv, Shapes, DataOK
  <1>9. Stored' = Stored /\ (disk.file # None => data'[disk.file] = data[disk.file])
    BY <1>7, <1>8, StoredStays DEF SetInv, Shapes, DiskOK
  <1>10. proc' \in [Threads -> Thread]
    BY <1>1, <1>2, <1>3, <1>7 DEF Truncate, Go, Thread, Points
  <1>11. ProcOK'
    BY <1>10 DEF ProcOK
  <1>12. DiskOK'
    BY <1>1, <1>2, <1>3, <1>4, <1>5, <1>6, <1>7, <1>8, <1>9 DEF DiskOK, SetInv, Shapes
  <1>13. DataOK'
    BY <1>1, <1>2, <1>3, <1>4, <1>5, <1>6, <1>7, <1>8, <1>9 DEF DataOK, SetInv, Shapes
  <1>14. MemOK'
    BY <1>1, <1>2, <1>3, <1>4, <1>5, <1>6, <1>7, <1>8, <1>9 DEF MemOK, Thread, SetInv,
       Shapes
  <1>15. SlotOK'
    BY <1>1, <1>2, <1>3, <1>4, <1>5, <1>6, <1>7, <1>8, <1>9 DEF SlotOK, SetInv, Shapes
  <1>16. MayOK'
    BY <1>1, <1>2, <1>3, <1>4, <1>5, <1>6, <1>7, <1>8, <1>9 DEF MayOK, Thread, SetInv,
       Shapes
  <1>17. PhaseOK'
    BY <1>1, <1>2, <1>3, <1>4, <1>5, <1>6, <1>7, <1>8, <1>9 DEF PhaseOK, SetInv,
       Shapes
  <1>18. Opened'
    BY <1>1, <1>2, <1>3, <1>4, <1>5, <1>6, <1>7, <1>8, <1>9 DEF Opened, SetInv, Shapes
  <1>19. Locked'
    BY <1>1, <1>2, <1>3, <1>4, <1>5, <1>6, <1>7, <1>8, <1>9 DEF Locked, SetInv, Shapes
  <1>20. ClientsWait'
    BY <1>1, <1>2, <1>3, <1>4, <1>5, <1>6, <1>7, <1>8, <1>9 DEF ClientsWait, Sole,
       Setting, SetInv, Placed
  <1>21. MainRests'
    BY <1>1, <1>2, <1>3, <1>4, <1>5, <1>6, <1>7, <1>8, <1>9 DEF MainRests, Sole,
       Setting, SetInv, Placed
  <1>22. AllRest'
    BY <1>1, <1>2, <1>3, <1>4, <1>5, <1>6, <1>7, <1>8, <1>9 DEF AllRest, Sole,
       Setting, SetInv, Placed
  <1>23. OnlyOne'
    BY <1>1, <1>2, <1>3, <1>4, <1>5, <1>6, <1>7, <1>8, <1>9 DEF OnlyOne, Sole,
       Setting, SetInv, Alone
  <1>24. NoneMet'
    BY <1>1, <1>2, <1>3, <1>4, <1>5, <1>6, <1>7, <1>8, <1>9 DEF NoneMet, Sole,
       Setting, SetInv, Alone
  <1>25. Apart'
    BY <1>1, <1>2, <1>3, <1>4, <1>5, <1>6, <1>7, <1>8, <1>9 DEF Apart, Sole, Setting,
       SetInv, OnDisk
  <1>26. Truncated'
    BY <1>1, <1>2, <1>3, <1>4, <1>5, <1>6, <1>7, <1>8, <1>9 DEF Truncated, Sole,
       Setting, SetInv, OnDisk
  <1>27. Written'
    BY <1>1, <1>2, <1>3, <1>4, <1>5, <1>6, <1>7, <1>8, <1>9 DEF Written, Sole,
       Setting, SetInv, OnDisk
  <1>28. Saved'
    BY <1>1, <1>2, <1>3, <1>4, <1>5, <1>6, <1>7, <1>8, <1>9 DEF Saved, Sole, Setting,
       SetInv, OnDisk
  <1>29. Kept'
    BY <1>1, <1>2, <1>3, <1>4, <1>5, <1>6, <1>7, <1>8, <1>9 DEF Kept, Syncing, Sole,
       Setting, SetInv, OnDisk
  <1>30. Whole'
    BY <1>1, <1>2, <1>3, <1>4, <1>5, <1>6, <1>7, <1>8, <1>9 DEF Whole, Syncing, Sole,
       Setting, SetInv, OnDisk
  <1>31. FirstSave'
    BY <1>1, <1>2, <1>3, <1>4, <1>5, <1>6, <1>7, <1>8, <1>9 DEF FirstSave, Saving,
       Sole, Setting, SetInv, OnDisk
  <1>32. Taken'
    BY <1>1, <1>2, <1>3, <1>4, <1>5, <1>6, <1>7, <1>8, <1>9 DEF Taken, Syncing, Sole,
       Setting, SetInv, InMemory
  <1>33. Read'
    BY <1>1, <1>2, <1>3, <1>4, <1>5, <1>6, <1>7, <1>8, <1>9 DEF Read, Sole, Setting,
       SetInv, InMemory
  <1>34. On'
    BY <1>1, <1>2, <1>3, <1>4, <1>5, <1>6, <1>7, <1>8, <1>9 DEF On, Sole, Setting,
       SetInv, InMemory
  <1>35. Emptied'
    BY <1>1, <1>2, <1>3, <1>4, <1>5, <1>6, <1>7, <1>8, <1>9 DEF Emptied, Sole,
       Setting, SetInv, InMemory
  <1>36. Current'
    BY <1>1, <1>2, <1>3, <1>4, <1>5, <1>6, <1>7, <1>8, <1>9 DEF Current, Sole,
       Setting, SetInv, InMemory
  <1>37. Wanted'
    BY <1>1, <1>2, <1>3, <1>4, <1>5, <1>6, <1>7, <1>8, <1>9 DEF Wanted, Sole, Setting,
       SetInv, Promised
  <1>38. Nothing'
    BY <1>1, <1>2, <1>3, <1>4, <1>5, <1>6, <1>7, <1>8, <1>9 DEF Nothing, Saving, Sole,
       Setting, SetInv, Promised
  <1>39. Something'
    BY <1>1, <1>2, <1>3, <1>4, <1>5, <1>6, <1>7, <1>8, <1>9 DEF Something, Saving,
       Sole, Setting, SetInv, Promised
  <1>40. Still'
    BY <1>1, <1>2, <1>3, <1>4, <1>5, <1>6, <1>7, <1>8, <1>9 DEF Still, Saving,
       Running, Sole, Setting, SetInv, Promised
  <1>41. Settled'
    BY <1>1, <1>2, <1>3, <1>4, <1>5, <1>6, <1>7, <1>8, <1>9 DEF Settled, Quiet,
       Running, Sole, Setting, SetInv, Promised
  <1>42. FilePromised'
    BY <1>1, <1>2, <1>3, <1>4, <1>5, <1>6, <1>7, <1>8, <1>9 DEF FilePromised, Sole,
       Setting, SetInv, Promised
  <1> QED BY <1>11, <1>12, <1>13, <1>14, <1>15, <1>16, <1>17, <1>18, <1>19, <1>20,
     <1>21, <1>22, <1>23, <1>24, <1>25, <1>26, <1>27, <1>28, <1>29, <1>30, <1>31,
     <1>32, <1>33, <1>34, <1>35, <1>36, <1>37, <1>38, <1>39, <1>40, <1>41, <1>42 DEF
     SetInv, Shapes, Placed, Alone, OnDisk, InMemory, Promised

(* The text is written: alone, it is the document and no more.             *)
LEMMA WriteKeeps ==
    ASSUME SetInv, NEW t \in Threads, Write(t)
    PROVE  SetInv'
  <1>1. t \in Threads /\ phase # "down" /\ proc[t].at = "write"
    BY DEF Write, Runs, Threads
  <1>2. proc \in [Threads -> Thread] /\ proc[t] \in Thread
    BY <1>1 DEF SetInv, Shapes, ProcOK
  <1>3. /\ \A u \in Threads : u # t => proc'[u] = proc[u]
        /\ proc'[t].at = "rename"
        /\ proc'[t].want = proc[t].want
        /\ proc'[t].fd = None
        /\ proc'[t].enabled = proc[t].enabled
        /\ proc'[t].alone = proc[t].alone
        /\ proc'[t].before = proc[t].before
        /\ proc'[t].known = proc[t].known
    BY <1>1, <1>2 DEF Write, Go, Thread
  <1>4. UNCHANGED <<disk, mem, slot, slotLock, detail, phase, may>>
    BY DEF Write
  <1>5. /\ \A u \in Threads : u # t => ~proc[u].alone /\ (u = Main => proc[u].at = "idle")
        /\ t # Main => phase # "starting" /\ t \in Clients
        /\ t = Main => phase = "starting" /\ ~proc[t].alone
        /\ Sole(t) => \A u \in Threads : u # t => proc[u].at \in {"idle", "editing"}
        /\ ~Sole(t) => may = {}
    BY <1>1, Company
  <1>6. Main \in Threads /\ Main \notin Clients /\ \A d \in Clients : d \in Threads
    BY DEF Threads
  <1>7. /\ proc[t].fd \in Inodes
        /\ data' \in [Inodes -> Seq(Clean)]
        /\ \A j \in Inodes : j # proc[t].fd => data'[j] = data[j]
        /\ data[proc[t].fd] = <<>> => data'[proc[t].fd] = <<proc[t].want>>
    <2>1. proc[t].fd \in Inodes /\ data \in [Inodes -> Seq(Clean)] /\ proc[t].want \in Clean
      BY <1>1, <1>2 DEF SetInv, Shapes, Opened, DataOK, Thread
    <2> DEFINE old == data[proc[t].fd]
    <2>2. PICK rest \in 0..Len(old) :
             data' = [data EXCEPT ![proc[t].fd] = <<proc[t].want>> \o SubSeq(@, 1, rest)]
      BY DEF Write
    <2>3. old \in Seq(Clean) /\ <<proc[t].want>> \in Seq(Clean)
      BY <2>1
    <2>4. SubSeq(old, 1, rest) \in Seq(Clean)
      <3>1. \A k \in 1..rest : old[k] \in Clean
        BY <2>3, LenProperties, ElementOfSeq
      <3>2. rest \in Int
        BY <2>3, LenProperties
      <3> QED BY <3>1, <3>2, SubSeqProperties
    <2>5. <<proc[t].want>> \o SubSeq(old, 1, rest) \in Seq(Clean)
      BY <2>3, <2>4, ConcatProperties
    <2>6. old = <<>> => <<proc[t].want>> \o SubSeq(old, 1, rest) = <<proc[t].want>>
      <3> HAVE old = <<>>
      <3>1. rest = 0
        OBVIOUS
      <3>2. SubSeq(old, 1, 0) = <<>>
        BY SubSeqEmpty
      <3> QED BY <2>3, <3>1, <3>2, ConcatEmptySeq
    <2>7. data'[proc[t].fd] = <<proc[t].want>> \o SubSeq(old, 1, rest)
      BY <2>1, <2>2
    <2>8. \A j \in Inodes : j # proc[t].fd => data'[j] = data[j]
      BY <2>1, <2>2
    <2>9. data' \in [Inodes -> Seq(Clean)]
      BY <2>1, <2>2, <2>5
    <2> QED BY <2>1, <2>6, <2>7, <2>8, <2>9
  <1>8. Sole(t) => /\ disk.tmp = proc[t].fd /\ disk.tmp # disk.file /\ disk.tmp # None
                   /\ data'[disk.tmp] = <<proc[t].want>>
    BY <1>1, <1>7, NoInodeIsNone DEF SetInv, OnDisk, Truncated, Apart
  <1>9. Sole(t) => /\ Stored' = Stored
                   /\ disk.file # None => data'[disk.file] = data[disk.file]
    BY <1>4, <1>7, <1>8, StoredStays DEF SetInv, Shapes, DiskOK
  <1>10. proc' \in [Threads -> Thread]
    BY <1>1, <1>2, <1>1 DEF Write, Go, Thread, Points
  <1>11. ProcOK'
    BY <1>10 DEF ProcOK
  <1>12. DiskOK'
    BY <1>1, <1>2, <1>3, <1>4, <1>5, <1>6, <1>7, <1>8, <1>9 DEF DiskOK, SetInv, Shapes
  <1>13. DataOK'
    BY <1>1, <1>2, <1>3, <1>4, <1>5, <1>6, <1>7, <1>8, <1>9 DEF DataOK, SetInv, Shapes
  <1>14. MemOK'
    BY <1>1, <1>2, <1>3, <1>4, <1>5, <1>6, <1>7, <1>8, <1>9 DEF MemOK, Thread, SetInv,
       Shapes
  <1>15. SlotOK'
    BY <1>1, <1>2, <1>3, <1>4, <1>5, <1>6, <1>7, <1>8, <1>9 DEF SlotOK, SetInv, Shapes
  <1>16. MayOK'
    BY <1>1, <1>2, <1>3, <1>4, <1>5, <1>6, <1>7, <1>8, <1>9 DEF MayOK, Thread, SetInv,
       Shapes
  <1>17. PhaseOK'
    BY <1>1, <1>2, <1>3, <1>4, <1>5, <1>6, <1>7, <1>8, <1>9 DEF PhaseOK, SetInv,
       Shapes
  <1>18. Opened'
    BY <1>1, <1>2, <1>3, <1>4, <1>5, <1>6, <1>7, <1>8, <1>9 DEF Opened, SetInv, Shapes
  <1>19. Locked'
    BY <1>1, <1>2, <1>3, <1>4, <1>5, <1>6, <1>7, <1>8, <1>9 DEF Locked, SetInv, Shapes
  <1>20. ClientsWait'
    BY <1>1, <1>2, <1>3, <1>4, <1>5, <1>6, <1>7, <1>8, <1>9 DEF ClientsWait, Sole,
       Setting, SetInv, Placed
  <1>21. MainRests'
    BY <1>1, <1>2, <1>3, <1>4, <1>5, <1>6, <1>7, <1>8, <1>9 DEF MainRests, Sole,
       Setting, SetInv, Placed
  <1>22. AllRest'
    BY <1>1, <1>2, <1>3, <1>4, <1>5, <1>6, <1>7, <1>8, <1>9 DEF AllRest, Sole,
       Setting, SetInv, Placed
  <1>23. OnlyOne'
    BY <1>1, <1>2, <1>3, <1>4, <1>5, <1>6, <1>7, <1>8, <1>9 DEF OnlyOne, Sole,
       Setting, SetInv, Alone
  <1>24. NoneMet'
    BY <1>1, <1>2, <1>3, <1>4, <1>5, <1>6, <1>7, <1>8, <1>9 DEF NoneMet, Sole,
       Setting, SetInv, Alone
  <1>25. Apart'
    BY <1>1, <1>2, <1>3, <1>4, <1>5, <1>6, <1>7, <1>8, <1>9 DEF Apart, Sole, Setting,
       SetInv, OnDisk
  <1>26. Truncated'
    BY <1>1, <1>2, <1>3, <1>4, <1>5, <1>6, <1>7, <1>8, <1>9 DEF Truncated, Sole,
       Setting, SetInv, OnDisk
  <1>27. Written'
    BY <1>1, <1>2, <1>3, <1>4, <1>5, <1>6, <1>7, <1>8, <1>9 DEF Written, Sole,
       Setting, SetInv, OnDisk
  <1>28. Saved'
    BY <1>1, <1>2, <1>3, <1>4, <1>5, <1>6, <1>7, <1>8, <1>9 DEF Saved, Sole, Setting,
       SetInv, OnDisk
  <1>29. Kept'
    BY <1>1, <1>2, <1>3, <1>4, <1>5, <1>6, <1>7, <1>8, <1>9 DEF Kept, Syncing, Sole,
       Setting, SetInv, OnDisk
  <1>30. Whole'
    BY <1>1, <1>2, <1>3, <1>4, <1>5, <1>6, <1>7, <1>8, <1>9 DEF Whole, Syncing, Sole,
       Setting, SetInv, OnDisk
  <1>31. FirstSave'
    BY <1>1, <1>2, <1>3, <1>4, <1>5, <1>6, <1>7, <1>8, <1>9 DEF FirstSave, Saving,
       Sole, Setting, SetInv, OnDisk
  <1>32. Taken'
    BY <1>1, <1>2, <1>3, <1>4, <1>5, <1>6, <1>7, <1>8, <1>9 DEF Taken, Syncing, Sole,
       Setting, SetInv, InMemory
  <1>33. Read'
    BY <1>1, <1>2, <1>3, <1>4, <1>5, <1>6, <1>7, <1>8, <1>9 DEF Read, Sole, Setting,
       SetInv, InMemory
  <1>34. On'
    BY <1>1, <1>2, <1>3, <1>4, <1>5, <1>6, <1>7, <1>8, <1>9 DEF On, Sole, Setting,
       SetInv, InMemory
  <1>35. Emptied'
    BY <1>1, <1>2, <1>3, <1>4, <1>5, <1>6, <1>7, <1>8, <1>9 DEF Emptied, Sole,
       Setting, SetInv, InMemory
  <1>36. Current'
    BY <1>1, <1>2, <1>3, <1>4, <1>5, <1>6, <1>7, <1>8, <1>9 DEF Current, Sole,
       Setting, SetInv, InMemory
  <1>37. Wanted'
    BY <1>1, <1>2, <1>3, <1>4, <1>5, <1>6, <1>7, <1>8, <1>9 DEF Wanted, Sole, Setting,
       SetInv, Promised
  <1>38. Nothing'
    BY <1>1, <1>2, <1>3, <1>4, <1>5, <1>6, <1>7, <1>8, <1>9 DEF Nothing, Saving, Sole,
       Setting, SetInv, Promised
  <1>39. Something'
    BY <1>1, <1>2, <1>3, <1>4, <1>5, <1>6, <1>7, <1>8, <1>9 DEF Something, Saving,
       Sole, Setting, SetInv, Promised
  <1>40. Still'
    BY <1>1, <1>2, <1>3, <1>4, <1>5, <1>6, <1>7, <1>8, <1>9 DEF Still, Saving,
       Running, Sole, Setting, SetInv, Promised
  <1>41. Settled'
    BY <1>1, <1>2, <1>3, <1>4, <1>5, <1>6, <1>7, <1>8, <1>9 DEF Settled, Quiet,
       Running, Sole, Setting, SetInv, Promised
  <1>42. FilePromised'
    BY <1>1, <1>2, <1>3, <1>4, <1>5, <1>6, <1>7, <1>8, <1>9 DEF FilePromised, Sole,
       Setting, SetInv, Promised
  <1> QED BY <1>11, <1>12, <1>13, <1>14, <1>15, <1>16, <1>17, <1>18, <1>19, <1>20,
     <1>21, <1>22, <1>23, <1>24, <1>25, <1>26, <1>27, <1>28, <1>29, <1>30, <1>31,
     <1>32, <1>33, <1>34, <1>35, <1>36, <1>37, <1>38, <1>39, <1>40, <1>41, <1>42 DEF
     SetInv, Shapes, Placed, Alone, OnDisk, InMemory, Promised

(* The temporary file becomes the file.                                    *)
LEMMA RenameKeeps ==
    ASSUME SetInv, NEW t \in Threads, Rename(t)
    PROVE  SetInv'
  <1>1. t \in Threads /\ phase # "down" /\ proc[t].at = "rename"
    BY DEF Rename, Runs, Threads
  <1>2. proc \in [Threads -> Thread] /\ proc[t] \in Thread
    BY <1>1 DEF SetInv, Shapes, ProcOK
  <1>3. /\ \A u \in Threads : u # t => proc'[u] = proc[u]
        /\ proc'[t].at = "store"
        /\ proc'[t].want = proc[t].want
        /\ proc'[t].fd = proc[t].fd
        /\ proc'[t].enabled = proc[t].enabled
        /\ proc'[t].alone = proc[t].alone
        /\ proc'[t].before = proc[t].before
        /\ proc'[t].known = proc[t].known
    BY <1>1, <1>2 DEF Rename, Go, Thread
  <1>4. UNCHANGED <<data, mem, slot, slotLock, detail, phase, may>>
    BY DEF Rename
  <1>5. /\ \A u \in Threads : u # t => ~proc[u].alone /\ (u = Main => proc[u].at = "idle")
        /\ t # Main => phase # "starting" /\ t \in Clients
        /\ t = Main => phase = "starting" /\ ~proc[t].alone
        /\ Sole(t) => \A u \in Threads : u # t => proc[u].at \in {"idle", "editing"}
        /\ ~Sole(t) => may = {}
    BY <1>1, Company
  <1>6. Main \in Threads /\ Main \notin Clients /\ \A d \in Clients : d \in Threads
    BY DEF Threads
  <1>7. /\ disk' \in [file : Inodes \cup {None}, tmp : Inodes \cup {None}]
        /\ disk.tmp # None /\ disk'.file = disk.tmp /\ disk'.tmp = None
    BY DEF Rename, SetInv, Shapes, DiskOK
  <1>8. Sole(t) => Stored' = proc[t].want /\ Len(data'[disk'.file]) = 1
    <2> HAVE Sole(t)
    <2>1. data'[disk'.file] = <<proc[t].want>>
      BY <1>1, <1>4, <1>7 DEF SetInv, OnDisk, Written
    <2> QED BY <1>7, <2>1 DEF Stored, Parsed
  <1>9. Sole(t) /\ may # {} => proc[t].want \in may
    <2>1. CASE proc[t].alone
      BY <2>1 DEF SetInv, Promised, Wanted
    <2>2. CASE t = Main
      BY <1>1, <2>2 DEF SetInv, Promised, FilePromised, OnDisk, FirstSave, Saving, Stored
    <2> QED BY <2>1, <2>2 DEF Sole
  <1>10. proc' \in [Threads -> Thread]
    BY <1>1, <1>2, <1>1 DEF Rename, Go, Thread, Points
  <1>11. ProcOK'
    BY <1>10 DEF ProcOK
  <1>12. DiskOK'
    BY <1>1, <1>2, <1>3, <1>4, <1>5, <1>6, <1>7, <1>8, <1>9 DEF DiskOK, SetInv, Shapes
  <1>13. DataOK'
    BY <1>1, <1>2, <1>3, <1>4, <1>5, <1>6, <1>7, <1>8, <1>9 DEF DataOK, SetInv, Shapes
  <1>14. MemOK'
    BY <1>1, <1>2, <1>3, <1>4, <1>5, <1>6, <1>7, <1>8, <1>9 DEF MemOK, Thread, SetInv,
       Shapes
  <1>15. SlotOK'
    BY <1>1, <1>2, <1>3, <1>4, <1>5, <1>6, <1>7, <1>8, <1>9 DEF SlotOK, SetInv, Shapes
  <1>16. MayOK'
    BY <1>1, <1>2, <1>3, <1>4, <1>5, <1>6, <1>7, <1>8, <1>9 DEF MayOK, Thread, SetInv,
       Shapes
  <1>17. PhaseOK'
    BY <1>1, <1>2, <1>3, <1>4, <1>5, <1>6, <1>7, <1>8, <1>9 DEF PhaseOK, SetInv,
       Shapes
  <1>18. Opened'
    BY <1>1, <1>2, <1>3, <1>4, <1>5, <1>6, <1>7, <1>8, <1>9 DEF Opened, SetInv, Shapes
  <1>19. Locked'
    BY <1>1, <1>2, <1>3, <1>4, <1>5, <1>6, <1>7, <1>8, <1>9 DEF Locked, SetInv, Shapes
  <1>20. ClientsWait'
    BY <1>1, <1>2, <1>3, <1>4, <1>5, <1>6, <1>7, <1>8, <1>9 DEF ClientsWait, Sole,
       Setting, SetInv, Placed
  <1>21. MainRests'
    BY <1>1, <1>2, <1>3, <1>4, <1>5, <1>6, <1>7, <1>8, <1>9 DEF MainRests, Sole,
       Setting, SetInv, Placed
  <1>22. AllRest'
    BY <1>1, <1>2, <1>3, <1>4, <1>5, <1>6, <1>7, <1>8, <1>9 DEF AllRest, Sole,
       Setting, SetInv, Placed
  <1>23. OnlyOne'
    BY <1>1, <1>2, <1>3, <1>4, <1>5, <1>6, <1>7, <1>8, <1>9 DEF OnlyOne, Sole,
       Setting, SetInv, Alone
  <1>24. NoneMet'
    BY <1>1, <1>2, <1>3, <1>4, <1>5, <1>6, <1>7, <1>8, <1>9 DEF NoneMet, Sole,
       Setting, SetInv, Alone
  <1>25. Apart'
    BY <1>1, <1>2, <1>3, <1>4, <1>5, <1>6, <1>7, <1>8, <1>9 DEF Apart, Sole, Setting,
       SetInv, OnDisk
  <1>26. Truncated'
    BY <1>1, <1>2, <1>3, <1>4, <1>5, <1>6, <1>7, <1>8, <1>9 DEF Truncated, Sole,
       Setting, SetInv, OnDisk
  <1>27. Written'
    BY <1>1, <1>2, <1>3, <1>4, <1>5, <1>6, <1>7, <1>8, <1>9 DEF Written, Sole,
       Setting, SetInv, OnDisk
  <1>28. Saved'
    BY <1>1, <1>2, <1>3, <1>4, <1>5, <1>6, <1>7, <1>8, <1>9 DEF Saved, Sole, Setting,
       SetInv, OnDisk
  <1>29. Kept'
    BY <1>1, <1>2, <1>3, <1>4, <1>5, <1>6, <1>7, <1>8, <1>9 DEF Kept, Syncing, Sole,
       Setting, SetInv, OnDisk
  <1>30. Whole'
    BY <1>1, <1>2, <1>3, <1>4, <1>5, <1>6, <1>7, <1>8, <1>9 DEF Whole, Syncing, Sole,
       Setting, SetInv, OnDisk
  <1>31. FirstSave'
    BY <1>1, <1>2, <1>3, <1>4, <1>5, <1>6, <1>7, <1>8, <1>9 DEF FirstSave, Saving,
       Sole, Setting, SetInv, OnDisk
  <1>32. Taken'
    BY <1>1, <1>2, <1>3, <1>4, <1>5, <1>6, <1>7, <1>8, <1>9 DEF Taken, Syncing, Sole,
       Setting, SetInv, InMemory
  <1>33. Read'
    BY <1>1, <1>2, <1>3, <1>4, <1>5, <1>6, <1>7, <1>8, <1>9 DEF Read, Sole, Setting,
       SetInv, InMemory
  <1>34. On'
    BY <1>1, <1>2, <1>3, <1>4, <1>5, <1>6, <1>7, <1>8, <1>9 DEF On, Sole, Setting,
       SetInv, InMemory
  <1>35. Emptied'
    BY <1>1, <1>2, <1>3, <1>4, <1>5, <1>6, <1>7, <1>8, <1>9 DEF Emptied, Sole,
       Setting, SetInv, InMemory
  <1>36. Current'
    BY <1>1, <1>2, <1>3, <1>4, <1>5, <1>6, <1>7, <1>8, <1>9 DEF Current, Sole,
       Setting, SetInv, InMemory
  <1>37. Wanted'
    BY <1>1, <1>2, <1>3, <1>4, <1>5, <1>6, <1>7, <1>8, <1>9 DEF Wanted, Sole, Setting,
       SetInv, Promised
  <1>38. Nothing'
    BY <1>1, <1>2, <1>3, <1>4, <1>5, <1>6, <1>7, <1>8, <1>9 DEF Nothing, Saving, Sole,
       Setting, SetInv, Promised
  <1>39. Something'
    BY <1>1, <1>2, <1>3, <1>4, <1>5, <1>6, <1>7, <1>8, <1>9 DEF Something, Saving,
       Sole, Setting, SetInv, Promised
  <1>40. Still'
    BY <1>1, <1>2, <1>3, <1>4, <1>5, <1>6, <1>7, <1>8, <1>9 DEF Still, Saving,
       Running, Sole, Setting, SetInv, Promised
  <1>41. Settled'
    BY <1>1, <1>2, <1>3, <1>4, <1>5, <1>6, <1>7, <1>8, <1>9 DEF Settled, Quiet,
       Running, Sole, Setting, SetInv, Promised
  <1>42. FilePromised'
    BY <1>1, <1>2, <1>3, <1>4, <1>5, <1>6, <1>7, <1>8, <1>9 DEF FilePromised, Sole,
       Setting, SetInv, Promised
  <1> QED BY <1>11, <1>12, <1>13, <1>14, <1>15, <1>16, <1>17, <1>18, <1>19, <1>20,
     <1>21, <1>22, <1>23, <1>24, <1>25, <1>26, <1>27, <1>28, <1>29, <1>30, <1>31,
     <1>32, <1>33, <1>34, <1>35, <1>36, <1>37, <1>38, <1>39, <1>40, <1>41, <1>42 DEF
     SetInv, Shapes, Placed, Alone, OnDisk, InMemory, Promised

(* A save that fails leaves what was promised before; main goes on.        *)
LEMMA SaveFailsKeeps ==
    ASSUME SetInv, NEW t \in Threads, proc[t].at \in {"write", "rename"}, phase # "down", SaveFails(t)
    PROVE  SetInv'
  <1>1. t \in Threads /\ phase # "down" /\ proc[t].at \in {"write", "rename"}
    OBVIOUS
  <1>2. proc \in [Threads -> Thread] /\ proc[t] \in Thread
    BY <1>1 DEF SetInv, Shapes, ProcOK
  <1>3. /\ \A u \in Threads : u # t => proc'[u] = proc[u]
        /\ proc'[t].at = IF t = Main THEN "store" ELSE "idle"
        /\ proc'[t].want = IF t = Main THEN proc[t].want ELSE Default
        /\ proc'[t].fd = IF t = Main THEN None ELSE None
        /\ proc'[t].enabled = IF t = Main THEN proc[t].enabled ELSE FALSE
        /\ proc'[t].alone = IF t = Main THEN proc[t].alone ELSE FALSE
        /\ proc'[t].before = IF t = Main THEN proc[t].before ELSE {}
        /\ proc'[t].known = IF t = Main THEN proc[t].known ELSE Default
    <2>1. CASE t = Main
      <3>1. proc' = [proc EXCEPT ![t].at = "store", ![t].fd = None]
        BY <2>1 DEF SaveFails
      <3> QED BY <1>1, <1>2, <2>1, <3>1 DEF Thread
    <2>2. CASE t # Main
      <3>1. proc' = [proc EXCEPT ![t] = Idle]
        BY <2>2 DEF SaveFails, Rest
      <3> QED BY <1>1, <1>2, <2>2, <3>1 DEF Idle
    <2> QED BY <2>1, <2>2
  <1>4. UNCHANGED <<disk, data, mem, slot, slotLock, detail, phase>>
    BY DEF SaveFails
  <1>5. /\ \A u \in Threads : u # t => ~proc[u].alone /\ (u = Main => proc[u].at = "idle")
        /\ t # Main => phase # "starting" /\ t \in Clients
        /\ t = Main => phase = "starting" /\ ~proc[t].alone
        /\ Sole(t) => \A u \in Threads : u # t => proc[u].at \in {"idle", "editing"}
        /\ ~Sole(t) => may = {}
    BY <1>1, Company
  <1>6. Main \in Threads /\ Main \notin Clients /\ \A d \in Clients : d \in Threads
    BY DEF Threads
  <1>7. Stored' = Stored
    BY <1>4, StoredStays
  <1>8. may' = IF proc[t].alone THEN proc[t].before ELSE may
    BY DEF SaveFails
  <1>9. proc[t].alone /\ proc[t].before # {} =>
          /\ may # {} /\ Stored' \in may'
          /\ disk.file # None => Len(data[disk.file]) = 1
          /\ phase = "up" => mem \in may' /\ Stored' = mem /\ Running
    BY <1>1, <1>7, <1>8 DEF Saving, SetInv, Promised, Nothing, Something, Still, FilePromised
  <1>10. t = Main => Stored' = proc[t].want
    BY <1>1, <1>7 DEF Saving, SetInv, OnDisk, FirstSave, Stored
  <1>11. proc' \in [Threads -> Thread]
    <2>1. CASE t = Main
      <3>1. proc' = [proc EXCEPT ![t].at = "store", ![t].fd = None]
        BY <2>1 DEF SaveFails
      <3> QED BY <1>1, <1>2, <3>1 DEF Thread, Points
    <2>2. CASE t # Main
      <3>1. proc' = [proc EXCEPT ![t] = Idle]
        BY <2>2 DEF SaveFails, Rest
      <3> QED BY <1>1, <1>2, <3>1, IdleIs
    <2> QED BY <2>1, <2>2
  <1>12. ProcOK'
    BY <1>11 DEF ProcOK
  <1>13. DiskOK'
    BY <1>1, <1>2, <1>3, <1>4, <1>5, <1>6, <1>7, <1>8, <1>9, <1>10 DEF DiskOK, SetInv,
       Shapes
  <1>14. DataOK'
    BY <1>1, <1>2, <1>3, <1>4, <1>5, <1>6, <1>7, <1>8, <1>9, <1>10 DEF DataOK, SetInv,
       Shapes
  <1>15. MemOK'
    BY <1>1, <1>2, <1>3, <1>4, <1>5, <1>6, <1>7, <1>8, <1>9, <1>10 DEF MemOK, Thread,
       SetInv, Shapes
  <1>16. SlotOK'
    BY <1>1, <1>2, <1>3, <1>4, <1>5, <1>6, <1>7, <1>8, <1>9, <1>10 DEF SlotOK, SetInv,
       Shapes
  <1>17. MayOK'
    BY <1>1, <1>2, <1>3, <1>4, <1>5, <1>6, <1>7, <1>8, <1>9, <1>10 DEF MayOK, Thread,
       Thread, SetInv, Shapes
  <1>18. PhaseOK'
    BY <1>1, <1>2, <1>3, <1>4, <1>5, <1>6, <1>7, <1>8, <1>9, <1>10 DEF PhaseOK,
       SetInv, Shapes
  <1>19. Opened'
    BY <1>1, <1>2, <1>3, <1>4, <1>5, <1>6, <1>7, <1>8, <1>9, <1>10 DEF Opened, SetInv,
       Shapes
  <1>20. Locked'
    BY <1>1, <1>2, <1>3, <1>4, <1>5, <1>6, <1>7, <1>8, <1>9, <1>10 DEF Locked, SetInv,
       Shapes
  <1>21. ClientsWait'
    BY <1>1, <1>2, <1>3, <1>4, <1>5, <1>6, <1>7, <1>8, <1>9, <1>10 DEF ClientsWait,
       Sole, Setting, SetInv, Placed
  <1>22. MainRests'
    BY <1>1, <1>2, <1>3, <1>4, <1>5, <1>6, <1>7, <1>8, <1>9, <1>10 DEF MainRests,
       Sole, Setting, SetInv, Placed
  <1>23. AllRest'
    BY <1>1, <1>2, <1>3, <1>4, <1>5, <1>6, <1>7, <1>8, <1>9, <1>10 DEF AllRest, Sole,
       Setting, SetInv, Placed
  <1>24. OnlyOne'
    BY <1>1, <1>2, <1>3, <1>4, <1>5, <1>6, <1>7, <1>8, <1>9, <1>10 DEF OnlyOne, Sole,
       Setting, SetInv, Alone
  <1>25. NoneMet'
    BY <1>1, <1>2, <1>3, <1>4, <1>5, <1>6, <1>7, <1>8, <1>9, <1>10 DEF NoneMet, Sole,
       Setting, SetInv, Alone
  <1>26. Apart'
    BY <1>1, <1>2, <1>3, <1>4, <1>5, <1>6, <1>7, <1>8, <1>9, <1>10 DEF Apart, Sole,
       Setting, SetInv, OnDisk
  <1>27. Truncated'
    BY <1>1, <1>2, <1>3, <1>4, <1>5, <1>6, <1>7, <1>8, <1>9, <1>10 DEF Truncated,
       Sole, Setting, SetInv, OnDisk
  <1>28. Written'
    BY <1>1, <1>2, <1>3, <1>4, <1>5, <1>6, <1>7, <1>8, <1>9, <1>10 DEF Written, Sole,
       Setting, SetInv, OnDisk
  <1>29. Saved'
    BY <1>1, <1>2, <1>3, <1>4, <1>5, <1>6, <1>7, <1>8, <1>9, <1>10 DEF Saved, Sole,
       Setting, SetInv, OnDisk
  <1>30. Kept'
    BY <1>1, <1>2, <1>3, <1>4, <1>5, <1>6, <1>7, <1>8, <1>9, <1>10 DEF Kept, Syncing,
       Sole, Setting, SetInv, OnDisk
  <1>31. Whole'
    BY <1>1, <1>2, <1>3, <1>4, <1>5, <1>6, <1>7, <1>8, <1>9, <1>10 DEF Whole, Syncing,
       Sole, Setting, SetInv, OnDisk
  <1>32. FirstSave'
    BY <1>1, <1>2, <1>3, <1>4, <1>5, <1>6, <1>7, <1>8, <1>9, <1>10 DEF FirstSave,
       Saving, Sole, Setting, SetInv, OnDisk
  <1>33. Taken'
    BY <1>1, <1>2, <1>3, <1>4, <1>5, <1>6, <1>7, <1>8, <1>9, <1>10 DEF Taken, Syncing,
       Sole, Setting, SetInv, InMemory
  <1>34. Read'
    BY <1>1, <1>2, <1>3, <1>4, <1>5, <1>6, <1>7, <1>8, <1>9, <1>10 DEF Read, Sole,
       Setting, SetInv, InMemory
  <1>35. On'
    BY <1>1, <1>2, <1>3, <1>4, <1>5, <1>6, <1>7, <1>8, <1>9, <1>10 DEF On, Sole,
       Setting, SetInv, InMemory
  <1>36. Emptied'
    BY <1>1, <1>2, <1>3, <1>4, <1>5, <1>6, <1>7, <1>8, <1>9, <1>10 DEF Emptied, Sole,
       Setting, SetInv, InMemory
  <1>37. Current'
    BY <1>1, <1>2, <1>3, <1>4, <1>5, <1>6, <1>7, <1>8, <1>9, <1>10 DEF Current, Sole,
       Setting, SetInv, InMemory
  <1>38. Wanted'
    BY <1>1, <1>2, <1>3, <1>4, <1>5, <1>6, <1>7, <1>8, <1>9, <1>10 DEF Wanted, Sole,
       Setting, SetInv, Promised
  <1>39. Nothing'
    BY <1>1, <1>2, <1>3, <1>4, <1>5, <1>6, <1>7, <1>8, <1>9, <1>10 DEF Nothing,
       Saving, Sole, Setting, SetInv, Promised
  <1>40. Something'
    BY <1>1, <1>2, <1>3, <1>4, <1>5, <1>6, <1>7, <1>8, <1>9, <1>10 DEF Something,
       Saving, Sole, Setting, SetInv, Promised
  <1>41. Still'
    BY <1>1, <1>2, <1>3, <1>4, <1>5, <1>6, <1>7, <1>8, <1>9, <1>10 DEF Still, Saving,
       Running, Sole, Setting, SetInv, Promised
  <1>42. Settled'
    BY <1>1, <1>2, <1>3, <1>4, <1>5, <1>6, <1>7, <1>8, <1>9, <1>10 DEF Settled, Quiet,
       Running, Sole, Setting, SetInv, Promised
  <1>43. FilePromised'
    BY <1>1, <1>2, <1>3, <1>4, <1>5, <1>6, <1>7, <1>8, <1>9, <1>10 DEF FilePromised,
       Sole, Setting, SetInv, Promised
  <1> QED BY <1>12, <1>13, <1>14, <1>15, <1>16, <1>17, <1>18, <1>19, <1>20, <1>21,
     <1>22, <1>23, <1>24, <1>25, <1>26, <1>27, <1>28, <1>29, <1>30, <1>31, <1>32,
     <1>33, <1>34, <1>35, <1>36, <1>37, <1>38, <1>39, <1>40, <1>41, <1>42, <1>43 DEF
     SetInv, Shapes, Placed, Alone, OnDisk, InMemory, Promised

(* The two places where a save may fail.                                   *)
LEMMA FailedSavesKeep ==
    ASSUME SetInv, NEW t \in Threads, CannotWrite(t) \/ RenameNothing(t)
    PROVE  SetInv'
  BY SaveFailsKeeps DEF CannotWrite, RenameNothing, Runs

(* The file is loaded, or there is none and one is to be saved.            *)
LEMMA LoadKeeps ==
    ASSUME SetInv, NEW t \in Threads, t = Main, Load
    PROVE  SetInv'
  <1>1. t \in Threads /\ phase # "down" /\ proc[t].at = "load"
    BY DEF Load, Runs, Threads
  <1>2. proc \in [Threads -> Thread] /\ proc[t] \in Thread
    BY <1>1 DEF SetInv, Shapes, ProcOK
  <1>3. /\ \A u \in Threads : u # t => proc'[u] = proc[u]
        /\ proc'[t].at = IF disk.file = None THEN "open" ELSE "sync"
        /\ proc'[t].want = IF disk.file = None THEN Default ELSE proc[t].want
        /\ proc'[t].fd = proc[t].fd
        /\ proc'[t].enabled = proc[t].enabled
        /\ proc'[t].alone = proc[t].alone
        /\ proc'[t].before = proc[t].before
        /\ proc'[t].known = proc[t].known
    BY <1>1, <1>2 DEF Load, Go, Thread
  <1>4. UNCHANGED <<disk, data, slot, slotLock, detail, phase, may>>
    BY DEF Load
  <1>5. /\ \A u \in Threads : u # t => ~proc[u].alone /\ (u = Main => proc[u].at = "idle")
        /\ t # Main => phase # "starting" /\ t \in Clients
        /\ t = Main => phase = "starting" /\ ~proc[t].alone
        /\ Sole(t) => \A u \in Threads : u # t => proc[u].at \in {"idle", "editing"}
        /\ ~Sole(t) => may = {}
    BY <1>1, Company
  <1>6. Main \in Threads /\ Main \notin Clients /\ \A d \in Clients : d \in Threads
    BY DEF Threads
  <1>7. mem' = IF disk.file = None THEN mem ELSE Stored
    BY DEF Load
  <1>8. Stored' = Stored
    BY <1>4, StoredStays
  <1>9. Stored \in Clean
    BY StoredIsClean DEF SetInv, Shapes
  <1>10. proc' \in [Threads -> Thread]
    BY <1>1, <1>2, <1>3, IdleIs DEF Load, Go, Thread, Points
  <1>11. ProcOK'
    BY <1>10 DEF ProcOK
  <1>12. DiskOK'
    BY <1>1, <1>2, <1>3, <1>4, <1>5, <1>6, <1>7, <1>8, <1>9 DEF DiskOK, SetInv, Shapes
  <1>13. DataOK'
    BY <1>1, <1>2, <1>3, <1>4, <1>5, <1>6, <1>7, <1>8, <1>9 DEF DataOK, SetInv, Shapes
  <1>14. MemOK'
    BY <1>1, <1>2, <1>3, <1>4, <1>5, <1>6, <1>7, <1>8, <1>9 DEF MemOK, Thread, SetInv,
       Shapes
  <1>15. SlotOK'
    BY <1>1, <1>2, <1>3, <1>4, <1>5, <1>6, <1>7, <1>8, <1>9 DEF SlotOK, SetInv, Shapes
  <1>16. MayOK'
    BY <1>1, <1>2, <1>3, <1>4, <1>5, <1>6, <1>7, <1>8, <1>9 DEF MayOK, Thread, SetInv,
       Shapes
  <1>17. PhaseOK'
    BY <1>1, <1>2, <1>3, <1>4, <1>5, <1>6, <1>7, <1>8, <1>9 DEF PhaseOK, SetInv,
       Shapes
  <1>18. Opened'
    BY <1>1, <1>2, <1>3, <1>4, <1>5, <1>6, <1>7, <1>8, <1>9 DEF Opened, SetInv, Shapes
  <1>19. Locked'
    BY <1>1, <1>2, <1>3, <1>4, <1>5, <1>6, <1>7, <1>8, <1>9 DEF Locked, SetInv, Shapes
  <1>20. ClientsWait'
    BY <1>1, <1>2, <1>3, <1>4, <1>5, <1>6, <1>7, <1>8, <1>9 DEF ClientsWait, Sole,
       Setting, SetInv, Placed
  <1>21. MainRests'
    BY <1>1, <1>2, <1>3, <1>4, <1>5, <1>6, <1>7, <1>8, <1>9 DEF MainRests, Sole,
       Setting, SetInv, Placed
  <1>22. AllRest'
    BY <1>1, <1>2, <1>3, <1>4, <1>5, <1>6, <1>7, <1>8, <1>9 DEF AllRest, Sole,
       Setting, SetInv, Placed
  <1>23. OnlyOne'
    BY <1>1, <1>2, <1>3, <1>4, <1>5, <1>6, <1>7, <1>8, <1>9 DEF OnlyOne, Sole,
       Setting, SetInv, Alone
  <1>24. NoneMet'
    BY <1>1, <1>2, <1>3, <1>4, <1>5, <1>6, <1>7, <1>8, <1>9 DEF NoneMet, Sole,
       Setting, SetInv, Alone
  <1>25. Apart'
    BY <1>1, <1>2, <1>3, <1>4, <1>5, <1>6, <1>7, <1>8, <1>9 DEF Apart, Sole, Setting,
       SetInv, OnDisk
  <1>26. Truncated'
    BY <1>1, <1>2, <1>3, <1>4, <1>5, <1>6, <1>7, <1>8, <1>9 DEF Truncated, Sole,
       Setting, SetInv, OnDisk
  <1>27. Written'
    BY <1>1, <1>2, <1>3, <1>4, <1>5, <1>6, <1>7, <1>8, <1>9 DEF Written, Sole,
       Setting, SetInv, OnDisk
  <1>28. Saved'
    BY <1>1, <1>2, <1>3, <1>4, <1>5, <1>6, <1>7, <1>8, <1>9 DEF Saved, Sole, Setting,
       SetInv, OnDisk
  <1>29. Kept'
    BY <1>1, <1>2, <1>3, <1>4, <1>5, <1>6, <1>7, <1>8, <1>9 DEF Kept, Syncing, Sole,
       Setting, SetInv, OnDisk
  <1>30. Whole'
    BY <1>1, <1>2, <1>3, <1>4, <1>5, <1>6, <1>7, <1>8, <1>9 DEF Whole, Syncing, Sole,
       Setting, SetInv, OnDisk
  <1>31. FirstSave'
    BY <1>1, <1>2, <1>3, <1>4, <1>5, <1>6, <1>7, <1>8, <1>9 DEF FirstSave, Saving,
       Sole, Setting, SetInv, OnDisk
  <1>32. Taken'
    BY <1>1, <1>2, <1>3, <1>4, <1>5, <1>6, <1>7, <1>8, <1>9 DEF Taken, Syncing, Sole,
       Setting, SetInv, InMemory
  <1>33. Read'
    BY <1>1, <1>2, <1>3, <1>4, <1>5, <1>6, <1>7, <1>8, <1>9 DEF Read, Sole, Setting,
       SetInv, InMemory
  <1>34. On'
    BY <1>1, <1>2, <1>3, <1>4, <1>5, <1>6, <1>7, <1>8, <1>9 DEF On, Sole, Setting,
       SetInv, InMemory
  <1>35. Emptied'
    BY <1>1, <1>2, <1>3, <1>4, <1>5, <1>6, <1>7, <1>8, <1>9 DEF Emptied, Sole,
       Setting, SetInv, InMemory
  <1>36. Current'
    BY <1>1, <1>2, <1>3, <1>4, <1>5, <1>6, <1>7, <1>8, <1>9 DEF Current, Sole,
       Setting, SetInv, InMemory
  <1>37. Wanted'
    BY <1>1, <1>2, <1>3, <1>4, <1>5, <1>6, <1>7, <1>8, <1>9 DEF Wanted, Sole, Setting,
       SetInv, Promised
  <1>38. Nothing'
    BY <1>1, <1>2, <1>3, <1>4, <1>5, <1>6, <1>7, <1>8, <1>9 DEF Nothing, Saving, Sole,
       Setting, SetInv, Promised
  <1>39. Something'
    BY <1>1, <1>2, <1>3, <1>4, <1>5, <1>6, <1>7, <1>8, <1>9 DEF Something, Saving,
       Sole, Setting, SetInv, Promised
  <1>40. Still'
    BY <1>1, <1>2, <1>3, <1>4, <1>5, <1>6, <1>7, <1>8, <1>9 DEF Still, Saving,
       Running, Sole, Setting, SetInv, Promised
  <1>41. Settled'
    BY <1>1, <1>2, <1>3, <1>4, <1>5, <1>6, <1>7, <1>8, <1>9 DEF Settled, Quiet,
       Running, Sole, Setting, SetInv, Promised
  <1>42. FilePromised'
    BY <1>1, <1>2, <1>3, <1>4, <1>5, <1>6, <1>7, <1>8, <1>9 DEF FilePromised, Sole,
       Setting, SetInv, Promised
  <1> QED BY <1>11, <1>12, <1>13, <1>14, <1>15, <1>16, <1>17, <1>18, <1>19, <1>20,
     <1>21, <1>22, <1>23, <1>24, <1>25, <1>26, <1>27, <1>28, <1>29, <1>30, <1>31,
     <1>32, <1>33, <1>34, <1>35, <1>36, <1>37, <1>38, <1>39, <1>40, <1>41, <1>42 DEF
     SetInv, Shapes, Placed, Alone, OnDisk, InMemory, Promised

(* A client reads the document.                                            *)
LEMMA SettingsGetKeeps ==
    ASSUME SetInv, NEW c \in Clients, SettingsGet(c)
    PROVE  SetInv'
  <1>1. c \in Threads /\ phase # "down" /\ proc[c].at = "idle"
    BY DEF SettingsGet, Runs, Threads
  <1>2. proc \in [Threads -> Thread] /\ proc[c] \in Thread
    BY <1>1 DEF SetInv, Shapes, ProcOK
  <1>3. /\ \A u \in Threads : u # c => proc'[u] = proc[u]
        /\ proc'[c].at = "editing"
        /\ proc'[c].want = proc[c].want
        /\ proc'[c].fd = proc[c].fd
        /\ proc'[c].enabled = proc[c].enabled
        /\ proc'[c].alone = proc[c].alone
        /\ proc'[c].before = proc[c].before
        /\ proc'[c].known = mem
    BY <1>1, <1>2 DEF SettingsGet, Go, Thread
  <1>4. UNCHANGED <<disk, data, mem, slot, slotLock, detail, phase, may>>
    BY DEF SettingsGet
  <1>5. /\ c \in Clients /\ c # Main /\ phase # "starting"
        /\ ~proc[c].alone /\ ~proc'[c].alone /\ ~Setting(c) /\ ~Setting(c)'
    BY <1>1, <1>3 DEF SettingsGet, SetInv, Alone, OnlyOne, Placed, ClientsWait, Setting
  <1>6. Main \in Threads /\ Main \notin Clients /\ \A d \in Clients : d \in Threads
    BY DEF Threads
  <1>7. Stored' = Stored
    BY <1>4, StoredStays
  <1>8. proc' \in [Threads -> Thread]
    BY <1>1, <1>2, <1>3, SetInv DEF SettingsGet, Go, Thread, Points, SetInv, Shapes,
       MemOK
  <1>9. ProcOK'
    BY <1>8 DEF ProcOK
  <1>10. DiskOK'
    BY <1>1, <1>2, <1>3, <1>4, <1>5, <1>6, <1>7 DEF DiskOK, SetInv, Shapes
  <1>11. DataOK'
    BY <1>1, <1>2, <1>3, <1>4, <1>5, <1>6, <1>7 DEF DataOK, SetInv, Shapes
  <1>12. MemOK'
    BY <1>1, <1>2, <1>3, <1>4, <1>5, <1>6, <1>7 DEF MemOK, Thread, SetInv, Shapes
  <1>13. SlotOK'
    BY <1>1, <1>2, <1>3, <1>4, <1>5, <1>6, <1>7 DEF SlotOK, SetInv, Shapes
  <1>14. MayOK'
    BY <1>1, <1>2, <1>3, <1>4, <1>5, <1>6, <1>7 DEF MayOK, Thread, SetInv, Shapes
  <1>15. PhaseOK'
    BY <1>1, <1>2, <1>3, <1>4, <1>5, <1>6, <1>7 DEF PhaseOK, SetInv, Shapes
  <1>16. Opened'
    BY <1>1, <1>2, <1>3, <1>4, <1>5, <1>6, <1>7 DEF Opened, SetInv, Shapes
  <1>17. Locked'
    BY <1>1, <1>2, <1>3, <1>4, <1>5, <1>6, <1>7 DEF Locked, SetInv, Shapes
  <1>18. ClientsWait'
    BY <1>1, <1>2, <1>3, <1>4, <1>5, <1>6, <1>7 DEF ClientsWait, Sole, Setting,
       SetInv, Placed
  <1>19. MainRests'
    BY <1>1, <1>2, <1>3, <1>4, <1>5, <1>6, <1>7 DEF MainRests, Sole, Setting, SetInv,
       Placed
  <1>20. AllRest'
    BY <1>1, <1>2, <1>3, <1>4, <1>5, <1>6, <1>7 DEF AllRest, Sole, Setting, SetInv,
       Placed
  <1>21. OnlyOne'
    BY <1>1, <1>2, <1>3, <1>4, <1>5, <1>6, <1>7 DEF OnlyOne, Sole, Setting, SetInv,
       Alone
  <1>22. NoneMet'
    BY <1>1, <1>2, <1>3, <1>4, <1>5, <1>6, <1>7 DEF NoneMet, Sole, Setting, SetInv,
       Alone
  <1>23. Apart'
    BY <1>1, <1>2, <1>3, <1>4, <1>5, <1>6, <1>7 DEF Apart, Sole, Setting, SetInv,
       OnDisk
  <1>24. Truncated'
    BY <1>1, <1>2, <1>3, <1>4, <1>5, <1>6, <1>7 DEF Truncated, Sole, Setting, SetInv,
       OnDisk
  <1>25. Written'
    BY <1>1, <1>2, <1>3, <1>4, <1>5, <1>6, <1>7 DEF Written, Sole, Setting, SetInv,
       OnDisk
  <1>26. Saved'
    BY <1>1, <1>2, <1>3, <1>4, <1>5, <1>6, <1>7 DEF Saved, Sole, Setting, SetInv,
       OnDisk
  <1>27. Kept'
    BY <1>1, <1>2, <1>3, <1>4, <1>5, <1>6, <1>7 DEF Kept, Syncing, Sole, Setting,
       SetInv, OnDisk
  <1>28. Whole'
    BY <1>1, <1>2, <1>3, <1>4, <1>5, <1>6, <1>7 DEF Whole, Syncing, Sole, Setting,
       SetInv, OnDisk
  <1>29. FirstSave'
    BY <1>1, <1>2, <1>3, <1>4, <1>5, <1>6, <1>7 DEF FirstSave, Saving, Sole, Setting,
       SetInv, OnDisk
  <1>30. Taken'
    BY <1>1, <1>2, <1>3, <1>4, <1>5, <1>6, <1>7 DEF Taken, Syncing, Sole, Setting,
       SetInv, InMemory
  <1>31. Read'
    BY <1>1, <1>2, <1>3, <1>4, <1>5, <1>6, <1>7 DEF Read, Sole, Setting, SetInv,
       InMemory
  <1>32. On'
    BY <1>1, <1>2, <1>3, <1>4, <1>5, <1>6, <1>7 DEF On, Sole, Setting, SetInv,
       InMemory
  <1>33. Emptied'
    BY <1>1, <1>2, <1>3, <1>4, <1>5, <1>6, <1>7 DEF Emptied, Sole, Setting, SetInv,
       InMemory
  <1>34. Current'
    BY <1>1, <1>2, <1>3, <1>4, <1>5, <1>6, <1>7 DEF Current, Sole, Setting, SetInv,
       InMemory
  <1>35. Wanted'
    BY <1>1, <1>2, <1>3, <1>4, <1>5, <1>6, <1>7 DEF Wanted, Sole, Setting, SetInv,
       Promised
  <1>36. Nothing'
    BY <1>1, <1>2, <1>3, <1>4, <1>5, <1>6, <1>7 DEF Nothing, Saving, Sole, Setting,
       SetInv, Promised
  <1>37. Something'
    BY <1>1, <1>2, <1>3, <1>4, <1>5, <1>6, <1>7 DEF Something, Saving, Sole, Setting,
       SetInv, Promised
  <1>38. Still'
    BY <1>1, <1>2, <1>3, <1>4, <1>5, <1>6, <1>7 DEF Still, Saving, Running, Sole,
       Setting, SetInv, Promised
  <1>39. Settled'
    BY <1>1, <1>2, <1>3, <1>4, <1>5, <1>6, <1>7 DEF Settled, Quiet, Running, Sole,
       Setting, SetInv, Promised
  <1>40. FilePromised'
    BY <1>1, <1>2, <1>3, <1>4, <1>5, <1>6, <1>7 DEF FilePromised, Sole, Setting,
       SetInv, Promised
  <1> QED BY <1>9, <1>10, <1>11, <1>12, <1>13, <1>14, <1>15, <1>16, <1>17, <1>18,
     <1>19, <1>20, <1>21, <1>22, <1>23, <1>24, <1>25, <1>26, <1>27, <1>28, <1>29,
     <1>30, <1>31, <1>32, <1>33, <1>34, <1>35, <1>36, <1>37, <1>38, <1>39, <1>40 DEF
     SetInv, Shapes, Placed, Alone, OnDisk, InMemory, Promised

(* A client changes its mind, or what it sets is refused.                  *)
LEMMA RestsKeep ==
    ASSUME SetInv, NEW c \in Clients, Runs(c, "editing"), Rest(c),
           UNCHANGED <<disk, data, mem, slot, slotLock, detail, phase, may>>
    PROVE  SetInv'
  <1>1. c \in Threads /\ phase # "down" /\ proc[c].at = "editing"
    BY DEF Runs, Threads, Rest, Idle
  <1>2. proc \in [Threads -> Thread] /\ proc[c] \in Thread
    BY <1>1 DEF SetInv, Shapes, ProcOK
  <1>3. /\ \A u \in Threads : u # c => proc'[u] = proc[u]
        /\ proc'[c].at = "idle"
        /\ proc'[c].want = Default
        /\ proc'[c].fd = None
        /\ proc'[c].enabled = FALSE
        /\ proc'[c].alone = FALSE
        /\ proc'[c].before = {}
        /\ proc'[c].known = Default
    BY <1>1, <1>2 DEF Go, Thread, Rest, Idle
  <1>4. UNCHANGED <<disk, data, mem, slot, slotLock, detail, phase, may>>
    OBVIOUS
  <1>5. /\ c \in Clients /\ c # Main /\ phase # "starting"
        /\ ~proc[c].alone /\ ~proc'[c].alone /\ ~Setting(c) /\ ~Setting(c)'
    BY <1>1, <1>3 DEF SetInv, Alone, OnlyOne, Placed, ClientsWait, Setting
  <1>6. Main \in Threads /\ Main \notin Clients /\ \A d \in Clients : d \in Threads
    BY DEF Threads
  <1>7. Stored' = Stored
    BY <1>4, StoredStays
  <1>8. proc' \in [Threads -> Thread]
    BY <1>1, <1>2, IdleIs DEF Go, Thread, Points, Rest, Idle
  <1>9. ProcOK'
    BY <1>8 DEF ProcOK
  <1>10. DiskOK'
    BY <1>1, <1>2, <1>3, <1>4, <1>5, <1>6, <1>7 DEF DiskOK, SetInv, Shapes
  <1>11. DataOK'
    BY <1>1, <1>2, <1>3, <1>4, <1>5, <1>6, <1>7 DEF DataOK, SetInv, Shapes
  <1>12. MemOK'
    BY <1>1, <1>2, <1>3, <1>4, <1>5, <1>6, <1>7 DEF MemOK, Thread, SetInv, Shapes
  <1>13. SlotOK'
    BY <1>1, <1>2, <1>3, <1>4, <1>5, <1>6, <1>7 DEF SlotOK, SetInv, Shapes
  <1>14. MayOK'
    BY <1>1, <1>2, <1>3, <1>4, <1>5, <1>6, <1>7 DEF MayOK, Thread, SetInv, Shapes
  <1>15. PhaseOK'
    BY <1>1, <1>2, <1>3, <1>4, <1>5, <1>6, <1>7 DEF PhaseOK, SetInv, Shapes
  <1>16. Opened'
    BY <1>1, <1>2, <1>3, <1>4, <1>5, <1>6, <1>7 DEF Opened, SetInv, Shapes
  <1>17. Locked'
    BY <1>1, <1>2, <1>3, <1>4, <1>5, <1>6, <1>7 DEF Locked, SetInv, Shapes
  <1>18. ClientsWait'
    BY <1>1, <1>2, <1>3, <1>4, <1>5, <1>6, <1>7 DEF ClientsWait, Sole, Setting,
       SetInv, Placed
  <1>19. MainRests'
    BY <1>1, <1>2, <1>3, <1>4, <1>5, <1>6, <1>7 DEF MainRests, Sole, Setting, SetInv,
       Placed
  <1>20. AllRest'
    BY <1>1, <1>2, <1>3, <1>4, <1>5, <1>6, <1>7 DEF AllRest, Sole, Setting, SetInv,
       Placed
  <1>21. OnlyOne'
    BY <1>1, <1>2, <1>3, <1>4, <1>5, <1>6, <1>7 DEF OnlyOne, Sole, Setting, SetInv,
       Alone
  <1>22. NoneMet'
    BY <1>1, <1>2, <1>3, <1>4, <1>5, <1>6, <1>7 DEF NoneMet, Sole, Setting, SetInv,
       Alone
  <1>23. Apart'
    BY <1>1, <1>2, <1>3, <1>4, <1>5, <1>6, <1>7 DEF Apart, Sole, Setting, SetInv,
       OnDisk
  <1>24. Truncated'
    BY <1>1, <1>2, <1>3, <1>4, <1>5, <1>6, <1>7 DEF Truncated, Sole, Setting, SetInv,
       OnDisk
  <1>25. Written'
    BY <1>1, <1>2, <1>3, <1>4, <1>5, <1>6, <1>7 DEF Written, Sole, Setting, SetInv,
       OnDisk
  <1>26. Saved'
    BY <1>1, <1>2, <1>3, <1>4, <1>5, <1>6, <1>7 DEF Saved, Sole, Setting, SetInv,
       OnDisk
  <1>27. Kept'
    BY <1>1, <1>2, <1>3, <1>4, <1>5, <1>6, <1>7 DEF Kept, Syncing, Sole, Setting,
       SetInv, OnDisk
  <1>28. Whole'
    BY <1>1, <1>2, <1>3, <1>4, <1>5, <1>6, <1>7 DEF Whole, Syncing, Sole, Setting,
       SetInv, OnDisk
  <1>29. FirstSave'
    BY <1>1, <1>2, <1>3, <1>4, <1>5, <1>6, <1>7 DEF FirstSave, Saving, Sole, Setting,
       SetInv, OnDisk
  <1>30. Taken'
    BY <1>1, <1>2, <1>3, <1>4, <1>5, <1>6, <1>7 DEF Taken, Syncing, Sole, Setting,
       SetInv, InMemory
  <1>31. Read'
    BY <1>1, <1>2, <1>3, <1>4, <1>5, <1>6, <1>7 DEF Read, Sole, Setting, SetInv,
       InMemory
  <1>32. On'
    BY <1>1, <1>2, <1>3, <1>4, <1>5, <1>6, <1>7 DEF On, Sole, Setting, SetInv,
       InMemory
  <1>33. Emptied'
    BY <1>1, <1>2, <1>3, <1>4, <1>5, <1>6, <1>7 DEF Emptied, Sole, Setting, SetInv,
       InMemory
  <1>34. Current'
    BY <1>1, <1>2, <1>3, <1>4, <1>5, <1>6, <1>7 DEF Current, Sole, Setting, SetInv,
       InMemory
  <1>35. Wanted'
    BY <1>1, <1>2, <1>3, <1>4, <1>5, <1>6, <1>7 DEF Wanted, Sole, Setting, SetInv,
       Promised
  <1>36. Nothing'
    BY <1>1, <1>2, <1>3, <1>4, <1>5, <1>6, <1>7 DEF Nothing, Saving, Sole, Setting,
       SetInv, Promised
  <1>37. Something'
    BY <1>1, <1>2, <1>3, <1>4, <1>5, <1>6, <1>7 DEF Something, Saving, Sole, Setting,
       SetInv, Promised
  <1>38. Still'
    BY <1>1, <1>2, <1>3, <1>4, <1>5, <1>6, <1>7 DEF Still, Saving, Running, Sole,
       Setting, SetInv, Promised
  <1>39. Settled'
    BY <1>1, <1>2, <1>3, <1>4, <1>5, <1>6, <1>7 DEF Settled, Quiet, Running, Sole,
       Setting, SetInv, Promised
  <1>40. FilePromised'
    BY <1>1, <1>2, <1>3, <1>4, <1>5, <1>6, <1>7 DEF FilePromised, Sole, Setting,
       SetInv, Promised
  <1> QED BY <1>9, <1>10, <1>11, <1>12, <1>13, <1>14, <1>15, <1>16, <1>17, <1>18,
     <1>19, <1>20, <1>21, <1>22, <1>23, <1>24, <1>25, <1>26, <1>27, <1>28, <1>29,
     <1>30, <1>31, <1>32, <1>33, <1>34, <1>35, <1>36, <1>37, <1>38, <1>39, <1>40 DEF
     SetInv, Shapes, Placed, Alone, OnDisk, InMemory, Promised

(* A set that meets no other one may come into force; one that meets       *)
(* another ends what was promised.                                         *)
LEMMA BegunKeeps ==
    ASSUME SetInv, NEW c \in Clients, NEW w \in Clean, Runs(c, "editing"), Begun(c, w),
           UNCHANGED <<disk, data, mem, slot, slotLock, detail, phase>>
    PROVE  SetInv'
  <1> DEFINE others == {t \in Clients \ {c} : Setting(t)}
             new == [Idle EXCEPT !.at = "open", !.want = w, !.alone = others = {},
                                 !.before = IF others = {} THEN may ELSE {}]
  <1>1. /\ c \in Threads /\ c # Main /\ proc[c].at = "editing"
        /\ phase # "down" /\ phase # "starting" /\ proc[Main].at = "idle"
        /\ Main \in Threads /\ Main \notin Clients
        /\ \A u \in Threads : u = Main \/ u \in Clients
        /\ \A d \in Clients : d \in Threads
    BY DEF Runs, Threads, SetInv, Placed, ClientsWait, MainRests
  <1>2. proc \in [Threads -> Thread] /\ may \in SUBSET Clean
    BY DEF SetInv, Shapes, ProcOK, MayOK
  <1>3. \A u \in Threads : u # c =>
          /\ proc'[u] \in Thread /\ proc'[u].at = proc[u].at /\ proc'[u].want = proc[u].want
          /\ proc'[u].fd = proc[u].fd /\ proc'[u].enabled = proc[u].enabled
          /\ ~proc'[u].alone
    <2> TAKE u \in Threads
    <2> HAVE u # c
    <2>1. CASE u \in others
      <3>1. proc'[u] = [proc[u] EXCEPT !.alone = FALSE, !.before = {}]
        BY <2>1 DEF Begun
      <3>2. proc[u] \in Thread
        BY <1>2
      <3> QED BY <3>1, <3>2 DEF Thread
    <2>2. CASE u \notin others
      <3>1. proc'[u] = proc[u]
        BY <2>2 DEF Begun
      <3>2. ~Setting(u) \/ u = Main
        BY <1>1, <2>2
      <3>3. ~proc[u].alone
        BY <1>1, <3>2 DEF SetInv, Alone, OnlyOne
      <3> QED BY <1>2, <3>1, <3>3
    <2> QED BY <2>1, <2>2
  <1>4. /\ proc'[c] \in Thread /\ proc'[c].at = "open" /\ proc'[c].want = w /\ proc'[c].fd = None
        /\ proc'[c].alone = (others = {})
        /\ proc'[c].before = IF others = {} THEN may ELSE {}
    <2>1. proc'[c] = new
      BY <1>1 DEF Begun
    <2> HIDE DEF others
    <2>2. (others = {}) \in BOOLEAN /\ (IF others = {} THEN may ELSE {}) \in SUBSET Clean
      BY <1>2
    <2> QED BY <2>1, <2>2, IdleIs DEF Thread, Points, Idle
  <1>5. proc' \in [Threads -> Thread]
    <2>1. proc' = [t \in Threads |-> proc'[t]]
      BY DEF Begun
    <2>2. \A t \in Threads : proc'[t] \in Thread
      BY <1>3, <1>4
    <2> QED BY <2>1, <2>2
  <1>6. may' = IF others = {} /\ may # {} THEN may \cup {w} ELSE {}
    BY DEF Begun
  <1>7. others = {} => \A u \in Threads : u # c => ~Setting(u) /\ ~Setting(u)'
    BY <1>1, <1>3 DEF Setting
  <1>8. Stored' = Stored
    BY StoredStays
  <1>9. others = {} /\ may # {} =>
          /\ Stored \in may /\ (disk.file # None => Len(data[disk.file]) = 1)
          /\ phase = "up" => mem \in may /\ Stored = mem /\ Running
    <2> HAVE others = {} /\ may # {}
    <2>1. phase = "up" => Quiet
      BY <1>1, <1>7 DEF Quiet, Setting
    <2> QED BY <2>1 DEF SetInv, Promised, FilePromised, Settled
  <1> HIDE DEF others, new
  <1>10. ProcOK'
    BY <1>1, <1>2, <1>3, <1>4, <1>5, <1>6, <1>7, <1>8, <1>9 DEF ProcOK, Sole, Setting,
       SetInv, Shapes
  <1>11. DiskOK'
    BY <1>1, <1>2, <1>3, <1>4, <1>5, <1>6, <1>7, <1>8, <1>9 DEF DiskOK, Sole, Setting,
       SetInv, Shapes
  <1>12. DataOK'
    BY <1>1, <1>2, <1>3, <1>4, <1>5, <1>6, <1>7, <1>8, <1>9 DEF DataOK, Sole, Setting,
       SetInv, Shapes
  <1>13. MemOK'
    BY <1>1, <1>2, <1>3, <1>4, <1>5, <1>6, <1>7, <1>8, <1>9 DEF MemOK, Thread, Sole,
       Setting, SetInv, Shapes
  <1>14. SlotOK'
    BY <1>1, <1>2, <1>3, <1>4, <1>5, <1>6, <1>7, <1>8, <1>9 DEF SlotOK, Sole, Setting,
       SetInv, Shapes
  <1>15. MayOK'
    BY <1>1, <1>2, <1>3, <1>4, <1>5, <1>6, <1>7, <1>8, <1>9 DEF MayOK, Thread, Sole,
       Setting, SetInv, Shapes
  <1>16. PhaseOK'
    BY <1>1, <1>2, <1>3, <1>4, <1>5, <1>6, <1>7, <1>8, <1>9 DEF PhaseOK, Sole,
       Setting, SetInv, Shapes
  <1>17. Opened'
    BY <1>1, <1>2, <1>3, <1>4, <1>5, <1>6, <1>7, <1>8, <1>9 DEF Opened, Sole, Setting,
       SetInv, Shapes
  <1>18. Locked'
    BY <1>1, <1>2, <1>3, <1>4, <1>5, <1>6, <1>7, <1>8, <1>9 DEF Locked, Sole, Setting,
       SetInv, Shapes
  <1>19. ClientsWait'
    BY <1>1, <1>2, <1>3, <1>4, <1>5, <1>6, <1>7, <1>8, <1>9 DEF ClientsWait, Sole,
       Setting, SetInv, Placed
  <1>20. MainRests'
    BY <1>1, <1>2, <1>3, <1>4, <1>5, <1>6, <1>7, <1>8, <1>9 DEF MainRests, Sole,
       Setting, SetInv, Placed
  <1>21. AllRest'
    BY <1>1, <1>2, <1>3, <1>4, <1>5, <1>6, <1>7, <1>8, <1>9 DEF AllRest, Sole,
       Setting, SetInv, Placed
  <1>22. OnlyOne'
    BY <1>1, <1>2, <1>3, <1>4, <1>5, <1>6, <1>7, <1>8, <1>9 DEF OnlyOne, Sole,
       Setting, SetInv, Alone
  <1>23. NoneMet'
    BY <1>1, <1>2, <1>3, <1>4, <1>5, <1>6, <1>7, <1>8, <1>9 DEF NoneMet, Sole,
       Setting, SetInv, Alone
  <1>24. Apart'
    BY <1>1, <1>2, <1>3, <1>4, <1>5, <1>6, <1>7, <1>8, <1>9 DEF Apart, Sole, Setting,
       SetInv, OnDisk
  <1>25. Truncated'
    BY <1>1, <1>2, <1>3, <1>4, <1>5, <1>6, <1>7, <1>8, <1>9 DEF Truncated, Sole,
       Setting, SetInv, OnDisk
  <1>26. Written'
    BY <1>1, <1>2, <1>3, <1>4, <1>5, <1>6, <1>7, <1>8, <1>9 DEF Written, Sole,
       Setting, SetInv, OnDisk
  <1>27. Saved'
    BY <1>1, <1>2, <1>3, <1>4, <1>5, <1>6, <1>7, <1>8, <1>9 DEF Saved, Sole, Setting,
       SetInv, OnDisk
  <1>28. Kept'
    BY <1>1, <1>2, <1>3, <1>4, <1>5, <1>6, <1>7, <1>8, <1>9 DEF Kept, Syncing, Sole,
       Setting, SetInv, OnDisk
  <1>29. Whole'
    BY <1>1, <1>2, <1>3, <1>4, <1>5, <1>6, <1>7, <1>8, <1>9 DEF Whole, Syncing, Sole,
       Setting, SetInv, OnDisk
  <1>30. FirstSave'
    BY <1>1, <1>2, <1>3, <1>4, <1>5, <1>6, <1>7, <1>8, <1>9 DEF FirstSave, Saving,
       Sole, Setting, SetInv, OnDisk
  <1>31. Taken'
    BY <1>1, <1>2, <1>3, <1>4, <1>5, <1>6, <1>7, <1>8, <1>9 DEF Taken, Syncing, Sole,
       Setting, SetInv, InMemory
  <1>32. Read'
    BY <1>1, <1>2, <1>3, <1>4, <1>5, <1>6, <1>7, <1>8, <1>9 DEF Read, Sole, Setting,
       SetInv, InMemory
  <1>33. On'
    BY <1>1, <1>2, <1>3, <1>4, <1>5, <1>6, <1>7, <1>8, <1>9 DEF On, Sole, Setting,
       SetInv, InMemory
  <1>34. Emptied'
    BY <1>1, <1>2, <1>3, <1>4, <1>5, <1>6, <1>7, <1>8, <1>9 DEF Emptied, Sole,
       Setting, SetInv, InMemory
  <1>35. Current'
    BY <1>1, <1>2, <1>3, <1>4, <1>5, <1>6, <1>7, <1>8, <1>9 DEF Current, Sole,
       Setting, SetInv, InMemory
  <1>36. Wanted'
    BY <1>1, <1>2, <1>3, <1>4, <1>5, <1>6, <1>7, <1>8, <1>9 DEF Wanted, Sole, Setting,
       SetInv, Promised
  <1>37. Nothing'
    BY <1>1, <1>2, <1>3, <1>4, <1>5, <1>6, <1>7, <1>8, <1>9 DEF Nothing, Saving, Sole,
       Setting, SetInv, Promised
  <1>38. Something'
    BY <1>1, <1>2, <1>3, <1>4, <1>5, <1>6, <1>7, <1>8, <1>9 DEF Something, Saving,
       Sole, Setting, SetInv, Promised
  <1>39. Still'
    BY <1>1, <1>2, <1>3, <1>4, <1>5, <1>6, <1>7, <1>8, <1>9 DEF Still, Saving,
       Running, Sole, Setting, SetInv, Promised
  <1>40. Settled'
    BY <1>1, <1>2, <1>3, <1>4, <1>5, <1>6, <1>7, <1>8, <1>9 DEF Settled, Quiet,
       Running, Sole, Setting, SetInv, Promised
  <1>41. FilePromised'
    BY <1>1, <1>2, <1>3, <1>4, <1>5, <1>6, <1>7, <1>8, <1>9 DEF FilePromised, Sole,
       Setting, SetInv, Promised
  <1> QED BY <1>10, <1>11, <1>12, <1>13, <1>14, <1>15, <1>16, <1>17, <1>18, <1>19,
     <1>20, <1>21, <1>22, <1>23, <1>24, <1>25, <1>26, <1>27, <1>28, <1>29, <1>30,
     <1>31, <1>32, <1>33, <1>34, <1>35, <1>36, <1>37, <1>38, <1>39, <1>40, <1>41 DEF
     SetInv, Shapes, Placed, Alone, OnDisk, InMemory, Promised

(* A set: the document is refused, or accepted and clean.                  *)
LEMMA SettingsSetKeeps ==
    ASSUME SetInv, NEW c \in Clients, SettingsSet(c)
    PROVE  SetInv'
  <1>1. c \in Threads /\ proc[c].known \in Documents
    BY DEF Threads, SetInv, Shapes, ProcOK, Thread, Clean
  <1>2. PICK s \in Edits(proc[c].known) :
           \/ ~Refused(s.paths) /\ Begun(c, [s EXCEPT !.paths = Normal(@)])
           \/ Rest(c) /\ UNCHANGED may
    BY DEF SettingsSet
  <1>3. CASE ~Refused(s.paths) /\ Begun(c, [s EXCEPT !.paths = Normal(@)])
    <2>1. [s EXCEPT !.paths = Normal(@)] \in Clean
      BY <1>1, <1>3, EditsAreDocuments, AcceptedIsClean
    <2> QED BY <1>3, <2>1, BegunKeeps DEF SettingsSet
  <1>4. CASE Rest(c) /\ UNCHANGED may
    BY <1>4, RestsKeep DEF SettingsSet
  <1> QED BY <1>2, <1>3, <1>4

(* SIGTERM takes the watcher out of the slot.                              *)
LEMMA SigtermKeeps ==
    ASSUME SetInv, Sigterm
    PROVE  SetInv'
  <1>1. phase = "up" /\ slotLock = None /\ slot' = None /\ phase' = "stopping"
    BY DEF Sigterm
  <1>2. UNCHANGED <<disk, data, mem, slotLock, detail, proc, may>>
    BY DEF Sigterm
  <1>3. Stored' = Stored
    BY <1>2, StoredStays
  <1>4. ProcOK'
    BY <1>1, <1>2, <1>3 DEF ProcOK, Sole, Setting, SetInv, Shapes
  <1>5. DiskOK'
    BY <1>1, <1>2, <1>3 DEF DiskOK, Sole, Setting, SetInv, Shapes
  <1>6. DataOK'
    BY <1>1, <1>2, <1>3 DEF DataOK, Sole, Setting, SetInv, Shapes
  <1>7. MemOK'
    BY <1>1, <1>2, <1>3 DEF MemOK, Thread, Sole, Setting, SetInv, Shapes
  <1>8. SlotOK'
    BY <1>1, <1>2, <1>3 DEF SlotOK, Sole, Setting, SetInv, Shapes
  <1>9. MayOK'
    BY <1>1, <1>2, <1>3 DEF MayOK, Thread, Sole, Setting, SetInv, Shapes
  <1>10. PhaseOK'
    BY <1>1, <1>2, <1>3 DEF PhaseOK, Sole, Setting, SetInv, Shapes
  <1>11. Opened'
    BY <1>1, <1>2, <1>3 DEF Opened, Sole, Setting, SetInv, Shapes
  <1>12. Locked'
    BY <1>1, <1>2, <1>3 DEF Locked, Sole, Setting, SetInv, Shapes
  <1>13. ClientsWait'
    BY <1>1, <1>2, <1>3 DEF ClientsWait, Sole, Setting, SetInv, Placed
  <1>14. MainRests'
    BY <1>1, <1>2, <1>3 DEF MainRests, Sole, Setting, SetInv, Placed
  <1>15. AllRest'
    BY <1>1, <1>2, <1>3 DEF AllRest, Sole, Setting, SetInv, Placed
  <1>16. OnlyOne'
    BY <1>1, <1>2, <1>3 DEF OnlyOne, Sole, Setting, SetInv, Alone
  <1>17. NoneMet'
    BY <1>1, <1>2, <1>3 DEF NoneMet, Sole, Setting, SetInv, Alone
  <1>18. Apart'
    BY <1>1, <1>2, <1>3 DEF Apart, Sole, Setting, SetInv, OnDisk
  <1>19. Truncated'
    BY <1>1, <1>2, <1>3 DEF Truncated, Sole, Setting, SetInv, OnDisk
  <1>20. Written'
    BY <1>1, <1>2, <1>3 DEF Written, Sole, Setting, SetInv, OnDisk
  <1>21. Saved'
    BY <1>1, <1>2, <1>3 DEF Saved, Sole, Setting, SetInv, OnDisk
  <1>22. Kept'
    BY <1>1, <1>2, <1>3 DEF Kept, Syncing, Sole, Setting, SetInv, OnDisk
  <1>23. Whole'
    BY <1>1, <1>2, <1>3 DEF Whole, Syncing, Sole, Setting, SetInv, OnDisk
  <1>24. FirstSave'
    BY <1>1, <1>2, <1>3 DEF FirstSave, Saving, Sole, Setting, SetInv, OnDisk
  <1>25. Taken'
    BY <1>1, <1>2, <1>3 DEF Taken, Syncing, Sole, Setting, SetInv, InMemory
  <1>26. Read'
    BY <1>1, <1>2, <1>3 DEF Read, Sole, Setting, SetInv, InMemory
  <1>27. On'
    BY <1>1, <1>2, <1>3 DEF On, Sole, Setting, SetInv, InMemory
  <1>28. Emptied'
    BY <1>1, <1>2, <1>3 DEF Emptied, Sole, Setting, SetInv, InMemory
  <1>29. Current'
    BY <1>1, <1>2, <1>3 DEF Current, Sole, Setting, SetInv, InMemory
  <1>30. Wanted'
    BY <1>1, <1>2, <1>3 DEF Wanted, Sole, Setting, SetInv, Promised
  <1>31. Nothing'
    BY <1>1, <1>2, <1>3 DEF Nothing, Saving, Sole, Setting, SetInv, Promised
  <1>32. Something'
    BY <1>1, <1>2, <1>3 DEF Something, Saving, Sole, Setting, SetInv, Promised
  <1>33. Still'
    BY <1>1, <1>2, <1>3 DEF Still, Saving, Running, Sole, Setting, SetInv, Promised
  <1>34. Settled'
    BY <1>1, <1>2, <1>3 DEF Settled, Quiet, Running, Sole, Setting, SetInv, Promised
  <1>35. FilePromised'
    BY <1>1, <1>2, <1>3 DEF FilePromised, Sole, Setting, SetInv, Promised
  <1> QED BY <1>4, <1>5, <1>6, <1>7, <1>8, <1>9, <1>10, <1>11, <1>12, <1>13, <1>14,
     <1>15, <1>16, <1>17, <1>18, <1>19, <1>20, <1>21, <1>22, <1>23, <1>24, <1>25,
     <1>26, <1>27, <1>28, <1>29, <1>30, <1>31, <1>32, <1>33, <1>34, <1>35 DEF SetInv,
     Shapes, Placed, Alone, OnDisk, InMemory, Promised

(* The process ends: what is on the disk is all that is left.              *)
LEMMA EndKeeps ==
    ASSUME SetInv, End
    PROVE  SetInv'
  <1>1. /\ phase' = "down" /\ mem' = Default /\ slot' = None /\ slotLock' = None
        /\ proc' = [t \in Threads |-> Idle]
    BY DEF End
  <1>2. UNCHANGED <<disk, data, may>>
    BY DEF End
  <1>3. Stored' = Stored
    BY <1>2, StoredStays
  <1>4. proc' \in [Threads -> Thread] /\ \A t \in Threads :
          proc'[t].at = "idle" /\ proc'[t].fd = None /\ proc'[t].alone = FALSE /\ t # None
    BY <1>1, IdleIs DEF Threads
  <1>5. Main \in Threads /\ Default \in Clean /\ \A c \in Clients : c \in Threads
    BY IdleIs DEF Threads
  <1>6. ProcOK'
    BY <1>1, <1>2, <1>3, <1>4, <1>5 DEF ProcOK, Sole, Setting, SetInv, Shapes
  <1>7. DiskOK'
    BY <1>1, <1>2, <1>3, <1>4, <1>5 DEF DiskOK, Sole, Setting, SetInv, Shapes
  <1>8. DataOK'
    BY <1>1, <1>2, <1>3, <1>4, <1>5 DEF DataOK, Sole, Setting, SetInv, Shapes
  <1>9. MemOK'
    BY <1>1, <1>2, <1>3, <1>4, <1>5 DEF MemOK, Thread, Sole, Setting, SetInv, Shapes
  <1>10. SlotOK'
    BY <1>1, <1>2, <1>3, <1>4, <1>5 DEF SlotOK, Sole, Setting, SetInv, Shapes
  <1>11. MayOK'
    BY <1>1, <1>2, <1>3, <1>4, <1>5 DEF MayOK, Thread, Sole, Setting, SetInv, Shapes
  <1>12. PhaseOK'
    BY <1>1, <1>2, <1>3, <1>4, <1>5 DEF PhaseOK, Sole, Setting, SetInv, Shapes
  <1>13. Opened'
    BY <1>1, <1>2, <1>3, <1>4, <1>5 DEF Opened, Sole, Setting, SetInv, Shapes
  <1>14. Locked'
    BY <1>1, <1>2, <1>3, <1>4, <1>5 DEF Locked, Sole, Setting, SetInv, Shapes
  <1>15. ClientsWait'
    BY <1>1, <1>2, <1>3, <1>4, <1>5 DEF ClientsWait, Sole, Setting, SetInv, Placed
  <1>16. MainRests'
    BY <1>1, <1>2, <1>3, <1>4, <1>5 DEF MainRests, Sole, Setting, SetInv, Placed
  <1>17. AllRest'
    BY <1>1, <1>2, <1>3, <1>4, <1>5 DEF AllRest, Sole, Setting, SetInv, Placed
  <1>18. OnlyOne'
    BY <1>1, <1>2, <1>3, <1>4, <1>5 DEF OnlyOne, Sole, Setting, SetInv, Alone
  <1>19. NoneMet'
    BY <1>1, <1>2, <1>3, <1>4, <1>5 DEF NoneMet, Sole, Setting, SetInv, Alone
  <1>20. Apart'
    BY <1>1, <1>2, <1>3, <1>4, <1>5 DEF Apart, Sole, Setting, SetInv, OnDisk
  <1>21. Truncated'
    BY <1>1, <1>2, <1>3, <1>4, <1>5 DEF Truncated, Sole, Setting, SetInv, OnDisk
  <1>22. Written'
    BY <1>1, <1>2, <1>3, <1>4, <1>5 DEF Written, Sole, Setting, SetInv, OnDisk
  <1>23. Saved'
    BY <1>1, <1>2, <1>3, <1>4, <1>5 DEF Saved, Sole, Setting, SetInv, OnDisk
  <1>24. Kept'
    BY <1>1, <1>2, <1>3, <1>4, <1>5 DEF Kept, Syncing, Sole, Setting, SetInv, OnDisk
  <1>25. Whole'
    BY <1>1, <1>2, <1>3, <1>4, <1>5 DEF Whole, Syncing, Sole, Setting, SetInv, OnDisk
  <1>26. FirstSave'
    BY <1>1, <1>2, <1>3, <1>4, <1>5 DEF FirstSave, Saving, Sole, Setting, SetInv,
       OnDisk
  <1>27. Taken'
    BY <1>1, <1>2, <1>3, <1>4, <1>5 DEF Taken, Syncing, Sole, Setting, SetInv,
       InMemory
  <1>28. Read'
    BY <1>1, <1>2, <1>3, <1>4, <1>5 DEF Read, Sole, Setting, SetInv, InMemory
  <1>29. On'
    BY <1>1, <1>2, <1>3, <1>4, <1>5 DEF On, Sole, Setting, SetInv, InMemory
  <1>30. Emptied'
    BY <1>1, <1>2, <1>3, <1>4, <1>5 DEF Emptied, Sole, Setting, SetInv, InMemory
  <1>31. Current'
    BY <1>1, <1>2, <1>3, <1>4, <1>5 DEF Current, Sole, Setting, SetInv, InMemory
  <1>32. Wanted'
    BY <1>1, <1>2, <1>3, <1>4, <1>5 DEF Wanted, Sole, Setting, SetInv, Promised
  <1>33. Nothing'
    BY <1>1, <1>2, <1>3, <1>4, <1>5 DEF Nothing, Saving, Sole, Setting, SetInv,
       Promised
  <1>34. Something'
    BY <1>1, <1>2, <1>3, <1>4, <1>5 DEF Something, Saving, Sole, Setting, SetInv,
       Promised
  <1>35. Still'
    BY <1>1, <1>2, <1>3, <1>4, <1>5 DEF Still, Saving, Running, Sole, Setting, SetInv,
       Promised
  <1>36. Settled'
    BY <1>1, <1>2, <1>3, <1>4, <1>5 DEF Settled, Quiet, Running, Sole, Setting,
       SetInv, Promised
  <1>37. FilePromised'
    BY <1>1, <1>2, <1>3, <1>4, <1>5 DEF FilePromised, Sole, Setting, SetInv, Promised
  <1> QED BY <1>6, <1>7, <1>8, <1>9, <1>10, <1>11, <1>12, <1>13, <1>14, <1>15, <1>16,
     <1>17, <1>18, <1>19, <1>20, <1>21, <1>22, <1>23, <1>24, <1>25, <1>26, <1>27,
     <1>28, <1>29, <1>30, <1>31, <1>32, <1>33, <1>34, <1>35, <1>36, <1>37 DEF SetInv,
     Shapes, Placed, Alone, OnDisk, InMemory, Promised

(* The daemon starts: main is about to load the file.                      *)
LEMMA StartKeeps ==
    ASSUME SetInv, Start
    PROVE  SetInv'
  <1>1. phase = "down" /\ phase' = "starting" /\ proc' = [proc EXCEPT ![Main].at = "load"]
    BY DEF Start
  <1>2. UNCHANGED <<disk, data, mem, slot, slotLock, detail, may>>
    BY DEF Start
  <1>3. Stored' = Stored
    BY <1>2, StoredStays
  <1>4. /\ Main \in Threads /\ Main \notin Clients /\ proc \in [Threads -> Thread]
        /\ \A c \in Clients : c \in Threads
    BY DEF Threads, SetInv, Shapes, ProcOK
  <1>5. \A t \in Threads : proc[t].at = "idle" /\ ~proc[t].alone
    BY <1>1 DEF SetInv, Placed, AllRest, Alone, OnlyOne, Setting
  <1>6. /\ proc' \in [Threads -> Thread]
        /\ \A t \in Threads : t # Main => proc'[t] = proc[t]
        /\ proc'[Main].at = "load" /\ proc'[Main].fd = proc[Main].fd
        /\ ~proc'[Main].alone
    BY <1>1, <1>4, <1>5 DEF Thread, Points
  <1>7. ProcOK'
    BY <1>1, <1>2, <1>3, <1>4, <1>5, <1>6 DEF ProcOK, Sole, Setting, SetInv, Shapes
  <1>8. DiskOK'
    BY <1>1, <1>2, <1>3, <1>4, <1>5, <1>6 DEF DiskOK, Sole, Setting, SetInv, Shapes
  <1>9. DataOK'
    BY <1>1, <1>2, <1>3, <1>4, <1>5, <1>6 DEF DataOK, Sole, Setting, SetInv, Shapes
  <1>10. MemOK'
    BY <1>1, <1>2, <1>3, <1>4, <1>5, <1>6 DEF MemOK, Thread, Sole, Setting, SetInv,
       Shapes
  <1>11. SlotOK'
    BY <1>1, <1>2, <1>3, <1>4, <1>5, <1>6 DEF SlotOK, Sole, Setting, SetInv, Shapes
  <1>12. MayOK'
    BY <1>1, <1>2, <1>3, <1>4, <1>5, <1>6 DEF MayOK, Thread, Sole, Setting, SetInv,
       Shapes
  <1>13. PhaseOK'
    BY <1>1, <1>2, <1>3, <1>4, <1>5, <1>6 DEF PhaseOK, Sole, Setting, SetInv, Shapes
  <1>14. Opened'
    BY <1>1, <1>2, <1>3, <1>4, <1>5, <1>6 DEF Opened, Sole, Setting, SetInv, Shapes
  <1>15. Locked'
    BY <1>1, <1>2, <1>3, <1>4, <1>5, <1>6 DEF Locked, Sole, Setting, SetInv, Shapes
  <1>16. ClientsWait'
    BY <1>1, <1>2, <1>3, <1>4, <1>5, <1>6 DEF ClientsWait, Sole, Setting, SetInv,
       Placed
  <1>17. MainRests'
    BY <1>1, <1>2, <1>3, <1>4, <1>5, <1>6 DEF MainRests, Sole, Setting, SetInv, Placed
  <1>18. AllRest'
    BY <1>1, <1>2, <1>3, <1>4, <1>5, <1>6 DEF AllRest, Sole, Setting, SetInv, Placed
  <1>19. OnlyOne'
    BY <1>1, <1>2, <1>3, <1>4, <1>5, <1>6 DEF OnlyOne, Sole, Setting, SetInv, Alone
  <1>20. NoneMet'
    BY <1>1, <1>2, <1>3, <1>4, <1>5, <1>6 DEF NoneMet, Sole, Setting, SetInv, Alone
  <1>21. Apart'
    BY <1>1, <1>2, <1>3, <1>4, <1>5, <1>6 DEF Apart, Sole, Setting, SetInv, OnDisk
  <1>22. Truncated'
    BY <1>1, <1>2, <1>3, <1>4, <1>5, <1>6 DEF Truncated, Sole, Setting, SetInv, OnDisk
  <1>23. Written'
    BY <1>1, <1>2, <1>3, <1>4, <1>5, <1>6 DEF Written, Sole, Setting, SetInv, OnDisk
  <1>24. Saved'
    BY <1>1, <1>2, <1>3, <1>4, <1>5, <1>6 DEF Saved, Sole, Setting, SetInv, OnDisk
  <1>25. Kept'
    BY <1>1, <1>2, <1>3, <1>4, <1>5, <1>6 DEF Kept, Syncing, Sole, Setting, SetInv,
       OnDisk
  <1>26. Whole'
    BY <1>1, <1>2, <1>3, <1>4, <1>5, <1>6 DEF Whole, Syncing, Sole, Setting, SetInv,
       OnDisk
  <1>27. FirstSave'
    BY <1>1, <1>2, <1>3, <1>4, <1>5, <1>6 DEF FirstSave, Saving, Sole, Setting,
       SetInv, OnDisk
  <1>28. Taken'
    BY <1>1, <1>2, <1>3, <1>4, <1>5, <1>6 DEF Taken, Syncing, Sole, Setting, SetInv,
       InMemory
  <1>29. Read'
    BY <1>1, <1>2, <1>3, <1>4, <1>5, <1>6 DEF Read, Sole, Setting, SetInv, InMemory
  <1>30. On'
    BY <1>1, <1>2, <1>3, <1>4, <1>5, <1>6 DEF On, Sole, Setting, SetInv, InMemory
  <1>31. Emptied'
    BY <1>1, <1>2, <1>3, <1>4, <1>5, <1>6 DEF Emptied, Sole, Setting, SetInv, InMemory
  <1>32. Current'
    BY <1>1, <1>2, <1>3, <1>4, <1>5, <1>6 DEF Current, Sole, Setting, SetInv, InMemory
  <1>33. Wanted'
    BY <1>1, <1>2, <1>3, <1>4, <1>5, <1>6 DEF Wanted, Sole, Setting, SetInv, Promised
  <1>34. Nothing'
    BY <1>1, <1>2, <1>3, <1>4, <1>5, <1>6 DEF Nothing, Saving, Sole, Setting, SetInv,
       Promised
  <1>35. Something'
    BY <1>1, <1>2, <1>3, <1>4, <1>5, <1>6 DEF Something, Saving, Sole, Setting,
       SetInv, Promised
  <1>36. Still'
    BY <1>1, <1>2, <1>3, <1>4, <1>5, <1>6 DEF Still, Saving, Running, Sole, Setting,
       SetInv, Promised
  <1>37. Settled'
    BY <1>1, <1>2, <1>3, <1>4, <1>5, <1>6 DEF Settled, Quiet, Running, Sole, Setting,
       SetInv, Promised
  <1>38. FilePromised'
    BY <1>1, <1>2, <1>3, <1>4, <1>5, <1>6 DEF FilePromised, Sole, Setting, SetInv,
       Promised
  <1> QED BY <1>7, <1>8, <1>9, <1>10, <1>11, <1>12, <1>13, <1>14, <1>15, <1>16, <1>17,
     <1>18, <1>19, <1>20, <1>21, <1>22, <1>23, <1>24, <1>25, <1>26, <1>27, <1>28,
     <1>29, <1>30, <1>31, <1>32, <1>33, <1>34, <1>35, <1>36, <1>37, <1>38 DEF SetInv,
     Shapes, Placed, Alone, OnDisk, InMemory, Promised

(* The first start.                                                        *)
LEMMA InitKeeps ==
    ASSUME Init
    PROVE  SetInv
  <1>1. /\ disk = [file |-> None, tmp |-> None] /\ data = [i \in Inodes |-> <<>>]
        /\ mem = Default /\ slot = None /\ slotLock = None /\ phase = "starting" /\ may = {Default}
    BY DEF Init
  <1>2. /\ proc \in [Threads -> Thread] /\ proc[Main].at = "load"
        /\ \A t \in Threads : /\ proc[t].fd = None /\ ~proc[t].alone
                              /\ t # Main => proc[t].at = "idle"
                              /\ proc[t].at \in {"idle", "load"}
    <2>1. proc = [t \in Threads |-> IF t = Main THEN [Idle EXCEPT !.at = "load"] ELSE Idle]
      BY DEF Init
    <2>2. Main \in Threads /\ [Idle EXCEPT !.at = "load"] \in Thread
      BY IdleIs DEF Thread, Points, Threads
    <2>3. /\ [Idle EXCEPT !.at = "load"].at = "load" /\ [Idle EXCEPT !.at = "load"].fd = None
          /\ [Idle EXCEPT !.at = "load"].alone = FALSE
      BY DEF Idle
    <2> QED BY <2>1, <2>2, <2>3, IdleIs
  <1>3. Stored = Default
    BY <1>1 DEF Stored
  <1>4. /\ Main \in Threads /\ Main \notin Clients /\ Default \in Clean /\ <<>> \in Seq(Clean)
        /\ \A c \in Clients : c \in Threads
        /\ \A t \in Threads : t # None
    BY IdleIs DEF Threads
  <1>5. ProcOK
    BY <1>1, <1>2, <1>3, <1>4 DEF ProcOK, Sole, Setting
  <1>6. DiskOK
    BY <1>1, <1>2, <1>3, <1>4 DEF DiskOK, Sole, Setting
  <1>7. DataOK
    BY <1>1, <1>2, <1>3, <1>4 DEF DataOK, Sole, Setting
  <1>8. MemOK
    BY <1>1, <1>2, <1>3, <1>4 DEF MemOK, Thread, Sole, Setting
  <1>9. SlotOK
    BY <1>1, <1>2, <1>3, <1>4 DEF SlotOK, Sole, Setting
  <1>10. MayOK
    BY <1>1, <1>2, <1>3, <1>4 DEF MayOK, Thread, Sole, Setting
  <1>11. PhaseOK
    BY <1>1, <1>2, <1>3, <1>4 DEF PhaseOK, Sole, Setting
  <1>12. Opened
    BY <1>1, <1>2, <1>3, <1>4 DEF Opened, Sole, Setting
  <1>13. Locked
    BY <1>1, <1>2, <1>3, <1>4 DEF Locked, Sole, Setting
  <1>14. ClientsWait
    BY <1>1, <1>2, <1>3, <1>4 DEF ClientsWait, Sole, Setting
  <1>15. MainRests
    BY <1>1, <1>2, <1>3, <1>4 DEF MainRests, Sole, Setting
  <1>16. AllRest
    BY <1>1, <1>2, <1>3, <1>4 DEF AllRest, Sole, Setting
  <1>17. OnlyOne
    BY <1>1, <1>2, <1>3, <1>4 DEF OnlyOne, Sole, Setting
  <1>18. NoneMet
    BY <1>1, <1>2, <1>3, <1>4 DEF NoneMet, Sole, Setting
  <1>19. Apart
    BY <1>1, <1>2, <1>3, <1>4 DEF Apart, Sole, Setting
  <1>20. Truncated
    BY <1>1, <1>2, <1>3, <1>4 DEF Truncated, Sole, Setting
  <1>21. Written
    BY <1>1, <1>2, <1>3, <1>4 DEF Written, Sole, Setting
  <1>22. Saved
    BY <1>1, <1>2, <1>3, <1>4 DEF Saved, Sole, Setting
  <1>23. Kept
    BY <1>1, <1>2, <1>3, <1>4 DEF Kept, Syncing, Sole, Setting
  <1>24. Whole
    BY <1>1, <1>2, <1>3, <1>4 DEF Whole, Syncing, Sole, Setting
  <1>25. FirstSave
    BY <1>1, <1>2, <1>3, <1>4 DEF FirstSave, Saving, Sole, Setting
  <1>26. Taken
    BY <1>1, <1>2, <1>3, <1>4 DEF Taken, Syncing, Sole, Setting
  <1>27. Read
    BY <1>1, <1>2, <1>3, <1>4 DEF Read, Sole, Setting
  <1>28. On
    BY <1>1, <1>2, <1>3, <1>4 DEF On, Sole, Setting
  <1>29. Emptied
    BY <1>1, <1>2, <1>3, <1>4 DEF Emptied, Sole, Setting
  <1>30. Current
    BY <1>1, <1>2, <1>3, <1>4 DEF Current, Sole, Setting
  <1>31. Wanted
    BY <1>1, <1>2, <1>3, <1>4 DEF Wanted, Sole, Setting
  <1>32. Nothing
    BY <1>1, <1>2, <1>3, <1>4 DEF Nothing, Saving, Sole, Setting
  <1>33. Something
    BY <1>1, <1>2, <1>3, <1>4 DEF Something, Saving, Sole, Setting
  <1>34. Still
    BY <1>1, <1>2, <1>3, <1>4 DEF Still, Saving, Running, Sole, Setting, SetInv,
       Promised
  <1>35. Settled
    BY <1>1, <1>2, <1>3, <1>4 DEF Settled, Quiet, Running, Sole, Setting, SetInv,
       Promised
  <1>36. FilePromised
    BY <1>1, <1>2, <1>3, <1>4 DEF FilePromised, Sole, Setting
  <1> QED BY <1>5, <1>6, <1>7, <1>8, <1>9, <1>10, <1>11, <1>12, <1>13, <1>14, <1>15,
     <1>16, <1>17, <1>18, <1>19, <1>20, <1>21, <1>22, <1>23, <1>24, <1>25, <1>26,
     <1>27, <1>28, <1>29, <1>30, <1>31, <1>32, <1>33, <1>34, <1>35, <1>36 DEF SetInv, Shapes, Placed,
     Shapes, Placed, Alone, OnDisk, InMemory, Promised

-----------------------------------------------------------------------------
(* SettingsInvariant: all of this is so at every moment.                   *)
THEOREM SettingsInvariant == Spec => []SetInv
  <1>1. ASSUME SetInv, [Next]_vars
        PROVE  SetInv'
    <2>1. CASE Load
      <3>1. Main \in Threads
        BY DEF Threads
      <3> QED BY <1>1, <2>1, <3>1, LoadKeeps
    <2>2. ASSUME NEW t \in Threads, Step(t)
          PROVE  SetInv'
      BY <1>1, <2>2, TruncateKeeps, WriteKeeps, FailedSavesKeep, RenameKeeps, StoreKeeps,
         ReadEnabledKeeps, SyncOffKeeps, SyncOnKeeps, StartWatcherKeeps DEF Step
    <2>3. ASSUME NEW c \in Clients, SettingsGet(c) \/ SettingsSet(c) \/ GiveUp(c)
          PROVE  SetInv'
      BY <1>1, <2>3, SettingsGetKeeps, SettingsSetKeeps, RestsKeep DEF GiveUp
    <2>4. CASE Sigterm \/ Exit \/ Crash \/ Start
      BY <1>1, <2>4, SigtermKeeps, EndKeeps, StartKeeps DEF Exit, Crash
    <2>5. CASE UNCHANGED vars
      <3>1. Stored' = Stored /\ (Quiet' <=> Quiet) /\ (Running' <=> Running)
        BY <2>5 DEF vars, Stored, Quiet, Setting, Running
      <3>2. Shapes'
        BY <1>1, <2>5, <3>1 DEF vars, SetInv, Shapes, ProcOK, DiskOK, DataOK, MemOK,
           SlotOK, MayOK, PhaseOK, Opened, Locked
      <3>3. Placed'
        BY <1>1, <2>5, <3>1 DEF vars, SetInv, Placed, ClientsWait, MainRests, AllRest
      <3>4. Alone'
        BY <1>1, <2>5, <3>1 DEF vars, SetInv, Alone, OnlyOne, NoneMet, Setting
      <3>5. OnDisk'
        BY <1>1, <2>5, <3>1 DEF vars, SetInv, OnDisk, Apart, Truncated, Written,
           Saved, Kept, Whole, FirstSave, Sole
      <3>6. InMemory'
        BY <1>1, <2>5, <3>1 DEF vars, SetInv, InMemory, Taken, Read, On, Emptied,
           Current, Sole
      <3>7. Promised'
        BY <1>1, <2>5, <3>1 DEF vars, SetInv, Promised, Wanted, Nothing, Something,
           Still, Settled, FilePromised, Setting
      <3> QED BY <3>2, <3>3, <3>4, <3>5, <3>6, <3>7 DEF SetInv
    <2> QED BY <1>1, <2>1, <2>2, <2>3, <2>4, <2>5 DEF Next
  <1> QED BY <1>1, InitKeeps, PTL DEF Spec

(* PromisesAreKept: what a set that met no other one was told is true: the *)
(* file holds it at every moment, and once nobody is setting anything file, *)
(* memory and watcher agree on it (server.rs SETTINGS_SET, config.rs save). *)
THEOREM PromisesAreKept == Spec => []PromiseKept
  <1>1. SetInv => PromiseKept
    <2> HAVE SetInv
    <2>1. TypeOK
      <3>1. \A i \in Inodes : data[i] \in Seq(Documents)
        <4>1. Clean \subseteq Documents
          BY DEF Clean
        <4>2. \A i \in Inodes : data[i] \in Seq(Clean)
          BY DEF SetInv, Shapes, DataOK
        <4> QED BY <4>1, <4>2, SeqMonotonic
      <3>2. /\ mem \in Documents /\ IsInjective(mem.paths)
            /\ \A i \in DOMAIN mem.paths : LET r == mem.paths[i] IN
                  r = Trim[r] /\ r \notin Blank \cup Relative
        BY DEF SetInv, Shapes, MemOK, Clean, CleanList
      <3>3. (slot = None \/ slot \in Documents) /\ may \subseteq Documents
        BY DEF SetInv, Shapes, SlotOK, MayOK, Clean
      <3>4. \A t \in Threads : /\ (proc[t].fd # None) <=> (proc[t].at = "write")
                               /\ (slotLock = t) <=> (proc[t].at = "start")
        BY DEF SetInv, Shapes, Opened, Locked
      <3> QED BY <3>1, <3>2, <3>3, <3>4 DEF TypeOK, SetInv, Shapes, DiskOK, PhaseOK
    <2>2. FilePromised /\ InForce
      BY DEF SetInv, Promised, Settled, Running, InForce
    <2> QED BY <2>1, <2>2 DEF PromiseKept
  <1> QED BY <1>1, SettingsInvariant, PTL

(* WatchersAreCurrent: in whatever order sets overlap, a watcher that runs *)
(* in the end runs with the settings in memory (sync_realtime).            *)
THEOREM WatchersAreCurrent == Spec => []RunningIsCurrent
  <1>1. SetInv => RunningIsCurrent
    BY DEF SetInv, InMemory, Current, RunningIsCurrent, Quiet, Setting
  <1> QED BY <1>1, SettingsInvariant, PTL
=============================================================================
