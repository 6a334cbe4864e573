----------------------------- MODULE FeedsProofs -----------------------------
(***************************************************************************)
(* Proofs about Feeds, for any files, directories, mounts and exclusions,  *)
(* any sizes of the kernel's queue, the churn table and the sweep's batch, *)
(* and any numbers of calls and generations.                               *)
(***************************************************************************)
EXTENDS Feeds, FiniteSetTheorems, TLAPS

USE PlaceAssumption, AboveAssumption, FileAssumption, SizeAssumption, BoundAssumption
USE DEF status

-----------------------------------------------------------------------------
(* The invariant.                                                          *)

EventT == [file : Files, kind : {"write", "open", "engine", "deleted"}]
IntakeT == [at : {"idle", "push", "request"}, file : Files \cup {NoFile}]
EntryT == [in : BOOLEAN, cooling : BOOLEAN, dirty : BOOLEAN]
SweepT ==
    [at : {"sleep", "walk", "finish"}, dirs : SUBSET Dirs, batch : SUBSET Files]
InTable == {f \in Files : churn[f].in}

FilesOK ==
    /\ unseen \subseteq Files /\ lost \subseteq Files
    /\ hk \subseteq Files /\ live \subseteq Files /\ pending \subseteq Files
FlagsOK ==
    /\ auto_catchup \in BOOLEAN /\ overflow \in BOOLEAN /\ requested \in BOOLEAN
    /\ note \in BOOLEAN /\ exit \in BOOLEAN /\ wiped \in BOOLEAN
    /\ calls \in Nat /\ dog \in {"watch", "tell", "told", "gone"}
EventsOK == events \subseteq EventT
IntakeOK == intake \in IntakeT
TableOK == churn \in [Files -> EntryT] /\ grants \in [Files -> Nat]
SweepOK == sweep \in SweepT
Shapes == FilesOK /\ FlagsOK /\ EventsOK /\ IntakeOK /\ TableOK /\ SweepOK

(* Only watchable mounts bear a mark.                                      *)
MarksOK == marked \subseteq WatchableMounts

(* The kernel's queue and the churn table keep within their sizes.         *)
Sized ==
    /\ IsFiniteSet(events) /\ Cardinality(events) <= MAX_QUEUED_EVENTS
    /\ IsFiniteSet(InTable) /\ Cardinality(InTable) <= BOUNDED_MAP_CAP + 1

(* A write to an excluded file asks for no scan.                           *)
Wanted == \A f \in unseen : ~IsExcluded(f)

(* Only a path in the table cools, and only a churn path is marked dirty.  *)
Marks ==
    \A f \in Files : /\ churn[f].cooling => churn[f].in
                     /\ churn[f].dirty => churn[f].in /\ f \in Churns

(* The intake has a file in its hand exactly between the churn gate and    *)
(* the queue, and no generation is closed over an overflow half noted.     *)
Hands ==
    /\ intake.at = "push" => intake.file \in Files
    /\ intake.at # "push" => intake.file = NoFile
    /\ intake.at = "request" => ~exit

(* The sweep has directories and a batch only while it walks.              *)
Walks == sweep.at # "walk" => sweep.dirs = {} /\ sweep.batch = {}

(* A path that may be queued again has not been since its cooldown began.  *)
Once ==
    \A f \in Files : grants[f] <= 1 /\ (~churn[f].cooling => grants[f] = 0)

FeedInv ==
    /\ Shapes /\ MarksOK /\ Sized
    /\ Wanted /\ Marks /\ Hands /\ Walks
    /\ Once /\ NoteTellsOfSweep /\ NoWriteForgotten


-----------------------------------------------------------------------------

(* A set grows by one at most when an element is added.                    *)
LEMMA OneMore ==
    ASSUME NEW S, NEW x, IsFiniteSet(S)
    PROVE  /\ IsFiniteSet(S \cup {x})
           /\ Cardinality(S \cup {x}) <= Cardinality(S) + 1
           /\ Cardinality(S \cup {x}) \in Nat
  <1>1. Cardinality(S) \in Nat
    BY FS_CardinalityType
  <1>2. IsFiniteSet(S \cup {x}) /\ Cardinality(S \cup {x}) \in Nat
    BY FS_AddElement, FS_CardinalityType
  <1>3. Cardinality(S \cup {x}) = IF x \in S THEN Cardinality(S) ELSE Cardinality(S) + 1
    BY FS_AddElement
  <1> QED BY <1>1, <1>2, <1>3

(* What the kernel does with an event: it queues it, merges it with one    *)
(* that waits, or drops it and queues the overflow event.                  *)
LEMMA Reports ==
    ASSUME NEW f \in Files, NEW kind, Reported(f, kind), overflow \in BOOLEAN,
           IsFiniteSet(events), Cardinality(events) <= MAX_QUEUED_EVENTS
    PROVE  /\ overflow' \in BOOLEAN
           /\ overflow => overflow'
           /\ events \subseteq events'
           /\ events' \subseteq events \cup {[file |-> f, kind |-> kind]}
           /\ ~exit /\ MountOf[DirOf[f]] \in marked =>
                 overflow' \/ [file |-> f, kind |-> kind] \in events'
           /\ IsFiniteSet(events') /\ Cardinality(events') <= MAX_QUEUED_EVENTS
  <1> DEFINE e == [file |-> f, kind |-> kind]
  <1>1. CASE exit \/ MountOf[DirOf[f]] \notin marked
    <2>1. overflow' = overflow /\ events' = events
      BY <1>1 DEF Reported, kernel
    <2> QED BY <1>1, <2>1
  <1>2. CASE ~(exit \/ MountOf[DirOf[f]] \notin marked)
    <2> DEFINE fits == e \in events \/ Cardinality(events) < MAX_QUEUED_EVENTS
    <2>1. /\ events' = IF fits THEN events \cup {e} ELSE events
          /\ overflow' = (overflow \/ ~fits)
      BY <1>2 DEF Reported
    <2> HIDE DEF e
    <2>2. CASE e \in events
      <3>1. events' = events
        BY <2>1, <2>2
      <3>2. overflow' = overflow
        BY <2>1, <2>2
      <3> QED BY <2>2, <3>1, <3>2 DEF e
    <2>3. CASE e \notin events /\ Cardinality(events) < MAX_QUEUED_EVENTS
      <3>1. events' = events \cup {e}
        BY <2>1, <2>3
      <3>2. overflow' = overflow
        BY <2>1, <2>3
      <3>3. /\ IsFiniteSet(events')
            /\ Cardinality(events') = Cardinality(events) + 1
        BY <2>3, <3>1, FS_AddElement
      <3>4. Cardinality(events) \in Nat
        BY FS_CardinalityType
      <3> QED BY <2>3, <3>1, <3>2, <3>3, <3>4 DEF e
    <2>4. CASE e \notin events /\ ~(Cardinality(events) < MAX_QUEUED_EVENTS)
      <3>1. events' = events
        BY <2>1, <2>4
      <3>2. overflow' = TRUE
        BY <2>1, <2>4
      <3> QED BY <3>1, <3>2
    <2> QED BY <2>2, <2>3, <2>4
  <1> QED BY <1>1, <1>2

(* What is lost was in the set that a step loses.                          *)
LEMMA Loses ==
    ASSUME NEW S, Lose(S)
    PROVE  /\ lost \subseteq lost' /\ lost' \subseteq lost \cup S
           /\ \A f \in S : f \in unseen' => Traced(f)' \/ f \in lost'
  BY DEF Lose

(* The watchdog writes the note, and nothing of the rest.                  *)
LEMMA DogWritesOnly ==
    ASSUME DogStep
    PROVE  /\ note' = FALSE /\ wiped' = (~exit /\ SweepDue)
           /\ dog' \in {"watch", "told", "gone"} /\ calls' \in {calls, calls + 1}
           /\ UNCHANGED <<unseen, auto_catchup, marked, events, overflow, intake, churn, hk,
                          requested, sweep, live, pending, exit, lost, grants>>
  BY DEF DogStep, DogTells, DogTakesBack, DogGivesUp, DogWrites, Counts, kernel, queue

(* What the sweep finds in a directory it takes along, and what it does    *)
(* not find is lost.                                                       *)
LEMMA SweepReads ==
    ASSUME FeedInv, NEW d \in Dirs, SweepDir(d)
    PROVE  /\ sweep' \in SweepT /\ sweep'.at = "walk" /\ sweep'.dirs = sweep.dirs \ {d}
           /\ pending \subseteq pending' /\ pending' \subseteq Files
           /\ \E unread \in SUBSET Entries(d) :
                 /\ Lose(unread)
                 /\ sweep.batch \cup (Entries(d) \ unread) \subseteq sweep'.batch \cup pending'
  <1>1. sweep \in SweepT /\ pending \subseteq Files /\ sweep.at = "walk"
    BY DEF SweepDir, FeedInv, Shapes, SweepOK, FilesOK
  <1>2. PICK unread \in SUBSET Entries(d) :
          LET batch == sweep.batch \cup (Entries(d) \ unread)
              full == Cardinality(batch) >= SWEEP_FLUSH_BATCH
          IN /\ sweep' = [sweep EXCEPT !.dirs = @ \ {d}, !.batch = IF full THEN {} ELSE batch]
             /\ pending' = IF full THEN pending \cup batch ELSE pending
             /\ Lose(unread)
    BY DEF SweepDir
  <1> DEFINE batch == sweep.batch \cup (Entries(d) \ unread)
  <1>3. batch \subseteq Files
    BY <1>1 DEF Entries, SweepT
  <1>4. \/ /\ sweep' = [sweep EXCEPT !.dirs = @ \ {d}, !.batch = {}]
           /\ pending' = pending \cup batch
        \/ /\ sweep' = [sweep EXCEPT !.dirs = @ \ {d}, !.batch = batch]
           /\ pending' = pending
    BY <1>2
  <1> HIDE DEF batch
  <1>5. /\ sweep' \in SweepT /\ sweep'.at = "walk" /\ sweep'.dirs = sweep.dirs \ {d}
        /\ pending \subseteq pending' /\ pending' \subseteq Files
        /\ batch \subseteq sweep'.batch \cup pending'
    <2>1. CASE /\ sweep' = [sweep EXCEPT !.dirs = @ \ {d}, !.batch = {}]
               /\ pending' = pending \cup batch
      BY <1>1, <1>3, <2>1 DEF SweepT
    <2>2. CASE /\ sweep' = [sweep EXCEPT !.dirs = @ \ {d}, !.batch = batch]
               /\ pending' = pending
      BY <1>1, <1>3, <2>2 DEF SweepT
    <2> QED BY <1>4, <2>1, <2>2
  <1> QED BY <1>2, <1>5 DEF batch

(* The sets of files stay sets of files.                                   *)
LEMMA FilesOKStays ==
    ASSUME FeedInv, [Next]_vars
    PROVE  FilesOK'
  <1>1. ASSUME NEW f \in Files, Write(f) PROVE FilesOK'
    BY <1>1, Loses DEF Write, Calls, Counts, Reported, queue, FeedInv, Shapes, FilesOK
  <1>2. ASSUME NEW f \in Files, Open(f) PROVE FilesOK'
    BY <1>2 DEF Open, Calls, Counts, queue, FeedInv, Shapes, FilesOK
  <1>3. ASSUME NEW f \in Files, EngineCall(f) PROVE FilesOK'
    BY <1>3 DEF EngineCall, Calls, Counts, queue, FeedInv, Shapes, FilesOK
  <1>4. ASSUME NEW f \in Files, Delete(f) PROVE FilesOK'
    BY <1>4 DEF Delete, Calls, Counts, queue, FeedInv, Shapes, FilesOK
  <1>5. ASSUME NEW f \in Files, Cool(f) PROVE FilesOK'
    BY <1>5 DEF Cool, kernel, queue, FeedInv, Shapes, FilesOK
  <1>6. ASSUME NEW e \in events, IntakeSkips(e) PROVE FilesOK'
    BY <1>6 DEF IntakeSkips, Read, FeedInv, Shapes, FilesOK
  <1>7. ASSUME NEW e \in events, IntakeQueues(e) PROVE FilesOK'
    <2>1. e.file \in Files
      BY DEF FeedInv, Shapes, EventsOK, EventT
    <2> QED BY <1>7, <2>1 DEF IntakeQueues, Read, FeedInv, Shapes, FilesOK
  <1>8. ASSUME NEW e \in events, IntakeAsksChurn(e) PROVE FilesOK'
    <2>1. lost' \subseteq Files
      <3>1. Lose(Churns) \/ Lose({})
        BY <1>8 DEF IntakeAsksChurn
      <3> QED BY <3>1, Loses DEF Churns, FeedInv, Shapes, FilesOK
    <2>2. UNCHANGED <<unseen, hk, live, pending>>
      BY <1>8 DEF IntakeAsksChurn, Read
    <2> QED BY <2>1, <2>2 DEF FeedInv, Shapes, FilesOK
  <1>9. ASSUME IntakePush PROVE FilesOK'
    <2>1. intake.file \in Files
      BY <1>9 DEF IntakePush, FeedInv, Hands
    <2> QED BY <1>9, <2>1 DEF IntakePush, history, FeedInv, Shapes, FilesOK
  <1>10. ASSUME NoteOverflow PROVE FilesOK'
    BY <1>10 DEF NoteOverflow, queue, FeedInv, Shapes, FilesOK
  <1>11. ASSUME RequestCatchup PROVE FilesOK'
    BY <1>11 DEF RequestCatchup, kernel, queue, history, FeedInv, Shapes,
       FilesOK
  <1>12. ASSUME ChurnFlush PROVE FilesOK'
    BY <1>12 DEF ChurnFlush, kernel, queue, FeedInv, Shapes, FilesOK
  <1>13. ASSUME FlushPush PROVE FilesOK'
    BY <1>13 DEF FlushPush, kernel, history, FeedInv, Shapes, FilesOK
  <1>14. ASSUME SweepStart PROVE FilesOK'
    BY <1>14 DEF SweepStart, kernel, queue, history, KeepsTheNote, FeedInv,
       Shapes, FilesOK
  <1>15. ASSUME NEW d \in Dirs, SweepDir(d) PROVE FilesOK'
    <2>1. pending' \subseteq Files /\ lost' \subseteq Files
      BY <1>15, SweepReads, Loses DEF Entries, FeedInv, Shapes, FilesOK
    <2> QED BY <1>15, <2>1 DEF SweepDir, FeedInv, Shapes, FilesOK
  <1>16. ASSUME SweepFlush PROVE FilesOK'
    <2>1. lost' \subseteq Files
      <3>1. Lose(Files) \/ Lose({})
        BY <1>16 DEF SweepFlush
      <3> QED BY <3>1, Loses DEF FeedInv, Shapes, FilesOK
    <2>2. sweep.batch \subseteq Files
      BY DEF FeedInv, Shapes, SweepOK, SweepT
    <2> QED BY <1>16, <2>1, <2>2 DEF SweepFlush, FeedInv, Shapes, FilesOK
  <1>17. ASSUME SweepFinish PROVE FilesOK'
    BY <1>17 DEF SweepFinish, RequestKept, kernel, queue, FeedInv, Shapes,
       FilesOK
  <1>18. ASSUME NEW f \in Files, Scan(f) PROVE FilesOK'
    BY <1>18 DEF Scan, kernel, FeedInv, Shapes, FilesOK
  <1>19. ASSUME Close PROVE FilesOK'
    BY <1>19, Loses DEF Close, Counts, queue, FeedInv, Shapes, FilesOK
  <1>20. ASSUME Restart PROVE FilesOK'
    BY <1>20, Loses DEF Restart, NextGeneration, NewHandle, SameHandle, FeedInv, Shapes,
       FilesOK
  <1>21. ASSUME Crash PROVE FilesOK'
    BY <1>21, Loses DEF Crash, Counts, NextGeneration, NewHandle, FeedInv, Shapes,
       FilesOK
  <1>22. ASSUME DogStep PROVE FilesOK'
    BY <1>22, DogWritesOnly DEF FeedInv, Shapes, FilesOK
  <1>23. CASE UNCHANGED vars
    BY <1>23 DEF vars, FeedInv, Shapes, FilesOK
  <1> QED BY <1>1, <1>2, <1>3, <1>4, <1>5, <1>6, <1>7, <1>8, <1>9, <1>10, <1>11,
             <1>12, <1>13, <1>14, <1>15, <1>16, <1>17, <1>18, <1>19, <1>20, <1>21,
             <1>22, <1>23 DEF Next, IntakeStep, HousekeepingStep, SweepStep

(* The flags stay flags, and the numbers numbers.                          *)
LEMMA FlagsOKStays ==
    ASSUME FeedInv, [Next]_vars
    PROVE  FlagsOK'
  <1>1. ASSUME NEW f \in Files, Write(f) PROVE FlagsOK'
    <2>1. Reported(f, "write")
      BY <1>1 DEF Write
    <2>2. overflow' \in BOOLEAN
      BY <2>1, Reports DEF FeedInv, Shapes, FlagsOK, Sized
    <2> QED BY <1>1, <2>2 DEF Write, Calls, Counts, queue, FeedInv, Shapes, FlagsOK
  <1>2. ASSUME NEW f \in Files, Open(f) PROVE FlagsOK'
    <2>1. Reported(f, "open")
      BY <1>2 DEF Open
    <2>2. overflow' \in BOOLEAN
      BY <2>1, Reports DEF FeedInv, Shapes, FlagsOK, Sized
    <2> QED BY <1>2, <2>2 DEF Open, Calls, Counts, queue, FeedInv, Shapes, FlagsOK
  <1>3. ASSUME NEW f \in Files, EngineCall(f) PROVE FlagsOK'
    <2>1. Reported(f, "engine")
      BY <1>3 DEF EngineCall
    <2>2. overflow' \in BOOLEAN
      BY <2>1, Reports DEF FeedInv, Shapes, FlagsOK, Sized
    <2> QED BY <1>3, <2>2 DEF EngineCall, Calls, Counts, queue, FeedInv, Shapes, FlagsOK
  <1>4. ASSUME NEW f \in Files, Delete(f) PROVE FlagsOK'
    BY <1>4 DEF Delete, Calls, Counts, queue, FeedInv, Shapes, FlagsOK
  <1>5. ASSUME NEW f \in Files, Cool(f) PROVE FlagsOK'
    BY <1>5 DEF Cool, kernel, queue, FeedInv, Shapes, FlagsOK
  <1>6. ASSUME NEW e \in events, IntakeSkips(e) PROVE FlagsOK'
    BY <1>6 DEF IntakeSkips, Read, FeedInv, Shapes, FlagsOK
  <1>7. ASSUME NEW e \in events, IntakeQueues(e) PROVE FlagsOK'
    BY <1>7 DEF IntakeQueues, Read, FeedInv, Shapes, FlagsOK
  <1>8. ASSUME NEW e \in events, IntakeAsksChurn(e) PROVE FlagsOK'
    BY <1>8 DEF IntakeAsksChurn, Read, ChurnTryQueue, FeedInv, Shapes, FlagsOK
  <1>9. ASSUME IntakePush PROVE FlagsOK'
    BY <1>9 DEF IntakePush, kernel, history, FeedInv, Shapes, FlagsOK
  <1>10. ASSUME NoteOverflow PROVE FlagsOK'
    BY <1>10 DEF NoteOverflow, queue, FeedInv, Shapes, FlagsOK
  <1>11. ASSUME RequestCatchup PROVE FlagsOK'
    BY <1>11 DEF RequestCatchup, kernel, queue, history, FeedInv, Shapes,
       FlagsOK
  <1>12. ASSUME ChurnFlush PROVE FlagsOK'
    BY <1>12 DEF ChurnFlush, kernel, queue, FeedInv, Shapes, FlagsOK
  <1>13. ASSUME FlushPush PROVE FlagsOK'
    BY <1>13 DEF FlushPush, kernel, history, FeedInv, Shapes, FlagsOK
  <1>14. ASSUME SweepStart PROVE FlagsOK'
    BY <1>14 DEF SweepStart, kernel, queue, history, KeepsTheNote, FeedInv,
       Shapes, FlagsOK
  <1>15. ASSUME NEW d \in Dirs, SweepDir(d) PROVE FlagsOK'
    BY <1>15 DEF SweepDir, kernel, history, FeedInv, Shapes, FlagsOK
  <1>16. ASSUME SweepFlush PROVE FlagsOK'
    BY <1>16 DEF SweepFlush, kernel, FeedInv, Shapes, FlagsOK
  <1>17. ASSUME SweepFinish PROVE FlagsOK'
    BY <1>17 DEF SweepFinish, RequestKept, kernel, queue, FeedInv, Shapes,
       FlagsOK
  <1>18. ASSUME NEW f \in Files, Scan(f) PROVE FlagsOK'
    BY <1>18 DEF Scan, kernel, FeedInv, Shapes, FlagsOK
  <1>19. ASSUME Close PROVE FlagsOK'
    <2>1. /\ exit' = TRUE /\ overflow' = FALSE /\ requested' = FALSE /\ calls' = calls + 1
          /\ wiped' = FALSE /\ UNCHANGED <<auto_catchup, note, dog>>
      BY <1>19 DEF Close, Counts
    <2>2. calls' \in Nat
      BY <2>1 DEF FeedInv, Shapes, FlagsOK
    <2>3. exit' \in BOOLEAN /\ overflow' \in BOOLEAN /\ requested' \in BOOLEAN
      BY <2>1
    <2> QED BY <2>1, <2>2, <2>3 DEF FeedInv, Shapes, FlagsOK
  <1>20. ASSUME Restart PROVE FlagsOK'
    BY <1>20 DEF Restart, NextGeneration, NewHandle, SameHandle, FeedInv, Shapes,
       FlagsOK
  <1>21. ASSUME Crash PROVE FlagsOK'
    <2>1. /\ overflow' = FALSE /\ requested' = FALSE /\ wiped' = FALSE /\ exit' = FALSE
          /\ note' = FALSE /\ dog' = "watch" /\ calls' = calls + 1
          /\ UNCHANGED auto_catchup
      BY <1>21 DEF Crash, Counts, NextGeneration, NewHandle
    <2>2. calls' \in Nat
      BY <2>1 DEF FeedInv, Shapes, FlagsOK
    <2>3. /\ exit' \in BOOLEAN /\ overflow' \in BOOLEAN /\ requested' \in BOOLEAN
          /\ wiped' \in BOOLEAN
      BY <2>1
    <2>4. note' \in BOOLEAN
      BY <2>1 DEF FeedInv, Shapes, FlagsOK
    <2> QED BY <2>1, <2>2, <2>3, <2>4 DEF FeedInv, Shapes, FlagsOK
  <1>22. ASSUME DogStep PROVE FlagsOK'
    BY <1>22, DogWritesOnly DEF FeedInv, Shapes, FlagsOK
  <1>23. CASE UNCHANGED vars
    BY <1>23 DEF vars, FeedInv, Shapes, FlagsOK
  <1> QED BY <1>1, <1>2, <1>3, <1>4, <1>5, <1>6, <1>7, <1>8, <1>9, <1>10, <1>11,
             <1>12, <1>13, <1>14, <1>15, <1>16, <1>17, <1>18, <1>19, <1>20, <1>21,
             <1>22, <1>23 DEF Next, IntakeStep, HousekeepingStep, SweepStep

(* The kernel's queue holds events of files.                               *)
LEMMA EventsOKStays ==
    ASSUME FeedInv, [Next]_vars
    PROVE  EventsOK'
  <1>1. ASSUME NEW f \in Files, Write(f) PROVE EventsOK'
    <2>1. Reported(f, "write")
      BY <1>1 DEF Write
    <2>2. events' \subseteq events \cup {[file |-> f, kind |-> "write"]}
      BY <2>1, Reports DEF FeedInv, Shapes, FlagsOK, Sized
    <2> QED BY <2>2 DEF FeedInv, Shapes, EventsOK, EventT
  <1>2. ASSUME NEW f \in Files, Open(f) PROVE EventsOK'
    <2>1. Reported(f, "open")
      BY <1>2 DEF Open
    <2>2. events' \subseteq events \cup {[file |-> f, kind |-> "open"]}
      BY <2>1, Reports DEF FeedInv, Shapes, FlagsOK, Sized
    <2> QED BY <2>2 DEF FeedInv, Shapes, EventsOK, EventT
  <1>3. ASSUME NEW f \in Files, EngineCall(f) PROVE EventsOK'
    <2>1. Reported(f, "engine")
      BY <1>3 DEF EngineCall
    <2>2. events' \subseteq events \cup {[file |-> f, kind |-> "engine"]}
      BY <2>1, Reports DEF FeedInv, Shapes, FlagsOK, Sized
    <2> QED BY <2>2 DEF FeedInv, Shapes, EventsOK, EventT
  <1>4. ASSUME NEW f \in Files, Delete(f) PROVE EventsOK'
    BY <1>4 DEF Delete, Calls, Counts, queue, FeedInv, Shapes, EventsOK, EventT
  <1>5. ASSUME NEW f \in Files, Cool(f) PROVE EventsOK'
    BY <1>5 DEF Cool, kernel, queue, FeedInv, Shapes, EventsOK
  <1>6. ASSUME NEW e \in events, IntakeSkips(e) PROVE EventsOK'
    BY <1>6 DEF IntakeSkips, Read, FeedInv, Shapes, EventsOK, EventT
  <1>7. ASSUME NEW e \in events, IntakeQueues(e) PROVE EventsOK'
    BY <1>7 DEF IntakeQueues, Read, FeedInv, Shapes, EventsOK, EventT
  <1>8. ASSUME NEW e \in events, IntakeAsksChurn(e) PROVE EventsOK'
    BY <1>8 DEF IntakeAsksChurn, Read, ChurnTryQueue, FeedInv, Shapes,
       EventsOK, EventT
  <1>9. ASSUME IntakePush PROVE EventsOK'
    BY <1>9 DEF IntakePush, kernel, history, FeedInv, Shapes, EventsOK
  <1>10. ASSUME NoteOverflow PROVE EventsOK'
    BY <1>10 DEF NoteOverflow, queue, FeedInv, Shapes, EventsOK
  <1>11. ASSUME RequestCatchup PROVE EventsOK'
    BY <1>11 DEF RequestCatchup, kernel, queue, history, FeedInv, Shapes,
       EventsOK
  <1>12. ASSUME ChurnFlush PROVE EventsOK'
    BY <1>12 DEF ChurnFlush, kernel, queue, FeedInv, Shapes, EventsOK
  <1>13. ASSUME FlushPush PROVE EventsOK'
    BY <1>13 DEF FlushPush, kernel, history, FeedInv, Shapes, EventsOK
  <1>14. ASSUME SweepStart PROVE EventsOK'
    BY <1>14 DEF SweepStart, kernel, queue, history, KeepsTheNote, FeedInv,
       Shapes, EventsOK
  <1>15. ASSUME NEW d \in Dirs, SweepDir(d) PROVE EventsOK'
    BY <1>15 DEF SweepDir, kernel, history, FeedInv, Shapes, EventsOK
  <1>16. ASSUME SweepFlush PROVE EventsOK'
    BY <1>16 DEF SweepFlush, kernel, FeedInv, Shapes, EventsOK
  <1>17. ASSUME SweepFinish PROVE EventsOK'
    BY <1>17 DEF SweepFinish, RequestKept, kernel, queue, FeedInv, Shapes,
       EventsOK
  <1>18. ASSUME NEW f \in Files, Scan(f) PROVE EventsOK'
    BY <1>18 DEF Scan, kernel, FeedInv, Shapes, EventsOK
  <1>19. ASSUME Close PROVE EventsOK'
    BY <1>19 DEF Close, Counts, queue, FeedInv, Shapes, EventsOK, EventT
  <1>20. ASSUME Restart PROVE EventsOK'
    BY <1>20 DEF Restart, NextGeneration, NewHandle, SameHandle, FeedInv, Shapes,
       EventsOK, EventT
  <1>21. ASSUME Crash PROVE EventsOK'
    BY <1>21 DEF Crash, Counts, NextGeneration, NewHandle, FeedInv, Shapes, EventsOK,
       EventT
  <1>22. ASSUME DogStep PROVE EventsOK'
    BY <1>22, DogWritesOnly DEF FeedInv, Shapes, EventsOK
  <1>23. CASE UNCHANGED vars
    BY <1>23 DEF vars, FeedInv, Shapes, EventsOK
  <1> QED BY <1>1, <1>2, <1>3, <1>4, <1>5, <1>6, <1>7, <1>8, <1>9, <1>10, <1>11,
             <1>12, <1>13, <1>14, <1>15, <1>16, <1>17, <1>18, <1>19, <1>20, <1>21,
             <1>22, <1>23 DEF Next, IntakeStep, HousekeepingStep, SweepStep

(* The intake is at one of its points.                                     *)
LEMMA IntakeOKStays ==
    ASSUME FeedInv, [Next]_vars
    PROVE  IntakeOK'
  <1>1. ASSUME NEW f \in Files, Write(f) PROVE IntakeOK'
    BY <1>1 DEF Write, Calls, Counts, Reported, queue, FeedInv, Shapes, IntakeOK
  <1>2. ASSUME NEW f \in Files, Open(f) PROVE IntakeOK'
    BY <1>2 DEF Open, Calls, Counts, queue, FeedInv, Shapes, IntakeOK
  <1>3. ASSUME NEW f \in Files, EngineCall(f) PROVE IntakeOK'
    BY <1>3 DEF EngineCall, Calls, Counts, queue, FeedInv, Shapes, IntakeOK
  <1>4. ASSUME NEW f \in Files, Delete(f) PROVE IntakeOK'
    BY <1>4 DEF Delete, Calls, Counts, queue, FeedInv, Shapes, IntakeOK
  <1>5. ASSUME NEW f \in Files, Cool(f) PROVE IntakeOK'
    BY <1>5 DEF Cool, kernel, queue, FeedInv, Shapes, IntakeOK
  <1>6. ASSUME NEW e \in events, IntakeSkips(e) PROVE IntakeOK'
    BY <1>6 DEF IntakeSkips, Read, FeedInv, Shapes, IntakeOK
  <1>7. ASSUME NEW e \in events, IntakeQueues(e) PROVE IntakeOK'
    BY <1>7 DEF IntakeQueues, Read, FeedInv, Shapes, IntakeOK
  <1>8. ASSUME NEW e \in events, IntakeAsksChurn(e) PROVE IntakeOK'
    BY <1>8 DEF IntakeAsksChurn, Read, ChurnTryQueue, FeedInv, Shapes,
       IntakeOK, IntakeT, EventsOK, EventT, Idle
  <1>9. ASSUME IntakePush PROVE IntakeOK'
    BY <1>9 DEF IntakePush, kernel, history, FeedInv, Shapes, IntakeOK,
       IntakeT, EventsOK, EventT, Idle
  <1>10. ASSUME NoteOverflow PROVE IntakeOK'
    BY <1>10 DEF NoteOverflow, queue, FeedInv, Shapes, IntakeOK, IntakeT,
       EventsOK, EventT, Idle
  <1>11. ASSUME RequestCatchup PROVE IntakeOK'
    BY <1>11 DEF RequestCatchup, kernel, queue, history, FeedInv, Shapes,
       IntakeOK, IntakeT, EventsOK, EventT, Idle
  <1>12. ASSUME ChurnFlush PROVE IntakeOK'
    BY <1>12 DEF ChurnFlush, kernel, queue, FeedInv, Shapes, IntakeOK
  <1>13. ASSUME FlushPush PROVE IntakeOK'
    BY <1>13 DEF FlushPush, kernel, history, FeedInv, Shapes, IntakeOK
  <1>14. ASSUME SweepStart PROVE IntakeOK'
    BY <1>14 DEF SweepStart, kernel, queue, history, KeepsTheNote, FeedInv,
       Shapes, IntakeOK
  <1>15. ASSUME NEW d \in Dirs, SweepDir(d) PROVE IntakeOK'
    BY <1>15 DEF SweepDir, kernel, history, FeedInv, Shapes, IntakeOK
  <1>16. ASSUME SweepFlush PROVE IntakeOK'
    BY <1>16 DEF SweepFlush, kernel, FeedInv, Shapes, IntakeOK
  <1>17. ASSUME SweepFinish PROVE IntakeOK'
    BY <1>17 DEF SweepFinish, RequestKept, kernel, queue, FeedInv, Shapes,
       IntakeOK
  <1>18. ASSUME NEW f \in Files, Scan(f) PROVE IntakeOK'
    BY <1>18 DEF Scan, kernel, FeedInv, Shapes, IntakeOK
  <1>19. ASSUME Close PROVE IntakeOK'
    BY <1>19 DEF Close, Counts, queue, FeedInv, Shapes, IntakeOK
  <1>20. ASSUME Restart PROVE IntakeOK'
    BY <1>20 DEF Restart, NextGeneration, NewHandle, SameHandle, FeedInv, Shapes,
       IntakeOK, IntakeT, EventsOK, EventT, Idle
  <1>21. ASSUME Crash PROVE IntakeOK'
    BY <1>21 DEF Crash, Counts, NextGeneration, NewHandle, FeedInv, Shapes, IntakeOK,
       IntakeT, EventsOK, EventT, Idle
  <1>22. ASSUME DogStep PROVE IntakeOK'
    BY <1>22, DogWritesOnly DEF FeedInv, Shapes, IntakeOK
  <1>23. CASE UNCHANGED vars
    BY <1>23 DEF vars, FeedInv, Shapes, IntakeOK
  <1> QED BY <1>1, <1>2, <1>3, <1>4, <1>5, <1>6, <1>7, <1>8, <1>9, <1>10, <1>11,
             <1>12, <1>13, <1>14, <1>15, <1>16, <1>17, <1>18, <1>19, <1>20, <1>21,
             <1>22, <1>23 DEF Next, IntakeStep, HousekeepingStep, SweepStep

(* The churn table has an entry per file.                                  *)
LEMMA TableOKStays ==
    ASSUME FeedInv, [Next]_vars
    PROVE  TableOK'
  <1>1. ASSUME NEW f \in Files, Write(f) PROVE TableOK'
    BY <1>1 DEF Write, Calls, Counts, Reported, queue, FeedInv, Shapes, TableOK
  <1>2. ASSUME NEW f \in Files, Open(f) PROVE TableOK'
    BY <1>2 DEF Open, Calls, Counts, queue, FeedInv, Shapes, TableOK
  <1>3. ASSUME NEW f \in Files, EngineCall(f) PROVE TableOK'
    BY <1>3 DEF EngineCall, Calls, Counts, queue, FeedInv, Shapes, TableOK
  <1>4. ASSUME NEW f \in Files, Delete(f) PROVE TableOK'
    BY <1>4 DEF Delete, Calls, Counts, queue, FeedInv, Shapes, TableOK
  <1>5. ASSUME NEW f \in Files, Cool(f) PROVE TableOK'
    BY <1>5 DEF Cool, kernel, queue, FeedInv, Shapes, TableOK, EntryT,
       NoEntries, NoEntry, Fresh, Flushed, NoGrants
  <1>6. ASSUME NEW e \in events, IntakeSkips(e) PROVE TableOK'
    BY <1>6 DEF IntakeSkips, Read, FeedInv, Shapes, TableOK
  <1>7. ASSUME NEW e \in events, IntakeQueues(e) PROVE TableOK'
    BY <1>7 DEF IntakeQueues, Read, FeedInv, Shapes, TableOK
  <1>8. ASSUME NEW e \in events, IntakeAsksChurn(e) PROVE TableOK'
    <2>1. e.file \in Files
      BY DEF FeedInv, Shapes, EventsOK, EventT
    <2>2. Table \in [Files -> EntryT] /\ Grants \in [Files -> Nat]
      BY DEF Table, Grants, NoEntries, NoEntry, NoGrants, FeedInv, Shapes, TableOK, EntryT
    <2>3. ChurnTryQueue(e.file)
      BY <1>8 DEF IntakeAsksChurn
    <2>4. CASE Table[e.file].cooling
      <3>1. churn' = [Table EXCEPT ![e.file].dirty = TRUE] /\ grants' = Grants
        BY <2>3, <2>4 DEF ChurnTryQueue
      <3> QED BY <2>1, <2>2, <3>1 DEF TableOK, EntryT
    <2>5. CASE ~Table[e.file].cooling
      <3>1. /\ churn' = [Table EXCEPT ![e.file] = Fresh]
            /\ grants' = [Grants EXCEPT ![e.file] = @ + 1]
        BY <2>3, <2>5 DEF ChurnTryQueue
      <3>2. Fresh \in EntryT
        BY DEF Fresh, EntryT
      <3> QED BY <2>1, <2>2, <3>1, <3>2 DEF TableOK
    <2> QED BY <2>4, <2>5
  <1>9. ASSUME IntakePush PROVE TableOK'
    BY <1>9 DEF IntakePush, kernel, history, FeedInv, Shapes, TableOK
  <1>10. ASSUME NoteOverflow PROVE TableOK'
    BY <1>10 DEF NoteOverflow, queue, FeedInv, Shapes, TableOK
  <1>11. ASSUME RequestCatchup PROVE TableOK'
    BY <1>11 DEF RequestCatchup, kernel, queue, history, FeedInv, Shapes,
       TableOK
  <1>12. ASSUME ChurnFlush PROVE TableOK'
    BY <1>12 DEF ChurnFlush, kernel, queue, FeedInv, Shapes, TableOK, EntryT,
       NoEntries, NoEntry, Fresh, Flushed, NoGrants
  <1>13. ASSUME FlushPush PROVE TableOK'
    BY <1>13 DEF FlushPush, kernel, history, FeedInv, Shapes, TableOK
  <1>14. ASSUME SweepStart PROVE TableOK'
    BY <1>14 DEF SweepStart, kernel, queue, history, KeepsTheNote, FeedInv,
       Shapes, TableOK
  <1>15. ASSUME NEW d \in Dirs, SweepDir(d) PROVE TableOK'
    BY <1>15 DEF SweepDir, kernel, history, FeedInv, Shapes, TableOK
  <1>16. ASSUME SweepFlush PROVE TableOK'
    BY <1>16 DEF SweepFlush, kernel, FeedInv, Shapes, TableOK
  <1>17. ASSUME SweepFinish PROVE TableOK'
    BY <1>17 DEF SweepFinish, RequestKept, kernel, queue, FeedInv, Shapes,
       TableOK
  <1>18. ASSUME NEW f \in Files, Scan(f) PROVE TableOK'
    BY <1>18 DEF Scan, kernel, FeedInv, Shapes, TableOK
  <1>19. ASSUME Close PROVE TableOK'
    BY <1>19 DEF Close, Counts, queue, FeedInv, Shapes, TableOK
  <1>20. ASSUME Restart PROVE TableOK'
    BY <1>20 DEF Restart, NextGeneration, NewHandle, SameHandle, FeedInv, Shapes,
       TableOK, EntryT, NoEntries, NoEntry, Fresh, Flushed, NoGrants
  <1>21. ASSUME Crash PROVE TableOK'
    BY <1>21 DEF Crash, Counts, NextGeneration, NewHandle, FeedInv, Shapes, TableOK,
       EntryT, NoEntries, NoEntry, Fresh, Flushed, NoGrants
  <1>22. ASSUME DogStep PROVE TableOK'
    BY <1>22, DogWritesOnly DEF FeedInv, Shapes, TableOK
  <1>23. CASE UNCHANGED vars
    BY <1>23 DEF vars, FeedInv, Shapes, TableOK
  <1> QED BY <1>1, <1>2, <1>3, <1>4, <1>5, <1>6, <1>7, <1>8, <1>9, <1>10, <1>11,
             <1>12, <1>13, <1>14, <1>15, <1>16, <1>17, <1>18, <1>19, <1>20, <1>21,
             <1>22, <1>23 DEF Next, IntakeStep, HousekeepingStep, SweepStep

(* The sweep is at one of its points.                                      *)
LEMMA SweepOKStays ==
    ASSUME FeedInv, [Next]_vars
    PROVE  SweepOK'
  <1>1. ASSUME NEW f \in Files, Write(f) PROVE SweepOK'
    BY <1>1 DEF Write, Calls, Counts, Reported, queue, FeedInv, Shapes, SweepOK
  <1>2. ASSUME NEW f \in Files, Open(f) PROVE SweepOK'
    BY <1>2 DEF Open, Calls, Counts, queue, FeedInv, Shapes, SweepOK
  <1>3. ASSUME NEW f \in Files, EngineCall(f) PROVE SweepOK'
    BY <1>3 DEF EngineCall, Calls, Counts, queue, FeedInv, Shapes, SweepOK
  <1>4. ASSUME NEW f \in Files, Delete(f) PROVE SweepOK'
    BY <1>4 DEF Delete, Calls, Counts, queue, FeedInv, Shapes, SweepOK
  <1>5. ASSUME NEW f \in Files, Cool(f) PROVE SweepOK'
    BY <1>5 DEF Cool, kernel, queue, FeedInv, Shapes, SweepOK
  <1>6. ASSUME NEW e \in events, IntakeSkips(e) PROVE SweepOK'
    BY <1>6 DEF IntakeSkips, Read, FeedInv, Shapes, SweepOK
  <1>7. ASSUME NEW e \in events, IntakeQueues(e) PROVE SweepOK'
    BY <1>7 DEF IntakeQueues, Read, FeedInv, Shapes, SweepOK
  <1>8. ASSUME NEW e \in events, IntakeAsksChurn(e) PROVE SweepOK'
    BY <1>8 DEF IntakeAsksChurn, Read, ChurnTryQueue, FeedInv, Shapes, SweepOK
  <1>9. ASSUME IntakePush PROVE SweepOK'
    BY <1>9 DEF IntakePush, kernel, history, FeedInv, Shapes, SweepOK
  <1>10. ASSUME NoteOverflow PROVE SweepOK'
    BY <1>10 DEF NoteOverflow, queue, FeedInv, Shapes, SweepOK
  <1>11. ASSUME RequestCatchup PROVE SweepOK'
    BY <1>11 DEF RequestCatchup, kernel, queue, history, FeedInv, Shapes,
       SweepOK
  <1>12. ASSUME ChurnFlush PROVE SweepOK'
    BY <1>12 DEF ChurnFlush, kernel, queue, FeedInv, Shapes, SweepOK
  <1>13. ASSUME FlushPush PROVE SweepOK'
    BY <1>13 DEF FlushPush, kernel, history, FeedInv, Shapes, SweepOK
  <1>14. ASSUME SweepStart PROVE SweepOK'
    BY <1>14 DEF SweepStart, kernel, queue, history, KeepsTheNote, FeedInv,
       Shapes, SweepOK, SweepT, Sleep
  <1>15. ASSUME NEW d \in Dirs, SweepDir(d) PROVE SweepOK'
    BY <1>15, SweepReads DEF SweepOK
  <1>16. ASSUME SweepFlush PROVE SweepOK'
    BY <1>16 DEF SweepFlush, kernel, FeedInv, Shapes, SweepOK, SweepT, Sleep
  <1>17. ASSUME SweepFinish PROVE SweepOK'
    BY <1>17 DEF SweepFinish, RequestKept, kernel, queue, FeedInv, Shapes,
       SweepOK, SweepT, Sleep
  <1>18. ASSUME NEW f \in Files, Scan(f) PROVE SweepOK'
    BY <1>18 DEF Scan, kernel, FeedInv, Shapes, SweepOK
  <1>19. ASSUME Close PROVE SweepOK'
    BY <1>19 DEF Close, Counts, queue, FeedInv, Shapes, SweepOK
  <1>20. ASSUME Restart PROVE SweepOK'
    BY <1>20 DEF Restart, NextGeneration, NewHandle, SameHandle, FeedInv, Shapes,
       SweepOK, SweepT, Sleep
  <1>21. ASSUME Crash PROVE SweepOK'
    BY <1>21 DEF Crash, Counts, NextGeneration, NewHandle, FeedInv, Shapes, SweepOK,
       SweepT, Sleep
  <1>22. ASSUME DogStep PROVE SweepOK'
    BY <1>22, DogWritesOnly DEF FeedInv, Shapes, SweepOK
  <1>23. CASE UNCHANGED vars
    BY <1>23 DEF vars, FeedInv, Shapes, SweepOK
  <1> QED BY <1>1, <1>2, <1>3, <1>4, <1>5, <1>6, <1>7, <1>8, <1>9, <1>10, <1>11,
             <1>12, <1>13, <1>14, <1>15, <1>16, <1>17, <1>18, <1>19, <1>20, <1>21,
             <1>22, <1>23 DEF Next, IntakeStep, HousekeepingStep, SweepStep

(* Marks are set on watchable mounts.                                      *)
LEMMA MarksOKStays ==
    ASSUME FeedInv, [Next]_vars
    PROVE  MarksOK'
  <1>1. ASSUME NEW f \in Files, Write(f) PROVE MarksOK'
    BY <1>1 DEF Write, Calls, Counts, Reported, queue, FeedInv, MarksOK
  <1>2. ASSUME NEW f \in Files, Open(f) PROVE MarksOK'
    BY <1>2 DEF Open, Calls, Counts, queue, FeedInv, MarksOK
  <1>3. ASSUME NEW f \in Files, EngineCall(f) PROVE MarksOK'
    BY <1>3 DEF EngineCall, Calls, Counts, queue, FeedInv, MarksOK
  <1>4. ASSUME NEW f \in Files, Delete(f) PROVE MarksOK'
    BY <1>4 DEF Delete, Calls, Counts, queue, FeedInv, MarksOK
  <1>5. ASSUME NEW f \in Files, Cool(f) PROVE MarksOK'
    BY <1>5 DEF Cool, kernel, queue, FeedInv, MarksOK
  <1>6. ASSUME NEW e \in events, IntakeSkips(e) PROVE MarksOK'
    BY <1>6 DEF IntakeSkips, Read, FeedInv, MarksOK
  <1>7. ASSUME NEW e \in events, IntakeQueues(e) PROVE MarksOK'
    BY <1>7 DEF IntakeQueues, Read, FeedInv, MarksOK
  <1>8. ASSUME NEW e \in events, IntakeAsksChurn(e) PROVE MarksOK'
    BY <1>8 DEF IntakeAsksChurn, Read, ChurnTryQueue, FeedInv, MarksOK
  <1>9. ASSUME IntakePush PROVE MarksOK'
    BY <1>9 DEF IntakePush, kernel, history, FeedInv, MarksOK
  <1>10. ASSUME NoteOverflow PROVE MarksOK'
    BY <1>10 DEF NoteOverflow, queue, FeedInv, MarksOK
  <1>11. ASSUME RequestCatchup PROVE MarksOK'
    BY <1>11 DEF RequestCatchup, kernel, queue, history, FeedInv, MarksOK
  <1>12. ASSUME ChurnFlush PROVE MarksOK'
    BY <1>12 DEF ChurnFlush, kernel, queue, FeedInv, MarksOK
  <1>13. ASSUME FlushPush PROVE MarksOK'
    BY <1>13 DEF FlushPush, kernel, history, FeedInv, MarksOK
  <1>14. ASSUME SweepStart PROVE MarksOK'
    BY <1>14 DEF SweepStart, kernel, queue, history, KeepsTheNote, FeedInv,
       MarksOK
  <1>15. ASSUME NEW d \in Dirs, SweepDir(d) PROVE MarksOK'
    BY <1>15 DEF SweepDir, kernel, history, FeedInv, MarksOK
  <1>16. ASSUME SweepFlush PROVE MarksOK'
    BY <1>16 DEF SweepFlush, kernel, FeedInv, MarksOK
  <1>17. ASSUME SweepFinish PROVE MarksOK'
    BY <1>17 DEF SweepFinish, RequestKept, kernel, queue, FeedInv, MarksOK
  <1>18. ASSUME NEW f \in Files, Scan(f) PROVE MarksOK'
    BY <1>18 DEF Scan, kernel, FeedInv, MarksOK
  <1>19. ASSUME Close PROVE MarksOK'
    BY <1>19 DEF Close, Counts, queue, FeedInv, MarksOK
  <1>20. ASSUME Restart PROVE MarksOK'
    BY <1>20 DEF Restart, NextGeneration, NewHandle, SameHandle, FeedInv, MarksOK
  <1>21. ASSUME Crash PROVE MarksOK'
    BY <1>21 DEF Crash, Counts, NextGeneration, NewHandle, FeedInv, MarksOK
  <1>22. ASSUME DogStep PROVE MarksOK'
    BY <1>22, DogWritesOnly DEF FeedInv, MarksOK
  <1>23. CASE UNCHANGED vars
    BY <1>23 DEF vars, FeedInv, MarksOK
  <1> QED BY <1>1, <1>2, <1>3, <1>4, <1>5, <1>6, <1>7, <1>8, <1>9, <1>10, <1>11,
             <1>12, <1>13, <1>14, <1>15, <1>16, <1>17, <1>18, <1>19, <1>20, <1>21,
             <1>22, <1>23 DEF Next, IntakeStep, HousekeepingStep, SweepStep

(* No excluded file waits for a scan.                                      *)
LEMMA WantedStays ==
    ASSUME FeedInv, [Next]_vars
    PROVE  Wanted'
  <1>1. ASSUME NEW f \in Files, Write(f) PROVE Wanted'
    BY <1>1 DEF Write, Calls, Counts, Reported, queue, FeedInv, Wanted
  <1>2. ASSUME NEW f \in Files, Open(f) PROVE Wanted'
    BY <1>2 DEF Open, Calls, Counts, queue, FeedInv, Wanted
  <1>3. ASSUME NEW f \in Files, EngineCall(f) PROVE Wanted'
    BY <1>3 DEF EngineCall, Calls, Counts, queue, FeedInv, Wanted
  <1>4. ASSUME NEW f \in Files, Delete(f) PROVE Wanted'
    BY <1>4 DEF Delete, Calls, Counts, queue, FeedInv, Wanted
  <1>5. ASSUME NEW f \in Files, Cool(f) PROVE Wanted'
    BY <1>5 DEF Cool, kernel, queue, FeedInv, Wanted
  <1>6. ASSUME NEW e \in events, IntakeSkips(e) PROVE Wanted'
    BY <1>6 DEF IntakeSkips, Read, FeedInv, Wanted
  <1>7. ASSUME NEW e \in events, IntakeQueues(e) PROVE Wanted'
    BY <1>7 DEF IntakeQueues, Read, FeedInv, Wanted
  <1>8. ASSUME NEW e \in events, IntakeAsksChurn(e) PROVE Wanted'
    BY <1>8 DEF IntakeAsksChurn, Read, ChurnTryQueue, FeedInv, Wanted
  <1>9. ASSUME IntakePush PROVE Wanted'
    BY <1>9 DEF IntakePush, kernel, history, FeedInv, Wanted
  <1>10. ASSUME NoteOverflow PROVE Wanted'
    BY <1>10 DEF NoteOverflow, queue, FeedInv, Wanted
  <1>11. ASSUME RequestCatchup PROVE Wanted'
    BY <1>11 DEF RequestCatchup, kernel, queue, history, FeedInv, Wanted
  <1>12. ASSUME ChurnFlush PROVE Wanted'
    BY <1>12 DEF ChurnFlush, kernel, queue, FeedInv, Wanted
  <1>13. ASSUME FlushPush PROVE Wanted'
    BY <1>13 DEF FlushPush, kernel, history, FeedInv, Wanted
  <1>14. ASSUME SweepStart PROVE Wanted'
    BY <1>14 DEF SweepStart, kernel, queue, history, KeepsTheNote, FeedInv,
       Wanted
  <1>15. ASSUME NEW d \in Dirs, SweepDir(d) PROVE Wanted'
    BY <1>15 DEF SweepDir, kernel, history, FeedInv, Wanted
  <1>16. ASSUME SweepFlush PROVE Wanted'
    BY <1>16 DEF SweepFlush, kernel, FeedInv, Wanted
  <1>17. ASSUME SweepFinish PROVE Wanted'
    BY <1>17 DEF SweepFinish, RequestKept, kernel, queue, FeedInv, Wanted
  <1>18. ASSUME NEW f \in Files, Scan(f) PROVE Wanted'
    BY <1>18 DEF Scan, kernel, FeedInv, Wanted
  <1>19. ASSUME Close PROVE Wanted'
    BY <1>19 DEF Close, Counts, queue, FeedInv, Wanted
  <1>20. ASSUME Restart PROVE Wanted'
    BY <1>20 DEF Restart, NextGeneration, NewHandle, SameHandle, FeedInv, Wanted
  <1>21. ASSUME Crash PROVE Wanted'
    BY <1>21 DEF Crash, Counts, NextGeneration, NewHandle, FeedInv, Wanted
  <1>22. ASSUME DogStep PROVE Wanted'
    BY <1>22, DogWritesOnly DEF FeedInv, Wanted
  <1>23. CASE UNCHANGED vars
    BY <1>23 DEF vars, FeedInv, Wanted
  <1> QED BY <1>1, <1>2, <1>3, <1>4, <1>5, <1>6, <1>7, <1>8, <1>9, <1>10, <1>11,
             <1>12, <1>13, <1>14, <1>15, <1>16, <1>17, <1>18, <1>19, <1>20, <1>21,
             <1>22, <1>23 DEF Next, IntakeStep, HousekeepingStep, SweepStep

(* A generation is closed by the intake itself, with empty hands.          *)
LEMMA HandsStays ==
    ASSUME FeedInv, [Next]_vars
    PROVE  Hands'
  <1>1. ASSUME NEW f \in Files, Write(f) PROVE Hands'
    BY <1>1 DEF Write, Calls, Counts, Reported, queue, FeedInv, Hands
  <1>2. ASSUME NEW f \in Files, Open(f) PROVE Hands'
    BY <1>2 DEF Open, Calls, Counts, queue, FeedInv, Hands
  <1>3. ASSUME NEW f \in Files, EngineCall(f) PROVE Hands'
    BY <1>3 DEF EngineCall, Calls, Counts, queue, FeedInv, Hands
  <1>4. ASSUME NEW f \in Files, Delete(f) PROVE Hands'
    BY <1>4 DEF Delete, Calls, Counts, queue, FeedInv, Hands
  <1>5. ASSUME NEW f \in Files, Cool(f) PROVE Hands'
    BY <1>5 DEF Cool, kernel, queue, FeedInv, Hands
  <1>6. ASSUME NEW e \in events, IntakeSkips(e) PROVE Hands'
    BY <1>6 DEF IntakeSkips, Read, FeedInv, Hands
  <1>7. ASSUME NEW e \in events, IntakeQueues(e) PROVE Hands'
    BY <1>7 DEF IntakeQueues, Read, FeedInv, Hands
  <1>8. ASSUME NEW e \in events, IntakeAsksChurn(e) PROVE Hands'
    <2>1. e.file \in Files
      BY DEF FeedInv, Shapes, EventsOK, EventT
    <2>2. /\ \/ intake' = Idle
             \/ intake' = [at |-> "push", file |-> e.file]
          /\ UNCHANGED exit
      BY <1>8 DEF IntakeAsksChurn, ChurnTryQueue, Read
    <2> QED BY <2>1, <2>2 DEF Hands, Idle
  <1>9. ASSUME IntakePush PROVE Hands'
    BY <1>9 DEF IntakePush, kernel, history, FeedInv, Shapes, Hands, Idle
  <1>10. ASSUME NoteOverflow PROVE Hands'
    BY <1>10 DEF NoteOverflow, queue, FeedInv, Shapes, Hands, Idle
  <1>11. ASSUME RequestCatchup PROVE Hands'
    BY <1>11 DEF RequestCatchup, kernel, queue, history, FeedInv, Shapes,
       Hands, Idle
  <1>12. ASSUME ChurnFlush PROVE Hands'
    BY <1>12 DEF ChurnFlush, kernel, queue, FeedInv, Hands
  <1>13. ASSUME FlushPush PROVE Hands'
    BY <1>13 DEF FlushPush, kernel, history, FeedInv, Hands
  <1>14. ASSUME SweepStart PROVE Hands'
    BY <1>14 DEF SweepStart, kernel, queue, history, KeepsTheNote, FeedInv,
       Hands
  <1>15. ASSUME NEW d \in Dirs, SweepDir(d) PROVE Hands'
    BY <1>15 DEF SweepDir, kernel, history, FeedInv, Hands
  <1>16. ASSUME SweepFlush PROVE Hands'
    BY <1>16 DEF SweepFlush, kernel, FeedInv, Hands
  <1>17. ASSUME SweepFinish PROVE Hands'
    BY <1>17 DEF SweepFinish, RequestKept, kernel, queue, FeedInv, Hands
  <1>18. ASSUME NEW f \in Files, Scan(f) PROVE Hands'
    BY <1>18 DEF Scan, kernel, FeedInv, Hands
  <1>19. ASSUME Close PROVE Hands'
    BY <1>19 DEF Close, Counts, queue, FeedInv, Shapes, Hands, Idle
  <1>20. ASSUME Restart PROVE Hands'
    BY <1>20 DEF Restart, NextGeneration, NewHandle, SameHandle, FeedInv, Shapes, Hands,
       Idle
  <1>21. ASSUME Crash PROVE Hands'
    BY <1>21 DEF Crash, Counts, NextGeneration, NewHandle, FeedInv, Shapes, Hands, Idle
  <1>22. ASSUME DogStep PROVE Hands'
    BY <1>22, DogWritesOnly DEF FeedInv, Hands
  <1>23. CASE UNCHANGED vars
    BY <1>23 DEF vars, FeedInv, Hands
  <1> QED BY <1>1, <1>2, <1>3, <1>4, <1>5, <1>6, <1>7, <1>8, <1>9, <1>10, <1>11,
             <1>12, <1>13, <1>14, <1>15, <1>16, <1>17, <1>18, <1>19, <1>20, <1>21,
             <1>22, <1>23 DEF Next, IntakeStep, HousekeepingStep, SweepStep

(* The sweep leaves nothing in its hands when it ends.                     *)
LEMMA WalksStays ==
    ASSUME FeedInv, [Next]_vars
    PROVE  Walks'
  <1>1. ASSUME NEW f \in Files, Write(f) PROVE Walks'
    BY <1>1 DEF Write, Calls, Counts, Reported, queue, FeedInv, Walks
  <1>2. ASSUME NEW f \in Files, Open(f) PROVE Walks'
    BY <1>2 DEF Open, Calls, Counts, queue, FeedInv, Walks
  <1>3. ASSUME NEW f \in Files, EngineCall(f) PROVE Walks'
    BY <1>3 DEF EngineCall, Calls, Counts, queue, FeedInv, Walks
  <1>4. ASSUME NEW f \in Files, Delete(f) PROVE Walks'
    BY <1>4 DEF Delete, Calls, Counts, queue, FeedInv, Walks
  <1>5. ASSUME NEW f \in Files, Cool(f) PROVE Walks'
    BY <1>5 DEF Cool, kernel, queue, FeedInv, Walks
  <1>6. ASSUME NEW e \in events, IntakeSkips(e) PROVE Walks'
    BY <1>6 DEF IntakeSkips, Read, FeedInv, Walks
  <1>7. ASSUME NEW e \in events, IntakeQueues(e) PROVE Walks'
    BY <1>7 DEF IntakeQueues, Read, FeedInv, Walks
  <1>8. ASSUME NEW e \in events, IntakeAsksChurn(e) PROVE Walks'
    BY <1>8 DEF IntakeAsksChurn, Read, ChurnTryQueue, FeedInv, Walks
  <1>9. ASSUME IntakePush PROVE Walks'
    BY <1>9 DEF IntakePush, kernel, history, FeedInv, Walks
  <1>10. ASSUME NoteOverflow PROVE Walks'
    BY <1>10 DEF NoteOverflow, queue, FeedInv, Walks
  <1>11. ASSUME RequestCatchup PROVE Walks'
    BY <1>11 DEF RequestCatchup, kernel, queue, history, FeedInv, Walks
  <1>12. ASSUME ChurnFlush PROVE Walks'
    BY <1>12 DEF ChurnFlush, kernel, queue, FeedInv, Walks
  <1>13. ASSUME FlushPush PROVE Walks'
    BY <1>13 DEF FlushPush, kernel, history, FeedInv, Walks
  <1>14. ASSUME SweepStart PROVE Walks'
    BY <1>14 DEF SweepStart, kernel, queue, history, KeepsTheNote, FeedInv,
       Shapes, SweepOK, SweepT, Walks, Sleep
  <1>15. ASSUME NEW d \in Dirs, SweepDir(d) PROVE Walks'
    BY <1>15, SweepReads DEF Walks
  <1>16. ASSUME SweepFlush PROVE Walks'
    BY <1>16 DEF SweepFlush, kernel, FeedInv, Shapes, SweepOK, SweepT, Walks,
       Sleep
  <1>17. ASSUME SweepFinish PROVE Walks'
    BY <1>17 DEF SweepFinish, RequestKept, kernel, queue, FeedInv, Shapes,
       SweepOK, SweepT, Walks, Sleep
  <1>18. ASSUME NEW f \in Files, Scan(f) PROVE Walks'
    BY <1>18 DEF Scan, kernel, FeedInv, Walks
  <1>19. ASSUME Close PROVE Walks'
    BY <1>19 DEF Close, Counts, queue, FeedInv, Walks
  <1>20. ASSUME Restart PROVE Walks'
    BY <1>20 DEF Restart, NextGeneration, NewHandle, SameHandle, FeedInv, Shapes,
       SweepOK, SweepT, Walks, Sleep
  <1>21. ASSUME Crash PROVE Walks'
    BY <1>21 DEF Crash, Counts, NextGeneration, NewHandle, FeedInv, Shapes, SweepOK,
       SweepT, Walks, Sleep
  <1>22. ASSUME DogStep PROVE Walks'
    BY <1>22, DogWritesOnly DEF FeedInv, Walks
  <1>23. CASE UNCHANGED vars
    BY <1>23 DEF vars, FeedInv, Walks
  <1> QED BY <1>1, <1>2, <1>3, <1>4, <1>5, <1>6, <1>7, <1>8, <1>9, <1>10, <1>11,
             <1>12, <1>13, <1>14, <1>15, <1>16, <1>17, <1>18, <1>19, <1>20, <1>21,
             <1>22, <1>23 DEF Next, IntakeStep, HousekeepingStep, SweepStep

(* The note is set before the request, and an end of a sweep that clears it *)
(* says whether one was due.                                               *)
LEMMA NoteTellsOfSweepStays ==
    ASSUME FeedInv, [Next]_vars
    PROVE  NoteTellsOfSweep'
  <1>1. ASSUME NEW f \in Files, Write(f) PROVE NoteTellsOfSweep'
    BY <1>1 DEF Write, Calls, Counts, Reported, queue, FeedInv, NoteTellsOfSweep,
       SweepDue
  <1>2. ASSUME NEW f \in Files, Open(f) PROVE NoteTellsOfSweep'
    BY <1>2 DEF Open, Calls, Counts, queue, FeedInv, NoteTellsOfSweep, SweepDue
  <1>3. ASSUME NEW f \in Files, EngineCall(f) PROVE NoteTellsOfSweep'
    BY <1>3 DEF EngineCall, Calls, Counts, queue, FeedInv, NoteTellsOfSweep, SweepDue
  <1>4. ASSUME NEW f \in Files, Delete(f) PROVE NoteTellsOfSweep'
    BY <1>4 DEF Delete, Calls, Counts, queue, FeedInv, NoteTellsOfSweep, SweepDue
  <1>5. ASSUME NEW f \in Files, Cool(f) PROVE NoteTellsOfSweep'
    BY <1>5 DEF Cool, kernel, queue, FeedInv, NoteTellsOfSweep, SweepDue
  <1>6. ASSUME NEW e \in events, IntakeSkips(e) PROVE NoteTellsOfSweep'
    BY <1>6 DEF IntakeSkips, Read, FeedInv, NoteTellsOfSweep, SweepDue
  <1>7. ASSUME NEW e \in events, IntakeQueues(e) PROVE NoteTellsOfSweep'
    BY <1>7 DEF IntakeQueues, Read, FeedInv, NoteTellsOfSweep, SweepDue
  <1>8. ASSUME NEW e \in events, IntakeAsksChurn(e) PROVE NoteTellsOfSweep'
    <2>1. /\ intake.at # "request" /\ intake'.at # "request"
          /\ UNCHANGED <<requested, sweep, exit, note, dog, wiped>>
      BY <1>8 DEF IntakeAsksChurn, ChurnTryQueue, Read, Idle
    <2> QED BY <2>1 DEF FeedInv, NoteTellsOfSweep, SweepDue
  <1>9. ASSUME IntakePush PROVE NoteTellsOfSweep'
    BY <1>9 DEF IntakePush, kernel, history, FeedInv, Shapes, FlagsOK, NoteTellsOfSweep,
       SweepDue, Hands, Idle, Sleep
  <1>10. ASSUME NoteOverflow PROVE NoteTellsOfSweep'
    BY <1>10 DEF NoteOverflow, queue, FeedInv, Shapes, FlagsOK, NoteTellsOfSweep,
       SweepDue, Hands, Idle, Sleep
  <1>11. ASSUME RequestCatchup PROVE NoteTellsOfSweep'
    BY <1>11 DEF RequestCatchup, kernel, queue, history, FeedInv, Shapes,
       FlagsOK, NoteTellsOfSweep, SweepDue, Hands, Idle, Sleep
  <1>12. ASSUME ChurnFlush PROVE NoteTellsOfSweep'
    BY <1>12 DEF ChurnFlush, kernel, queue, FeedInv, NoteTellsOfSweep, SweepDue
  <1>13. ASSUME FlushPush PROVE NoteTellsOfSweep'
    BY <1>13 DEF FlushPush, kernel, history, FeedInv, NoteTellsOfSweep, SweepDue
  <1>14. ASSUME SweepStart PROVE NoteTellsOfSweep'
    BY <1>14 DEF SweepStart, kernel, queue, history, KeepsTheNote, FeedInv,
       Shapes, FlagsOK, NoteTellsOfSweep, SweepDue, Hands, Idle, Sleep
  <1>15. ASSUME NEW d \in Dirs, SweepDir(d) PROVE NoteTellsOfSweep'
    <2>1. sweep.at = "walk" /\ sweep'.at = "walk"
      BY <1>15, SweepReads DEF SweepDir
    <2> QED BY <1>15, <2>1 DEF SweepDir, kernel, FeedInv, NoteTellsOfSweep, SweepDue
  <1>16. ASSUME SweepFlush PROVE NoteTellsOfSweep'
    BY <1>16 DEF SweepFlush, kernel, FeedInv, Shapes, FlagsOK, NoteTellsOfSweep,
       SweepDue, Hands, Idle, Sleep
  <1>17. ASSUME SweepFinish PROVE NoteTellsOfSweep'
    BY <1>17 DEF SweepFinish, RequestKept, kernel, queue, FeedInv, Shapes,
       FlagsOK, NoteTellsOfSweep, SweepDue, Hands, Idle, Sleep
  <1>18. ASSUME NEW f \in Files, Scan(f) PROVE NoteTellsOfSweep'
    BY <1>18 DEF Scan, kernel, FeedInv, NoteTellsOfSweep, SweepDue
  <1>19. ASSUME Close PROVE NoteTellsOfSweep'
    BY <1>19 DEF Close, Counts, queue, FeedInv, Shapes, FlagsOK, NoteTellsOfSweep,
       SweepDue, Hands, Idle, Sleep
  <1>20. ASSUME Restart PROVE NoteTellsOfSweep'
    BY <1>20 DEF Restart, NextGeneration, NewHandle, SameHandle, FeedInv, Shapes,
       FlagsOK, NoteTellsOfSweep, SweepDue, Hands, Idle, Sleep
  <1>21. ASSUME Crash PROVE NoteTellsOfSweep'
    BY <1>21 DEF Crash, Counts, NextGeneration, NewHandle, FeedInv, Shapes, FlagsOK,
       NoteTellsOfSweep, SweepDue, Hands, Idle, Sleep
  <1>22. ASSUME DogStep PROVE NoteTellsOfSweep'
    <2>1. /\ note' = FALSE /\ wiped' = (~exit /\ SweepDue)
          /\ UNCHANGED <<exit, requested, intake, sweep>>
      BY <1>22, DogWritesOnly
    <2>2. SweepDue' <=> SweepDue
      BY <2>1 DEF SweepDue
    <2>3. ~exit' /\ SweepDue' => wiped'
      BY <2>1, <2>2
    <2> QED BY <2>1, <2>3 DEF NoteTellsOfSweep
  <1>23. CASE UNCHANGED vars
    BY <1>23 DEF vars, FeedInv, NoteTellsOfSweep, SweepDue
  <1> QED BY <1>1, <1>2, <1>3, <1>4, <1>5, <1>6, <1>7, <1>8, <1>9, <1>10, <1>11,
             <1>12, <1>13, <1>14, <1>15, <1>16, <1>17, <1>18, <1>19, <1>20, <1>21,
             <1>22, <1>23 DEF Next, IntakeStep, HousekeepingStep, SweepStep

(* Only a path out of its cooldown is queued, and that begins a new one.   *)
LEMMA OnceStays ==
    ASSUME FeedInv, [Next]_vars
    PROVE  Once'
  <1>1. ASSUME NEW f \in Files, Write(f) PROVE Once'
    BY <1>1 DEF Write, Calls, Counts, Reported, queue, FeedInv, Once
  <1>2. ASSUME NEW f \in Files, Open(f) PROVE Once'
    BY <1>2 DEF Open, Calls, Counts, queue, FeedInv, Once
  <1>3. ASSUME NEW f \in Files, EngineCall(f) PROVE Once'
    BY <1>3 DEF EngineCall, Calls, Counts, queue, FeedInv, Once
  <1>4. ASSUME NEW f \in Files, Delete(f) PROVE Once'
    BY <1>4 DEF Delete, Calls, Counts, queue, FeedInv, Once
  <1>5. ASSUME NEW f \in Files, Cool(f) PROVE Once'
    BY <1>5 DEF Cool, kernel, queue, FeedInv, Shapes, TableOK, EntryT, Once,
       Marks, NoEntries, NoEntry, NoGrants, Fresh, Flushed, Due
  <1>6. ASSUME NEW e \in events, IntakeSkips(e) PROVE Once'
    BY <1>6 DEF IntakeSkips, Read, FeedInv, Once
  <1>7. ASSUME NEW e \in events, IntakeQueues(e) PROVE Once'
    BY <1>7 DEF IntakeQueues, Read, FeedInv, Once
  <1>8. ASSUME NEW e \in events, IntakeAsksChurn(e) PROVE Once'
    <2>1. e.file \in Files
      BY DEF FeedInv, Shapes, EventsOK, EventT
    <2>2. /\ Table \in [Files -> EntryT] /\ Grants \in [Files -> Nat]
          /\ \A f \in Files : Grants[f] <= 1 /\ (~Table[f].cooling => Grants[f] = 0)
      BY DEF Table, Grants, NoEntries, NoEntry, NoGrants, FeedInv, Shapes, TableOK,
         EntryT, Once
    <2>3. ChurnTryQueue(e.file)
      BY <1>8 DEF IntakeAsksChurn
    <2>4. CASE Table[e.file].cooling
      <3>1. churn' = [Table EXCEPT ![e.file].dirty = TRUE] /\ grants' = Grants
        BY <2>3, <2>4 DEF ChurnTryQueue
      <3>2. \A f \in Files : churn'[f].cooling = Table[f].cooling
        BY <2>1, <2>2, <3>1 DEF EntryT
      <3> QED BY <2>2, <3>1, <3>2 DEF Once
    <2>5. CASE ~Table[e.file].cooling
      <3>1. /\ churn' = [Table EXCEPT ![e.file] = Fresh]
            /\ grants' = [Grants EXCEPT ![e.file] = @ + 1]
        BY <2>3, <2>5 DEF ChurnTryQueue
      <3>2. Fresh.cooling /\ Grants[e.file] = 0
        BY <2>1, <2>2, <2>5 DEF Fresh
      <3> QED BY <2>1, <2>2, <3>1, <3>2 DEF Once
    <2> QED BY <2>4, <2>5
  <1>9. ASSUME IntakePush PROVE Once'
    BY <1>9 DEF IntakePush, kernel, history, FeedInv, Once
  <1>10. ASSUME NoteOverflow PROVE Once'
    BY <1>10 DEF NoteOverflow, queue, FeedInv, Once
  <1>11. ASSUME RequestCatchup PROVE Once'
    BY <1>11 DEF RequestCatchup, kernel, queue, history, FeedInv, Once
  <1>12. ASSUME ChurnFlush PROVE Once'
    BY <1>12 DEF ChurnFlush, kernel, queue, FeedInv, Shapes, TableOK, EntryT,
       Once, Marks, NoEntries, NoEntry, NoGrants, Fresh, Flushed, Due
  <1>13. ASSUME FlushPush PROVE Once'
    BY <1>13 DEF FlushPush, kernel, history, FeedInv, Once
  <1>14. ASSUME SweepStart PROVE Once'
    BY <1>14 DEF SweepStart, kernel, queue, history, KeepsTheNote, FeedInv,
       Once
  <1>15. ASSUME NEW d \in Dirs, SweepDir(d) PROVE Once'
    BY <1>15 DEF SweepDir, kernel, history, FeedInv, Once
  <1>16. ASSUME SweepFlush PROVE Once'
    BY <1>16 DEF SweepFlush, kernel, FeedInv, Once
  <1>17. ASSUME SweepFinish PROVE Once'
    BY <1>17 DEF SweepFinish, RequestKept, kernel, queue, FeedInv, Once
  <1>18. ASSUME NEW f \in Files, Scan(f) PROVE Once'
    BY <1>18 DEF Scan, kernel, FeedInv, Once
  <1>19. ASSUME Close PROVE Once'
    BY <1>19 DEF Close, Counts, queue, FeedInv, Once
  <1>20. ASSUME Restart PROVE Once'
    BY <1>20 DEF Restart, NextGeneration, NewHandle, SameHandle, FeedInv, Shapes,
       TableOK, EntryT, Once, Marks, NoEntries, NoEntry, NoGrants, Fresh, Flushed, Due
  <1>21. ASSUME Crash PROVE Once'
    BY <1>21 DEF Crash, Counts, NextGeneration, NewHandle, FeedInv, Shapes, TableOK,
       EntryT, Once, Marks, NoEntries, NoEntry, NoGrants, Fresh, Flushed, Due
  <1>22. ASSUME DogStep PROVE Once'
    BY <1>22, DogWritesOnly DEF FeedInv, Once
  <1>23. CASE UNCHANGED vars
    BY <1>23 DEF vars, FeedInv, Once
  <1> QED BY <1>1, <1>2, <1>3, <1>4, <1>5, <1>6, <1>7, <1>8, <1>9, <1>10, <1>11,
             <1>12, <1>13, <1>14, <1>15, <1>16, <1>17, <1>18, <1>19, <1>20, <1>21,
             <1>22, <1>23 DEF Next, IntakeStep, HousekeepingStep, SweepStep

(* Only churn paths reach the churn gate.                                  *)
LEMMA MarksStays ==
    ASSUME FeedInv, [Next]_vars
    PROVE  Marks'
  <1>1. ASSUME NEW f \in Files, Write(f) PROVE Marks'
    BY <1>1 DEF Write, Calls, Counts, Reported, queue, FeedInv, Marks
  <1>2. ASSUME NEW f \in Files, Open(f) PROVE Marks'
    BY <1>2 DEF Open, Calls, Counts, queue, FeedInv, Marks
  <1>3. ASSUME NEW f \in Files, EngineCall(f) PROVE Marks'
    BY <1>3 DEF EngineCall, Calls, Counts, queue, FeedInv, Marks
  <1>4. ASSUME NEW f \in Files, Delete(f) PROVE Marks'
    BY <1>4 DEF Delete, Calls, Counts, queue, FeedInv, Marks
  <1>5. ASSUME NEW f \in Files, Cool(f) PROVE Marks'
    BY <1>5 DEF Cool, kernel, queue, FeedInv, Shapes, TableOK, EntryT, Marks,
       NoEntries, NoEntry, NoGrants, Fresh, Flushed, Due
  <1>6. ASSUME NEW e \in events, IntakeSkips(e) PROVE Marks'
    BY <1>6 DEF IntakeSkips, Read, FeedInv, Marks
  <1>7. ASSUME NEW e \in events, IntakeQueues(e) PROVE Marks'
    BY <1>7 DEF IntakeQueues, Read, FeedInv, Marks
  <1>8. ASSUME NEW e \in events, IntakeAsksChurn(e) PROVE Marks'
    <2>1. e.file \in Churns /\ e.file \in Files
      BY <1>8 DEF IntakeAsksChurn, FeedInv, Shapes, EventsOK, EventT
    <2>2. /\ Table \in [Files -> EntryT]
          /\ \A f \in Files : Table[f].cooling => Table[f].in
          /\ \A f \in Files : Table[f].dirty => Table[f].in /\ f \in Churns
      BY DEF Table, NoEntries, NoEntry, FeedInv, Shapes, TableOK, EntryT, Marks
    <2>3. ChurnTryQueue(e.file)
      BY <1>8 DEF IntakeAsksChurn
    <2>4. CASE Table[e.file].cooling
      <3>1. churn' = [Table EXCEPT ![e.file].dirty = TRUE]
        BY <2>3, <2>4 DEF ChurnTryQueue
      <3>2. \A f \in Files : f # e.file => churn'[f] = Table[f]
        BY <2>1, <2>2, <3>1
      <3>3. /\ churn'[e.file].in <=> Table[e.file].in
            /\ churn'[e.file].cooling <=> Table[e.file].cooling
        BY <2>1, <2>2, <3>1 DEF EntryT
      <3> QED BY <2>1, <2>2, <2>4, <3>2, <3>3 DEF Marks
    <2>5. CASE ~Table[e.file].cooling
      <3>1. churn' = [Table EXCEPT ![e.file] = Fresh]
        BY <2>3, <2>5 DEF ChurnTryQueue
      <3>2. ~Fresh.dirty /\ Fresh.in
        BY DEF Fresh
      <3> QED BY <2>1, <2>2, <3>1, <3>2 DEF Marks
    <2> QED BY <2>4, <2>5
  <1>9. ASSUME IntakePush PROVE Marks'
    BY <1>9 DEF IntakePush, kernel, history, FeedInv, Marks
  <1>10. ASSUME NoteOverflow PROVE Marks'
    BY <1>10 DEF NoteOverflow, queue, FeedInv, Marks
  <1>11. ASSUME RequestCatchup PROVE Marks'
    BY <1>11 DEF RequestCatchup, kernel, queue, history, FeedInv, Marks
  <1>12. ASSUME ChurnFlush PROVE Marks'
    BY <1>12 DEF ChurnFlush, kernel, queue, FeedInv, Shapes, TableOK, EntryT,
       Marks, NoEntries, NoEntry, NoGrants, Fresh, Flushed, Due
  <1>13. ASSUME FlushPush PROVE Marks'
    BY <1>13 DEF FlushPush, kernel, history, FeedInv, Marks
  <1>14. ASSUME SweepStart PROVE Marks'
    BY <1>14 DEF SweepStart, kernel, queue, history, KeepsTheNote, FeedInv,
       Marks
  <1>15. ASSUME NEW d \in Dirs, SweepDir(d) PROVE Marks'
    BY <1>15 DEF SweepDir, kernel, history, FeedInv, Marks
  <1>16. ASSUME SweepFlush PROVE Marks'
    BY <1>16 DEF SweepFlush, kernel, FeedInv, Marks
  <1>17. ASSUME SweepFinish PROVE Marks'
    BY <1>17 DEF SweepFinish, RequestKept, kernel, queue, FeedInv, Marks
  <1>18. ASSUME NEW f \in Files, Scan(f) PROVE Marks'
    BY <1>18 DEF Scan, kernel, FeedInv, Marks
  <1>19. ASSUME Close PROVE Marks'
    BY <1>19 DEF Close, Counts, queue, FeedInv, Marks
  <1>20. ASSUME Restart PROVE Marks'
    BY <1>20 DEF Restart, NextGeneration, NewHandle, SameHandle, FeedInv, Shapes,
       TableOK, EntryT, Marks, NoEntries, NoEntry, NoGrants, Fresh, Flushed, Due
  <1>21. ASSUME Crash PROVE Marks'
    BY <1>21 DEF Crash, Counts, NextGeneration, NewHandle, FeedInv, Shapes, TableOK,
       EntryT, Marks, NoEntries, NoEntry, NoGrants, Fresh, Flushed, Due
  <1>22. ASSUME DogStep PROVE Marks'
    BY <1>22, DogWritesOnly DEF FeedInv, Marks
  <1>23. CASE UNCHANGED vars
    BY <1>23 DEF vars, FeedInv, Marks
  <1> QED BY <1>1, <1>2, <1>3, <1>4, <1>5, <1>6, <1>7, <1>8, <1>9, <1>10, <1>11,
             <1>12, <1>13, <1>14, <1>15, <1>16, <1>17, <1>18, <1>19, <1>20, <1>21,
             <1>22, <1>23 DEF Next, IntakeStep, HousekeepingStep, SweepStep

(* An event that does not fit is dropped, and a table above its size is    *)
(* cleared before a path is added.                                         *)
LEMMA SizedStays ==
    ASSUME FeedInv, [Next]_vars
    PROVE  Sized'
  <1>1. ASSUME NEW f \in Files, Write(f) PROVE Sized'
    <2>1. Reported(f, "write")
      BY <1>1 DEF Write
    <2>2. IsFiniteSet(events') /\ Cardinality(events') <= MAX_QUEUED_EVENTS
      BY <2>1, Reports DEF FeedInv, Shapes, FlagsOK, Sized
    <2>3. UNCHANGED churn
      BY <1>1 DEF Write, Calls, Counts
    <2> QED BY <2>2, <2>3 DEF FeedInv, Sized, InTable
  <1>2. ASSUME NEW f \in Files, Open(f) PROVE Sized'
    <2>1. Reported(f, "open")
      BY <1>2 DEF Open
    <2>2. IsFiniteSet(events') /\ Cardinality(events') <= MAX_QUEUED_EVENTS
      BY <2>1, Reports DEF FeedInv, Shapes, FlagsOK, Sized
    <2>3. UNCHANGED churn
      BY <1>2 DEF Open, Calls, Counts
    <2> QED BY <2>2, <2>3 DEF FeedInv, Sized, InTable
  <1>3. ASSUME NEW f \in Files, EngineCall(f) PROVE Sized'
    <2>1. Reported(f, "engine")
      BY <1>3 DEF EngineCall
    <2>2. IsFiniteSet(events') /\ Cardinality(events') <= MAX_QUEUED_EVENTS
      BY <2>1, Reports DEF FeedInv, Shapes, FlagsOK, Sized
    <2>3. UNCHANGED churn
      BY <1>3 DEF EngineCall, Calls, Counts
    <2> QED BY <2>2, <2>3 DEF FeedInv, Sized, InTable
  <1>4. ASSUME NEW f \in Files, Delete(f) PROVE Sized'
    <2> DEFINE Gone(e) == IF e.file = f THEN [e EXCEPT !.kind = "deleted"] ELSE e
               F == [e \in events |-> Gone(e)]
    <2>1. events' = {Gone(e) : e \in events} /\ UNCHANGED churn
      BY <1>4 DEF Delete, Calls, Counts
    <2> HIDE DEF Gone
    <2>2. F \in Surjection(events, events')
      BY <2>1 DEF Surjection
    <2>3. /\ IsFiniteSet(events') /\ Cardinality(events') <= Cardinality(events)
          /\ Cardinality(events) \in Nat /\ Cardinality(events') \in Nat
      BY <2>2, FS_Surjection, FS_CardinalityType DEF FeedInv, Sized
    <2> QED BY <2>1, <2>3 DEF FeedInv, Sized, InTable
  <1>5. ASSUME NEW f \in Files, Cool(f) PROVE Sized'
    <2>1. InTable' = InTable
      BY <1>5 DEF Cool, InTable, FeedInv, Shapes, TableOK, EntryT
    <2>2. UNCHANGED events
      BY <1>5 DEF Cool, kernel
    <2> QED BY <2>1, <2>2 DEF FeedInv, Sized
  <1>6. ASSUME NEW e \in events, IntakeSkips(e) PROVE Sized'
    <2>1. events' = events \ {e}
      BY <1>6 DEF IntakeSkips, Read
    <2>2. /\ IsFiniteSet(events') /\ Cardinality(events') <= Cardinality(events)
          /\ Cardinality(events) \in Nat /\ Cardinality(events') \in Nat
      BY <2>1, FS_Subset, FS_CardinalityType DEF FeedInv, Sized
    <2>3. UNCHANGED churn
      BY <1>6 DEF IntakeSkips
    <2> QED BY <2>2, <2>3 DEF FeedInv, Sized, InTable
  <1>7. ASSUME NEW e \in events, IntakeQueues(e) PROVE Sized'
    <2>1. events' = events \ {e}
      BY <1>7 DEF IntakeQueues, Read
    <2>2. /\ IsFiniteSet(events') /\ Cardinality(events') <= Cardinality(events)
          /\ Cardinality(events) \in Nat /\ Cardinality(events') \in Nat
      BY <2>1, FS_Subset, FS_CardinalityType DEF FeedInv, Sized
    <2>3. UNCHANGED churn
      BY <1>7 DEF IntakeQueues
    <2> QED BY <2>2, <2>3 DEF FeedInv, Sized, InTable
  <1>8. ASSUME NEW e \in events, IntakeAsksChurn(e) PROVE Sized'
    <2>1. events' = events \ {e}
      BY <1>8 DEF IntakeAsksChurn, Read
    <2>2. /\ IsFiniteSet(events') /\ Cardinality(events') <= Cardinality(events)
          /\ Cardinality(events) \in Nat /\ Cardinality(events') \in Nat
      BY <2>1, FS_Subset, FS_CardinalityType DEF FeedInv, Sized
    <2>3. IsFiniteSet(InTable') /\ Cardinality(InTable') <= BOUNDED_MAP_CAP + 1
      <3> DEFINE Kept == {f \in Files : Table[f].in}
      <3>1. e.file \in Files
        BY DEF FeedInv, Shapes, EventsOK, EventT
      <3>2. /\ Table \in [Files -> EntryT]
            /\ \A f \in Files : Table[f].cooling => Table[f].in
        BY DEF Table, NoEntries, NoEntry, FeedInv, Shapes, TableOK, EntryT, Marks
      <3>3. /\ IsFiniteSet(Kept) /\ Cardinality(Kept) <= BOUNDED_MAP_CAP
            /\ Cardinality(Kept) \in Nat
        <4>1. CASE Full
          <5>1. Kept = {}
            BY <4>1 DEF Table, NoEntries, NoEntry
          <5> HIDE DEF Kept
          <5> QED BY <5>1, FS_EmptySet
        <4>2. CASE ~Full
          <5>1. Kept = InTable
            BY <4>2 DEF Table, InTable
          <5>2. IsFiniteSet(InTable) /\ Cardinality(InTable) \in Nat
            BY FS_CardinalityType DEF FeedInv, Sized
          <5>3. ~(Cardinality(InTable) > BOUNDED_MAP_CAP)
            BY <4>2 DEF Full, InTable
          <5> HIDE DEF Kept
          <5> QED BY <5>1, <5>2, <5>3
        <4> QED BY <4>1, <4>2
      <3>4. InTable' = Kept \/ InTable' = Kept \cup {e.file}
        <4>1. ChurnTryQueue(e.file)
          BY <1>8 DEF IntakeAsksChurn
        <4>2. CASE Table[e.file].cooling
          <5>1. churn' = [Table EXCEPT ![e.file].dirty = TRUE]
            BY <4>1, <4>2 DEF ChurnTryQueue
          <5>2. \A f \in Files : churn'[f].in <=> Table[f].in
            BY <3>2, <5>1 DEF EntryT
          <5> QED BY <5>2 DEF InTable
        <4>3. CASE ~Table[e.file].cooling
          <5>1. churn' = [Table EXCEPT ![e.file] = Fresh]
            BY <4>1, <4>3 DEF ChurnTryQueue
          <5>2. Fresh.in
            BY DEF Fresh
          <5> QED BY <3>1, <3>2, <5>1, <5>2 DEF InTable
        <4> QED BY <4>2, <4>3
      <3> HIDE DEF Kept
      <3>5. /\ IsFiniteSet(Kept \cup {e.file})
            /\ Cardinality(Kept \cup {e.file}) <= Cardinality(Kept) + 1
            /\ Cardinality(Kept \cup {e.file}) \in Nat
        BY <3>3, OneMore
      <3>6. BOUNDED_MAP_CAP \in Nat
        OBVIOUS
      <3>7. CASE InTable' = Kept
        BY <3>3, <3>6, <3>7
      <3>8. CASE InTable' = Kept \cup {e.file}
        BY <3>3, <3>5, <3>6, <3>8
      <3> QED BY <3>4, <3>7, <3>8
    <2> QED BY <2>2, <2>3 DEF FeedInv, Sized
  <1>9. ASSUME IntakePush PROVE Sized'
    BY <1>9 DEF IntakePush, kernel, history, FeedInv, Sized, InTable
  <1>10. ASSUME NoteOverflow PROVE Sized'
    BY <1>10 DEF NoteOverflow, queue, FeedInv, Sized, InTable
  <1>11. ASSUME RequestCatchup PROVE Sized'
    BY <1>11 DEF RequestCatchup, kernel, queue, history, FeedInv, Sized,
       InTable
  <1>12. ASSUME ChurnFlush PROVE Sized'
    <2>1. InTable' = InTable
      <3>1. \A f \in Files : churn'[f].in <=> churn[f].in
        BY <1>12 DEF ChurnFlush, Due, Flushed, Fresh, FeedInv, Marks
      <3> QED BY <3>1 DEF InTable
    <2>2. UNCHANGED events
      BY <1>12 DEF ChurnFlush, kernel
    <2> QED BY <2>1, <2>2 DEF FeedInv, Sized
  <1>13. ASSUME FlushPush PROVE Sized'
    BY <1>13 DEF FlushPush, kernel, history, FeedInv, Sized, InTable
  <1>14. ASSUME SweepStart PROVE Sized'
    BY <1>14 DEF SweepStart, kernel, queue, history, KeepsTheNote, FeedInv,
       Sized, InTable
  <1>15. ASSUME NEW d \in Dirs, SweepDir(d) PROVE Sized'
    BY <1>15 DEF SweepDir, kernel, history, FeedInv, Sized, InTable
  <1>16. ASSUME SweepFlush PROVE Sized'
    BY <1>16 DEF SweepFlush, kernel, FeedInv, Sized, InTable
  <1>17. ASSUME SweepFinish PROVE Sized'
    BY <1>17 DEF SweepFinish, RequestKept, kernel, queue, FeedInv, Sized,
       InTable
  <1>18. ASSUME NEW f \in Files, Scan(f) PROVE Sized'
    BY <1>18 DEF Scan, kernel, FeedInv, Sized, InTable
  <1>19. ASSUME Close PROVE Sized'
    <2>1. events' = {} /\ UNCHANGED churn
      BY <1>19 DEF Close
    <2>2. IsFiniteSet(events') /\ Cardinality(events') = 0
      BY <2>1, FS_EmptySet
    <2> QED BY <2>1, <2>2 DEF FeedInv, Sized, InTable
  <1>20. ASSUME Restart PROVE Sized'
    <2>1. events' = {} /\ churn' = NoEntries
      BY <1>20 DEF Restart, NextGeneration, NewHandle, SameHandle
    <2>2. IsFiniteSet(events') /\ Cardinality(events') = 0
      BY <2>1, FS_EmptySet
    <2>3. InTable' = {}
      BY <2>1 DEF InTable, NoEntries, NoEntry
    <2> QED BY <2>2, <2>3, FS_EmptySet DEF Sized
  <1>21. ASSUME Crash PROVE Sized'
    <2>1. events' = {} /\ churn' = NoEntries
      BY <1>21 DEF Crash, Counts, NextGeneration, NewHandle
    <2>2. IsFiniteSet(events') /\ Cardinality(events') = 0
      BY <2>1, FS_EmptySet
    <2>3. InTable' = {}
      BY <2>1 DEF InTable, NoEntries, NoEntry
    <2> QED BY <2>2, <2>3, FS_EmptySet DEF Sized
  <1>22. ASSUME DogStep PROVE Sized'
    BY <1>22, DogWritesOnly DEF FeedInv, Sized, InTable
  <1>23. CASE UNCHANGED vars
    BY <1>23 DEF vars, FeedInv, Sized, InTable
  <1> QED BY <1>1, <1>2, <1>3, <1>4, <1>5, <1>6, <1>7, <1>8, <1>9, <1>10, <1>11,
             <1>12, <1>13, <1>14, <1>15, <1>16, <1>17, <1>18, <1>19, <1>20, <1>21,
             <1>22, <1>23 DEF Next, IntakeStep, HousekeepingStep, SweepStep

(* A file that was written stays on its way to a scan.                     *)
LEMMA NoWriteForgottenStays ==
    ASSUME FeedInv, [Next]_vars
    PROVE  NoWriteForgotten'
  <1>1. ASSUME NEW f \in Files, Write(f) PROVE NoWriteForgotten'
    <2> SUFFICES ASSUME NEW g \in unseen' PROVE Traced(g)' \/ g \in lost'
      BY DEF NoWriteForgotten
    <2>1. Lose({f}) /\ Reported(f, "write")
      BY <1>1 DEF Write
    <2>2. CASE g = f
      BY <2>1, <2>2, Loses
    <2>3. CASE g # f
      <3>1. g \in unseen
        BY <1>1, <2>3 DEF Write
      <3>2. Traced(g) \/ g \in lost
        BY <3>1 DEF FeedInv, NoWriteForgotten
      <3>3. events \subseteq events' /\ (overflow => overflow') /\ lost \subseteq lost'
        BY <2>1, Reports, Loses DEF FeedInv, Shapes, FlagsOK, Sized
      <3>4. UNCHANGED <<auto_catchup, intake, churn, hk, requested, sweep, live,
                        pending, marked>>
        BY <1>1 DEF Write, Calls, Counts, queue
      <3>5. Traced(g) => Traced(g)'
        BY <3>3, <3>4 DEF Traced, Swept, Asked
      <3> QED BY <3>2, <3>3, <3>5
    <2> QED BY <2>2, <2>3
  <1>2. ASSUME NEW f \in Files, Open(f) PROVE NoWriteForgotten'
    <2> SUFFICES ASSUME NEW g \in unseen' PROVE Traced(g)' \/ g \in lost'
      BY DEF NoWriteForgotten
    <2>1. g \in unseen /\ (g \in lost => g \in lost')
      BY <1>2 DEF Open
    <2>2. Traced(g) \/ g \in lost
      BY <2>1 DEF FeedInv, NoWriteForgotten
    <2>3. Reported(f, "open")
      BY <1>2 DEF Open
    <2>4. events \subseteq events' /\ (overflow => overflow')
      BY <2>3, Reports DEF FeedInv, Shapes, FlagsOK, Sized
    <2>5. UNCHANGED <<auto_catchup, intake, churn, hk, requested, sweep, live, pending,
                      marked>>
      BY <1>2 DEF Open, Calls, Counts, queue
    <2>6. Traced(g) => Traced(g)'
      BY <2>4, <2>5 DEF Traced, Swept, Asked
    <2> QED BY <2>1, <2>2, <2>6
  <1>3. ASSUME NEW f \in Files, EngineCall(f) PROVE NoWriteForgotten'
    <2> SUFFICES ASSUME NEW g \in unseen' PROVE Traced(g)' \/ g \in lost'
      BY DEF NoWriteForgotten
    <2>1. g \in unseen /\ (g \in lost => g \in lost')
      BY <1>3 DEF EngineCall
    <2>2. Traced(g) \/ g \in lost
      BY <2>1 DEF FeedInv, NoWriteForgotten
    <2>3. Reported(f, "engine")
      BY <1>3 DEF EngineCall
    <2>4. events \subseteq events' /\ (overflow => overflow')
      BY <2>3, Reports DEF FeedInv, Shapes, FlagsOK, Sized
    <2>5. UNCHANGED <<auto_catchup, intake, churn, hk, requested, sweep, live, pending,
                      marked>>
      BY <1>3 DEF EngineCall, Calls, Counts, queue
    <2>6. Traced(g) => Traced(g)'
      BY <2>4, <2>5 DEF Traced, Swept, Asked
    <2> QED BY <2>1, <2>2, <2>6
  <1>4. ASSUME NEW f \in Files, Delete(f) PROVE NoWriteForgotten'
    <2> SUFFICES ASSUME NEW g \in unseen' PROVE Traced(g)' \/ g \in lost'
      BY DEF NoWriteForgotten
    <2>1. g \in unseen /\ g # f /\ (g \in lost => g \in lost')
      BY <1>4 DEF Delete
    <2>2. Traced(g) \/ g \in lost
      BY <2>1 DEF FeedInv, NoWriteForgotten
    <2>3. \A e \in events : e.file = g => e \in events'
      BY <1>4, <2>1 DEF Delete
    <2>4. UNCHANGED <<auto_catchup, overflow, intake, churn, hk, requested, sweep, live,
                      pending, marked>>
      BY <1>4 DEF Delete, Calls, Counts, queue
    <2>5. Traced(g) => Traced(g)'
      BY <2>3, <2>4 DEF Traced, Swept, Asked
    <2> QED BY <2>1, <2>2, <2>5
  <1>5. ASSUME NEW f \in Files, Cool(f) PROVE NoWriteForgotten'
    <2> SUFFICES ASSUME NEW g \in unseen' PROVE Traced(g)' \/ g \in lost'
      BY DEF NoWriteForgotten
    <2>1. g \in unseen /\ (g \in lost => g \in lost') /\ g \in Files
      BY <1>5 DEF Cool, FeedInv, Shapes, FilesOK
    <2>2. Traced(g) \/ g \in lost
      BY <2>1 DEF FeedInv, NoWriteForgotten
    <2>3. churn'[g].dirty <=> churn[g].dirty
      BY <1>5, <2>1 DEF Cool, FeedInv, Shapes, TableOK, EntryT
    <2>4. UNCHANGED <<auto_catchup, events, overflow, intake, hk, requested, sweep,
                      live, pending, marked>>
      BY <1>5 DEF Cool, kernel, queue
    <2>5. Traced(g) => Traced(g)'
      BY <2>3, <2>4 DEF Traced, Swept, Asked
    <2> QED BY <2>1, <2>2, <2>5
  <1>6. ASSUME NEW e \in events, IntakeSkips(e) PROVE NoWriteForgotten'
    <2> SUFFICES ASSUME NEW g \in unseen' PROVE Traced(g)' \/ g \in lost'
      BY DEF NoWriteForgotten
    <2>1. g \in unseen /\ (g \in lost => g \in lost') /\ g \in Files
      BY <1>6 DEF IntakeSkips, Read, FeedInv, Shapes, FilesOK
    <2>2. Traced(g) \/ g \in lost
      BY <2>1 DEF FeedInv, NoWriteForgotten
    <2>3. Traced(g) => Traced(g)' \/ g \in lost'
      BY <1>6, <2>1 DEF IntakeSkips, Read, Traced, Swept, Asked, Passes, FeedInv,
         Wanted, Shapes, EventsOK, EventT
    <2> QED BY <2>1, <2>2, <2>3
  <1>7. ASSUME NEW e \in events, IntakeQueues(e) PROVE NoWriteForgotten'
    <2> SUFFICES ASSUME NEW g \in unseen' PROVE Traced(g)' \/ g \in lost'
      BY DEF NoWriteForgotten
    <2>1. g \in unseen /\ (g \in lost => g \in lost') /\ g \in Files
      BY <1>7 DEF IntakeQueues, Read, FeedInv, Shapes, FilesOK
    <2>2. Traced(g) \/ g \in lost
      BY <2>1 DEF FeedInv, NoWriteForgotten
    <2>3. Traced(g) => Traced(g)' \/ g \in lost'
      BY <1>7, <2>1 DEF IntakeQueues, Read, Traced, Swept, Asked
    <2> QED BY <2>1, <2>2, <2>3
  <1>8. ASSUME NEW e \in events, IntakeAsksChurn(e) PROVE NoWriteForgotten'
    <2> SUFFICES ASSUME NEW g \in unseen' PROVE Traced(g)' \/ g \in lost'
      BY DEF NoWriteForgotten
    <2>1. g \in unseen /\ g \in Files /\ e.file \in Files
      BY <1>8 DEF IntakeAsksChurn, Read, FeedInv, Shapes, FilesOK, EventsOK, EventT
    <2>2. Traced(g) \/ g \in lost
      BY <2>1 DEF FeedInv, NoWriteForgotten
    <2>3. Lose(IF Full THEN Churns ELSE {}) /\ ChurnTryQueue(e.file)
      BY <1>8 DEF IntakeAsksChurn
    <2>4. lost \subseteq lost'
      BY <2>3, Loses
    <2>5. /\ events' = events \ {e} /\ intake = Idle
          /\ UNCHANGED <<auto_catchup, overflow, hk, requested, sweep, live, pending,
                         marked>>
      BY <1>8 DEF IntakeAsksChurn, Read
    <2>6. CASE Full /\ g \in Churns
      BY <2>3, <2>6, Loses
    <2>7. CASE ~(Full /\ g \in Churns)
      <3>1. churn[g].dirty => Table[g].dirty
        BY <2>1, <2>7 DEF Table, FeedInv, Marks
      <3>2. /\ Table \in [Files -> EntryT]
        BY DEF Table, NoEntries, NoEntry, FeedInv, Shapes, TableOK, EntryT
      <3>3. /\ g = e.file => churn'[g].dirty \/ intake'.file = g
            /\ g # e.file => churn'[g] = Table[g]
        <4>1. CASE Table[e.file].cooling
          <5>1. churn' = [Table EXCEPT ![e.file].dirty = TRUE]
            BY <2>3, <4>1 DEF ChurnTryQueue
          <5> QED BY <2>1, <3>2, <5>1 DEF EntryT
        <4>2. CASE ~Table[e.file].cooling
          <5>1. /\ churn' = [Table EXCEPT ![e.file] = Fresh]
                /\ intake' = [at |-> "push", file |-> e.file]
            BY <2>3, <4>2 DEF ChurnTryQueue
          <5> QED BY <2>1, <3>2, <5>1
        <4> QED BY <4>1, <4>2
      <3>4. intake.file # g /\ intake.at # "request"
        BY <2>1, <2>5 DEF Idle
      <3>5. CASE g = e.file
        BY <3>3, <3>5 DEF Traced, Asked
      <3>6. CASE g # e.file
        <4>1. churn[g].dirty => churn'[g].dirty
          BY <3>1, <3>3, <3>6
        <4>2. \A x \in events : x.file = g => x \in events'
          BY <2>5, <3>6
        <4>3. Traced(g) => Traced(g)'
          BY <2>5, <3>4, <4>1, <4>2 DEF Traced, Swept, Asked
        <4> QED BY <2>2, <2>4, <4>3
      <3> QED BY <3>5, <3>6
    <2> QED BY <2>6, <2>7
  <1>9. ASSUME IntakePush PROVE NoWriteForgotten'
    <2> SUFFICES ASSUME NEW g \in unseen' PROVE Traced(g)' \/ g \in lost'
      BY DEF NoWriteForgotten
    <2>1. g \in unseen /\ (g \in lost => g \in lost') /\ g \in Files
      BY <1>9 DEF IntakePush, kernel, history, FeedInv, Shapes, FilesOK
    <2>2. Traced(g) \/ g \in lost
      BY <2>1 DEF FeedInv, NoWriteForgotten
    <2>3. Traced(g) => Traced(g)' \/ g \in lost'
      BY <1>9, <2>1 DEF IntakePush, kernel, history, Traced, Swept, Asked, FeedInv,
         Shapes, FilesOK, Idle
    <2> QED BY <2>1, <2>2, <2>3
  <1>10. ASSUME NoteOverflow PROVE NoWriteForgotten'
    <2> SUFFICES ASSUME NEW g \in unseen' PROVE Traced(g)' \/ g \in lost'
      BY DEF NoWriteForgotten
    <2>1. g \in unseen /\ (g \in lost => g \in lost') /\ g \in Files
      BY <1>10 DEF NoteOverflow, queue, FeedInv, Shapes, FilesOK
    <2>2. Traced(g) \/ g \in lost
      BY <2>1 DEF FeedInv, NoWriteForgotten
    <2>3. Traced(g) => Traced(g)' \/ g \in lost'
      BY <1>10, <2>1 DEF NoteOverflow, queue, Traced, Swept, Asked, FeedInv, Shapes,
         FilesOK, Idle
    <2> QED BY <2>1, <2>2, <2>3
  <1>11. ASSUME RequestCatchup PROVE NoWriteForgotten'
    <2> SUFFICES ASSUME NEW g \in unseen' PROVE Traced(g)' \/ g \in lost'
      BY DEF NoWriteForgotten
    <2>1. g \in unseen /\ (g \in lost => g \in lost') /\ g \in Files
      BY <1>11 DEF RequestCatchup, kernel, queue, history, FeedInv, Shapes,
         FilesOK
    <2>2. Traced(g) \/ g \in lost
      BY <2>1 DEF FeedInv, NoWriteForgotten
    <2>3. Traced(g) => Traced(g)' \/ g \in lost'
      BY <1>11, <2>1 DEF RequestCatchup, kernel, queue, history, Traced, Swept, Asked,
         FeedInv, Shapes, FilesOK, Hands, Idle
    <2> QED BY <2>1, <2>2, <2>3
  <1>12. ASSUME ChurnFlush PROVE NoWriteForgotten'
    <2> SUFFICES ASSUME NEW g \in unseen' PROVE Traced(g)' \/ g \in lost'
      BY DEF NoWriteForgotten
    <2>1. g \in unseen /\ (g \in lost => g \in lost') /\ g \in Files
      BY <1>12 DEF ChurnFlush, FeedInv, Shapes, FilesOK
    <2>2. Traced(g) \/ g \in lost
      BY <2>1 DEF FeedInv, NoWriteForgotten
    <2>3. /\ hk = {} /\ hk' = {x \in Files : Due(x)}
          /\ churn' = [x \in Files |-> IF x \in hk' THEN Flushed ELSE churn[x]]
          /\ UNCHANGED <<auto_catchup, events, overflow, intake, requested, sweep, live,
                         pending, marked>>
      BY <1>12 DEF ChurnFlush, kernel, queue
    <2>4. churn[g].dirty => churn'[g].dirty \/ g \in hk'
      BY <2>1, <2>3
    <2>5. Traced(g) => Traced(g)'
      BY <2>3, <2>4 DEF Traced, Swept, Asked
    <2> QED BY <2>1, <2>2, <2>5
  <1>13. ASSUME FlushPush PROVE NoWriteForgotten'
    <2> SUFFICES ASSUME NEW g \in unseen' PROVE Traced(g)' \/ g \in lost'
      BY DEF NoWriteForgotten
    <2>1. g \in unseen /\ (g \in lost => g \in lost') /\ g \in Files
      BY <1>13 DEF FlushPush, kernel, history, FeedInv, Shapes, FilesOK
    <2>2. Traced(g) \/ g \in lost
      BY <2>1 DEF FeedInv, NoWriteForgotten
    <2>3. Traced(g) => Traced(g)' \/ g \in lost'
      BY <1>13, <2>1 DEF FlushPush, kernel, history, Traced, Swept, Asked
    <2> QED BY <2>1, <2>2, <2>3
  <1>14. ASSUME SweepStart PROVE NoWriteForgotten'
    <2> SUFFICES ASSUME NEW g \in unseen' PROVE Traced(g)' \/ g \in lost'
      BY DEF NoWriteForgotten
    <2>1. g \in unseen /\ (g \in lost => g \in lost') /\ DirOf[g] \in Dirs
      BY <1>14 DEF SweepStart, history, FeedInv, Shapes, FilesOK
    <2>2. Traced(g) \/ g \in lost
      BY <2>1 DEF FeedInv, NoWriteForgotten
    <2>3. /\ sweep.batch = {} /\ sweep.dirs = {}
          /\ sweep'.dirs = {d \in Dirs : MountOf[d] \in marked /\ ~IsExcluded(d)}
          /\ UNCHANGED <<auto_catchup, events, overflow, intake, churn, hk, live,
                         pending, marked>>
      BY <1>14 DEF SweepStart, kernel, queue, FeedInv, Walks
    <2>4. Swept(g) => DirOf[g] \in sweep'.dirs
      BY <2>1, <2>3 DEF Swept
    <2>5. Swept(g)' <=> Swept(g)
      BY <2>3 DEF Swept
    <2>6. Traced(g) => Traced(g)'
      BY <2>3, <2>4, <2>5 DEF Traced, Asked
    <2> QED BY <2>1, <2>2, <2>6
  <1>15. ASSUME NEW d \in Dirs, SweepDir(d) PROVE NoWriteForgotten'
    <2> SUFFICES ASSUME NEW g \in unseen' PROVE Traced(g)' \/ g \in lost'
      BY DEF NoWriteForgotten
    <2>1. g \in unseen /\ g \in Files /\ ~IsExcluded(g)
      BY <1>15 DEF SweepDir, FeedInv, Shapes, FilesOK, Wanted
    <2>2. Traced(g) \/ g \in lost
      BY <2>1 DEF FeedInv, NoWriteForgotten
    <2>3. PICK unread \in SUBSET Entries(d) :
            /\ Lose(unread)
            /\ sweep.batch \cup (Entries(d) \ unread) \subseteq sweep'.batch \cup pending'
      BY <1>15, SweepReads
    <2>4. /\ sweep'.dirs = sweep.dirs \ {d} /\ pending \subseteq pending'
          /\ UNCHANGED <<auto_catchup, events, overflow, intake, churn, hk, requested, live,
                         marked>>
      BY <1>15, SweepReads DEF SweepDir, kernel
    <2>5. /\ lost \subseteq lost'
          /\ g \in unread => Traced(g)' \/ g \in lost'
      BY <2>3, Loses
    <2>6. CASE g \in unread
      BY <2>5, <2>6
    <2>7. CASE g \notin unread
      <3>1. DirOf[g] = d => g \in sweep'.batch \cup pending'
        BY <2>1, <2>3, <2>7 DEF Entries
      <3>2. Swept(g)' <=> Swept(g)
        BY <2>4 DEF Swept
      <3>3. Traced(g) => Traced(g)'
        BY <2>3, <2>4, <3>1, <3>2 DEF Traced, Asked
      <3> QED BY <2>2, <2>5, <3>3
    <2> QED BY <2>6, <2>7
  <1>16. ASSUME SweepFlush PROVE NoWriteForgotten'
    <2> SUFFICES ASSUME NEW g \in unseen' PROVE Traced(g)' \/ g \in lost'
      BY DEF NoWriteForgotten
    <2>1. g \in unseen /\ g \in Files
      BY <1>16 DEF SweepFlush, FeedInv, Shapes, FilesOK
    <2>2. Traced(g) \/ g \in lost
      BY <2>1 DEF FeedInv, NoWriteForgotten
    <2>3. CASE exit
      <3>1. Lose(Files)
        BY <1>16, <2>3 DEF SweepFlush
      <3> QED BY <2>1, <3>1, Loses
    <2>4. CASE ~exit
      <3>1. Lose({})
        BY <1>16, <2>4 DEF SweepFlush
      <3>2. lost \subseteq lost'
        BY <3>1, Loses
      <3>3. /\ sweep.dirs = {} /\ pending' = pending \cup sweep.batch
            /\ UNCHANGED <<auto_catchup, events, overflow, intake, churn, hk, requested,
                           live, marked>>
        BY <1>16, <2>4 DEF SweepFlush, kernel
      <3>4. Traced(g) => Traced(g)'
        BY <3>3 DEF Traced, Swept, Asked
      <3> QED BY <2>2, <3>2, <3>4
    <2> QED BY <2>3, <2>4
  <1>17. ASSUME SweepFinish PROVE NoWriteForgotten'
    <2> SUFFICES ASSUME NEW g \in unseen' PROVE Traced(g)' \/ g \in lost'
      BY DEF NoWriteForgotten
    <2>1. g \in unseen /\ (g \in lost => g \in lost')
      BY <1>17 DEF SweepFinish
    <2>2. Traced(g) \/ g \in lost
      BY <2>1 DEF FeedInv, NoWriteForgotten
    <2>3. /\ sweep.dirs = {} /\ sweep.batch = {}
          /\ UNCHANGED <<auto_catchup, events, overflow, intake, churn, hk, requested,
                         live, pending, marked>>
      BY <1>17 DEF SweepFinish, RequestKept, kernel, queue, FeedInv, Walks
    <2>4. Traced(g) => Traced(g)'
      BY <2>3 DEF Traced, Swept, Asked
    <2> QED BY <2>1, <2>2, <2>4
  <1>18. ASSUME NEW f \in Files, Scan(f) PROVE NoWriteForgotten'
    <2> SUFFICES ASSUME NEW g \in unseen' PROVE Traced(g)' \/ g \in lost'
      BY DEF NoWriteForgotten
    <2>1. g \in unseen /\ g # f /\ (g \in lost => g \in lost')
      BY <1>18 DEF Scan
    <2>2. Traced(g) \/ g \in lost
      BY <2>1 DEF FeedInv, NoWriteForgotten
    <2>3. /\ live' = live \ {f} /\ pending \ {f} \subseteq pending'
          /\ UNCHANGED <<auto_catchup, events, overflow, intake, churn, hk, requested,
                         sweep, marked>>
      BY <1>18 DEF Scan, kernel
    <2>4. Traced(g) => Traced(g)'
      BY <2>1, <2>3 DEF Traced, Swept, Asked
    <2> QED BY <2>1, <2>2, <2>4
  <1>19. ASSUME Close PROVE NoWriteForgotten'
    <2> SUFFICES ASSUME NEW g \in unseen' PROVE Traced(g)' \/ g \in lost'
      BY DEF NoWriteForgotten
    <2>1. Lose(Files)
      BY <1>19 DEF Close
    <2>2. g \in Files
      BY <1>19 DEF Close, Counts, FeedInv, Shapes, FilesOK
    <2> QED BY <2>1, <2>2, Loses
  <1>20. ASSUME Restart PROVE NoWriteForgotten'
    <2> SUFFICES ASSUME NEW g \in unseen' PROVE Traced(g)' \/ g \in lost'
      BY DEF NoWriteForgotten
    <2>1. Lose(Files)
      BY <1>20 DEF Restart
    <2>2. g \in Files
      BY <1>20 DEF Restart, NextGeneration, NewHandle, SameHandle, FeedInv, Shapes,
         FilesOK
    <2> QED BY <2>1, <2>2, Loses
  <1>21. ASSUME Crash PROVE NoWriteForgotten'
    <2> SUFFICES ASSUME NEW g \in unseen' PROVE Traced(g)' \/ g \in lost'
      BY DEF NoWriteForgotten
    <2>1. Lose(Files)
      BY <1>21 DEF Crash
    <2>2. g \in Files
      BY <1>21 DEF Crash, Counts, NextGeneration, NewHandle, FeedInv, Shapes, FilesOK
    <2> QED BY <2>1, <2>2, Loses
  <1>22. ASSUME DogStep PROVE NoWriteForgotten'
    BY <1>22, DogWritesOnly DEF FeedInv, NoWriteForgotten, Traced, Swept, Asked
  <1>23. CASE UNCHANGED vars
    BY <1>23 DEF vars, FeedInv, NoWriteForgotten, Traced, Swept, Asked
  <1> QED BY <1>1, <1>2, <1>3, <1>4, <1>5, <1>6, <1>7, <1>8, <1>9, <1>10, <1>11,
             <1>12, <1>13, <1>14, <1>15, <1>16, <1>17, <1>18, <1>19, <1>20, <1>21,
             <1>22, <1>23 DEF Next, IntakeStep, HousekeepingStep, SweepStep

-----------------------------------------------------------------------------
(* The invariant holds in the beginning.                                   *)
LEMMA InitFeeds == Init => FeedInv
  <1> SUFFICES ASSUME Init PROVE FeedInv
    OBVIOUS
  <1>1. FilesOK /\ EventsOK
    BY DEF Init, FilesOK, EventsOK
  <1>2. FlagsOK
    BY DEF Init, FlagsOK
  <1>3. IntakeOK /\ SweepOK
    BY DEF Init, IntakeOK, IntakeT, Idle, SweepOK, SweepT, Sleep
  <1>4. TableOK
    BY DEF Init, TableOK, EntryT, NoEntries, NoEntry, NoGrants
  <1>5. MarksOK /\ Wanted
    BY DEF Init, MarksOK, Wanted
  <1>6. Sized
    <2>1. events = {} /\ InTable = {}
      BY DEF Init, InTable, NoEntries, NoEntry
    <2> QED BY <2>1, FS_EmptySet DEF Sized
  <1>7. Marks /\ Once
    BY DEF Init, Marks, Once, NoEntries, NoEntry, NoGrants
  <1>8. Hands /\ Walks /\ NoteTellsOfSweep
    BY DEF Init, Hands, Walks, NoteTellsOfSweep, SweepDue, Idle, Sleep
  <1>9. NoWriteForgotten
    BY DEF Init, NoWriteForgotten
  <1> QED BY <1>1, <1>2, <1>3, <1>4, <1>5, <1>6, <1>7, <1>8, <1>9 DEF FeedInv, Shapes

(* The inductive invariant holds in every reachable state.                 *)
THEOREM FeedsInvariant == Spec => []FeedInv
  <1>1. FeedInv /\ [Next]_vars => FeedInv'
    <2> SUFFICES ASSUME FeedInv, [Next]_vars PROVE FeedInv'
      OBVIOUS
    <2>1. Shapes'
      BY FilesOKStays, FlagsOKStays, EventsOKStays, IntakeOKStays, TableOKStays,
         SweepOKStays DEF Shapes
    <2> QED BY <2>1, MarksOKStays, SizedStays, WantedStays, MarksStays, HandsStays,
               WalksStays, NoteTellsOfSweepStays, OnceStays, NoWriteForgottenStays DEF FeedInv
  <1> QED BY <1>1, InitFeeds, PTL DEF Spec

(* A file that was written is on its way to a scan, or was lost by one of  *)
(* the eight steps, whatever the sizes and however often generations end.    *)
THEOREM WritesAreRemembered == Spec => []NoWriteForgotten
  <1>1. FeedInv => NoWriteForgotten
    BY DEF FeedInv
  <1> QED BY <1>1, FeedsInvariant, PTL

(* The kernel's queue and the churn table keep within their sizes; while a *)
(* sweep is asked for or under way the note says so, but for a note that   *)
(* the end of another sweep or the watchdog took away; and but for a       *)
(* restart not told of yet the note promises no sweep that is not to come. *)
THEOREM SweepsAreTold == Spec => []StatusTellsOfSweep
  <1>1. FeedInv => TypeOK
    <2> SUFFICES ASSUME FeedInv PROVE TypeOK
      OBVIOUS
    <2>1. marked \subseteq Mounts /\ \A m \in marked : m.point \notin SKIP_MOUNT_PREFIXES
      BY DEF FeedInv, MarksOK, WatchableMounts, IsWatchable
    <2>2. /\ Cardinality(events) <= MAX_QUEUED_EVENTS
          /\ Cardinality({f \in Files : churn[f].in}) <= BOUNDED_MAP_CAP + 1
      BY DEF FeedInv, Sized, InTable
    <2>3. /\ unseen \subseteq Files /\ lost \subseteq Files
          /\ hk \subseteq Files /\ live \subseteq Files /\ pending \subseteq Files
      BY DEF FeedInv, Shapes, FilesOK
    <2>4. FlagsOK
      BY DEF FeedInv, Shapes
    <2>5. /\ events \subseteq [file : Files, kind : {"write", "open", "engine", "deleted"}]
          /\ intake \in [at : {"idle", "push", "request"}, file : Files \cup {NoFile}]
          /\ churn \in [Files -> [in : BOOLEAN, cooling : BOOLEAN, dirty : BOOLEAN]]
          /\ sweep \in [at : {"sleep", "walk", "finish"}, dirs : SUBSET Dirs,
                        batch : SUBSET Files]
          /\ grants \in [Files -> Nat]
      BY DEF FeedInv, Shapes, EventsOK, EventT, IntakeOK, IntakeT, TableOK, EntryT,
         SweepOK, SweepT
    <2> QED BY <2>1, <2>2, <2>3, <2>4, <2>5 DEF TypeOK, FlagsOK
  <1>2. FeedInv => NoteTellsOfSweep
    BY DEF FeedInv
  <1> QED BY <1>1, <1>2, FeedsInvariant, PTL DEF StatusTellsOfSweep

(* The intake and the flush together queue a churn path at most once in a  *)
(* cooldown.                                                               *)
THEOREM ChurnIsGated == Spec => []OncePerCooldown
  <1>1. FeedInv => OncePerCooldown
    BY DEF FeedInv, Once, OncePerCooldown
  <1> QED BY <1>1, FeedsInvariant, PTL

=============================================================================
