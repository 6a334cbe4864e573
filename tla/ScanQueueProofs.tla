-------------------------- MODULE ScanQueueProofs --------------------------
(***************************************************************************)
(* Proofs about ScanQueue, for any paths, workers, cap and batch size.     *)
(***************************************************************************)
EXTENDS ScanQueue, SequenceTheorems, TLAPS

-----------------------------------------------------------------------------
(* Sequences: what a push, an overflow and a pop do to a lane.             *)

(* Pushing at the back adds one element, and keeps a lane free of          *)
(* duplicates if the element is new (push_scan).                           *)
LEMMA PushBack ==
    ASSUME NEW S, NEW s \in Seq(S), NEW x \in S
    PROVE  /\ Append(s, x) \in Seq(S)
           /\ Len(Append(s, x)) = Len(s) + 1
           /\ Elems(Append(s, x)) = Elems(s) \cup {x}
           /\ NoDuplicates(s) /\ x \notin Elems(s) => NoDuplicates(Append(s, x))
  <1>1. /\ Len(s) \in Nat
        /\ Append(s, x) \in Seq(S)
        /\ Len(Append(s, x)) = Len(s) + 1
        /\ \A i \in 1..Len(s) : Append(s, x)[i] = s[i]
        /\ Append(s, x)[Len(s) + 1] = x
    OBVIOUS
  <1>2. /\ DOMAIN s = 1..Len(s)
        /\ DOMAIN Append(s, x) = 1..(Len(s) + 1)
        /\ 1..(Len(s) + 1) = 1..Len(s) \cup {Len(s) + 1}
    BY <1>1
  <1>3. Elems(Append(s, x)) = Elems(s) \cup {x}
    BY <1>1, <1>2 DEF Elems
  <1>4. NoDuplicates(s) /\ x \notin Elems(s) => NoDuplicates(Append(s, x))
    BY <1>1, <1>2 DEF NoDuplicates, Elems
  <1> QED BY <1>1, <1>3, <1>4

(* Popping at the back takes one element off and, in a lane without        *)
(* duplicates, leaves no other copy of it (the overflow victim).           *)
LEMMA PopBack ==
    ASSUME NEW S, NEW s \in Seq(S), s # <<>>
    PROVE  /\ Front(s) \in Seq(S)
           /\ Last(s) \in S
           /\ Len(Front(s)) = Len(s) - 1
           /\ Elems(s) = Elems(Front(s)) \cup {Last(s)}
           /\ NoDuplicates(s) => /\ NoDuplicates(Front(s))
                                 /\ Last(s) \notin Elems(Front(s))
  <1>1. Len(s) \in Nat /\ Len(s) > 0
    OBVIOUS
  <1>2. /\ Front(s) \in Seq(S)
        /\ Len(Front(s)) = Len(s) - 1
        /\ \A i \in 1..(Len(s) - 1) : Front(s)[i] = s[i]
        /\ Last(s) \in S
    <2> DEFINE n == Len(s) - 1
    <2>1. n \in Nat /\ \A i \in 1..n : s[i] \in S
      BY <1>1
    <2>2. Front(s) = SubSeq(s, 1, n)
      BY DEF Front
    <2>3. /\ Front(s) \in Seq(S)
          /\ Len(Front(s)) = n
          /\ \A i \in 1..n : Front(s)[i] = s[i]
      <3> HIDE DEF n
      <3>1. /\ SubSeq(s, 1, n) \in Seq(S)
            /\ Len(SubSeq(s, 1, n)) = IF 1 <= n THEN n - 1 + 1 ELSE 0
            /\ \A i \in 1..(n - 1 + 1) : SubSeq(s, 1, n)[i] = s[1 + i - 1]
        BY <2>1, SubSeqProperties
      <3>2. n - 1 + 1 = n /\ (~(1 <= n) => n = 0) /\ \A i \in 1..n : 1 + i - 1 = i
        BY <2>1
      <3> QED BY <2>1, <2>2, <3>1, <3>2
    <2> QED BY <1>1, <2>3 DEF Last
  <1>3. Elems(s) = Elems(Front(s)) \cup {Last(s)}
    BY <1>1, <1>2 DEF Elems, Last
  <1>4. NoDuplicates(s) => /\ NoDuplicates(Front(s))
                           /\ Last(s) \notin Elems(Front(s))
    BY <1>1, <1>2 DEF NoDuplicates, Elems, Last
  <1> QED BY <1>2, <1>3, <1>4

(* The same at the front (pop).                                            *)
LEMMA PopFront ==
    ASSUME NEW S, NEW s \in Seq(S), s # <<>>
    PROVE  /\ Tail(s) \in Seq(S)
           /\ Head(s) \in S
           /\ Len(Tail(s)) = Len(s) - 1
           /\ Elems(s) = Elems(Tail(s)) \cup {Head(s)}
           /\ NoDuplicates(s) => /\ NoDuplicates(Tail(s))
                                 /\ Head(s) \notin Elems(Tail(s))
  <1>1. Len(s) \in Nat /\ Len(s) > 0
    OBVIOUS
  <1>2. /\ Tail(s) \in Seq(S)
        /\ Len(Tail(s)) = Len(s) - 1
        /\ \A i \in 1..(Len(s) - 1) : Tail(s)[i] = s[i + 1]
        /\ Head(s) \in S
        /\ Head(s) = s[1]
    BY <1>1
  <1>3. Elems(s) = Elems(Tail(s)) \cup {Head(s)}
    <2>1. \A i \in 1..Len(s) : s[i] = Head(s) \/ s[i] \in Elems(Tail(s))
      <3>1. TAKE i \in 1..Len(s)
      <3>2. CASE i = 1
        BY <1>2, <3>2
      <3>3. CASE i # 1
        <4>1. i - 1 \in 1..(Len(s) - 1) /\ (i - 1) + 1 = i
          BY <1>1, <3>3
        <4>2. i - 1 \in DOMAIN Tail(s)
          BY <1>1, <1>2, <4>1
        <4> QED BY <1>2, <4>1, <4>2 DEF Elems
      <3> QED BY <3>2, <3>3
    <2>2. Elems(Tail(s)) \subseteq Elems(s)
      <3>1. \A i \in 1..(Len(s) - 1) : i + 1 \in DOMAIN s
        BY <1>1
      <3> QED BY <1>1, <1>2, <3>1 DEF Elems
    <2>3. Head(s) \in Elems(s)
      BY <1>1, <1>2 DEF Elems
    <2>4. Elems(s) \subseteq Elems(Tail(s)) \cup {Head(s)}
      BY <1>1, <2>1 DEF Elems
    <2> QED BY <2>2, <2>3, <2>4
  <1>4. NoDuplicates(s) => /\ NoDuplicates(Tail(s))
                           /\ Head(s) \notin Elems(Tail(s))
    BY <1>1, <1>2 DEF NoDuplicates, Elems
  <1> QED BY <1>2, <1>3, <1>4

-----------------------------------------------------------------------------
(* Type correctness.                                                       *)

USE PathsAssumption, CapAssumption, LaneAssumption, PushersAssumption

(* What each outcome of push_scan leaves behind has its type.              *)
LEMMA PushScanType ==
    ASSUME TypeOK, NEW t \in Pushers, NEW p \in Paths, NEW l \in Lane,
           PushScan(t, p, l)
    PROVE  /\ lanes' \in [Lanes -> Seq(Paths)]
           /\ queued' \subseteq Paths
           /\ push' \in [Pushers -> PushState]
           /\ \A u \in Pushers :
                 /\ push'[u].at = "none" <=> push'[u].path = NoPath
                 /\ push'[u].at = "victim" <=> push'[u].victim # NoPath
  <1>1. CASE PushCoalesced(t, p, l)
    BY <1>1 DEF PushCoalesced, Returned, IdlePush, TypeOK, PushState, Lane, Lanes
  <1>2. CASE PushQueued(t, p, l)
    <2>1. Slot(l) \in Lanes
      BY DEF Slot, Lane, Lanes
    <2>2. lanes' \in [Lanes -> Seq(Paths)] /\ queued' \subseteq Paths
      BY <1>2, <2>1, PushBack DEF PushQueued, TypeOK
    <2> QED
      BY <1>2, <2>2 DEF PushQueued, Returned, IdlePush, TypeOK, PushState, Lane, Lanes
  <1>3. CASE PushOverflow(t, p, l)
    <2> DEFINE v == VictimLane
    <2>1. v \in Lanes /\ lanes[v] # <<>>
      BY <1>3 DEF PushOverflow, AtCap, Total, VictimLane, Lanes, TypeOK
    <2>2. Front(lanes[v]) \in Seq(Paths) /\ Last(lanes[v]) \in Paths
      BY <2>1, PopBack DEF TypeOK
    <2>3. lanes' \in [Lanes -> Seq(Paths)] /\ queued' \subseteq Paths
      BY <1>3, <2>1, <2>2 DEF PushOverflow, DedupAtCap, TypeOK
    <2>4. push' = [push EXCEPT ![t] = [at |-> "victim", path |-> p, lane |-> l,
                                       victim |-> Last(lanes[v])]]
      BY <1>3 DEF PushOverflow
    <2> QED
      BY <2>2, <2>3, <2>4 DEF TypeOK, PushState
  <1> QED BY <1>1, <1>2, <1>3 DEF PushScan

(* What one turn of the loop in pop leaves behind has its type.            *)
TakeNextTypes ==
    /\ gate \in Seq(Paths)
    /\ lanes \in [Lanes -> Seq(Paths)]
    /\ backlog \subseteq Paths
    /\ queued \subseteq Paths
    /\ owed \subseteq Paths
    /\ worker \in [Workers -> WorkerState]
    /\ \A v \in Workers :
          /\ worker[v].at \in {"scan", "detect"} <=> worker[v].path # NoPath
          /\ worker[v].batch # {} => worker[v].at = "insert"

(* Every outcome of a turn of the loop in pop has its type.                *)
LEMMA TakeNextType ==
    ASSUME TypeOK, NEW w \in Workers, NEW b \in SUBSET Paths,
           NEW q \in SUBSET Paths, TakeNext(w, b, q)
    PROVE  TakeNextTypes'
  <1> USE DEF TakeNextTypes
  <1>1. CASE TakeNone(w, b, q)
    BY <1>1 DEF TakeNone, IdleWorker, TypeOK, WorkerState
  <1>2. CASE TakeGate(w, b, q)
    <2>1. Head(gate) \in Paths /\ Tail(gate) \in Seq(Paths)
      BY <1>2, PopFront DEF TakeGate, TypeOK
    <2> QED BY <1>2, <2>1 DEF TakeGate, TypeOK, WorkerState
  <1>3. ASSUME NEW p \in Paths, Scanning(w, p, q)
        PROVE  /\ queued' \subseteq Paths
               /\ owed' \subseteq Paths
               /\ worker' \in [Workers -> WorkerState]
               /\ \A v \in Workers :
                     /\ worker'[v].at \in {"scan", "detect"}
                           <=> worker'[v].path # NoPath
                     /\ worker'[v].batch # {} => worker'[v].at = "insert"
    BY <1>3 DEF Scanning, DropsDedupEntry, TypeOK, WorkerState
  <1>4. ASSUME NEW l \in Lanes, TakeLive(w, l, b, q)
        PROVE  TakeNextTypes'
    <2>1. Head(lanes[l]) \in Paths /\ Tail(lanes[l]) \in Seq(Paths)
      BY <1>4, PopFront DEF TakeLive, TypeOK
    <2>2. /\ gate' \in Seq(Paths)
          /\ lanes' \in [Lanes -> Seq(Paths)]
          /\ backlog' \subseteq Paths
      BY <1>4, <2>1 DEF TakeLive, TypeOK
    <2> QED BY <1>4, <1>3, <2>1, <2>2 DEF TakeLive
  <1>5. ASSUME NEW p \in Paths, TakeBacklog(w, p, b, q)
        PROVE  TakeNextTypes'
    <2>1. /\ gate' \in Seq(Paths)
          /\ lanes' \in [Lanes -> Seq(Paths)]
          /\ backlog' \subseteq Paths
      BY <1>5 DEF TakeBacklog, TypeOK
    <2> QED BY <1>5, <1>3, <2>1 DEF TakeBacklog
  <1>6. CASE TakeFetch(w, b, q)
    BY <1>6 DEF TakeFetch, IdleWorker, TypeOK, WorkerState
  <1> QED BY <1>1, <1>2, <1>4, <1>5, <1>6 DEF TakeNext

(* The state of a thread that has just been started has its type.          *)
LEMMA FreshThreads ==
    /\ IdlePush \in PushState /\ IdlePush.at = "none"
    /\ IdlePush.path = NoPath /\ IdlePush.victim = NoPath
    /\ IdleHk \in HkState
    /\ IdleWorker \in WorkerState /\ IdleWorker.at = "pop"
    /\ IdleWorker.path = NoPath /\ IdleWorker.batch = {}
    /\ [l \in Lanes |-> <<>>] \in [Lanes -> Seq(Paths)]
  <1>1. <<>> \in Seq(Paths)
    OBVIOUS
  <1> QED
    BY <1>1 DEF IdlePush, IdleHk, IdleWorker, PushState, HkState, WorkerState, Lane,
                Lanes

(* The queue starts with every variable in its type.                       *)
LEMMA TypeInit == Init => TypeOK
  <1> SUFFICES ASSUME Init PROVE TypeOK
    OBVIOUS
  <1>1. /\ push \in [Pushers -> PushState]
        /\ \A t \in Pushers : push[t] = IdlePush
        /\ worker \in [Workers -> WorkerState]
        /\ \A w \in Workers : worker[w] = IdleWorker
        /\ hk \in HkState
        /\ lanes \in [Lanes -> Seq(Paths)]
        /\ gate \in Seq(Paths)
    BY FreshThreads DEF Init
  <1>2. /\ \A t \in Pushers : /\ push[t].at = "none" <=> push[t].path = NoPath
                              /\ push[t].at = "victim" <=> push[t].victim # NoPath
        /\ \A w \in Workers :
              /\ worker[w].at \in {"scan", "detect"} <=> worker[w].path # NoPath
              /\ worker[w].batch # {} => worker[w].at = "insert"
    BY <1>1, FreshThreads
  <1> QED BY <1>1, <1>2 DEF Init, TypeOK

(* Every step of every thread keeps every variable in its type.            *)
LEMMA TypeStep == TypeOK /\ [Next]_vars => TypeOK'
  <1> SUFFICES ASSUME TypeOK, [Next]_vars PROVE TypeOK'
    OBVIOUS
  <1>1. ASSUME NEW p \in Paths, NEW l \in Lane, IntakePush(p, l) PROVE TypeOK'
    <2>1. Intake \in Pushers
      BY DEF Pushers
    <2> QED BY <1>1, <2>1, PushScanType DEF IntakePush, TypeOK
  <1>2. ASSUME NEW p \in Paths, PushGateDetection(p) PROVE TypeOK'
    BY <1>2 DEF PushGateDetection, threads, history, TypeOK
  <1>3. ASSUME NEW t \in Pushers, PushSpill(t) PROVE TypeOK'
    BY <1>3 DEF PushSpill, inner, bounds, history, TypeOK, PushState
  <1>4. ASSUME NEW t \in Pushers, PushAgain(t) PROVE TypeOK'
    <2>1. push[t].path \in Paths /\ push[t].lane \in Lane
      BY <1>4 DEF PushAgain, TypeOK, PushState
    <2> QED BY <1>4, <2>1, PushScanType DEF PushAgain, bounds, TypeOK
  <1>5. CASE HkTake
    BY <1>5 DEF HkTake, inner, bounds, history, TypeOK, HkState
  <1>6. CASE HkWrite
    BY <1>6 DEF HkWrite, inner, bounds, history, TypeOK, HkState
  <1>7. ASSUME NEW p \in Paths, HkPush(p) PROVE TypeOK'
    <2>1. Hk \in Pushers /\ "churn" \in Lane
      BY DEF Pushers, Lane
    <2> QED BY <1>7, <2>1, PushScanType DEF HkPush, TypeOK
  <1>8. CASE HkSleep
    BY <1>8 DEF HkSleep, IdleHk, inner, bounds, history, TypeOK, HkState
  <1>9. CASE HkEnd
    BY <1>9 DEF HkEnd, inner, bounds, history, TypeOK, HkState
  <1>10. ASSUME NEW p \in Paths, SweepSpill(p) PROVE TypeOK'
    BY <1>10 DEF SweepSpill, inner, threads, TypeOK
  <1>11. CASE SweepEnd
    BY <1>11 DEF SweepEnd, inner, bounds, history, TypeOK
  <1>12. ASSUME NEW w \in Workers, PopTask(w) PROVE TypeOK'
    BY <1>12, TakeNextType DEF PopTask, TakeNextTypes, bounds, TypeOK
  <1>13. ASSUME NEW w \in Workers, TakePending(w) PROVE TypeOK'
    BY <1>13 DEF TakePending, Batches, inner, bounds, history, TypeOK, WorkerState
  <1>14. ASSUME NEW w \in Workers, InsertBatch(w) PROVE TypeOK'
    <2>1. Fresh(worker[w].batch) \subseteq Paths
      BY DEF Fresh, TypeOK, WorkerState
    <2>2. TakeNextTypes'
      <3> DEFINE f == Fresh(worker[w].batch)
      <3>1. backlog \cup f \in SUBSET Paths /\ queued \cup f \in SUBSET Paths
        BY <2>1 DEF TypeOK
      <3>2. TakeNext(w, backlog \cup f, queued \cup f)
        BY <1>14 DEF InsertBatch
      <3> HIDE DEF f
      <3> QED BY <3>1, <3>2, TakeNextType
    <2> QED BY <1>14, <2>2 DEF InsertBatch, TakeNextTypes, bounds, TypeOK
  <1>15. ASSUME NEW w \in Workers, WaitForWork(w) PROVE TypeOK'
    BY <1>15 DEF WaitForWork, IdleWorker, inner, bounds, history, TypeOK, WorkerState
  <1>16. ASSUME NEW w \in Workers, FinishTask(w) PROVE TypeOK'
    BY <1>16 DEF FinishTask, AfterTask, IdleWorker, inner, bounds, history,
                 TypeOK, WorkerState
  <1>17. CASE LeaveLoop
    BY <1>17 DEF LeaveLoop, Raised, inner, bounds, history, TypeOK
  <1>18. CASE JoinHelpers
    BY <1>18 DEF JoinHelpers, inner, bounds, history, TypeOK
  <1>19. CASE DrainPaths
    <2>1. Left \subseteq Paths /\ Elems(gate) \subseteq Paths
      BY DEF Left, InLanes, Elems, Lanes, TypeOK
    <2> QED BY <1>19, <2>1 DEF DrainPaths, bounds, TypeOK
  <1>20. CASE Persist
    BY <1>20 DEF Persist, inner, bounds, history, TypeOK
  <1>21. CASE JoinWorkers
    BY <1>21 DEF JoinWorkers, inner, bounds, history, TypeOK
  <1>22. CASE NewGeneration
    <2>1. /\ push' \in [Pushers -> PushState]
          /\ \A t \in Pushers : push'[t] = IdlePush
          /\ worker' \in [Workers -> WorkerState]
          /\ \A w \in Workers : worker'[w] = IdleWorker
          /\ hk' \in HkState
          /\ lanes' \in [Lanes -> Seq(Paths)]
          /\ gate' \in Seq(Paths)
      BY <1>22, FreshThreads DEF NewGeneration
    <2>2. /\ \A t \in Pushers :
                /\ push'[t].at = "none" <=> push'[t].path = NoPath
                /\ push'[t].at = "victim" <=> push'[t].victim # NoPath
          /\ \A w \in Workers :
                /\ worker'[w].at \in {"scan", "detect"} <=> worker'[w].path # NoPath
                /\ worker'[w].batch # {} => worker'[w].at = "insert"
      BY <2>1, FreshThreads
    <2>3. /\ backlog' \subseteq Paths /\ queued' \subseteq Paths
          /\ spill_buf' \subseteq Paths /\ pending' \subseteq Paths
          /\ salvage' \subseteq Paths /\ owed' \subseteq Paths
          /\ stuck' \subseteq Paths
      BY <1>22 DEF NewGeneration, TypeOK
    <2>4. pushes' \in Nat /\ lifetime' \in Nat /\ main' = "events"
      BY <1>22 DEF NewGeneration, TypeOK
    <2>5. sweeping' \in BOOLEAN /\ exit' \in BOOLEAN
      BY <1>22 DEF NewGeneration
    <2> QED BY <2>1, <2>2, <2>3, <2>4, <2>5 DEF TypeOK
  <1>23. CASE UNCHANGED vars
    BY <1>23 DEF vars, TypeOK
  <1> QED
    BY <1>1, <1>2, <1>3, <1>4, <1>5, <1>6, <1>7, <1>8, <1>9, <1>10, <1>11, <1>12,
       <1>13, <1>14, <1>15, <1>16, <1>17, <1>18, <1>19, <1>20, <1>21, <1>22, <1>23
       DEF Next, IntakeStep, HkStep, WorkerStep, Shutdown, Start, Crash

(* Type correctness, with what each thread holds at each of its control    *)
(* points.                                                                 *)
THEOREM TypeCorrect == Spec => []TypeOK
  BY TypeInit, TypeStep, PTL DEF Spec

-----------------------------------------------------------------------------
(* The lanes as a whole.                                                   *)

LanesOnce ==
    /\ \A l \in Lanes : NoDuplicates(lanes[l])
    /\ \A k, l \in Lanes : k # l => Elems(lanes[k]) \cap Elems(lanes[l]) = {}

(* A sum of three lane lengths grows with the lane that grows.             *)
LEMMA OneMore ==
    ASSUME NEW x \in Int, NEW y \in Int, NEW z \in Int
    PROVE  /\ (x + 1) + y + z = (x + y + z) + 1
           /\ x + (y + 1) + z = (x + y + z) + 1
           /\ x + y + (z + 1) = (x + y + z) + 1
  OBVIOUS

(* A new path at the back of a lane.                                       *)
LEMMA LaneGrow ==
    ASSUME TypeOK, LanesOnce, NEW l \in Lanes, NEW p, p \notin InLanes, NEW s,
           lanes' = [lanes EXCEPT ![l] = s], s \in Seq(Paths),
           Elems(s) = Elems(lanes[l]) \cup {p},
           Len(s) = Len(lanes[l]) + 1, NoDuplicates(s)
    PROVE  LanesOnce' /\ InLanes' = InLanes \cup {p} /\ Total' = Total + 1
  <1>1. /\ lanes'[l] = s
        /\ \A k \in Lanes : k # l => lanes'[k] = lanes[k]
        /\ \A k \in Lanes : Len(lanes[k]) \in Nat
        /\ \A k \in Lanes : p \notin Elems(lanes[k])
    BY DEF TypeOK, InLanes, Lanes
  <1>2. /\ Elems(lanes'[l]) = Elems(lanes[l]) \cup {p}
        /\ Len(lanes'[l]) = Len(lanes[l]) + 1
        /\ NoDuplicates(lanes'[l])
    BY <1>1
  <1>3. LanesOnce'
    <2>1. \A k \in Lanes : NoDuplicates(lanes'[k])
      BY <1>1, <1>2 DEF LanesOnce
    <2>2. \A k \in Lanes : k # l => Elems(lanes'[k]) \cap Elems(lanes'[l]) = {}
      BY <1>1, <1>2 DEF LanesOnce
    <2>3. \A j, k \in Lanes : j # l /\ k # l /\ j # k =>
             Elems(lanes'[j]) \cap Elems(lanes'[k]) = {}
      BY <1>1 DEF LanesOnce
    <2> QED BY <2>1, <2>2, <2>3 DEF LanesOnce
  <1>4. InLanes' = InLanes \cup {p}
    BY <1>1, <1>2 DEF InLanes, Lanes
  <1>5. Total' = Total + 1
    <2>1. l = "exec" \/ l = "data" \/ l = "media"
      BY DEF Lanes
    <2>2. /\ Len(lanes'[l]) = Len(lanes[l]) + 1
          /\ \A k \in Lanes : k # l => Len(lanes'[k]) = Len(lanes[k])
      BY <1>1, <1>2
    <2>3. /\ "exec" \in Lanes /\ "data" \in Lanes /\ "media" \in Lanes
          /\ Len(lanes["exec"]) \in Int /\ Len(lanes["data"]) \in Int
          /\ Len(lanes["media"]) \in Int
      BY <1>1 DEF Lanes
    <2>4. CASE l = "exec"
      <3>1. /\ Len(lanes'["exec"]) = Len(lanes["exec"]) + 1
            /\ Len(lanes'["data"]) = Len(lanes["data"])
            /\ Len(lanes'["media"]) = Len(lanes["media"])
        BY <2>2, <2>3, <2>4
      <3>2. /\ Total = Len(lanes["exec"]) + Len(lanes["data"]) + Len(lanes["media"])
            /\ Total' = Len(lanes'["exec"]) + Len(lanes'["data"])
                        + Len(lanes'["media"])
        BY DEF Total
      <3>3. Total' = Total + 1
        <4> DEFINE x == Len(lanes["exec"])
                   y == Len(lanes["data"])
                   z == Len(lanes["media"])
        <4>1. x \in Int /\ y \in Int /\ z \in Int
          BY <2>3
        <4>2. /\ (x + 1) + y + z = (x + y + z) + 1
              /\ x + (y + 1) + z = (x + y + z) + 1
              /\ x + y + (z + 1) = (x + y + z) + 1
          BY <4>1, OneMore
        <4> QED BY ONLY <3>1, <3>2, <4>2, Zenon
      <3> QED BY <3>3
    <2>5. CASE l = "data"
      <3>1. /\ Len(lanes'["data"]) = Len(lanes["data"]) + 1
            /\ Len(lanes'["exec"]) = Len(lanes["exec"])
            /\ Len(lanes'["media"]) = Len(lanes["media"])
        BY <2>2, <2>3, <2>5
      <3>2. /\ Total = Len(lanes["exec"]) + Len(lanes["data"]) + Len(lanes["media"])
            /\ Total' = Len(lanes'["exec"]) + Len(lanes'["data"])
                        + Len(lanes'["media"])
        BY DEF Total
      <3>3. Total' = Total + 1
        <4> DEFINE x == Len(lanes["exec"])
                   y == Len(lanes["data"])
                   z == Len(lanes["media"])
        <4>1. x \in Int /\ y \in Int /\ z \in Int
          BY <2>3
        <4>2. /\ (x + 1) + y + z = (x + y + z) + 1
              /\ x + (y + 1) + z = (x + y + z) + 1
              /\ x + y + (z + 1) = (x + y + z) + 1
          BY <4>1, OneMore
        <4> QED BY ONLY <3>1, <3>2, <4>2, Zenon
      <3> QED BY <3>3
    <2>6. CASE l = "media"
      <3>1. /\ Len(lanes'["media"]) = Len(lanes["media"]) + 1
            /\ Len(lanes'["exec"]) = Len(lanes["exec"])
            /\ Len(lanes'["data"]) = Len(lanes["data"])
        BY <2>2, <2>3, <2>6
      <3>2. /\ Total = Len(lanes["exec"]) + Len(lanes["data"]) + Len(lanes["media"])
            /\ Total' = Len(lanes'["exec"]) + Len(lanes'["data"])
                        + Len(lanes'["media"])
        BY DEF Total
      <3>3. Total' = Total + 1
        <4> DEFINE x == Len(lanes["exec"])
                   y == Len(lanes["data"])
                   z == Len(lanes["media"])
        <4>1. x \in Int /\ y \in Int /\ z \in Int
          BY <2>3
        <4>2. /\ (x + 1) + y + z = (x + y + z) + 1
              /\ x + (y + 1) + z = (x + y + z) + 1
              /\ x + y + (z + 1) = (x + y + z) + 1
          BY <4>1, OneMore
        <4> QED BY ONLY <3>1, <3>2, <4>2, Zenon
      <3> QED BY <3>3
    <2> QED BY <2>1, <2>4, <2>5, <2>6
  <1> QED BY <1>3, <1>4, <1>5

(* A lane loses one element and keeps the others.                          *)
LEMMA LaneShrink ==
    ASSUME TypeOK, LanesOnce, NEW l \in Lanes, NEW p, NEW s,
           lanes' = [lanes EXCEPT ![l] = s], s \in Seq(Paths),
           Elems(lanes[l]) = Elems(s) \cup {p}, p \notin Elems(s),
           Len(s) = Len(lanes[l]) - 1, NoDuplicates(s)
    PROVE  /\ LanesOnce' /\ InLanes' = InLanes \ {p} /\ p \in InLanes
           /\ Total' = Total - 1
  <1>1. /\ lanes'[l] = s
        /\ \A k \in Lanes : k # l => lanes'[k] = lanes[k]
        /\ \A k \in Lanes : Len(lanes[k]) \in Nat
        /\ \A k \in Lanes : k # l => p \notin Elems(lanes[k])
    BY DEF TypeOK, LanesOnce
  <1>2. LanesOnce'
    BY <1>1 DEF LanesOnce
  <1>3. InLanes' = InLanes \ {p} /\ p \in InLanes
    BY <1>1 DEF InLanes, Lanes
  <1>4. Total' = Total - 1
    <2>1. l = "exec" \/ l = "data" \/ l = "media"
      BY DEF Lanes
    <2>2. /\ Len(lanes'[l]) = Len(lanes[l]) - 1
          /\ \A k \in Lanes : k # l => Len(lanes'[k]) = Len(lanes[k])
      BY <1>1
    <2>3. /\ "exec" \in Lanes /\ "data" \in Lanes /\ "media" \in Lanes
          /\ Len(lanes["exec"]) \in Int /\ Len(lanes["data"]) \in Int
          /\ Len(lanes["media"]) \in Int
      BY <1>1 DEF Lanes
    <2>4. CASE l = "exec"
      <3>1. /\ Len(lanes'["exec"]) = Len(lanes["exec"]) - 1
            /\ Len(lanes'["data"]) = Len(lanes["data"])
            /\ Len(lanes'["media"]) = Len(lanes["media"])
        BY <2>2, <2>3, <2>4
      <3>2. /\ Total = Len(lanes["exec"]) + Len(lanes["data"]) + Len(lanes["media"])
            /\ Total' = Len(lanes'["exec"]) + Len(lanes'["data"])
                        + Len(lanes'["media"])
        BY DEF Total
      <3> QED BY <2>3, <3>1, <3>2
    <2>5. CASE l = "data"
      <3>1. /\ Len(lanes'["data"]) = Len(lanes["data"]) - 1
            /\ Len(lanes'["exec"]) = Len(lanes["exec"])
            /\ Len(lanes'["media"]) = Len(lanes["media"])
        BY <2>2, <2>3, <2>5
      <3>2. /\ Total = Len(lanes["exec"]) + Len(lanes["data"]) + Len(lanes["media"])
            /\ Total' = Len(lanes'["exec"]) + Len(lanes'["data"])
                        + Len(lanes'["media"])
        BY DEF Total
      <3> QED BY <2>3, <3>1, <3>2
    <2>6. CASE l = "media"
      <3>1. /\ Len(lanes'["media"]) = Len(lanes["media"]) - 1
            /\ Len(lanes'["exec"]) = Len(lanes["exec"])
            /\ Len(lanes'["data"]) = Len(lanes["data"])
        BY <2>2, <2>3, <2>6
      <3>2. /\ Total = Len(lanes["exec"]) + Len(lanes["data"]) + Len(lanes["media"])
            /\ Total' = Len(lanes'["exec"]) + Len(lanes'["data"])
                        + Len(lanes'["media"])
        BY DEF Total
      <3> QED BY <2>3, <3>1, <3>2
    <2> QED BY <2>1, <2>4, <2>5, <2>6
  <1> QED BY <1>2, <1>3, <1>4

-----------------------------------------------------------------------------
(* The dedup invariant.  The claim that the dedup set is exact is not      *)
(* inductive alone: a path in the middle of an overflow, or stuck in one,  *)
(* must not be in a lane as well, or the pop of that entry would take the  *)
(* dedup entry away under the other; and only a thread that is still       *)
(* running may be in the middle of a push.                                 *)

Apart == (Retrying \cup stuck) \cap (InLanes \cup backlog) = {}

PushersRun ==
    /\ push[Intake].at # "none" => main = "events"
    /\ push[Hk].at # "none" => hk.at = "flush"
    /\ main \in {"drain", "persist", "join_workers", "down"} => hk.at = "done"

DedupInv ==
    /\ TypeOK
    /\ CapRespected
    /\ QueuedOnce
    /\ DedupIsExact
    /\ Apart
    /\ PushersRun

(* QueuedOnce, split into its claim about the lanes and the backlog.       *)
LEMMA QueuedOnceLanes == QueuedOnce <=> LanesOnce /\ InLanes \cap backlog = {}
  BY DEF QueuedOnce, LanesOnce

(* The paths in the middle of push_scan, one for each pusher.              *)
LEMMA RetryingIs == Retrying = {push[Intake].path, push[Hk].path} \ {NoPath}
  BY DEF Retrying, Pushers

(* push_scan, called or calling itself.                                    *)
LEMMA PushScanDedup ==
    ASSUME DedupInv, TypeOK', NEW t \in Pushers, NEW p \in Paths, NEW l \in Lane,
           PushScan(t, p, l), UNCHANGED backlog,
           \/ push[t].at = "none" /\ UNCHANGED stuck
           \/ /\ push[t].at = "again" /\ push[t].path = p
              /\ stuck' = IF p \in queued THEN stuck \cup {p} ELSE stuck
    PROVE  CapRespected' /\ QueuedOnce' /\ DedupIsExact' /\ Apart'
  <1> USE DEF DedupInv
  <1>1. LanesOnce /\ InLanes \cap backlog = {}
    BY QueuedOnceLanes
  <1>2. push[t].path \in Retrying \/ push[t].path = NoPath
    BY DEF Retrying
  <1>3. CASE PushCoalesced(t, p, l)
    <2>1. Retrying' \cup stuck' = Retrying \cup stuck
      <3>1. push' = [push EXCEPT ![t] = IdlePush] /\ push \in [Pushers -> PushState]
        BY <1>3 DEF PushCoalesced, Returned, TypeOK
      <3>2. \A u \in Pushers : push'[u].path = IF u = t THEN NoPath ELSE push[u].path
        BY <3>1 DEF IdlePush
      <3>3. Retrying' = {push'[u].path : u \in Pushers} \ {NoPath}
        BY DEF Retrying
      <3>4. CASE push[t].at = "none"
        <4>1. \A u \in Pushers : push'[u].path = push[u].path
          BY <3>2, <3>4 DEF TypeOK
        <4> QED BY <3>4, <4>1 DEF Retrying
      <3>5. CASE push[t].at = "again"
        <4>1. stuck' = stuck \cup {p} /\ push[t].path = p /\ p # NoPath
          BY <1>3, <3>5 DEF PushCoalesced
        <4>2. \A x : x \in Retrying => x \in Retrying' \/ x = p
          BY <3>2, <4>1 DEF Retrying
        <4>3. \A x : x \in Retrying' => x \in Retrying
          BY <3>2 DEF Retrying
        <4>4. p \in Retrying
          BY <4>1 DEF Retrying
        <4> QED BY <4>1, <4>2, <4>3, <4>4
      <3> QED BY <3>4, <3>5
    <2>2. UNCHANGED <<lanes, queued>>
      BY <1>3 DEF PushCoalesced
    <2>3. InLanes' = InLanes /\ Total' = Total
      BY <2>2 DEF InLanes, Total
    <2> QED BY <2>1, <2>2, <2>3 DEF CapRespected, QueuedOnce, DedupIsExact, Apart
  <1>4. CASE p \notin queued
    <2>1. p \notin InLanes /\ p \notin backlog /\ p \notin Retrying /\ p \notin stuck
      BY <1>4 DEF DedupIsExact
    <2>2. push[t].at = "none" /\ push[t].path = NoPath /\ stuck' = stuck
      BY <1>2, <2>1 DEF TypeOK
    <2>3. CASE PushQueued(t, p, l)
      <3>1. Slot(l) \in Lanes
        BY DEF Slot, Lane, Lanes
      <3>2. LanesOnce' /\ InLanes' = InLanes \cup {p} /\ Total' = Total + 1
        <4> DEFINE k == Slot(l)
                   s == Append(lanes[k], p)
        <4>1. k \in Lanes /\ lanes' = [lanes EXCEPT ![k] = s]
          BY <2>3, <3>1 DEF PushQueued
        <4>2. /\ lanes[k] \in Seq(Paths) /\ NoDuplicates(lanes[k])
              /\ p \notin Elems(lanes[k])
          BY <1>1, <2>1, <4>1 DEF TypeOK, LanesOnce, InLanes, Lanes
        <4>3. /\ s \in Seq(Paths) /\ Len(s) = Len(lanes[k]) + 1
              /\ Elems(s) = Elems(lanes[k]) \cup {p} /\ NoDuplicates(s)
          BY <4>2, PushBack
        <4> HIDE DEF k, s
        <4> QED BY <1>1, <2>1, <4>1, <4>3, LaneGrow
      <3>3. Retrying' = Retrying
        <4>1. push' = [push EXCEPT ![t] = IdlePush] /\ push \in [Pushers -> PushState]
          BY <2>3 DEF PushQueued, Returned, TypeOK
        <4>2. \A u \in Pushers : push'[u].path = push[u].path
          BY <2>2, <4>1 DEF IdlePush
        <4> QED BY <4>2 DEF Retrying
      <3>4. Total \in Nat /\ Total < MEM_QUEUE_CAP
        BY <2>3 DEF PushQueued, AtCap, Total, TypeOK, Lanes
      <3>5. CapRespected'
        BY <3>2, <3>4 DEF CapRespected
      <3>6. queued' = queued \cup {p}
        BY <2>3 DEF PushQueued
      <3>7. QueuedOnce'
        BY <1>1, <2>1, <3>2, QueuedOnceLanes DEF QueuedOnce, LanesOnce
      <3>8. DedupIsExact' /\ Apart'
        BY <2>1, <2>2, <3>2, <3>3, <3>6 DEF DedupIsExact, Apart
      <3> QED BY <3>5, <3>7, <3>8
    <2>4. CASE PushOverflow(t, p, l)
      <3> DEFINE v == VictimLane
                 x == Last(lanes[v])
      <3>1. v \in Lanes /\ lanes[v] # <<>>
        BY <2>4 DEF PushOverflow, AtCap, Total, VictimLane, Lanes, TypeOK
      <3>2. /\ lanes' = [lanes EXCEPT ![v] = Front(lanes[v])]
            /\ queued' = (queued \cup {p}) \ {x}
            /\ push' = [push EXCEPT ![t] = [at |-> "victim", path |-> p, lane |-> l,
                                            victim |-> x]]
        BY <2>4 DEF PushOverflow, DedupAtCap
      <3>3. LanesOnce' /\ InLanes' = InLanes \ {x} /\ x \in InLanes /\ Total' = Total - 1
        <4>1. lanes[v] \in Seq(Paths) /\ NoDuplicates(lanes[v])
          BY <1>1, <3>1 DEF TypeOK, LanesOnce
        <4>2. /\ Front(lanes[v]) \in Seq(Paths)
              /\ Len(Front(lanes[v])) = Len(lanes[v]) - 1
              /\ Elems(lanes[v]) = Elems(Front(lanes[v])) \cup {x}
              /\ NoDuplicates(Front(lanes[v]))
              /\ x \notin Elems(Front(lanes[v]))
          BY <3>1, <4>1, PopBack
        <4> HIDE DEF v, x
        <4> QED BY <1>1, <3>1, <3>2, <4>1, <4>2, LaneShrink
      <3> HIDE DEF v, x
      <3>4. Retrying' = Retrying \cup {p}
        <4>1. \A u \in Pushers : push'[u].path = IF u = t THEN p ELSE push[u].path
          BY <3>2 DEF TypeOK
        <4> QED BY <2>2, <4>1, t \in Pushers DEF Retrying
      <3>5. CapRespected'
        BY <3>3 DEF CapRespected, Total, TypeOK, Lanes
      <3>6. QueuedOnce'
        BY <1>1, <3>3 DEF QueuedOnce, LanesOnce
      <3>7. DedupIsExact' /\ Apart'
        BY <1>1, <2>1, <2>2, <3>2, <3>3, <3>4 DEF DedupIsExact, Apart
      <3> QED BY <3>5, <3>6, <3>7
    <2> QED BY <1>4, <2>3, <2>4 DEF PushScan, PushCoalesced
  <1> QED BY <1>3, <1>4 DEF PushScan, PushQueued, PushOverflow

(* One turn of the loop in pop, over a backlog b and a dedup set q that    *)
(* agree with the lanes.                                                   *)
LEMMA TakeNextDedup ==
    ASSUME DedupInv, NEW w \in Workers, NEW b \in SUBSET Paths,
           NEW q \in SUBSET Paths, TakeNext(w, b, q), UNCHANGED <<push, stuck>>,
           q = InLanes \cup b \cup Retrying \cup stuck,
           InLanes \cap b = {}, (Retrying \cup stuck) \cap (InLanes \cup b) = {}
    PROVE  CapRespected' /\ QueuedOnce' /\ DedupIsExact' /\ Apart'
  <1> USE DEF DedupInv
  <1>1. LanesOnce /\ Retrying' = Retrying /\ stuck' = stuck
    BY QueuedOnceLanes DEF Retrying
  <1>2. ASSUME UNCHANGED lanes, backlog' = b, queued' = q
        PROVE  CapRespected' /\ QueuedOnce' /\ DedupIsExact' /\ Apart'
    <2>1. InLanes' = InLanes /\ Total' = Total /\ LanesOnce'
      BY <1>1, <1>2 DEF InLanes, Total, LanesOnce
    <2>2. QueuedOnce'
      BY <1>2, <2>1 DEF QueuedOnce, LanesOnce
    <2> QED BY <1>1, <1>2, <2>1, <2>2 DEF CapRespected, DedupIsExact, Apart
  <1>3. CASE TakeNone(w, b, q)
    BY <1>2, <1>3 DEF TakeNone
  <1>4. CASE TakeGate(w, b, q)
    BY <1>2, <1>4 DEF TakeGate
  <1>5. CASE TakeFetch(w, b, q)
    BY <1>2, <1>5 DEF TakeFetch
  <1>6. ASSUME NEW p \in Paths, TakeBacklog(w, p, b, q)
        PROVE  CapRespected' /\ QueuedOnce' /\ DedupIsExact' /\ Apart'
    <2>1. /\ UNCHANGED lanes /\ backlog' = b \ {p} /\ queued' = q \ {p} /\ p \in b
      BY <1>6 DEF TakeBacklog, Scanning, DropsDedupEntry
    <2>2. InLanes' = InLanes /\ Total' = Total /\ LanesOnce'
      BY <1>1, <2>1 DEF InLanes, Total, LanesOnce
    <2>3. QueuedOnce'
      BY <2>1, <2>2 DEF QueuedOnce, LanesOnce
    <2> QED BY <1>1, <2>1, <2>2, <2>3 DEF CapRespected, DedupIsExact, Apart
  <1>7. ASSUME NEW l \in Lanes, TakeLive(w, l, b, q)
        PROVE  CapRespected' /\ QueuedOnce' /\ DedupIsExact' /\ Apart'
    <2> DEFINE p == Head(lanes[l])
               s == Tail(lanes[l])
    <2>1. /\ lanes' = [lanes EXCEPT ![l] = s] /\ backlog' = b
          /\ queued' = q \ {p} /\ lanes[l] # <<>>
      BY <1>7 DEF TakeLive, Scanning, DropsDedupEntry
    <2>2. LanesOnce' /\ InLanes' = InLanes \ {p} /\ p \in InLanes /\ Total' = Total - 1
      <3>1. lanes[l] \in Seq(Paths) /\ NoDuplicates(lanes[l])
        BY <1>1 DEF TypeOK, LanesOnce
      <3>2. /\ s \in Seq(Paths) /\ Len(s) = Len(lanes[l]) - 1
            /\ Elems(lanes[l]) = Elems(s) \cup {p}
            /\ NoDuplicates(s) /\ p \notin Elems(s)
        BY <2>1, <3>1, PopFront
      <3> HIDE DEF p, s
      <3> QED BY <1>1, <2>1, <3>1, <3>2, LaneShrink
    <2> HIDE DEF p, s
    <2>3. QueuedOnce'
      BY <2>1, <2>2 DEF QueuedOnce, LanesOnce
    <2>4. CapRespected'
      <3>1. Total \in Int /\ Total <= MEM_QUEUE_CAP /\ MEM_QUEUE_CAP \in Int
        BY DEF CapRespected, Total, TypeOK, Lanes
      <3>2. Total' <= MEM_QUEUE_CAP
        BY <2>2, <3>1
      <3> QED BY <3>2 DEF CapRespected
    <2> QED BY <1>1, <2>1, <2>2, <2>3, <2>4 DEF DedupIsExact, Apart
  <1> QED BY <1>3, <1>4, <1>5, <1>6, <1>7 DEF TakeNext

EmptyQueue ==
    /\ lanes = [l \in Lanes |-> <<>>]
    /\ backlog = {}
    /\ queued = {}
    /\ stuck = {}
    /\ \A t \in Pushers : push[t].path = NoPath

DedupClaims == CapRespected /\ QueuedOnce /\ DedupIsExact /\ Apart

(* The claims hold of a queue that has just been made or drained.          *)
LEMMA EmptyQueueDedup == EmptyQueue => DedupClaims
  <1> SUFFICES ASSUME EmptyQueue PROVE DedupClaims
    OBVIOUS
  <1>1. InLanes = {} /\ Total = 0 /\ LanesOnce /\ Retrying = {}
    <2>1. \A l \in Lanes : lanes[l] = <<>>
      BY DEF EmptyQueue
    <2>2. /\ lanes["exec"] = <<>> /\ lanes["data"] = <<>> /\ lanes["media"] = <<>>
      BY <2>1 DEF Lanes
    <2>3. Elems(<<>>) = {} /\ NoDuplicates(<<>>) /\ Len(<<>>) = 0
      BY DEF Elems, NoDuplicates
    <2>4. InLanes = {}
      BY <2>2, <2>3 DEF InLanes
    <2>5. Total = 0
      BY <2>2, <2>3 DEF Total
    <2>6. LanesOnce
      BY <2>1, <2>3 DEF LanesOnce
    <2>7. Retrying = {}
      BY DEF EmptyQueue, Retrying
    <2> QED BY <2>4, <2>5, <2>6, <2>7
  <1>2. CapRespected /\ QueuedOnce
    BY <1>1 DEF CapRespected, QueuedOnce, LanesOnce
  <1>3. DedupIsExact /\ Apart
    BY <1>1 DEF DedupIsExact, Apart, EmptyQueue
  <1> QED BY <1>2, <1>3 DEF DedupClaims

(* The claims survive what leaves the queue alone.                         *)
LEMMA SameQueueDedup ==
    ASSUME DedupInv, UNCHANGED <<lanes, backlog, queued, stuck>>,
           Retrying' = Retrying
    PROVE  DedupClaims'
  <1>1. InLanes' = InLanes /\ Total' = Total
    BY DEF InLanes, Total
  <1> QED
    BY <1>1 DEF DedupInv, DedupClaims, CapRespected, QueuedOnce, DedupIsExact, Apart

(* The claims about the dedup set and the cap hold of the empty queue.     *)
LEMMA DedupInit == Init => DedupInv
  <1> SUFFICES ASSUME Init PROVE DedupInv
    OBVIOUS
  <1>1. TypeOK
    BY TypeInit
  <1>2. \A t \in Pushers : push[t].path = NoPath /\ push[t].at = "none"
    BY DEF Init, IdlePush
  <1>3. DedupClaims
    BY <1>2, EmptyQueueDedup DEF EmptyQueue, Init
  <1>4. PushersRun
    BY <1>2 DEF PushersRun, Pushers, Init
  <1> QED BY <1>1, <1>3, <1>4 DEF DedupInv, DedupClaims

(* The claims about the dedup set and the cap survive every step.          *)
LEMMA DedupStep == DedupInv /\ [Next]_vars => DedupInv'
  <1> SUFFICES ASSUME DedupInv, [Next]_vars PROVE DedupInv'
    OBVIOUS
  <1>0. TypeOK /\ TypeOK'
    BY TypeStep DEF DedupInv
  <1> SUFFICES DedupClaims' /\ PushersRun'
    BY <1>0 DEF DedupInv, DedupClaims
  <1> USE <1>0
  <1>1. ASSUME NEW p \in Paths, NEW l \in Lane, IntakePush(p, l)
        PROVE  DedupClaims' /\ PushersRun'
    <2>1. DedupClaims'
      BY <1>1, PushScanDedup DEF IntakePush, DedupClaims, Pushers
    <2>2. push'[Hk] = push[Hk] /\ UNCHANGED <<main, hk>>
      BY <1>1 DEF IntakePush, PushScan, PushCoalesced, PushQueued, PushOverflow,
                  Returned, TypeOK, Pushers
    <2>3. PushersRun'
      BY <1>1, <2>2 DEF IntakePush, DedupInv, PushersRun
    <2> QED BY <2>1, <2>3
  <1>2. ASSUME NEW p \in Paths, PushGateDetection(p)
        PROVE  DedupClaims' /\ PushersRun'
    BY <1>2, SameQueueDedup
       DEF PushGateDetection, threads, history, Retrying, DedupInv, PushersRun
  <1>3. ASSUME NEW t \in Pushers, PushSpill(t) PROVE DedupClaims' /\ PushersRun'
    <2>1. push' = [push EXCEPT ![t].at = "again", ![t].victim = NoPath]
      BY <1>3 DEF PushSpill
    <2>2. /\ \A u \in Pushers : push'[u].path = push[u].path
          /\ \A u \in Pushers : push'[u].at # "none" => push[u].at # "none"
      BY <1>3, <2>1 DEF PushSpill, TypeOK, PushState
    <2>3. Retrying' = Retrying
      BY <2>2 DEF Retrying
    <2>4. DedupClaims'
      BY <1>3, <2>3, SameQueueDedup DEF PushSpill, inner, history
    <2>5. PushersRun'
      BY <1>3, <2>2 DEF PushSpill, DedupInv, PushersRun, Pushers
    <2> QED BY <2>4, <2>5
  <1>4. ASSUME NEW t \in Pushers, PushAgain(t) PROVE DedupClaims' /\ PushersRun'
    <2>1. push[t].path \in Paths /\ push[t].lane \in Lane /\ push[t].at = "again"
      BY <1>4 DEF PushAgain, TypeOK, PushState
    <2>2. DedupClaims'
      BY <1>4, <2>1, PushScanDedup DEF PushAgain, DedupClaims
    <2>3. \A u \in Pushers : push'[u].at # "none" => push[u].at # "none"
      BY <1>4, <2>1 DEF PushAgain, PushScan, PushCoalesced, PushQueued, PushOverflow,
                        Returned, TypeOK
    <2>4. PushersRun'
      BY <1>4, <2>3 DEF PushAgain, DedupInv, PushersRun, Pushers
    <2> QED BY <2>2, <2>4
  <1>5. CASE HkTake
    BY <1>5, SameQueueDedup
       DEF HkTake, inner, bounds, history, Retrying, DedupInv, PushersRun
  <1>6. CASE HkWrite
    BY <1>6, SameQueueDedup
       DEF HkWrite, inner, bounds, history, Retrying, DedupInv, PushersRun
  <1>7. ASSUME NEW p \in Paths, HkPush(p) PROVE DedupClaims' /\ PushersRun'
    <2>1. Hk \in Pushers /\ "churn" \in Lane
      BY DEF Pushers, Lane
    <2>2. DedupClaims'
      BY <1>7, <2>1, PushScanDedup DEF HkPush, DedupClaims
    <2>3. push'[Intake] = push[Intake] /\ UNCHANGED <<main, hk>>
      BY <1>7 DEF HkPush, PushScan, PushCoalesced, PushQueued, PushOverflow,
                  Returned, TypeOK, Pushers
    <2>4. PushersRun'
      BY <1>7, <2>3 DEF HkPush, DedupInv, PushersRun
    <2> QED BY <2>2, <2>4
  <1>8. CASE HkSleep
    BY <1>8, SameQueueDedup
       DEF HkSleep, inner, bounds, history, Retrying, DedupInv, PushersRun
  <1>9. CASE HkEnd
    BY <1>9, SameQueueDedup
       DEF HkEnd, inner, bounds, history, Retrying, DedupInv, PushersRun, TypeOK,
           HkState
  <1>10. ASSUME NEW p \in Paths, SweepSpill(p) PROVE DedupClaims' /\ PushersRun'
    BY <1>10, SameQueueDedup DEF SweepSpill, inner, threads, Retrying, DedupInv,
                                 PushersRun
  <1>11. CASE SweepEnd
    BY <1>11, SameQueueDedup
       DEF SweepEnd, inner, bounds, history, Retrying, DedupInv, PushersRun
  <1>12. ASSUME NEW w \in Workers, PopTask(w) PROVE DedupClaims' /\ PushersRun'
    <2>1. /\ backlog \in SUBSET Paths /\ queued \in SUBSET Paths
          /\ queued = InLanes \cup backlog \cup Retrying \cup stuck
          /\ InLanes \cap backlog = {}
          /\ (Retrying \cup stuck) \cap (InLanes \cup backlog) = {}
      BY DEF DedupInv, TypeOK, DedupIsExact, QueuedOnce, Apart
    <2>2. TakeNext(w, backlog, queued) /\ UNCHANGED <<push, stuck, main, hk>>
      BY <1>12 DEF PopTask
    <2>3. DedupClaims'
      BY <2>1, <2>2, TakeNextDedup DEF DedupClaims
    <2> QED BY <2>2, <2>3 DEF DedupInv, PushersRun
  <1>13. ASSUME NEW w \in Workers, TakePending(w) PROVE DedupClaims' /\ PushersRun'
    BY <1>13, SameQueueDedup
       DEF TakePending, inner, bounds, history, Retrying, DedupInv, PushersRun
  <1>14. ASSUME NEW w \in Workers, InsertBatch(w) PROVE DedupClaims' /\ PushersRun'
    <2> DEFINE f == Fresh(worker[w].batch)
    <2>1. f \subseteq Paths /\ f \cap queued = {}
      BY DEF Fresh, TypeOK, WorkerState
    <2>2. /\ TakeNext(w, backlog \cup f, queued \cup f)
          /\ UNCHANGED <<push, stuck, main, hk>>
      BY <1>14 DEF InsertBatch
    <2> HIDE DEF f
    <2>3. /\ queued = InLanes \cup backlog \cup Retrying \cup stuck
          /\ InLanes \cap backlog = {}
          /\ (Retrying \cup stuck) \cap (InLanes \cup backlog) = {}
          /\ backlog \subseteq Paths /\ queued \subseteq Paths
      BY DEF DedupInv, TypeOK, DedupIsExact, QueuedOnce, Apart
    <2>4. /\ backlog \cup f \in SUBSET Paths /\ queued \cup f \in SUBSET Paths
          /\ queued \cup f = InLanes \cup (backlog \cup f) \cup Retrying \cup stuck
          /\ InLanes \cap (backlog \cup f) = {}
          /\ (Retrying \cup stuck) \cap (InLanes \cup (backlog \cup f)) = {}
      BY <2>1, <2>3
    <2>5. DedupClaims'
      BY <2>2, <2>4, TakeNextDedup DEF DedupClaims
    <2> QED BY <2>2, <2>5 DEF DedupInv, PushersRun
  <1>15. ASSUME NEW w \in Workers, WaitForWork(w) PROVE DedupClaims' /\ PushersRun'
    BY <1>15, SameQueueDedup
       DEF WaitForWork, inner, bounds, history, Retrying, DedupInv, PushersRun
  <1>16. ASSUME NEW w \in Workers, FinishTask(w) PROVE DedupClaims' /\ PushersRun'
    BY <1>16, SameQueueDedup
       DEF FinishTask, inner, bounds, history, Retrying, DedupInv, PushersRun
  <1>17. CASE LeaveLoop
    BY <1>17, SameQueueDedup
       DEF LeaveLoop, inner, bounds, history, Retrying, DedupInv, PushersRun
  <1>18. CASE JoinHelpers
    BY <1>18, SameQueueDedup
       DEF JoinHelpers, inner, bounds, history, Retrying, DedupInv, PushersRun
  <1>19. CASE DrainPaths
    <2>1. \A t \in Pushers : push[t].path = NoPath
      BY <1>19 DEF DrainPaths, DedupInv, PushersRun, TypeOK, Pushers
    <2>2. EmptyQueue'
      BY <1>19, <2>1 DEF DrainPaths, EmptyQueue
    <2>3. DedupClaims'
      BY <2>2, EmptyQueueDedup, PTL
    <2> QED BY <1>19, <2>3 DEF DrainPaths, DedupInv, PushersRun
  <1>20. CASE Persist
    BY <1>20, SameQueueDedup
       DEF Persist, inner, bounds, history, Retrying, DedupInv, PushersRun
  <1>21. CASE JoinWorkers
    BY <1>21, SameQueueDedup
       DEF JoinWorkers, inner, bounds, history, Retrying, DedupInv, PushersRun
  <1>22. CASE NewGeneration
    <2>1. \A t \in Pushers : push'[t].path = NoPath /\ push'[t].at = "none"
      BY <1>22 DEF NewGeneration, IdlePush
    <2>2. EmptyQueue'
      BY <1>22, <2>1 DEF NewGeneration, EmptyQueue
    <2>3. DedupClaims'
      BY <2>2, EmptyQueueDedup, PTL
    <2> QED BY <1>22, <2>1, <2>3 DEF NewGeneration, PushersRun, Pushers
  <1>23. CASE UNCHANGED vars
    BY <1>23, SameQueueDedup DEF vars, Retrying, DedupInv, PushersRun
  <1> QED
    BY <1>1, <1>2, <1>3, <1>4, <1>5, <1>6, <1>7, <1>8, <1>9, <1>10, <1>11, <1>12,
       <1>13, <1>14, <1>15, <1>16, <1>17, <1>18, <1>19, <1>20, <1>21, <1>22, <1>23
       DEF Next, IntakeStep, HkStep, WorkerStep, Shutdown, Start, Crash

(* The inductive invariant behind the three theorems below.                *)
THEOREM DedupInvariant == Spec => []DedupInv
  BY DedupInit, DedupStep, PTL DEF Spec

(* Whatever the cap, the paths and the number of workers, the lanes stay   *)
(* within the cap although an overflow releases the mutex half-way.        *)
THEOREM CapIsRespected == Spec => []CapRespected
  <1>1. DedupInv => CapRespected
    BY DEF DedupInv
  <1> QED BY <1>1, DedupInvariant, PTL

(* A path waits once, and the dedup set is what waits, but for overflows    *)
(* under way or stuck.                                                     *)
THEOREM PathsWaitOnce == Spec => []EachPathOnce
  <1>1. DedupInv => EachPathOnce
    BY DEF DedupInv, EachPathOnce
  <1> QED BY <1>1, DedupInvariant, PTL

-----------------------------------------------------------------------------
(* What is handed over is not lost.  Every hand-over between two places    *)
(* goes through a thread, so the invariant says what each thread holds:    *)
(* the housekeeping thread a batch only while it writes one, the intake    *)
(* thread nothing to persist before it has joined its helpers.             *)

Victims == {push[t].victim : t \in Pushers} \ {NoPath}
Held == UNION {worker[w].batch : w \in Workers}

HandsEmpty ==
    /\ hk.at # "write" => hk.batch = {}
    /\ main \in {"events", "join_helpers"} => salvage = {}

Kept == owed \subseteq Located \cup stuck

LossInv == DedupInv /\ HandsEmpty /\ Kept

(* Where work is, with the threads' hands spelled out.                    *)
LEMMA LocatedIs ==
    Located = InLanes \cup backlog \cup spill_buf \cup pending \cup Victims
              \cup Retrying \cup hk.batch \cup salvage \cup Held
  BY DEF Located, InHand, Victims, Retrying, Held

(* push_scan moves paths from the lanes to the thread that pushes, and     *)
(* from there to `stuck`; nothing else leaves.                             *)
LEMMA PushScanKeeps ==
    ASSUME DedupInv, NEW t \in Pushers, NEW p \in Paths, NEW l \in Lane,
           PushScan(t, p, l), UNCHANGED backlog,
           \/ push[t].at = "none" /\ UNCHANGED stuck
           \/ /\ push[t].at = "again" /\ push[t].path = p
              /\ stuck' = IF p \in queued THEN stuck \cup {p} ELSE stuck
    PROVE  InLanes \cup Victims \cup Retrying \cup stuck \cup {p}
              \subseteq InLanes' \cup Victims' \cup Retrying' \cup stuck' \cup backlog
  <1> USE DEF DedupInv
  <1>1. push[t].victim = NoPath /\ (push[t].path = NoPath \/ push[t].path = p)
    BY DEF TypeOK
  <1>2. stuck \subseteq stuck'
    OBVIOUS
  <1>3. CASE PushCoalesced(t, p, l)
    <2>1. /\ \A u \in Pushers : u # t => push'[u] = push[u]
          /\ UNCHANGED <<lanes, queued>> /\ p \in queued
      BY <1>3 DEF PushCoalesced, Returned, TypeOK
    <2>2. Victims \subseteq Victims' /\ Retrying \subseteq Retrying' \cup {p}
      BY <1>1, <2>1 DEF Victims, Retrying
    <2>3. InLanes' = InLanes
      BY <2>1 DEF InLanes
    <2>4. p \in InLanes \cup backlog \cup Retrying \cup stuck
      BY <2>1 DEF DedupIsExact
    <2>5. p \in InLanes' \cup backlog \cup Retrying' \cup stuck'
      <3>1. CASE push[t].at = "none"
        <4>1. push[t].path = NoPath
          BY <3>1 DEF TypeOK
        <4>2. Retrying \subseteq Retrying'
          BY <2>1, <4>1 DEF Retrying
        <4> QED BY <1>2, <2>3, <2>4, <4>2
      <3>2. CASE push[t].at # "none"
        BY <2>1, <3>2
      <3> QED BY <3>1, <3>2
    <2> QED BY <1>2, <2>2, <2>3, <2>5
  <1>4. CASE PushQueued(t, p, l)
    <2>1. /\ \A u \in Pushers : u # t => push'[u] = push[u]
          /\ lanes' = [lanes EXCEPT ![Slot(l)] = Append(lanes[Slot(l)], p)]
          /\ Slot(l) \in Lanes
      BY <1>4 DEF PushQueued, Returned, TypeOK, Slot, Lane, Lanes
    <2>2. Victims \subseteq Victims' /\ Retrying \subseteq Retrying' \cup {p}
      BY <1>1, <2>1 DEF Victims, Retrying
    <2>3. InLanes' = InLanes \cup {p}
      <3> DEFINE k == Slot(l)
      <3>1. Elems(Append(lanes[k], p)) = Elems(lanes[k]) \cup {p}
        BY <2>1, PushBack DEF TypeOK
      <3>2. /\ Elems(lanes'[k]) = Elems(lanes[k]) \cup {p}
            /\ \A j \in Lanes : j # k => lanes'[j] = lanes[j]
        BY <2>1, <3>1 DEF TypeOK
      <3>3. k \in Lanes
        BY <2>1
      <3> HIDE DEF k
      <3> QED BY ONLY <3>2, <3>3 DEF InLanes, Lanes
    <2> QED BY <1>2, <2>2, <2>3
  <1>5. CASE PushOverflow(t, p, l)
    <2> DEFINE v == VictimLane
               x == Last(lanes[v])
    <2>1. v \in Lanes /\ lanes[v] # <<>>
      BY <1>5 DEF PushOverflow, AtCap, Total, VictimLane, Lanes, TypeOK
    <2>2. /\ lanes' = [lanes EXCEPT ![v] = Front(lanes[v])]
          /\ push' = [push EXCEPT ![t] = [at |-> "victim", path |-> p, lane |-> l,
                                          victim |-> x]]
      BY <1>5 DEF PushOverflow
    <2>3. lanes[v] \in Seq(Paths)
      BY <2>1 DEF TypeOK
    <2>4. Elems(lanes[v]) = Elems(Front(lanes[v])) \cup {x} /\ x \in Paths
      BY <2>1, <2>3, PopBack
    <2> HIDE DEF v, x
    <2>5. /\ Elems(lanes[v]) = Elems(lanes'[v]) \cup {x}
          /\ \A j \in Lanes : j # v => lanes'[j] = lanes[j]
      BY <2>1, <2>2, <2>4 DEF TypeOK
    <2>6. InLanes \subseteq InLanes' \cup {x}
      BY ONLY <2>1, <2>5 DEF InLanes, Lanes
    <2>7. /\ push'[t].path = p /\ push'[t].victim = x
          /\ \A u \in Pushers : u # t => push'[u] = push[u]
      BY <2>2 DEF TypeOK
    <2>8. /\ Victims \subseteq Victims' /\ x \in Victims'
          /\ Retrying \subseteq Retrying' /\ p \in Retrying'
      BY <1>1, <2>4, <2>7 DEF Victims, Retrying
    <2> QED BY <1>2, <2>6, <2>8
  <1> QED BY <1>3, <1>4, <1>5 DEF PushScan

(* A turn of the loop in pop takes at most one path out of the lanes and   *)
(* the backlog, the one it hands out.                                      *)
LEMMA TakeNextKeeps ==
    ASSUME TypeOK, NEW w \in Workers, NEW b \in SUBSET Paths,
           NEW q \in SUBSET Paths, TakeNext(w, b, q)
    PROVE  /\ owed' \subseteq owed
           /\ owed' \cap (InLanes \cup b) \subseteq InLanes' \cup backlog'
           /\ Held \subseteq Held' \cup worker[w].batch
  <1>1. /\ \A v \in Workers : v # w => worker'[v] = worker[v]
        /\ worker' \in [Workers -> WorkerState]
    BY TakeNextType DEF TakeNext, TakeNone, TakeGate, TakeLive, TakeBacklog,
                        TakeFetch, Scanning, TypeOK, TakeNextTypes
  <1>2. Held \subseteq Held' \cup worker[w].batch
    BY <1>1 DEF Held
  <1>3. ASSUME UNCHANGED <<lanes, owed>>, backlog' = b
        PROVE  /\ owed' \subseteq owed
               /\ owed' \cap (InLanes \cup b) \subseteq InLanes' \cup backlog'
    BY <1>3 DEF InLanes
  <1>4. ASSUME NEW p \in Paths, TakeBacklog(w, p, b, q)
        PROVE  /\ owed' \subseteq owed
               /\ owed' \cap (InLanes \cup b) \subseteq InLanes' \cup backlog'
    BY <1>4 DEF TakeBacklog, Scanning, InLanes
  <1>5. ASSUME NEW l \in Lanes, TakeLive(w, l, b, q)
        PROVE  /\ owed' \subseteq owed
               /\ owed' \cap (InLanes \cup b) \subseteq InLanes' \cup backlog'
    <2> DEFINE p == Head(lanes[l])
    <2>1. /\ lanes' = [lanes EXCEPT ![l] = Tail(lanes[l])] /\ backlog' = b
          /\ owed' = owed \ {p} /\ lanes[l] # <<>>
      BY <1>5 DEF TakeLive, Scanning
    <2>2. Elems(lanes[l]) = Elems(Tail(lanes[l])) \cup {p}
      BY <2>1, PopFront DEF TypeOK
    <2> HIDE DEF p
    <2>3. /\ Elems(lanes[l]) = Elems(lanes'[l]) \cup {p}
          /\ \A j \in Lanes : j # l => lanes'[j] = lanes[j]
      BY <2>1, <2>2 DEF TypeOK
    <2>4. InLanes \subseteq InLanes' \cup {p}
      BY ONLY <2>3, l \in Lanes DEF InLanes, Lanes
    <2> QED BY <2>1, <2>4
  <1> QED
    BY <1>2, <1>3, <1>4, <1>5 DEF TakeNext, TakeNone, TakeGate, TakeFetch

(* The claim survives a step that hands nothing out and loses nothing.     *)
LEMMA KeepsOwed ==
    ASSUME Kept, owed' \subseteq owed,
           owed' \cap (Located \cup stuck) \subseteq Located' \cup stuck'
    PROVE  Kept'
  BY DEF Kept

(* No step but an overflow that coalesces with itself loses a path.        *)
LEMMA LossStep == LossInv /\ [Next]_vars => LossInv'
  <1> SUFFICES ASSUME LossInv, [Next]_vars PROVE HandsEmpty' /\ Kept'
    BY DedupStep DEF LossInv
  <1> USE DEF LossInv
  <1>0. TypeOK /\ DedupInv /\ HandsEmpty /\ Kept
    BY DEF DedupInv
  <1> DEFINE Goal == HandsEmpty' /\ Kept'
             Places == InLanes \cup backlog \cup spill_buf \cup pending \cup Victims
                       \cup Retrying \cup hk.batch \cup salvage \cup Held
  <1>p. Located = Places /\ Located' = Places'
    BY LocatedIs DEF Located, InHand, Victims, Retrying, Held
  <1>1. ASSUME NEW p \in Paths, NEW l \in Lane, IntakePush(p, l) PROVE Goal
    <2>1. /\ PushScan(Intake, p, l) /\ push[Intake].at = "none" /\ Intake \in Pushers
          /\ UNCHANGED <<backlog, spill_buf, pending, hk, worker, main, salvage, stuck>>
          /\ owed' = owed \cup {p}
      BY <1>1 DEF IntakePush, Pushers
    <2>2. InLanes \cup Victims \cup Retrying \cup stuck \cup {p}
             \subseteq InLanes' \cup Victims' \cup Retrying' \cup stuck' \cup backlog
      BY <1>0, <2>1, PushScanKeeps
    <2>3. Held' = Held
      BY <2>1 DEF Held
    <2>4. Places \cup stuck \cup {p} \subseteq Places' \cup stuck'
      BY <2>1, <2>2, <2>3
    <2> QED BY <1>0, <1>p, <2>1, <2>4 DEF Kept, HandsEmpty
  <1>2. ASSUME NEW p \in Paths, PushGateDetection(p) PROVE Goal
    <2>1. Places' = Places
      BY <1>2 DEF PushGateDetection, threads, InLanes, Victims, Retrying, Held
    <2> QED BY <1>0, <1>2, <1>p, <2>1, KeepsOwed
            DEF PushGateDetection, threads, history, HandsEmpty
  <1>3. ASSUME NEW t \in Pushers, PushSpill(t) PROVE Goal
    <2>1. /\ push' = [push EXCEPT ![t].at = "again", ![t].victim = NoPath]
          /\ spill_buf' = spill_buf \cup {push[t].victim}
          /\ UNCHANGED <<lanes, backlog, pending, hk, worker, main, salvage, owed, stuck>>
      BY <1>3 DEF PushSpill, inner, history
    <2>2. /\ \A u \in Pushers : push'[u].path = push[u].path
          /\ \A u \in Pushers : u # t => push'[u].victim = push[u].victim
      BY <1>0, <2>1 DEF TypeOK, PushState
    <2>3. Retrying' = Retrying /\ Victims \subseteq Victims' \cup spill_buf'
      BY <2>1, <2>2 DEF Retrying, Victims
    <2>4. InLanes' = InLanes /\ Held' = Held
      BY <2>1 DEF InLanes, Held
    <2>5. Places \subseteq Places'
      BY <2>1, <2>3, <2>4
    <2> QED BY <1>0, <1>p, <2>1, <2>5, KeepsOwed DEF HandsEmpty
  <1>4. ASSUME NEW t \in Pushers, PushAgain(t) PROVE Goal
    <2>1. /\ PushScan(t, push[t].path, push[t].lane) /\ push[t].at = "again"
          /\ push[t].path \in Paths /\ push[t].lane \in Lane
          /\ UNCHANGED <<backlog, spill_buf, pending, hk, worker, main, salvage, owed>>
          /\ stuck' = IF push[t].path \in queued THEN stuck \cup {push[t].path}
                      ELSE stuck
      BY <1>0, <1>4 DEF PushAgain, TypeOK, PushState
    <2>2. InLanes \cup Victims \cup Retrying \cup stuck
             \subseteq InLanes' \cup Victims' \cup Retrying' \cup stuck' \cup backlog
      BY <1>0, <2>1, PushScanKeeps
    <2>3. Held' = Held
      BY <2>1 DEF Held
    <2>4. Places \cup stuck \subseteq Places' \cup stuck'
      BY <2>1, <2>2, <2>3
    <2> QED BY <1>0, <1>p, <2>1, <2>4, KeepsOwed DEF HandsEmpty
  <1>5. CASE HkTake
    <2>1. /\ hk.batch = {} /\ hk'.batch = spill_buf /\ hk'.at = "write"
          /\ UNCHANGED <<lanes, backlog, pending, push, worker, main, salvage, owed, stuck>>
      BY <1>0, <1>5 DEF HkTake, HandsEmpty, inner, history
    <2>2. Places \subseteq Places'
      BY <2>1 DEF InLanes, Victims, Retrying, Held
    <2> QED BY <1>0, <1>p, <2>1, <2>2, KeepsOwed DEF HandsEmpty
  <1>6. CASE HkWrite
    <2>1. /\ hk'.batch = {} /\ pending' = pending \cup hk.batch
          /\ UNCHANGED <<lanes, backlog, spill_buf, push, worker, main, salvage, owed, stuck>>
      BY <1>6 DEF HkWrite, inner, history
    <2>2. Places \subseteq Places'
      BY <2>1 DEF InLanes, Victims, Retrying, Held
    <2> QED BY <1>0, <1>p, <2>1, <2>2, KeepsOwed DEF HandsEmpty
  <1>7. ASSUME NEW p \in Paths, HkPush(p) PROVE Goal
    <2>1. /\ PushScan(Hk, p, "churn") /\ push[Hk].at = "none" /\ Hk \in Pushers
          /\ "churn" \in Lane /\ owed' = owed \cup {p}
          /\ UNCHANGED <<backlog, spill_buf, pending, hk, worker, main, salvage, stuck>>
      BY <1>7 DEF HkPush, Pushers, Lane
    <2>2. InLanes \cup Victims \cup Retrying \cup stuck \cup {p}
             \subseteq InLanes' \cup Victims' \cup Retrying' \cup stuck' \cup backlog
      BY <1>0, <2>1, PushScanKeeps
    <2>3. Held' = Held
      BY <2>1 DEF Held
    <2>4. Places \cup stuck \cup {p} \subseteq Places' \cup stuck'
      BY <2>1, <2>2, <2>3
    <2> QED BY <1>0, <1>p, <2>1, <2>4 DEF Kept, HandsEmpty
  <1>8. CASE HkSleep
    <2>1. /\ hk'.batch = {} /\ hk.batch = {}
          /\ UNCHANGED <<lanes, backlog, spill_buf, pending, push, worker, main, salvage,
                         owed, stuck>>
      BY <1>0, <1>8 DEF HkSleep, IdleHk, HandsEmpty, inner, history
    <2>2. Places' = Places
      BY <2>1 DEF InLanes, Victims, Retrying, Held
    <2> QED BY <1>0, <1>p, <2>1, <2>2, KeepsOwed DEF HandsEmpty
  <1>9. CASE HkEnd
    <2>1. /\ hk'.batch = hk.batch /\ hk.batch = {}
          /\ UNCHANGED <<lanes, backlog, spill_buf, pending, push, worker, main, salvage,
                         owed, stuck>>
      BY <1>0, <1>9 DEF HkEnd, HandsEmpty, inner, history, TypeOK, HkState
    <2>2. Places' = Places
      BY <2>1 DEF InLanes, Victims, Retrying, Held
    <2> QED BY <1>0, <1>p, <2>1, <2>2, KeepsOwed DEF HandsEmpty
  <1>10. ASSUME NEW p \in Paths, SweepSpill(p) PROVE Goal
    <2>1. /\ pending' = pending \cup {p} /\ owed' = owed \cup {p}
          /\ UNCHANGED <<lanes, backlog, spill_buf, push, hk, worker, main, salvage,
                         stuck>>
      BY <1>10 DEF SweepSpill, inner, threads
    <2>2. Places \cup {p} \subseteq Places'
      BY <2>1 DEF InLanes, Victims, Retrying, Held
    <2> QED BY <1>0, <1>p, <2>1, <2>2 DEF Kept, HandsEmpty
  <1>11. CASE SweepEnd
    <2>1. Places' = Places
      BY <1>11 DEF SweepEnd, inner, InLanes, Victims, Retrying, Held
    <2> QED BY <1>0, <1>11, <1>p, <2>1, KeepsOwed
            DEF SweepEnd, history, HandsEmpty
  <1>12. ASSUME NEW w \in Workers, PopTask(w) PROVE Goal
    <2>1. /\ TakeNext(w, backlog, queued) /\ worker[w].batch = {}
          /\ UNCHANGED <<spill_buf, pending, push, hk, main, salvage, stuck>>
      BY <1>0, <1>12 DEF PopTask, TypeOK
    <2>2. backlog \in SUBSET Paths /\ queued \in SUBSET Paths
      BY <1>0 DEF TypeOK
    <2>3. /\ owed' \subseteq owed
          /\ owed' \cap (InLanes \cup backlog) \subseteq InLanes' \cup backlog'
          /\ Held \subseteq Held'
      BY <1>0, <2>1, <2>2, TakeNextKeeps
    <2>4. owed' \cap (Places \cup stuck) \subseteq Places' \cup stuck'
      BY <2>1, <2>3 DEF Victims, Retrying
    <2> QED BY <1>0, <1>p, <2>1, <2>3, <2>4, KeepsOwed DEF HandsEmpty
  <1>13. ASSUME NEW w \in Workers, TakePending(w) PROVE Goal
    <2>1. /\ worker[w].batch = {}
          /\ \E rows : /\ worker' = [worker EXCEPT ![w] = [at |-> "insert",
                                          batch |-> rows, path |-> NoPath]]
                       /\ pending' = pending \ rows
          /\ UNCHANGED <<lanes, backlog, spill_buf, push, hk, main, salvage, owed, stuck>>
      BY <1>0, <1>13 DEF TakePending, TypeOK, inner, history
    <2>2. Held \cup pending \subseteq Held' \cup pending'
      <3>1. PICK rows : /\ worker' = [worker EXCEPT ![w] = [at |-> "insert",
                                          batch |-> rows, path |-> NoPath]]
                        /\ pending' = pending \ rows
        BY <2>1
      <3>2. /\ worker'[w].batch = rows
            /\ \A v \in Workers : v # w => worker'[v] = worker[v]
        BY <1>0, <3>1 DEF TypeOK
      <3> QED BY <2>1, <3>1, <3>2 DEF Held
    <2>3. Places \subseteq Places'
      BY <2>1, <2>2 DEF InLanes, Victims, Retrying
    <2> QED BY <1>0, <1>p, <2>1, <2>3, KeepsOwed DEF HandsEmpty
  <1>14. ASSUME NEW w \in Workers, InsertBatch(w) PROVE Goal
    <2> DEFINE f == Fresh(worker[w].batch)
    <2>1. f = worker[w].batch \ queued /\ f \subseteq Paths
      BY <1>0 DEF Fresh, TypeOK, WorkerState
    <2>2. /\ TakeNext(w, backlog \cup f, queued \cup f)
          /\ UNCHANGED <<spill_buf, pending, push, hk, main, salvage, stuck>>
      BY <1>14 DEF InsertBatch
    <2> HIDE DEF f
    <2>3. backlog \cup f \in SUBSET Paths /\ queued \cup f \in SUBSET Paths
      BY <1>0, <2>1 DEF TypeOK
    <2>4. /\ owed' \subseteq owed
          /\ owed' \cap (InLanes \cup backlog \cup f) \subseteq InLanes' \cup backlog'
          /\ Held \subseteq Held' \cup worker[w].batch
      BY <1>0, <2>2, <2>3, TakeNextKeeps
    <2>5. queued = InLanes \cup backlog \cup Retrying \cup stuck
      BY <1>0 DEF DedupInv, DedupIsExact
    <2>6. Victims' = Victims /\ Retrying' = Retrying
      BY <2>2 DEF Victims, Retrying
    <2>7. worker[w].batch \subseteq f \cup InLanes \cup backlog \cup Retrying \cup stuck
      BY <2>1, <2>5
    <2>8. owed' \cap (Places \cup stuck) \subseteq Places' \cup stuck'
      BY <2>2, <2>4, <2>6, <2>7
    <2> QED BY <1>0, <1>p, <2>2, <2>4, <2>8, KeepsOwed DEF HandsEmpty
  <1>15. ASSUME NEW w \in Workers, WaitForWork(w) PROVE Goal
    <2>1. Held \subseteq Held'
      BY <1>0, <1>15 DEF WaitForWork, Held, TypeOK
    <2>2. Places \subseteq Places'
      BY <1>15, <2>1 DEF WaitForWork, inner, InLanes, Victims, Retrying
    <2> QED BY <1>0, <1>15, <1>p, <2>2, KeepsOwed
            DEF WaitForWork, history, HandsEmpty
  <1>16. ASSUME NEW w \in Workers, FinishTask(w) PROVE Goal
    <2>1. worker[w].batch = {}
      BY <1>0, <1>16 DEF FinishTask, TypeOK
    <2>2. Held \subseteq Held'
      BY <1>0, <1>16, <2>1 DEF FinishTask, Held, TypeOK
    <2>3. Places \subseteq Places'
      BY <1>16, <2>2 DEF FinishTask, inner, InLanes, Victims, Retrying
    <2> QED BY <1>0, <1>16, <1>p, <2>3, KeepsOwed
            DEF FinishTask, history, HandsEmpty
  <1>17. CASE LeaveLoop
    <2>1. Places' = Places
      BY <1>17 DEF LeaveLoop, inner, InLanes, Victims, Retrying, Held
    <2> QED BY <1>0, <1>17, <1>p, <2>1, KeepsOwed
            DEF LeaveLoop, history, HandsEmpty
  <1>18. CASE JoinHelpers
    <2>1. /\ salvage = {} /\ salvage' = spill_buf
          /\ UNCHANGED <<lanes, backlog, pending, push, hk, worker, owed, stuck>>
      BY <1>0, <1>18 DEF JoinHelpers, inner, history, HandsEmpty
    <2>2. Places \subseteq Places'
      BY <2>1 DEF InLanes, Victims, Retrying, Held
    <2> QED BY <1>0, <1>18, <1>p, <2>1, <2>2, KeepsOwed
            DEF JoinHelpers, HandsEmpty
  <1>19. CASE DrainPaths
    <2>1. /\ owed' = (owed \cup Elems(gate)) \ stuck
          /\ salvage' = salvage \cup Elems(gate) \cup InLanes \cup backlog
          /\ UNCHANGED <<spill_buf, pending, push, hk, worker>>
      BY <1>19 DEF DrainPaths, Left
    <2>2. owed' \subseteq Places'
      BY <1>0, <1>p, <2>1 DEF Kept, Victims, Retrying, Held
    <2> QED BY <1>0, <1>19, <1>p, <2>2 DEF DrainPaths, HandsEmpty, Kept
  <1>20. CASE Persist
    <2>1. Places \subseteq Places'
      BY <1>20 DEF Persist, inner, InLanes, Victims, Retrying, Held
    <2> QED BY <1>0, <1>20, <1>p, <2>1, KeepsOwed DEF Persist, history, HandsEmpty
  <1>21. CASE JoinWorkers
    <2>1. Places' = Places
      BY <1>21 DEF JoinWorkers, inner, InLanes, Victims, Retrying, Held
    <2> QED BY <1>0, <1>21, <1>p, <2>1, KeepsOwed DEF JoinWorkers, history, HandsEmpty
  <1>22. CASE NewGeneration
    <2>1. /\ hk'.batch = {} /\ salvage' = {} /\ pending' = pending
          /\ owed' = owed \cap pending
      BY <1>22 DEF NewGeneration, IdleHk
    <2> QED BY <1>p, <2>1 DEF HandsEmpty, Kept
  <1>23. CASE UNCHANGED vars
    <2>1. Places' = Places
      BY <1>23 DEF vars, InLanes, Victims, Retrying, Held
    <2> QED BY <1>0, <1>23, <1>p, <2>1, KeepsOwed DEF vars, HandsEmpty
  <1> QED
    BY <1>1, <1>2, <1>3, <1>4, <1>5, <1>6, <1>7, <1>8, <1>9, <1>10, <1>11, <1>12,
       <1>13, <1>14, <1>15, <1>16, <1>17, <1>18, <1>19, <1>20, <1>21, <1>22, <1>23
       DEF Next, IntakeStep, HkStep, WorkerStep, Shutdown, Start, Crash

(* Nothing is owed at the start.                                           *)
LEMMA LossInit == Init => LossInv
  BY DedupInit DEF Init, IdleHk, LossInv, HandsEmpty, Kept

(* Up to the moment a shutdown drains the queue, the only paths it was     *)
(* given and has neither handed out nor kept are those whose push found    *)
(* the lanes full and coalesced with itself.                               *)
THEOREM OnlyOverflowsLose == Spec => []LossOnlyByOverflow
  <1>1. LossInv => LossOnlyByOverflow
    BY DEF LossInv, Kept, LossOnlyByOverflow
  <1> QED BY <1>1, LossInit, LossStep, PTL DEF Spec

-----------------------------------------------------------------------------
(* The shutdown.  It goes through its joins in order, and each of them     *)
(* leaves a place where no work can be any more.                           *)

Ending == {"drain", "persist", "join_workers", "down"}

Emptied ==
    /\ main # "events" => exit
    /\ main \in Ending => spill_buf = {} /\ ~sweeping
    /\ main \in Ending \ {"drain"} => InLanes = {} /\ stuck = {}
    /\ main \in {"join_workers", "down"} => salvage = {}
    /\ main = "down" => \A w \in Workers : worker[w].at = "done"

ShutdownInv == LossInv /\ Emptied

(* With the exit flag up, a turn of the loop in pop ends the worker.       *)
LEMMA ExitEnds ==
    ASSUME NEW w \in Workers, NEW b, NEW q, TakeNext(w, b, q), exit
    PROVE  TakeNone(w, b, q)
  BY DEF TakeNext, TakeGate, TakeLive, TakeBacklog, TakeFetch, Stops

(* Before the helpers are joined nothing has to be empty.                  *)
LEMMA StillRunning ==
    ASSUME Emptied, main \notin Ending, UNCHANGED <<main, exit>>
    PROVE  Emptied'
  BY DEF Emptied, Ending

(* The places of no interest to a step stay empty.                         *)
LEMMA StaysEmptied ==
    ASSUME Emptied, UNCHANGED <<main, exit, spill_buf, sweeping, stuck, salvage>>,
           main \in Ending => InLanes' = InLanes,
           main = "down" => UNCHANGED worker
    PROVE  Emptied'
  BY DEF Emptied, Ending

(* Every step of the shutdown leaves empty what the steps before emptied.  *)
LEMMA EmptiedStep == LossInv /\ Emptied /\ [Next]_vars => Emptied'
  <1> SUFFICES ASSUME LossInv, Emptied, [Next]_vars PROVE Emptied'
    OBVIOUS
  <1>0. /\ TypeOK /\ PushersRun /\ HandsEmpty
        /\ main \in {"events", "join_helpers", "drain", "persist", "join_workers",
                     "down"}
    BY DEF LossInv, DedupInv, TypeOK
  <1>a. ASSUME NEW t \in Pushers, push[t].at # "none" PROVE main \notin Ending
    BY <1>0, <1>a DEF PushersRun, Pushers, Ending
  <1>1. ASSUME NEW p \in Paths, NEW l \in Lane, IntakePush(p, l) PROVE Emptied'
    BY <1>1, StillRunning DEF IntakePush, Ending
  <1>2. ASSUME NEW p \in Paths, PushGateDetection(p) PROVE Emptied'
    BY <1>2, StillRunning DEF PushGateDetection, threads, Ending
  <1>3. ASSUME NEW t \in Pushers, PushSpill(t) PROVE Emptied'
    BY <1>3, <1>a, StillRunning DEF PushSpill
  <1>4. ASSUME NEW t \in Pushers, PushAgain(t) PROVE Emptied'
    BY <1>4, <1>a, StillRunning DEF PushAgain
  <1>5. CASE HkTake
    BY <1>0, <1>5, StillRunning DEF HkTake, PushersRun, Ending
  <1>6. CASE HkWrite
    BY <1>0, <1>6, StillRunning DEF HkWrite, PushersRun, Ending
  <1>7. ASSUME NEW p \in Paths, HkPush(p) PROVE Emptied'
    BY <1>0, <1>7, StillRunning DEF HkPush, PushersRun, Ending
  <1>8. CASE HkSleep
    BY <1>0, <1>8, StillRunning DEF HkSleep, PushersRun, Ending
  <1>9. CASE HkEnd
    BY <1>0, <1>9, StillRunning DEF HkEnd, PushersRun, Ending
  <1>10. ASSUME NEW p \in Paths, SweepSpill(p) PROVE Emptied'
    BY <1>10, StillRunning DEF SweepSpill, threads, Emptied
  <1>11. CASE SweepEnd
    BY <1>11, StillRunning DEF SweepEnd, Emptied
  <1>b. ASSUME NEW w \in Workers, worker[w].at # "done", NEW b, NEW q,
               TakeNext(w, b, q),
               UNCHANGED <<main, exit, spill_buf, sweeping, stuck, salvage>>
        PROVE  Emptied'
    <2>1. main # "down"
      BY <1>b DEF Emptied
    <2>2. main \in Ending => exit
      BY DEF Emptied, Ending
    <2>3. main \in Ending => InLanes' = InLanes
      BY <1>b, <2>2, ExitEnds DEF TakeNone, InLanes
    <2> QED BY <1>b, <2>1, <2>3, StaysEmptied
  <1>12. ASSUME NEW w \in Workers, PopTask(w) PROVE Emptied'
    BY <1>12, <1>b DEF PopTask, bounds
  <1>13. ASSUME NEW w \in Workers, TakePending(w) PROVE Emptied'
    <2>1. main # "down"
      BY <1>13 DEF TakePending, Emptied
    <2> QED BY <1>13, <2>1, StaysEmptied DEF TakePending, inner, history, InLanes
  <1>14. ASSUME NEW w \in Workers, InsertBatch(w) PROVE Emptied'
    BY <1>14, <1>b DEF InsertBatch
  <1>15. ASSUME NEW w \in Workers, WaitForWork(w) PROVE Emptied'
    <2>1. main # "down"
      BY <1>15 DEF WaitForWork, Emptied
    <2> QED BY <1>15, <2>1, StaysEmptied DEF WaitForWork, inner, history, InLanes
  <1>16. ASSUME NEW w \in Workers, FinishTask(w) PROVE Emptied'
    <2>1. main # "down"
      BY <1>16 DEF FinishTask, Emptied
    <2> QED BY <1>16, <2>1, StaysEmptied DEF FinishTask, inner, history, InLanes
  <1>17. CASE LeaveLoop
    BY <1>17 DEF LeaveLoop, Raised, Emptied, Ending
  <1>18. CASE JoinHelpers
    BY <1>18 DEF JoinHelpers, Emptied, Ending
  <1>19. CASE DrainPaths
    <2>1. InLanes' = {}
      BY <1>19 DEF DrainPaths, InLanes, Elems, Lanes
    <2> QED BY <1>19, <2>1 DEF DrainPaths, Emptied, Ending
  <1>20. CASE Persist
    BY <1>20 DEF Persist, inner, history, InLanes, Emptied, Ending
  <1>21. CASE JoinWorkers
    BY <1>21 DEF JoinWorkers, inner, history, InLanes, Emptied, Ending
  <1>22. CASE NewGeneration
    BY <1>22 DEF NewGeneration, Emptied, Ending
  <1>23. CASE UNCHANGED vars
    BY <1>23 DEF vars, InLanes, Emptied
  <1> QED
    BY <1>1, <1>2, <1>3, <1>4, <1>5, <1>6, <1>7, <1>8, <1>9, <1>10, <1>11, <1>12,
       <1>13, <1>14, <1>15, <1>16, <1>17, <1>18, <1>19, <1>20, <1>21, <1>22, <1>23
       DEF Next, IntakeStep, HkStep, WorkerStep, Shutdown, Start, Crash

THEOREM ShutdownInvariant == Spec => []ShutdownInv
  <1>1. Init => ShutdownInv
    BY LossInit DEF Init, ShutdownInv, Emptied, Ending
  <1>2. ShutdownInv /\ [Next]_vars => ShutdownInv'
    BY LossStep, EmptiedStep DEF ShutdownInv
  <1> QED BY <1>1, <1>2, PTL DEF Spec

(* A graceful shutdown leaves nothing out of the database but a batch a    *)
(* worker had just taken from it (stop_realtime, the housekeeper's drain). *)
THEOREM OnlyBatchesLeft == Spec => []ShutdownLosesOnlyBatches
  <1>1. ShutdownInv => ShutdownLosesOnlyBatches
    <2> SUFFICES ASSUME ShutdownInv, main = "down"
                 PROVE  owed \subseteq pending \cup backlog
      BY DEF ShutdownLosesOnlyBatches
    <2>1. /\ TypeOK /\ PushersRun /\ HandsEmpty /\ Kept /\ Emptied
          /\ hk.at = "done"
      BY DEF ShutdownInv, LossInv, DedupInv, PushersRun
    <2>2. \A t \in Pushers : push[t].at = "none"
      BY <2>1 DEF PushersRun, Pushers
    <2>3. Victims = {} /\ Retrying = {}
      BY <2>1, <2>2 DEF TypeOK, Victims, Retrying
    <2>4. Held = {} /\ hk.batch = {}
      BY <2>1 DEF Held, HandsEmpty, Emptied, TypeOK
    <2>5. InLanes = {} /\ stuck = {} /\ spill_buf = {} /\ salvage = {}
      BY <2>1 DEF Emptied, Ending
    <2> QED BY <2>1, <2>3, <2>4, <2>5, LocatedIs DEF Kept
  <1> QED BY <1>1, ShutdownInvariant, PTL

(* After the exit flag no worker starts a task (pop).                      *)
THEOREM ExitStopsWorkers == Spec => NoTaskAfterExit
  <1> DEFINE Keeps == \A w \in Workers :
                exit /\ worker'[w].path # NoPath => worker'[w].path = worker[w].path
  <1>1. ASSUME TypeOK, [Next]_vars PROVE [Keeps]_vars
    <2>1. ASSUME NEW v \in Workers, PopTask(v) \/ InsertBatch(v) PROVE Keeps
      <3> SUFFICES ASSUME exit,
                   NEW w \in Workers, worker'[w].path # NoPath
                   PROVE  worker'[w].path = worker[w].path
        OBVIOUS
      <3>1. PICK b, q : TakeNext(v, b, q)
        BY <2>1 DEF PopTask, InsertBatch
      <3>2. TakeNone(v, b, q)
        BY <3>1, ExitEnds
      <3> QED BY <1>1, <3>2 DEF TakeNone, IdleWorker, TypeOK
    <2>2. ASSUME NEW v \in Workers, TakePending(v) \/ WaitForWork(v) \/ FinishTask(v)
          PROVE  Keeps
      <3>1. /\ worker \in [Workers -> WorkerState]
            /\ \E b : worker' = [worker EXCEPT ![v] = b] /\ b.path = NoPath
        BY <1>1, <2>2 DEF TakePending, WaitForWork, FinishTask, AfterTask, IdleWorker,
                          TypeOK
      <3> QED BY <3>1
    <2>3. CASE NewGeneration
      BY <2>3 DEF NewGeneration, IdleWorker
    <2>4. CASE UNCHANGED worker
      BY <2>4
    <2>5. (\E v \in Workers : PopTask(v) \/ InsertBatch(v) \/ TakePending(v)
                              \/ WaitForWork(v) \/ FinishTask(v))
          \/ NewGeneration \/ UNCHANGED worker
      BY <1>1 DEF Next, IntakeStep, HkStep, WorkerStep, Shutdown, Start, Crash,
              IntakePush, PushGateDetection, PushSpill, PushAgain, HkTake, HkWrite,
              HkPush, HkSleep, HkEnd, SweepSpill, SweepEnd, LeaveLoop, JoinHelpers,
              DrainPaths, Persist, JoinWorkers, threads, vars
    <2> QED BY <2>1, <2>2, <2>3, <2>4, <2>5
  <1>2. Spec => [][Keeps]_vars
    BY <1>1, TypeCorrect, PTL DEF Spec
  <1> QED BY <1>2 DEF NoTaskAfterExit

-----------------------------------------------------------------------------
(* The ledger.  What its variables are in the queue, by name.              *)

Work == Located \cup stuck
Serving == [w \in Workers |-> IF worker[w].at = "scan" THEN worker[w].path ELSE NoPath]

LedgerStep == Ledger!Next \/ UNCHANGED Ledger!ledger

(* A step that changes nothing the ledger sees.                            *)
LEMMA LedgerStutters ==
    ASSUME Work' = Work, Borrowed' = Borrowed, Serving' = Serving, stuck' = stuck,
           lifetime' = lifetime, main # "down", main' # "down"
    PROVE  LedgerStep
  <1>1. (main' # "down") = (main # "down")
    OBVIOUS
  <1> QED BY <1>1 DEF LedgerStep, Ledger!ledger, Work, Serving

(* New work.                                                               *)
LEMMA LedgerAccepts ==
    ASSUME NEW p \in Paths,
           Work' = Work \cup {p}, Borrowed' = Borrowed, Serving' = Serving,
           stuck' = stuck, lifetime' = lifetime, main # "down", main' # "down"
    PROVE  LedgerStep
  <1>1. Ledger!Accept({p})
    BY DEF Ledger!Accept, Work, Serving
  <1> QED BY <1>1 DEF LedgerStep, Ledger!Next

(* A worker starts on a path.                                              *)
LEMMA LedgerServes ==
    ASSUME NEW w \in Workers, NEW p \in Paths, p \in Work,
           Work \ {p} \subseteq Work', Work' \subseteq Work, Borrowed' \subseteq Borrowed,
           Serving[w] = NoPath, Serving' = [Serving EXCEPT ![w] = p],
           stuck' = stuck, lifetime' = lifetime, main # "down", main' # "down"
    PROVE  LedgerStep
  <1>1. Work' = Work \/ Work' = Work \ {p}
    OBVIOUS
  <1>2. Ledger!Serve(w, p)
    BY <1>1 DEF Ledger!Serve, Work, Serving
  <1> QED BY <1>2 DEF LedgerStep, Ledger!Next

(* A worker's batch has reached the backlog.                               *)
LEMMA LedgerGetsBack ==
    ASSUME Work' = Work, Borrowed' \subseteq Borrowed, Serving' = Serving,
           stuck' = stuck, lifetime' = lifetime, main # "down", main' # "down"
    PROVE  LedgerStep
  <1>1. Ledger!GiveBack
    BY DEF Ledger!GiveBack, Work, Serving
  <1> QED BY <1>1 DEF LedgerStep, Ledger!Next

(* A pusher that coalesces, queues or overflows adds the path it came for  *)
(* and no other, and takes none out (push_scan).                           *)
LEMMA PushScanAdds ==
    ASSUME TypeOK, NEW t \in Pushers, NEW p \in Paths, NEW l \in Lane,
           PushScan(t, p, l)
    PROVE  /\ InLanes' \subseteq InLanes \cup {p}
           /\ Victims' \subseteq Victims \cup InLanes
           /\ Retrying' \subseteq Retrying \cup {p}
  <1>1. CASE PushCoalesced(t, p, l)
    <2>1. /\ push' = [push EXCEPT ![t] = IdlePush] /\ UNCHANGED lanes
      BY <1>1 DEF PushCoalesced, Returned
    <2>2. Victims' \subseteq Victims /\ Retrying' \subseteq Retrying
      BY <2>1 DEF Victims, Retrying, IdlePush, TypeOK
    <2> QED BY <2>1, <2>2 DEF InLanes
  <1>2. CASE PushQueued(t, p, l)
    <2> DEFINE k == Slot(l)
    <2>1. /\ push' = [push EXCEPT ![t] = IdlePush] /\ k \in Lanes
          /\ lanes' = [lanes EXCEPT ![k] = Append(lanes[k], p)]
      BY <1>2 DEF PushQueued, Returned, Slot, Lane, Lanes
    <2>2. Victims' \subseteq Victims /\ Retrying' \subseteq Retrying
      BY <2>1 DEF Victims, Retrying, IdlePush, TypeOK
    <2>3. Elems(Append(lanes[k], p)) = Elems(lanes[k]) \cup {p}
      BY <2>1, PushBack DEF TypeOK
    <2>4. /\ Elems(lanes'[k]) = Elems(lanes[k]) \cup {p}
          /\ \A j \in Lanes : j # k => lanes'[j] = lanes[j]
      BY <2>1, <2>3 DEF TypeOK
    <2>5. k \in Lanes
      BY <2>1
    <2> HIDE DEF k
    <2>6. InLanes' \subseteq InLanes \cup {p}
      BY ONLY <2>4, <2>5 DEF InLanes, Lanes
    <2> QED BY <2>2, <2>6
  <1>3. CASE PushOverflow(t, p, l)
    <2> DEFINE v == VictimLane
               x == Last(lanes[v])
    <2>1. v \in Lanes /\ lanes[v] # <<>>
      BY <1>3 DEF PushOverflow, AtCap, Total, VictimLane, Lanes, TypeOK
    <2>2. /\ lanes' = [lanes EXCEPT ![v] = Front(lanes[v])]
          /\ push' = [push EXCEPT ![t] = [at |-> "victim", path |-> p, lane |-> l,
                                          victim |-> x]]
      BY <1>3 DEF PushOverflow
    <2>a. lanes[v] \in Seq(Paths)
      BY <2>1 DEF TypeOK
    <2>3. Elems(lanes[v]) = Elems(Front(lanes[v])) \cup {x}
      BY <2>1, <2>a, PopBack
    <2> HIDE DEF v, x
    <2>4. /\ Elems(lanes[v]) = Elems(lanes'[v]) \cup {x}
          /\ \A j \in Lanes : j # v => lanes'[j] = lanes[j]
      BY <2>1, <2>2, <2>3 DEF TypeOK
    <2>5. InLanes' \subseteq InLanes /\ x \in InLanes
      BY ONLY <2>1, <2>4 DEF InLanes, Lanes
    <2>6. /\ push'[t].path = p /\ push'[t].victim = x
          /\ \A u \in Pushers : u # t => push'[u] = push[u]
      BY <2>2 DEF TypeOK
    <2>7. Victims' \subseteq Victims \cup {x} /\ Retrying' \subseteq Retrying \cup {p}
      BY <2>6 DEF Victims, Retrying
    <2> QED BY <2>5, <2>7
  <1> QED BY <1>1, <1>2, <1>3 DEF PushScan

(* A turn of the loop in pop hands out one path and takes that one out at  *)
(* most, or moves nothing but the batch it came with.                      *)
TakesNothing(w, b) ==
    /\ InLanes' = InLanes /\ backlog' = b /\ Serving' = Serving
TakesOne(w, b) ==
    \E p \in Paths :
        /\ p \in InLanes \cup b
        /\ (InLanes \cup b) \ {p} \subseteq InLanes' \cup backlog'
        /\ InLanes' \cup backlog' \subseteq InLanes \cup b
        /\ Serving[w] = NoPath /\ Serving' = [Serving EXCEPT ![w] = p]

LEMMA TakeNextMoves ==
    ASSUME TypeOK, NEW w \in Workers, worker[w].at \in {"pop", "insert"},
           NEW b \in SUBSET Paths, NEW q \in SUBSET Paths, TakeNext(w, b, q)
    PROVE  /\ Held' \subseteq Held /\ Held \subseteq Held' \cup worker[w].batch
           /\ TakesNothing(w, b) \/ (~exit /\ TakesOne(w, b))
  <1>1. /\ \A v \in Workers : v # w => worker'[v] = worker[v]
        /\ worker' \in [Workers -> WorkerState] /\ worker'[w].batch = {}
    <2>1. \E r : worker' = [worker EXCEPT ![w] = r] /\ r.batch = {}
      BY DEF TakeNext, TakeNone, TakeGate, TakeLive, TakeBacklog, TakeFetch, Scanning,
             IdleWorker
    <2>2. worker' \in [Workers -> WorkerState]
      BY TakeNextType DEF TakeNextTypes
    <2> QED BY <2>1, <2>2 DEF TypeOK
  <1>2. Held' \subseteq Held /\ Held \subseteq Held' \cup worker[w].batch
    BY <1>1 DEF Held
  <1>3. Serving[w] = NoPath
    BY DEF Serving
  <1>4. ASSUME UNCHANGED lanes, backlog' = b, worker'[w].at # "scan"
        PROVE  TakesNothing(w, b)
    <2>1. Serving' = Serving
      BY <1>1, <1>4 DEF Serving
    <2> QED BY <1>4, <2>1 DEF TakesNothing, InLanes
  <1>5. ASSUME NEW p \in Paths, worker' = [worker EXCEPT ![w] =
                                   [at |-> "scan", batch |-> {}, path |-> p]]
        PROVE  Serving' = [Serving EXCEPT ![w] = p]
    BY <1>5 DEF Serving, TypeOK
  <1>6. ASSUME NEW p \in Paths, TakeBacklog(w, p, b, q)
        PROVE  ~exit /\ TakesOne(w, b)
    <2>1. /\ ~exit /\ UNCHANGED lanes /\ p \in b /\ backlog' = b \ {p}
          /\ worker' = [worker EXCEPT ![w] = [at |-> "scan", batch |-> {}, path |-> p]]
      BY <1>6 DEF TakeBacklog, Scanning, Stops
    <2>2. InLanes' = InLanes
      BY <2>1 DEF InLanes
    <2> QED BY <1>3, <1>5, <2>1, <2>2 DEF TakesOne
  <1>7. ASSUME NEW l \in Lanes, TakeLive(w, l, b, q)
        PROVE  ~exit /\ TakesOne(w, b)
    <2> DEFINE p == Head(lanes[l])
    <2>1. /\ lanes' = [lanes EXCEPT ![l] = Tail(lanes[l])] /\ backlog' = b
          /\ ~exit /\ lanes[l] # <<>> /\ lanes[l] \in Seq(Paths)
          /\ worker' = [worker EXCEPT ![w] = [at |-> "scan", batch |-> {}, path |-> p]]
      BY <1>7 DEF TakeLive, Scanning, Stops, TypeOK
    <2>2. Elems(lanes[l]) = Elems(Tail(lanes[l])) \cup {p} /\ p \in Paths
      BY <2>1, PopFront
    <2> HIDE DEF p
    <2>3. /\ Elems(lanes[l]) = Elems(lanes'[l]) \cup {p}
          /\ \A j \in Lanes : j # l => lanes'[j] = lanes[j]
      BY <2>1, <2>2 DEF TypeOK
    <2>4. InLanes = InLanes' \cup {p}
      BY ONLY <2>3, l \in Lanes DEF InLanes, Lanes
    <2> QED BY <1>3, <1>5, <2>1, <2>2, <2>4 DEF TakesOne
  <1>8. TakesNothing(w, b) \/ (~exit /\ TakesOne(w, b))
    <2>1. CASE TakeNone(w, b, q)
      BY <1>4, <2>1 DEF TakeNone, IdleWorker, TypeOK
    <2>2. CASE TakeGate(w, b, q)
      BY <1>4, <2>2 DEF TakeGate, TypeOK
    <2>3. CASE TakeFetch(w, b, q)
      BY <1>4, <2>3 DEF TakeFetch, IdleWorker, TypeOK
    <2> QED BY <1>6, <1>7, <2>1, <2>2, <2>3 DEF TakeNext
  <1> QED BY <1>2, <1>8

(* Every step of the queue is a step of the ledger, or nothing it sees.    *)
LEMMA LedgerSimulates == ShutdownInv /\ [Next]_vars => LedgerStep
  <1> SUFFICES ASSUME ShutdownInv, [Next]_vars PROVE LedgerStep
    OBVIOUS
  <1>0. /\ TypeOK /\ DedupInv /\ PushersRun /\ DedupIsExact /\ HandsEmpty /\ Emptied
        /\ main \in {"events", "join_helpers", "drain", "persist", "join_workers",
                     "down"}
    BY DEF ShutdownInv, LossInv, DedupInv, TypeOK
  <1> DEFINE Places == InLanes \cup backlog \cup spill_buf \cup pending \cup Victims
                       \cup Retrying \cup hk.batch \cup salvage \cup Held \cup stuck
  <1>p. Work = Places /\ Work' = Places'
    BY LocatedIs DEF Work, Located, InHand, Victims, Retrying, Held
  <1>b. /\ BeforeDrain => Borrowed = Held
        /\ ~BeforeDrain => Borrowed = Held \cup backlog
        /\ BeforeDrain' => Borrowed' = Held'
        /\ ~BeforeDrain' => Borrowed' = Held' \cup backlog'
        /\ BeforeDrain <=> main \in {"events", "join_helpers", "drain"}
        /\ BeforeDrain' <=> main' \in {"events", "join_helpers", "drain"}
    <2>1. /\ BeforeDrain => Borrowed = Held
          /\ ~BeforeDrain => Borrowed = Held \cup backlog
      <3>1. Borrowed = Held \cup (IF BeforeDrain THEN {} ELSE backlog)
        BY DEF Borrowed, Held
      <3> QED BY <3>1
    <2>2. /\ BeforeDrain' => Borrowed' = Held'
          /\ ~BeforeDrain' => Borrowed' = Held' \cup backlog'
      <3>1. Borrowed' = Held' \cup (IF BeforeDrain' THEN {} ELSE backlog')
        BY DEF Borrowed, Held
      <3> QED BY <3>1
    <2>3. /\ BeforeDrain <=> main \in {"events", "join_helpers", "drain"}
          /\ BeforeDrain' <=> main' \in {"events", "join_helpers", "drain"}
      BY DEF BeforeDrain
    <2> QED BY <2>1, <2>2, <2>3
  <1>a. ASSUME NEW t \in Pushers, push[t].at # "none" PROVE main \notin Ending
    BY <1>0, <1>a DEF PushersRun, Pushers, Ending
  <1>w. UNCHANGED worker => Held' = Held /\ Serving' = Serving
    BY DEF Held, Serving
  <1>s. ASSUME Places' = Places, UNCHANGED <<worker, stuck, lifetime>>,
               Borrowed' = Borrowed, main # "down", main' # "down"
        PROVE  LedgerStep
    BY <1>p, <1>s, <1>w, LedgerStutters
  <1>k. UNCHANGED <<worker, backlog, main>> => Borrowed' = Borrowed
    BY <1>b, <1>w
  <1>1. ASSUME NEW p \in Paths, NEW l \in Lane, IntakePush(p, l) PROVE LedgerStep
    <2>1. /\ PushScan(Intake, p, l) /\ push[Intake].at = "none" /\ Intake \in Pushers
          /\ main = "events"
          /\ UNCHANGED <<backlog, spill_buf, pending, hk, worker, main, salvage,
                         lifetime, stuck>>
      BY <1>1 DEF IntakePush, Pushers
    <2>2. InLanes \cup Victims \cup Retrying \cup stuck \cup {p}
             \subseteq InLanes' \cup Victims' \cup Retrying' \cup stuck' \cup backlog
      BY <1>0, <2>1, PushScanKeeps
    <2>3. /\ InLanes' \subseteq InLanes \cup {p}
          /\ Victims' \subseteq Victims \cup InLanes
          /\ Retrying' \subseteq Retrying \cup {p}
      BY <1>0, <2>1, PushScanAdds
    <2>4. Places' = Places \cup {p}
      BY <1>w, <2>1, <2>2, <2>3
    <2> QED BY <1>p, <1>w, <1>k, <2>1, <2>4, LedgerAccepts
  <1>2. ASSUME NEW p \in Paths, PushGateDetection(p) PROVE LedgerStep
    <2>1. Places' = Places
      BY <1>2 DEF PushGateDetection, threads, history, InLanes, Victims, Retrying, Held
    <2> QED BY <1>2, <1>k, <1>s, <2>1 DEF PushGateDetection, threads, history
  <1>3. ASSUME NEW t \in Pushers, PushSpill(t) PROVE LedgerStep
    <2>1. /\ push' = [push EXCEPT ![t].at = "again", ![t].victim = NoPath]
          /\ spill_buf' = spill_buf \cup {push[t].victim} /\ push[t].at = "victim"
          /\ UNCHANGED <<lanes, backlog, pending, hk, worker, main, salvage, stuck,
                         lifetime>>
      BY <1>3 DEF PushSpill, inner, history, bounds
    <2>2. /\ \A u \in Pushers : push'[u].path = push[u].path
          /\ \A u \in Pushers : u # t => push'[u].victim = push[u].victim
          /\ push'[t].victim = NoPath /\ push[t].victim # NoPath
      BY <1>0, <2>1 DEF TypeOK, PushState
    <2>a. Retrying' = Retrying
      BY <2>2 DEF Retrying
    <2>b. Victims \subseteq Victims' \cup spill_buf'
      <3> SUFFICES ASSUME NEW q \in Victims PROVE q \in Victims' \cup spill_buf'
        OBVIOUS
      <3>1. PICK u \in Pushers : q = push[u].victim /\ q # NoPath
        BY DEF Victims
      <3>2. CASE u = t
        BY <2>1, <3>1, <3>2
      <3>3. CASE u # t
        BY <2>2, <3>1, <3>3 DEF Victims
      <3> QED BY <3>2, <3>3
    <2>c. Victims' \subseteq Victims
      <3> SUFFICES ASSUME NEW q \in Victims' PROVE q \in Victims
        OBVIOUS
      <3>1. PICK u \in Pushers : q = push'[u].victim /\ q # NoPath
        BY DEF Victims
      <3> QED BY <2>2, <3>1 DEF Victims
    <2>3. /\ Retrying' = Retrying
          /\ Victims \subseteq Victims' \cup spill_buf' /\ Victims' \subseteq Victims
          /\ push[t].victim \in Victims
      BY <2>2, <2>a, <2>b, <2>c DEF Victims
    <2>4. InLanes' = InLanes
      BY <2>1 DEF InLanes
    <2>5. Places' = Places
      BY <1>w, <2>1, <2>3, <2>4
    <2> QED BY <1>a, <1>k, <1>s, <2>1, <2>5 DEF Ending
  <1>4. ASSUME NEW t \in Pushers, PushAgain(t) PROVE LedgerStep
    <2> DEFINE p == push[t].path
    <2>1. /\ PushScan(t, p, push[t].lane) /\ push[t].at = "again"
          /\ p \in Paths /\ push[t].lane \in Lane /\ p \in Retrying
          /\ UNCHANGED <<backlog, spill_buf, pending, hk, worker, main, salvage,
                         lifetime>>
          /\ stuck' = IF p \in queued THEN stuck \cup {p} ELSE stuck
      BY <1>0, <1>4 DEF PushAgain, TypeOK, PushState, bounds, Retrying
    <2> HIDE DEF p
    <2>2. p \in queued
      BY <1>0, <2>1 DEF DedupIsExact
    <2>3. InLanes \cup Victims \cup Retrying \cup stuck
             \subseteq InLanes' \cup Victims' \cup Retrying' \cup stuck' \cup backlog
      BY <1>0, <2>1, PushScanKeeps DEF p
    <2>4. /\ InLanes' \subseteq InLanes \cup {p}
          /\ Victims' \subseteq Victims \cup InLanes
          /\ Retrying' \subseteq Retrying \cup {p}
      BY <1>0, <2>1, PushScanAdds
    <2>5. Work' = Work /\ stuck' = stuck \cup {p} /\ p \in Work
      BY <1>p, <1>w, <2>1, <2>2, <2>3, <2>4
    <2>6. /\ Borrowed' = Borrowed /\ Serving' = Serving /\ lifetime' = lifetime
          /\ main # "down" /\ main' # "down"
      BY <1>a, <1>k, <1>w, <2>1 DEF Ending
    <2>7. Ledger!Overlook({p})
      BY <2>1, <2>5, <2>6 DEF Ledger!Overlook, Work, Serving
    <2> QED BY <2>1, <2>7 DEF LedgerStep, Ledger!Next
  <1>5. CASE HkTake
    <2>1. /\ hk.batch = {} /\ hk'.batch = spill_buf /\ hk.at = "sleep" /\ spill_buf' = {}
          /\ UNCHANGED <<lanes, backlog, pending, push, worker, main, salvage, stuck,
                         lifetime>>
      BY <1>0, <1>5 DEF HkTake, HandsEmpty, inner, history, bounds
    <2>2. Places' = Places
      BY <1>w, <2>1 DEF InLanes, Victims, Retrying
    <2>3. main # "down"
      BY <1>0, <2>1 DEF PushersRun
    <2> QED BY <1>k, <1>s, <2>1, <2>2, <2>3
  <1>6. CASE HkWrite
    <2>1. /\ hk'.batch = {} /\ pending' = pending \cup hk.batch /\ hk.at = "write"
          /\ UNCHANGED <<lanes, backlog, spill_buf, push, worker, main, salvage, stuck,
                         lifetime>>
      BY <1>6 DEF HkWrite, inner, history, bounds
    <2>2. Places' = Places
      BY <1>w, <2>1 DEF InLanes, Victims, Retrying
    <2>3. main # "down"
      BY <1>0, <2>1 DEF PushersRun
    <2> QED BY <1>k, <1>s, <2>1, <2>2, <2>3
  <1>7. ASSUME NEW p \in Paths, HkPush(p) PROVE LedgerStep
    <2>1. /\ PushScan(Hk, p, "churn") /\ push[Hk].at = "none" /\ Hk \in Pushers
          /\ "churn" \in Lane /\ hk.at = "flush"
          /\ UNCHANGED <<backlog, spill_buf, pending, hk, worker, main, salvage,
                         lifetime, stuck>>
      BY <1>7 DEF HkPush, Pushers, Lane
    <2>2. InLanes \cup Victims \cup Retrying \cup stuck \cup {p}
             \subseteq InLanes' \cup Victims' \cup Retrying' \cup stuck' \cup backlog
      BY <1>0, <2>1, PushScanKeeps
    <2>3. /\ InLanes' \subseteq InLanes \cup {p}
          /\ Victims' \subseteq Victims \cup InLanes
          /\ Retrying' \subseteq Retrying \cup {p}
      BY <1>0, <2>1, PushScanAdds
    <2>4. Places' = Places \cup {p}
      BY <1>w, <2>1, <2>2, <2>3
    <2>5. main # "down"
      BY <1>0, <2>1 DEF PushersRun
    <2> QED BY <1>p, <1>w, <1>k, <2>1, <2>4, <2>5, LedgerAccepts
  <1>8. CASE HkSleep
    <2>1. /\ hk'.batch = {} /\ hk.batch = {} /\ hk.at = "flush"
          /\ UNCHANGED <<lanes, backlog, spill_buf, pending, push, worker, main, salvage,
                         stuck, lifetime>>
      BY <1>0, <1>8 DEF HkSleep, IdleHk, HandsEmpty, inner, history, bounds
    <2>2. Places' = Places
      BY <1>w, <2>1 DEF InLanes, Victims, Retrying
    <2>3. main # "down"
      BY <1>0, <2>1 DEF PushersRun
    <2> QED BY <1>k, <1>s, <2>1, <2>2, <2>3
  <1>9. CASE HkEnd
    <2>1. /\ hk'.batch = hk.batch /\ hk.at = "sleep"
          /\ UNCHANGED <<lanes, backlog, spill_buf, pending, push, worker, main, salvage,
                         stuck, lifetime>>
      BY <1>0, <1>9 DEF HkEnd, HandsEmpty, inner, history, bounds, TypeOK, HkState
    <2>2. Places' = Places
      BY <1>w, <2>1 DEF InLanes, Victims, Retrying
    <2>3. main # "down"
      BY <1>0, <2>1 DEF PushersRun
    <2> QED BY <1>k, <1>s, <2>1, <2>2, <2>3
  <1>10. ASSUME NEW p \in Paths, SweepSpill(p) PROVE LedgerStep
    <2>1. /\ pending' = pending \cup {p} /\ main # "down"
          /\ UNCHANGED <<lanes, backlog, spill_buf, push, hk, worker, main, salvage,
                         stuck, lifetime>>
      BY <1>0, <1>10 DEF SweepSpill, inner, threads, Emptied, Ending
    <2>2. Places' = Places \cup {p}
      BY <1>w, <2>1 DEF InLanes, Victims, Retrying
    <2> QED BY <1>p, <1>k, <1>w, <2>1, <2>2, LedgerAccepts
  <1>11. CASE SweepEnd
    <2>1. /\ main # "down"
          /\ UNCHANGED <<lanes, backlog, spill_buf, pending, push, hk, worker, main,
                         salvage, stuck, lifetime>>
      BY <1>0, <1>11 DEF SweepEnd, inner, history, bounds, Emptied, Ending
    <2>2. Places' = Places
      BY <1>w, <2>1 DEF InLanes, Victims, Retrying
    <2> QED BY <1>k, <1>s, <2>1, <2>2
  <1>n. ASSUME NEW w \in Workers, worker[w].at \in {"pop", "insert"},
               NEW f \in SUBSET Paths, f = worker[w].batch \ queued,
               TakeNext(w, backlog \cup f, queued \cup f),
               UNCHANGED <<spill_buf, pending, push, hk, main, salvage, stuck, exit,
                           lifetime>>
        PROVE  LedgerStep
    <2>1. backlog \cup f \in SUBSET Paths /\ queued \cup f \in SUBSET Paths
      BY <1>0, <1>n DEF TypeOK
    <2>2. /\ Held' \subseteq Held /\ Held \subseteq Held' \cup worker[w].batch
          /\ TakesNothing(w, backlog \cup f) \/ (~exit /\ TakesOne(w, backlog \cup f))
      BY <1>0, <1>n, <2>1, TakeNextMoves
    <2>3. Victims' = Victims /\ Retrying' = Retrying
      BY <1>n DEF Victims, Retrying
    <2>4. f \subseteq Held /\ worker[w].batch \subseteq Held
      BY <1>n DEF Held
    <2>5. worker[w].batch \subseteq f \cup InLanes \cup backlog \cup Retrying \cup stuck
      BY <1>0, <1>n DEF DedupIsExact
    <2>6. main # "down" /\ main' # "down"
      BY <1>0, <1>n DEF Emptied
    <2>7. CASE TakesNothing(w, backlog \cup f)
      <3>1. InLanes' = InLanes /\ backlog' = backlog \cup f /\ Serving' = Serving
        BY <2>7 DEF TakesNothing
      <3>2. Places' = Places
        BY <1>n, <2>2, <2>3, <2>4, <2>5, <3>1
      <3>3. Borrowed' \subseteq Borrowed
        BY <1>n, <1>b, <2>2, <2>4, <3>1
      <3> QED BY <1>n, <1>p, <2>6, <3>1, <3>2, <3>3, LedgerGetsBack
    <2>8. CASE ~exit /\ TakesOne(w, backlog \cup f)
      <3>1. PICK p \in Paths :
              /\ p \in InLanes \cup (backlog \cup f)
              /\ (InLanes \cup (backlog \cup f)) \ {p} \subseteq InLanes' \cup backlog'
              /\ InLanes' \cup backlog' \subseteq InLanes \cup (backlog \cup f)
              /\ Serving[w] = NoPath /\ Serving' = [Serving EXCEPT ![w] = p]
        BY <2>8 DEF TakesOne
      <3>2. main = "events"
        BY <1>0, <2>8 DEF Emptied
      <3>3. Borrowed' \subseteq Borrowed
        BY <1>n, <1>b, <2>2, <3>2
      <3>4. /\ p \in Places /\ Places \ {p} \subseteq Places' /\ Places' \subseteq Places
        BY <1>n, <2>2, <2>3, <2>4, <2>5, <3>1
      <3> QED BY <1>n, <1>p, <2>6, <3>1, <3>3, <3>4, LedgerServes
    <2> QED BY <2>2, <2>7, <2>8
  <1>12. ASSUME NEW w \in Workers, PopTask(w) PROVE LedgerStep
    <2>1. /\ TakeNext(w, backlog, queued) /\ worker[w].batch = {} /\ worker[w].at = "pop"
          /\ UNCHANGED <<spill_buf, pending, push, hk, main, salvage, stuck, exit,
                         lifetime>>
      BY <1>0, <1>12 DEF PopTask, TypeOK, bounds
    <2>2. backlog \cup {} = backlog /\ queued \cup {} = queued /\ {} = {} \ queued
      OBVIOUS
    <2> QED BY <1>n, <2>1, <2>2
  <1>13. ASSUME NEW w \in Workers, TakePending(w) PROVE LedgerStep
    <2>1. /\ worker[w].at = "fetch" /\ worker[w].batch = {}
          /\ UNCHANGED <<lanes, backlog, spill_buf, push, hk, main, salvage, stuck,
                         lifetime>>
      BY <1>0, <1>13 DEF TakePending, TypeOK, inner, history, bounds
    <2>2. PICK rows \in Batches :
             /\ worker' = [worker EXCEPT ![w] = [at |-> "insert", batch |-> rows,
                                                 path |-> NoPath]]
             /\ pending' = pending \ rows
      BY <1>13 DEF TakePending
    <2>3. rows \subseteq pending /\ rows \subseteq Paths
      BY <1>0, <2>2 DEF Batches, TypeOK
    <2>4. /\ worker'[w].batch = rows /\ worker'[w].at = "insert"
          /\ \A v \in Workers : v # w => worker'[v] = worker[v]
      BY <1>0, <2>2 DEF TypeOK
    <2>5. Held' = Held \cup rows /\ Serving' = Serving
      BY <2>1, <2>4 DEF Held, Serving
    <2>6. Places' = Places /\ Borrowed' = Borrowed \cup rows
      BY <1>b, <2>1, <2>2, <2>3, <2>5 DEF InLanes, Victims, Retrying
    <2>7. main # "down" /\ main' # "down"
      BY <1>0, <2>1 DEF Emptied
    <2>8. rows \subseteq Work /\ Work' = Work
      BY <1>p, <2>3, <2>6
    <2>9. Ledger!Borrow(rows)
      BY <2>1, <2>5, <2>6, <2>7, <2>8 DEF Ledger!Borrow, Work, Serving
    <2> QED BY <2>3, <2>9 DEF LedgerStep, Ledger!Next
  <1>14. ASSUME NEW w \in Workers, InsertBatch(w) PROVE LedgerStep
    <2> DEFINE f == Fresh(worker[w].batch)
    <2>1. f = worker[w].batch \ queued /\ f \subseteq Paths
      BY <1>0 DEF Fresh, TypeOK, WorkerState
    <2>2. /\ TakeNext(w, backlog \cup f, queued \cup f) /\ worker[w].at = "insert"
          /\ UNCHANGED <<spill_buf, pending, push, hk, main, salvage, stuck, exit,
                         lifetime>>
      BY <1>14 DEF InsertBatch, bounds
    <2> HIDE DEF f
    <2> QED BY <1>n, <2>1, <2>2
  <1>15. ASSUME NEW w \in Workers, WaitForWork(w) PROVE LedgerStep
    <2>1. /\ worker[w].at = "insert" /\ worker[w].batch = {}
          /\ worker' = [worker EXCEPT ![w] = IdleWorker]
          /\ UNCHANGED <<lanes, backlog, spill_buf, pending, push, hk, main, salvage,
                         stuck, lifetime>>
      BY <1>15 DEF WaitForWork, inner, history, bounds
    <2>2. /\ worker'[w].batch = {} /\ worker'[w].at = "pop"
          /\ \A v \in Workers : v # w => worker'[v] = worker[v]
      BY <1>0, <2>1 DEF TypeOK, IdleWorker
    <2>3. Held' = Held /\ Serving' = Serving
      BY <2>1, <2>2 DEF Held, Serving
    <2>4. Places' = Places /\ Borrowed' = Borrowed
      <3>1. InLanes' = InLanes /\ Victims' = Victims /\ Retrying' = Retrying
        BY <2>1 DEF InLanes, Victims, Retrying
      <3>2. Borrowed' = Borrowed
        BY <1>b, <2>1, <2>3
      <3> QED BY <2>1, <2>3, <3>1, <3>2
    <2>5. main # "down" /\ main' # "down"
      BY <1>0, <2>1 DEF Emptied
    <2> QED BY <1>p, <2>1, <2>3, <2>4, <2>5, LedgerStutters
  <1>16. ASSUME NEW w \in Workers, FinishTask(w) PROVE LedgerStep
    <2>1. /\ worker[w].at \in {"scan", "detect"} /\ worker[w].batch = {}
          /\ worker[w].path # NoPath
          /\ worker' = [worker EXCEPT ![w] = IdleWorker]
          /\ UNCHANGED <<lanes, backlog, spill_buf, pending, push, hk, main, salvage,
                         stuck, lifetime>>
      BY <1>0, <1>16 DEF FinishTask, AfterTask, inner, history, bounds, TypeOK
    <2>2. /\ worker'[w].batch = {} /\ worker'[w].at = "pop"
          /\ \A v \in Workers : v # w => worker'[v] = worker[v]
      BY <1>0, <2>1 DEF TypeOK, IdleWorker
    <2>3. Held' = Held
      BY <2>1, <2>2 DEF Held
    <2>4. Places' = Places /\ Borrowed' = Borrowed
      <3>1. InLanes' = InLanes /\ Victims' = Victims /\ Retrying' = Retrying
        BY <2>1 DEF InLanes, Victims, Retrying
      <3>2. Borrowed' = Borrowed
        BY <1>b, <2>1, <2>3
      <3> QED BY <2>1, <2>3, <3>1, <3>2
    <2>5. main # "down" /\ main' # "down"
      BY <1>0, <2>1 DEF Emptied
    <2>6. CASE worker[w].at = "detect"
      <3>1. Serving' = Serving
        BY <2>2, <2>6 DEF Serving
      <3> QED BY <1>p, <2>1, <2>4, <2>5, <3>1, LedgerStutters
    <2>7. CASE worker[w].at = "scan"
      <3>1. Serving' = [Serving EXCEPT ![w] = NoPath] /\ Serving[w] # NoPath
        <4>1. Serving[w] = worker[w].path
          BY <2>7 DEF Serving
        <4>2. /\ Serving'[w] = NoPath
              /\ \A v \in Workers : v # w => Serving'[v] = Serving[v]
          BY <2>2 DEF Serving
        <4>3. /\ Serving = [v \in Workers |-> Serving[v]]
              /\ Serving' = [v \in Workers |-> Serving'[v]]
          BY DEF Serving
        <4> HIDE DEF Serving
        <4> QED BY <2>1, <4>1, <4>2, <4>3
      <3>2. Work' = Work
        BY <1>p, <2>4
      <3>3. Ledger!Finish(w)
        BY <2>1, <2>4, <2>5, <3>1, <3>2 DEF Ledger!Finish, Work, Serving
      <3> QED BY <3>3 DEF LedgerStep, Ledger!Next
    <2> QED BY <2>1, <2>6, <2>7
  <1>17. CASE LeaveLoop
    <2>1. /\ main = "events" /\ main' = "join_helpers"
          /\ UNCHANGED <<lanes, backlog, spill_buf, pending, push, hk, worker, salvage,
                         stuck, lifetime>>
      BY <1>17 DEF LeaveLoop, inner, history, bounds
    <2>2. Places' = Places /\ Borrowed' = Borrowed
      <3>1. InLanes' = InLanes /\ Victims' = Victims /\ Retrying' = Retrying
        BY <2>1 DEF InLanes, Victims, Retrying
      <3>2. Borrowed' = Borrowed
        BY <1>b, <1>w, <2>1
      <3> QED BY <1>w, <2>1, <3>1, <3>2
    <2> QED BY <1>s, <2>1, <2>2
  <1>18. CASE JoinHelpers
    <2>1. /\ main = "join_helpers" /\ main' = "drain"
          /\ salvage = {} /\ salvage' = spill_buf /\ spill_buf' = {}
          /\ UNCHANGED <<lanes, backlog, pending, push, hk, worker, stuck, lifetime>>
      BY <1>0, <1>18 DEF JoinHelpers, inner, history, bounds, HandsEmpty
    <2>2. Places' = Places /\ Borrowed' = Borrowed
      <3>1. InLanes' = InLanes /\ Victims' = Victims /\ Retrying' = Retrying
        BY <2>1 DEF InLanes, Victims, Retrying
      <3>2. Borrowed' = Borrowed
        BY <1>b, <1>w, <2>1
      <3> QED BY <1>w, <2>1, <3>1, <3>2
    <2> QED BY <1>s, <2>1, <2>2
  <1>19. CASE DrainPaths
    <2> DEFINE S == Elems(gate)
    <2>1. /\ main = "drain" /\ main' = "persist" /\ stuck' = {} /\ backlog' = {}
          /\ salvage' = salvage \cup S \cup InLanes \cup backlog
          /\ UNCHANGED <<spill_buf, pending, push, hk, worker, lifetime>>
      BY <1>19 DEF DrainPaths, Left, bounds
    <2>2. InLanes' = {}
      BY <1>19 DEF DrainPaths, InLanes, Elems, Lanes
    <2>3. S \in SUBSET Paths
      <3>1. gate \in [1..Len(gate) -> Paths]
        BY <1>0 DEF TypeOK
      <3> QED BY <3>1 DEF Elems
    <2> HIDE DEF S
    <2>4. Victims' = Victims /\ Retrying' = Retrying
      BY <2>1 DEF Victims, Retrying
    <2>5. (Work \ stuck) \cup S \subseteq Work' /\ Work' \subseteq Work \cup S
      BY <1>p, <1>w, <2>1, <2>2, <2>4
    <2>6. Borrowed' = Borrowed /\ Serving' = Serving
      BY <1>b, <1>w, <2>1
    <2>7. Ledger!WriteOff(S)
      BY <2>1, <2>5, <2>6 DEF Ledger!WriteOff, Work, Serving
    <2> QED BY <2>3, <2>7 DEF LedgerStep, Ledger!Next
  <1>20. CASE Persist
    <2>1. /\ main = "persist" /\ main' = "join_workers"
          /\ pending' = pending \cup salvage /\ salvage' = {}
          /\ UNCHANGED <<lanes, backlog, spill_buf, push, hk, worker, stuck, lifetime>>
      BY <1>20 DEF Persist, inner, history, bounds
    <2>2. Places' = Places /\ Borrowed' = Borrowed
      <3>1. InLanes' = InLanes /\ Victims' = Victims /\ Retrying' = Retrying
        BY <2>1 DEF InLanes, Victims, Retrying
      <3>2. Borrowed' = Borrowed
        BY <1>b, <1>w, <2>1
      <3> QED BY <1>w, <2>1, <3>1, <3>2
    <2> QED BY <1>s, <2>1, <2>2
  <1>21. CASE JoinWorkers
    <2>1. /\ main = "join_workers" /\ main' = "down"
          /\ \A w \in Workers : worker[w].at = "done"
          /\ UNCHANGED <<lanes, backlog, spill_buf, pending, push, hk, worker, salvage,
                         stuck, lifetime>>
      BY <1>21 DEF JoinWorkers, inner, history, bounds
    <2>2. Places' = Places /\ Borrowed' = Borrowed
      <3>1. InLanes' = InLanes /\ Victims' = Victims /\ Retrying' = Retrying
        BY <2>1 DEF InLanes, Victims, Retrying
      <3>2. Borrowed' = Borrowed
        BY <1>b, <1>w, <2>1
      <3> QED BY <1>w, <2>1, <3>1, <3>2
    <2>3. Work' = Work /\ Serving' = Serving
      BY <1>p, <1>w, <2>1, <2>2
    <2>4. Serving = [w \in Workers |-> NoPath]
      BY <2>1 DEF Serving
    <2>5. ~(main' # "down")
      BY <2>1
    <2>6. Ledger!Close
      BY <2>1, <2>2, <2>3, <2>4, <2>5 DEF Ledger!Close, Work, Serving
    <2> QED BY <2>6 DEF LedgerStep, Ledger!Next
  <1>22. CASE NewGeneration
    <2>1. /\ backlog' = {} /\ spill_buf' = {} /\ pending' = pending /\ salvage' = {}
          /\ stuck' = {} /\ main' = "events" /\ lifetime' = lifetime + 1
          /\ hk' = IdleHk /\ worker' = [w \in Workers |-> IdleWorker]
          /\ push' = [t \in Pushers |-> IdlePush]
      BY <1>22 DEF NewGeneration
    <2>2. InLanes' = {}
      BY <1>22 DEF NewGeneration, InLanes, Elems, Lanes
    <2>3. Victims' = {} /\ Retrying' = {} /\ Held' = {} /\ hk'.batch = {}
      BY <2>1 DEF Victims, Retrying, Held, IdlePush, IdleWorker, IdleHk
    <2>4. Work' = pending
      BY <1>p, <2>1, <2>2, <2>3
    <2>5. Serving' = [w \in Workers |-> NoPath] /\ Borrowed' = {}
      BY <1>b, <2>1, <2>3 DEF Serving, IdleWorker
    <2>6. Ledger!Begin
      BY <2>1, <2>5 DEF Ledger!Begin, Serving
    <2>7. Work' \subseteq Work
      BY <1>p, <2>4
    <2>8. CASE main = "down"
      <3>1. /\ hk.at = "done" /\ hk.batch = {}
            /\ \A t \in Pushers : push[t].at = "none"
        BY <1>0, <2>8 DEF HandsEmpty, PushersRun, Pushers
      <3>2. Victims = {} /\ Retrying = {}
        BY <1>0, <3>1 DEF TypeOK, Victims, Retrying
      <3>3. Held = {}
        BY <1>0, <2>8 DEF Held, Emptied, TypeOK
      <3>4. InLanes = {} /\ stuck = {} /\ spill_buf = {} /\ salvage = {}
        BY <1>0, <2>8 DEF Emptied, Ending
      <3>5. Work \ Borrowed \subseteq Work'
        BY <1>p, <1>b, <2>4, <2>8, <3>1, <3>2, <3>3, <3>4
      <3>6. Ledger!Reopen
        BY <2>6, <2>7, <2>8, <3>5 DEF Ledger!Reopen, Work
      <3> QED BY <3>6 DEF LedgerStep, Ledger!Next
    <2>9. CASE main # "down"
      <3>1. Ledger!Crash
        BY <2>6, <2>7, <2>9 DEF Ledger!Crash, Work
      <3> QED BY <3>1 DEF LedgerStep, Ledger!Next
    <2> QED BY <2>8, <2>9
  <1>23. CASE UNCHANGED vars
    <2>1. UNCHANGED <<lanes, backlog, spill_buf, pending, push, hk, worker, main,
                      salvage, stuck, lifetime>>
      BY <1>23 DEF vars
    <2>2. Places' = Places
      BY <1>w, <2>1 DEF InLanes, Victims, Retrying
    <2>3. Work' = Work /\ Borrowed' = Borrowed /\ Serving' = Serving
      BY <1>p, <1>k, <1>w, <2>1, <2>2
    <2>4. (main' # "down") = (main # "down")
      BY <2>1
    <2> QED BY <2>1, <2>3, <2>4 DEF LedgerStep, Ledger!ledger, Work, Serving
  <1> QED
    BY <1>1, <1>2, <1>3, <1>4, <1>5, <1>6, <1>7, <1>8, <1>9, <1>10, <1>11, <1>12,
       <1>13, <1>14, <1>15, <1>16, <1>17, <1>18, <1>19, <1>20, <1>21, <1>22, <1>23
       DEF Next, IntakeStep, HkStep, WorkerStep, Shutdown, Start, Crash

(* At the start there is no work.                                          *)
LEMMA LedgerInit == Init => Ledger!Init
  <1> SUFFICES ASSUME Init PROVE Ledger!Init
    OBVIOUS
  <1>1. /\ Victims = {} /\ Retrying = {} /\ Held = {} /\ InLanes = {} /\ hk.batch = {}
        /\ backlog = {} /\ spill_buf = {} /\ pending = {} /\ salvage = {} /\ stuck = {}
        /\ main = "events" /\ lifetime = 1
    BY DEF Init, Victims, Retrying, Held, InLanes, Elems, Lanes, IdlePush, IdleWorker,
           IdleHk
  <1>2. Work = {}
    BY <1>1, LocatedIs DEF Work
  <1>3. Borrowed = {}
    BY <1>1 DEF Borrowed, Held, BeforeDrain
  <1>4. Serving = [w \in Workers |-> NoPath]
    BY DEF Init, Serving, IdleWorker
  <1> QED BY <1>1, <1>2, <1>3, <1>4 DEF Ledger!Init, Work, Serving

(* The queue implements the ledger: what is handed over is work until it   *)
(* is served; only an overflow overlooks any, a stop loses that and what a *)
(* worker borrowed, and a crash alone may lose more (push_scan, pop, spill *)
(* and refill of realtime.rs with the table pending_scans).                *)
THEOREM QueueKeepsLedger == Spec => KeepsLedger
  <1>1. ShutdownInv /\ [Next]_vars => [Ledger!Next]_(Ledger!ledger)
    BY LedgerSimulates DEF LedgerStep
  <1> QED
    BY <1>1, LedgerInit, ShutdownInvariant, PTL DEF Spec, KeepsLedger, Ledger!Spec
=============================================================================
