---------------------------- MODULE ServingProofs ----------------------------
(***************************************************************************)
(* Proofs about Serving, for any connections, workers, files, sizes of the *)
(* socket buffers and distances between two progress reports.              *)
(***************************************************************************)
EXTENDS Serving, FiniteSetTheorems, SequenceTheorems, WellFoundedInduction, TLAPS

USE NoneAssumption, FiniteAssumption, SizeAssumption, SetAssumption, BoundAssumption

-----------------------------------------------------------------------------
(* Numbers and sets.                                                       *)

(* A product leaves no remainder, and below the divisor a number is its    *)
(* own remainder.                                                          *)
LEMMA Remainders ==
    ASSUME NEW P \in Nat \ {0}, NEW q \in Nat, NEW r \in 0..P-1
    PROVE  (P * q) % P = 0 /\ (P * q + r) % P = r
  <1>1. (P * q) % P = 0
    BY Z3
  <1>2. (P * q + r) % P = r
    BY Z3
  <1> QED BY <1>1, <1>2

(* Counting on, the remainder grows by one until it is none.               *)
LEMMA NextRemainder ==
    ASSUME NEW P \in Nat \ {0}, NEW n \in Nat
    PROVE  /\ n % P \in 0..P-1
           /\ (n + 1) % P # 0 => (n + 1) % P = (n % P) + 1
  <1> DEFINE q == n \div P
             r == n % P
  <1>1. q \in Nat /\ r \in 0..P-1 /\ n = P * q + r
    <2>1. r \in 0..P-1
      OBVIOUS
    <2>2. q \in Nat
      BY Z3
    <2>3. n = P * q + r
      BY Z3
    <2> QED BY <2>1, <2>2, <2>3
  <1> HIDE DEF q, r
  <1>2. CASE r + 1 \in 0..P-1
    <2>1. n + 1 = P * q + (r + 1)
      BY <1>1
    <2>2. (P * q + (r + 1)) % P = r + 1
      BY <1>1, <1>2, Remainders
    <2>3. (n + 1) % P = r + 1
      BY <2>1, <2>2
    <2> QED BY <1>1, <2>3 DEF r
  <1>3. CASE r + 1 = P
    <2>1. n + 1 = P * (q + 1)
      <3>1. P * (q + 1) = P * q + P
        BY <1>1, Z3
      <3> QED BY <1>1, <1>3, <3>1
    <2>2. (P * (q + 1)) % P = 0
      BY <1>1, Remainders
    <2>3. (n + 1) % P = 0
      BY <2>1, <2>2
    <2> QED BY <1>1, <2>3 DEF r
  <1> QED BY <1>1, <1>2, <1>3

(* A finite set of numbers that is not empty has a greatest one.           *)
LEMMA Greatest ==
    ASSUME NEW S, S \subseteq Nat, IsFiniteSet(S), S # {}
    PROVE  \E m \in S : \A n \in S : n <= m
  <1> DEFINE Above(m) == {n \in S : n > m}
             T == {Above(m) : m \in S}
  <1>1. IsWellFoundedOn(StrictSubsetOrdering(S), FiniteSubsetsOf(S))
    BY FS_StrictSubsetOrderingWellFounded
  <1>2. T \subseteq FiniteSubsetsOf(S) /\ T # {}
    <2>1. \A m \in S : Above(m) \in SUBSET S
      OBVIOUS
    <2>2. \A R \in SUBSET S : IsFiniteSet(R)
      BY FS_Subset
    <2> QED BY ZenonT(60), <2>1, <2>2 DEF FiniteSubsetsOf
  <1>3. PICK x \in T : \A y \in T : ~(<<y, x>> \in StrictSubsetOrdering(S))
    <2> HIDE DEF T
    <2> QED BY <1>1, <1>2, WFMin
  <1>4. PICK m \in S : x = Above(m)
    BY <1>3
  <1>5. ASSUME NEW n \in S, n > m
        PROVE  FALSE
    <2>1. Above(n) \subseteq Above(m) /\ n \in Above(m) /\ n \notin Above(n)
      <3>1. n \in Nat /\ m \in Nat
        OBVIOUS
      <3>2. \A k \in S : k > n => k > m
        <4> TAKE k \in S
        <4>1. k \in Nat
          OBVIOUS
        <4> QED BY <1>5, <3>1, <4>1
      <3>3. n \in Above(m)
        BY <1>5
      <3>4. n \notin Above(n)
        BY <3>1
      <3> QED BY <3>2, <3>3, <3>4
    <2>2. Above(n) \in T /\ Above(n) \subseteq S /\ Above(m) \subseteq S
      OBVIOUS
    <2>3. <<Above(n), Above(m)>> \in StrictSubsetOrdering(S)
      BY <2>1, <2>2 DEF StrictSubsetOrdering
    <2> QED BY <1>3, <1>4, <2>2, <2>3
  <1> QED BY <1>5

-----------------------------------------------------------------------------
(* Types, with numbers of any size.                                        *)

Points == ScanPoints \cup {"none", "register", "serve", "respond", "unregister", "ended"}
Ends == {"running", "completed", "cancelled", "error"}
Thread ==
    [at : Points, id : Nat, total : 0..Cardinality(Files), todo : SUBSET (Files \cup {Root}),
     file : Files \cup {NoFile}, scanned : Nat, threats : Nat, cancelled : BOOLEAN,
     status : Ends]
About == [seen : SUBSET Files, gap : SUBSET Files, steady : SUBSET Files,
          late : Nat, orphaned : Nat]

SocketsOK ==
    /\ peer \in [Conns -> {"none", "reading", "stopped", "gone"}]
    /\ asked \in [Conns -> [op : {"none", "start", "cancel"}, id : Nat]]
    /\ inbox \in [Conns -> 0..ROOM]
ConnOK == conn \in [Conns -> Thread]
FlagOK == flag \in [Conns -> BOOLEAN]
Entry(c) == [id |-> conn[c].id, conn |-> c]
Active == {c \in Conns : conn[c].at \in ScanPoints \ {"insert", "activate"}}
ActiveOK == active = {Entry(c) : c \in Active}
RowsOK == rows \in Seq([status : Ends, scanned : Nat, threats : Nat])
WorkersOK ==
    /\ writers \subseteq Conns /\ lock \in Workers \cup {Nobody}
    /\ worker \in [Workers -> [at : {"idle", "lock", "send"}, left : SUBSET Conns]]
    /\ \A w \in Workers : (worker[w].at = "send") <=> (lock = w)
    /\ \A w \in Workers : worker[w].left \subseteq writers
    /\ \A w \in Workers : worker[w].at # "send" => worker[w].left = {}
    /\ daemon \in {"up", "stopping", "down"}
FilesOK == present \subseteq Files /\ hist \in [Conns -> About]
UsedOK == used \in 0..MaxEvents

(* What Walk does, by outcome.                                             *)
WalkEnds(c) ==
    /\ At(c, "walk")
    /\ \/ conn[c].cancelled /\ conn' = Ending(c, "cancelled")
       \/ ~conn[c].cancelled /\ conn[c].todo = {} /\ conn' = Ending(c, "completed")
    /\ UNCHANGED <<peer, asked, inbox, flag, active, rows, writers, lock, worker,
                   daemon, present, used, hist>>
WalkExpands(c) ==
    /\ At(c, "walk") /\ ~conn[c].cancelled /\ Expand(c)
    /\ UNCHANGED <<peer, asked, inbox, flag, active, rows, writers, lock, worker,
                   daemon, present>>
WalkPasses(c) ==
    /\ At(c, "walk") /\ ~conn[c].cancelled /\ PassOver(c)
    /\ UNCHANGED <<peer, asked, inbox, flag, active, rows, writers, lock, worker,
                   daemon, present>>
WalkBegins(c) ==
    /\ At(c, "walk") /\ ~conn[c].cancelled /\ Begin(c)
    /\ UNCHANGED <<peer, asked, inbox, flag, active, rows, writers, lock, worker,
                   daemon, present>>

(* Walk is one of its outcomes.                                            *)
LEMMA WalkIs ==
    ASSUME NEW c \in Conns, Walk(c)
    PROVE  WalkEnds(c) \/ WalkExpands(c) \/ WalkPasses(c) \/ WalkBegins(c)
  BY DEF Walk, Leave, WalkEnds, WalkExpands, WalkPasses, WalkBegins

(* The sizes, one by one.                                                  *)
LEMMA Sizes ==
    /\ ROOM \in Nat /\ ROOM > 0 /\ PROGRESS_EVERY \in Nat \ {0}
    /\ MaxEvents \in Nat
    /\ Root \notin Files /\ NoFile \notin Files /\ Nobody \notin Workers
  BY DEF Root, NoFile

(* A thread that only goes on to another point.                            *)
LEMMA Goes ==
    ASSUME ConnOK, NEW c \in Conns, NEW a \in Points, conn' = [conn EXCEPT ![c].at = a]
    PROVE  ConnOK'
  BY SMTT(30) DEF ConnOK, Thread

(* A thread that changes otherwise.                                        *)
LEMMA Becomes ==
    ASSUME ConnOK, NEW c \in Conns, NEW v \in Thread, conn' = [conn EXCEPT ![c] = v]
    PROVE  ConnOK'
  BY DEF ConnOK

(* The numbers of files.                                                   *)
LEMMA Sums ==
    /\ Cardinality(Files) \in Nat
    /\ \A S \in SUBSET Files : /\ IsFiniteSet(S) /\ Cardinality(S) \in Nat
                               /\ Cardinality(S) <= Cardinality(Files)
  BY FS_Subset, FS_CardinalityType

(* A thread without a scan.                                                *)
LEMMA NoneIsThread ==
    NoScan \in Thread /\ \A a \in Points : [NoScan EXCEPT !.at = a] \in Thread
  <1>1. 0 \in 0..Cardinality(Files)
    BY Sums
  <1> QED BY <1>1 DEF NoScan, Thread, NoFile, Ends, Root, Points

(* A message that is delivered had room.                                   *)
LEMMA InboxStays ==
    ASSUME inbox \in [Conns -> 0..ROOM], NEW c \in Conns, Delivered(c)
    PROVE  inbox' \in [Conns -> 0..ROOM]
  <1>1. inbox[c] \in 0..ROOM /\ inbox[c] < ROOM /\ inbox' = [inbox EXCEPT ![c] = inbox[c] + 1]
    BY DEF Delivered
  <1>2. inbox[c] + 1 \in 0..ROOM
    BY <1>1, Sizes
  <1> QED BY <1>1, <1>2

(* Requests and messages.                                                  *)
LEMMA SocketsStep ==
    ASSUME SocketsOK, RowsOK, [Next]_vars
    PROVE  SocketsOK'
  <1>1. ASSUME NEW c \in Conns, Connect(c) PROVE SocketsOK'
    BY <1>1 DEF Connect, SocketsOK, RowsOK
  <1>2. ASSUME NEW c \in Conns, Ask(c) PROVE SocketsOK'
    <2>1. Len(rows) \in Nat
      BY LenProperties DEF RowsOK
    <2>2. \/ asked' = [asked EXCEPT ![c] = [op |-> "start", id |-> 0]]
          \/ \E i \in Nat : asked' = [asked EXCEPT ![c] = [op |-> "cancel", id |-> i]]
      BY <1>2, <2>1 DEF Ask
    <2>3. asked' \in [Conns -> [op : {"none", "start", "cancel"}, id : Nat]]
      BY <2>2 DEF SocketsOK
    <2> QED BY <1>2, <2>3 DEF Ask, SocketsOK
  <1>3. ASSUME NEW c \in Conns, Read(c) PROVE SocketsOK'
    BY Sizes, <1>3 DEF Read, SocketsOK, RowsOK
  <1>4. ASSUME NEW c \in Conns, Behave(c) PROVE SocketsOK'
    BY <1>4 DEF Behave, Event, SocketsOK, RowsOK
  <1>5. ASSUME NEW c \in Conns, Register(c) PROVE SocketsOK'
    BY <1>5 DEF Register, At, Goto, SocketsOK, RowsOK
  <1>6. ASSUME NEW c \in Conns, ScanStart(c) PROVE SocketsOK'
    BY Sizes, <1>6 DEF ScanStart, At, Goto, Taken, Event, NoRequest, NoScan, NoHist,
       SocketsOK, RowsOK
  <1>7. ASSUME NEW c \in Conns, ScanCancel(c) PROVE SocketsOK'
    BY <1>7 DEF ScanCancel, At, Goto, Taken, Hit, NoRequest, SocketsOK, RowsOK
  <1>8. ASSUME NEW c \in Conns, Respond(c) PROVE SocketsOK'
    <2>1. inbox' \in [Conns -> 0..ROOM]
      BY <1>8, InboxStays DEF Respond, Refused, SocketsOK
    <2> QED BY <1>8, <2>1 DEF Respond, SocketsOK
  <1>9. ASSUME NEW c \in Conns, EndOfFile(c) PROVE SocketsOK'
    BY <1>9 DEF EndOfFile, At, Goto, SocketsOK, RowsOK
  <1>10. ASSUME NEW c \in Conns, Unregister(c) PROVE SocketsOK'
    BY <1>10 DEF Unregister, At, Goto, SocketsOK, RowsOK
  <1>11. ASSUME NEW c \in Conns, InsertScan(c) PROVE SocketsOK'
    BY <1>11 DEF InsertScan, At, SocketsOK, RowsOK
  <1>12. ASSUME NEW c \in Conns, Activate(c) PROVE SocketsOK'
    BY <1>12 DEF Activate, At, Goto, SocketsOK, RowsOK
  <1>13. ASSUME NEW c \in Conns, Greet(c) PROVE SocketsOK'
    <2>1. inbox' \in [Conns -> 0..ROOM]
      BY <1>13, InboxStays DEF Greet, SendOrCancel, Refused, SocketsOK
    <2> QED BY <1>13, <2>1 DEF Greet, SocketsOK
  <1>14. ASSUME NEW c \in Conns, Announce(c) PROVE SocketsOK'
    <2>1. inbox' \in [Conns -> 0..ROOM]
      BY <1>14, InboxStays DEF Announce, SendOrCancel, Refused, SocketsOK
    <2> QED BY <1>14, <2>1 DEF Announce, SocketsOK
  <1>15. ASSUME NEW c \in Conns, WalkEnds(c) PROVE SocketsOK'
    BY <1>15 DEF WalkEnds, At, Ending, SocketsOK, RowsOK
  <1>16. ASSUME NEW c \in Conns, WalkExpands(c) PROVE SocketsOK'
    BY <1>16 DEF WalkExpands, At, Event, Left, Expand, SocketsOK, RowsOK
  <1>17. ASSUME NEW c \in Conns, WalkPasses(c) PROVE SocketsOK'
    BY <1>17 DEF WalkPasses, At, Event, Left, PassOver, Scannable, SocketsOK, RowsOK
  <1>18. ASSUME NEW c \in Conns, WalkBegins(c) PROVE SocketsOK'
    BY <1>18 DEF WalkBegins, At, Begin, Scannable, SocketsOK, RowsOK
  <1>19. ASSUME NEW c \in Conns, ScanFile(c) PROVE SocketsOK'
    BY <1>19 DEF ScanFile, At, Event, Left, Goto, Ending, SocketsOK, RowsOK
  <1>20. ASSUME NEW c \in Conns, Detect(c) PROVE SocketsOK'
    <2>1. inbox' \in [Conns -> 0..ROOM]
      BY <1>20, InboxStays DEF Detect, SendOrCancel, Refused, SocketsOK
    <2> QED BY <1>20, <2>1 DEF Detect, SocketsOK
  <1>21. ASSUME NEW c \in Conns, Counted(c) PROVE SocketsOK'
    <2>1. inbox' \in [Conns -> 0..ROOM]
      BY <1>21, InboxStays DEF Counted, SendOrCancel, Refused, SocketsOK
    <2> QED BY <1>21, <2>1 DEF Counted, SocketsOK
  <1>22. ASSUME NEW c \in Conns, FinishScan(c) PROVE SocketsOK'
    BY <1>22 DEF FinishScan, At, Returns, NoScan, NoHist, SocketsOK, RowsOK
  <1>23. ASSUME NEW f \in Files, Change(f) PROVE SocketsOK'
    BY <1>23 DEF Change, Event, Gone, SocketsOK, RowsOK
  <1>24. ASSUME NEW w \in Workers, DetectionFound(w) PROVE SocketsOK'
    BY <1>24 DEF DetectionFound, Event, SocketsOK, RowsOK
  <1>25. ASSUME NEW w \in Workers, BroadcastLock(w) PROVE SocketsOK'
    BY <1>25 DEF BroadcastLock, SocketsOK, RowsOK
  <1>26. ASSUME NEW w \in Workers, BroadcastSend(w) PROVE SocketsOK'
    BY Sizes, <1>26 DEF BroadcastSend, Delivered, Refused, SocketsOK, RowsOK
  <1>27. ASSUME NEW w \in Workers, BroadcastDone(w) PROVE SocketsOK'
    BY <1>27 DEF BroadcastDone, SocketsOK, RowsOK
  <1>28. CASE Sigterm
    BY <1>28 DEF Sigterm, SocketsOK, RowsOK
  <1>29. CASE Exit
    BY Sizes, <1>29 DEF Exit, NoRequest, NoScan, NoHist, SocketsOK, RowsOK
  <1>30. CASE UNCHANGED vars
    BY <1>30 DEF vars, SocketsOK, RowsOK
  <1> QED
    BY WalkIs, <1>1, <1>2, <1>3, <1>4, <1>5, <1>6, <1>7, <1>8, <1>9, <1>10, <1>11, <1>12,
       <1>13, <1>14, <1>15, <1>16, <1>17, <1>18, <1>19, <1>20, <1>21, <1>22, <1>23,
       <1>24, <1>25, <1>26, <1>27, <1>28, <1>29, <1>30 DEF Next, ConnStep,
       BroadcastStep

(* The threads.                                                            *)
LEMMA ThreadsStep ==
    ASSUME ConnOK, FlagOK, RowsOK, FilesOK, [Next]_vars
    PROVE  ConnOK'
  <1>1. ASSUME NEW c \in Conns, Connect(c) PROVE ConnOK'
    <2>1. conn' = [conn EXCEPT ![c].at = "register"] /\ "register" \in Points
      BY <1>1 DEF Connect, Points, ScanPoints
    <2> QED BY <2>1, Goes
  <1>2. ASSUME NEW c \in Conns, Ask(c) PROVE ConnOK'
    BY <1>2 DEF Ask, ConnOK
  <1>3. ASSUME NEW c \in Conns, Read(c) PROVE ConnOK'
    BY <1>3 DEF Read, ConnOK
  <1>4. ASSUME NEW c \in Conns, Behave(c) PROVE ConnOK'
    BY <1>4 DEF Behave, ConnOK
  <1>5. ASSUME NEW c \in Conns, Register(c) PROVE ConnOK'
    <2>1. conn' = [conn EXCEPT ![c].at = "serve"] /\ "serve" \in Points
      BY <1>5 DEF Register, Goto, Points, ScanPoints
    <2> QED BY <2>1, Goes
  <1>6. ASSUME NEW c \in Conns, ScanStart(c) PROVE ConnOK'
    <2>1. CASE conn' = [conn EXCEPT ![c] = [NoScan EXCEPT !.at = "insert"]]
      <3>1. [NoScan EXCEPT !.at = "insert"] \in Thread
        BY NoneIsThread DEF Points, ScanPoints
      <3> QED BY <2>1, <3>1, Becomes
    <2>2. CASE conn' = [conn EXCEPT ![c].at = "respond"]
      <3>1. "respond" \in Points
        BY DEF Points
      <3> QED BY <2>2, <3>1, Goes
    <2> QED BY <1>6, <2>1, <2>2 DEF ScanStart, Goto
  <1>7. ASSUME NEW c \in Conns, ScanCancel(c) PROVE ConnOK'
    <2>1. conn' = [conn EXCEPT ![c].at = "respond"] /\ "respond" \in Points
      BY <1>7 DEF ScanCancel, Goto, Points, ScanPoints
    <2> QED BY <2>1, Goes
  <1>8. ASSUME NEW c \in Conns, Respond(c) PROVE ConnOK'
    <2>1. conn' = [conn EXCEPT ![c].at = "serve"] /\ "serve" \in Points
      BY <1>8 DEF Respond, Goto, Points, ScanPoints
    <2> QED BY <2>1, Goes
  <1>9. ASSUME NEW c \in Conns, EndOfFile(c) PROVE ConnOK'
    <2>1. conn' = [conn EXCEPT ![c].at = "unregister"] /\ "unregister" \in Points
      BY <1>9 DEF EndOfFile, Goto, Points, ScanPoints
    <2> QED BY <2>1, Goes
  <1>10. ASSUME NEW c \in Conns, Unregister(c) PROVE ConnOK'
    <2>1. conn' = [conn EXCEPT ![c].at = "ended"] /\ "ended" \in Points
      BY <1>10 DEF Unregister, Goto, Points, ScanPoints
    <2> QED BY <2>1, Goes
  <1>11. ASSUME NEW c \in Conns, InsertScan(c) PROVE ConnOK'
    <2>1. Len(rows) + 1 \in Nat
      BY LenProperties DEF RowsOK
    <2>2. conn' = [conn EXCEPT ![c].at = "activate", ![c].id = Len(rows) + 1]
      BY <1>11 DEF InsertScan
    <2>3. "activate" \in Points
      BY DEF Points, ScanPoints
    <2> QED BY ZenonT(60), <2>1, <2>2, <2>3 DEF ConnOK, Thread
  <1>12. ASSUME NEW c \in Conns, Activate(c) PROVE ConnOK'
    <2>1. conn' = [conn EXCEPT ![c].at = "greet"] /\ "greet" \in Points
      BY <1>12 DEF Activate, Goto, Points, ScanPoints
    <2> QED BY <2>1, Goes
  <1>13. ASSUME NEW c \in Conns, Greet(c) PROVE ConnOK'
    <2>1. conn[c] \in Thread
      BY DEF ConnOK
    <2>2. "announce" \in Points /\ (Cardinality(present \ Excluded)) \in
          0..Cardinality(Files)
      BY <1>13, <2>1, Sums DEF Greet, Thread, Points, ScanPoints, Ends, FilesOK
    <2>3. Cardinality(Files) \in Nat
      BY FS_CardinalityType
    <2>4. 0..(Cardinality(present \ Excluded) - 1) \subseteq 0..Cardinality(Files)
      BY <2>2, <2>3
    <2>5. PICK n \in 0..Cardinality(Files) :
             conn' = [conn EXCEPT ![c].at = "announce", ![c].total = n]
      BY <1>13, <2>2, <2>4 DEF Greet
    <2> QED BY ZenonT(60), <2>2, <2>5 DEF ConnOK, Thread
  <1>14. ASSUME NEW c \in Conns, Announce(c) PROVE ConnOK'
    <2>1. PICK b \in BOOLEAN : conn' = [conn EXCEPT ![c].at = "walk", ![c].todo = {Root},
                                              ![c].cancelled = b]
      <3>1. flag'[c] \in BOOLEAN
        BY <1>14 DEF Announce, SendOrCancel, FlagOK
      <3> QED BY <1>14, <3>1 DEF Announce
    <2>2. "walk" \in Points /\ {Root} \in SUBSET (Files \cup {Root})
      BY DEF Points, ScanPoints
    <2>3. conn[c] \in Thread
      BY DEF ConnOK
    <2>4. [conn[c] EXCEPT !.at = "walk", !.todo = {Root}, !.cancelled = b] \in Thread
      BY <2>1, <2>2, <2>3 DEF Thread
    <2>5. conn' = [conn EXCEPT ![c] = [conn[c] EXCEPT !.at = "walk", !.todo = {Root}, !.cancelled = b]]
      BY <2>1
    <2> QED BY <2>4, <2>5, Becomes
  <1>15. ASSUME NEW c \in Conns, WalkEnds(c) PROVE ConnOK'
    <2>1. PICK e \in Ends : conn' = [conn EXCEPT ![c].at = "finish", ![c].status = e]
      BY <1>15 DEF WalkEnds, Ending, Ends
    <2>2. "finish" \in Points
      BY DEF Points, ScanPoints
    <2> QED BY ZenonT(60), <2>1, <2>2 DEF ConnOK, Thread
  <1>16. ASSUME NEW c \in Conns, WalkExpands(c) PROVE ConnOK'
    <2>1. PICK listed \in SUBSET present : conn' = [conn EXCEPT ![c].todo = listed]
      BY <1>16 DEF WalkExpands, Expand
    <2> QED BY <2>1 DEF ConnOK, Thread, FilesOK
  <1>17. ASSUME NEW c \in Conns, WalkPasses(c) PROVE ConnOK'
    <2>1. \E e : conn' = [conn EXCEPT ![c].todo = conn[c].todo \ {e}]
      BY <1>17 DEF WalkPasses, PassOver
    <2> QED BY <2>1 DEF ConnOK, Thread
  <1>18. ASSUME NEW c \in Conns, WalkBegins(c) PROVE ConnOK'
    <2>1. PICK f \in Files : conn' = [conn EXCEPT ![c].at = "scan", ![c].file = f,
                                              ![c].todo = conn[c].todo \ {f}]
      BY <1>18 DEF WalkBegins, Begin, Scannable, FilesOK
    <2>2. "scan" \in Points
      BY DEF Points, ScanPoints
    <2>3. conn[c] \in Thread
      BY DEF ConnOK
    <2>4. [conn[c] EXCEPT !.at = "scan", !.file = f, !.todo = conn[c].todo \ {f}] \in Thread
      BY <2>1, <2>2, <2>3 DEF Thread
    <2>5. conn' = [conn EXCEPT ![c] = [conn[c] EXCEPT !.at = "scan", !.file = f, !.todo = conn[c].todo \ {f}]]
      BY <2>1
    <2> QED BY <2>4, <2>5, Becomes
  <1>19. ASSUME NEW c \in Conns, ScanFile(c) PROVE ConnOK'
    <2>1. PICK a \in {"detect", "counted"}, n \in {conn[c].threats, conn[c].threats + 1} :
             \/ conn' = [conn EXCEPT ![c].at = a, ![c].threats = n]
             \/ conn' = [conn EXCEPT ![c].at = "finish", ![c].status = "error"]
             \/ conn' = [conn EXCEPT ![c].at = a]
      BY <1>19 DEF ScanFile, Goto, Left, Ending
    <2>2. {a, "finish"} \subseteq Points /\ "error" \in Ends
      BY DEF Points, ScanPoints, Ends
    <2> QED BY <2>1, <2>2 DEF ConnOK, Thread
  <1>20. ASSUME NEW c \in Conns, Detect(c) PROVE ConnOK'
    <2>1. conn' = [conn EXCEPT ![c].at = "counted"] /\ "counted" \in Points
      BY <1>20 DEF Detect, Goto, Points, ScanPoints
    <2> QED BY <2>1, Goes
  <1>21. ASSUME NEW c \in Conns, Counted(c) PROVE ConnOK'
    <2>1. PICK b \in BOOLEAN :
             conn' = [conn EXCEPT ![c].at = "walk", ![c].scanned = conn[c].scanned + 1,
                                  ![c].file = NoFile, ![c].cancelled = b]
      <3>1. flag'[c] \in BOOLEAN
        BY <1>21 DEF Counted, SendOrCancel, FlagOK
      <3> QED BY <1>21, <3>1 DEF Counted
    <2>2. "walk" \in Points
      BY DEF Points, ScanPoints
    <2> QED BY <2>1, <2>2 DEF ConnOK, Thread
  <1>22. ASSUME NEW c \in Conns, FinishScan(c) PROVE ConnOK'
    <2>1. conn' = [conn EXCEPT ![c] = [NoScan EXCEPT !.at = "respond"]]
      BY <1>22 DEF FinishScan, Returns
    <2>2. [NoScan EXCEPT !.at = "respond"] \in Thread
      BY NoneIsThread DEF Points
    <2> QED BY <2>1, <2>2, Becomes
  <1>23. ASSUME NEW f \in Files, Change(f) PROVE ConnOK'
    BY <1>23 DEF Change, ConnOK
  <1>24. ASSUME NEW w \in Workers, DetectionFound(w) PROVE ConnOK'
    BY <1>24 DEF DetectionFound, ConnOK
  <1>25. ASSUME NEW w \in Workers, BroadcastLock(w) PROVE ConnOK'
    BY <1>25 DEF BroadcastLock, ConnOK
  <1>26. ASSUME NEW w \in Workers, BroadcastSend(w) PROVE ConnOK'
    BY <1>26 DEF BroadcastSend, ConnOK
  <1>27. ASSUME NEW w \in Workers, BroadcastDone(w) PROVE ConnOK'
    BY <1>27 DEF BroadcastDone, ConnOK
  <1>28. CASE Sigterm
    BY <1>28 DEF Sigterm, ConnOK
  <1>29. CASE Exit
    <2>1. conn' = [d \in Conns |-> NoScan]
      BY <1>29 DEF Exit
    <2> QED BY <2>1, NoneIsThread DEF ConnOK
  <1>30. CASE UNCHANGED vars
    BY <1>30 DEF vars, ConnOK
  <1> QED
    BY WalkIs, <1>1, <1>2, <1>3, <1>4, <1>5, <1>6, <1>7, <1>8, <1>9, <1>10, <1>11, <1>12,
       <1>13, <1>14, <1>15, <1>16, <1>17, <1>18, <1>19, <1>20, <1>21, <1>22, <1>23,
       <1>24, <1>25, <1>26, <1>27, <1>28, <1>29, <1>30 DEF Next, ConnStep,
       BroadcastStep

(* The flags.                                                              *)
LEMMA FlagStep ==
    ASSUME FlagOK, [Next]_vars
    PROVE  FlagOK'
  <1>1. ASSUME NEW c \in Conns, Connect(c) PROVE FlagOK'
    BY <1>1 DEF Connect, FlagOK
  <1>2. ASSUME NEW c \in Conns, Ask(c) PROVE FlagOK'
    BY <1>2 DEF Ask, Event, NoRequest, FlagOK
  <1>3. ASSUME NEW c \in Conns, Read(c) PROVE FlagOK'
    BY <1>3 DEF Read, FlagOK
  <1>4. ASSUME NEW c \in Conns, Behave(c) PROVE FlagOK'
    BY <1>4 DEF Behave, Event, FlagOK
  <1>5. ASSUME NEW c \in Conns, Register(c) PROVE FlagOK'
    BY <1>5 DEF Register, At, Goto, FlagOK
  <1>6. ASSUME NEW c \in Conns, ScanStart(c) PROVE FlagOK'
    BY <1>6 DEF ScanStart, At, Goto, Taken, Event, NoRequest, NoScan, NoHist, FlagOK
  <1>7. ASSUME NEW c \in Conns, ScanCancel(c) PROVE FlagOK'
    BY <1>7 DEF ScanCancel, At, Goto, Taken, Hit, NoRequest, FlagOK
  <1>8. ASSUME NEW c \in Conns, Respond(c) PROVE FlagOK'
    BY <1>8 DEF Respond, At, Goto, Delivered, Refused, FlagOK
  <1>9. ASSUME NEW c \in Conns, EndOfFile(c) PROVE FlagOK'
    BY <1>9 DEF EndOfFile, At, Goto, FlagOK
  <1>10. ASSUME NEW c \in Conns, Unregister(c) PROVE FlagOK'
    BY <1>10 DEF Unregister, At, Goto, FlagOK
  <1>11. ASSUME NEW c \in Conns, InsertScan(c) PROVE FlagOK'
    BY <1>11 DEF InsertScan, At, FlagOK
  <1>12. ASSUME NEW c \in Conns, Activate(c) PROVE FlagOK'
    BY <1>12 DEF Activate, At, Goto, FlagOK
  <1>13. ASSUME NEW c \in Conns, Greet(c) PROVE FlagOK'
    BY <1>13 DEF Greet, At, Event, SendOrCancel, Delivered, Refused, FlagOK
  <1>14. ASSUME NEW c \in Conns, Announce(c) PROVE FlagOK'
    BY <1>14 DEF Announce, At, SendOrCancel, Delivered, Refused, FlagOK
  <1>15. ASSUME NEW c \in Conns, WalkEnds(c) PROVE FlagOK'
    BY <1>15 DEF WalkEnds, At, Ending, FlagOK
  <1>16. ASSUME NEW c \in Conns, WalkExpands(c) PROVE FlagOK'
    BY <1>16 DEF WalkExpands, At, Event, Left, Expand, FlagOK
  <1>17. ASSUME NEW c \in Conns, WalkPasses(c) PROVE FlagOK'
    BY <1>17 DEF WalkPasses, At, Event, Left, PassOver, Scannable, FlagOK
  <1>18. ASSUME NEW c \in Conns, WalkBegins(c) PROVE FlagOK'
    BY <1>18 DEF WalkBegins, At, Begin, Scannable, FlagOK
  <1>19. ASSUME NEW c \in Conns, ScanFile(c) PROVE FlagOK'
    BY <1>19 DEF ScanFile, At, Event, Left, Goto, Ending, FlagOK
  <1>20. ASSUME NEW c \in Conns, Detect(c) PROVE FlagOK'
    BY <1>20 DEF Detect, At, Goto, Gone, SendOrCancel, Delivered, Refused, FlagOK
  <1>21. ASSUME NEW c \in Conns, Counted(c) PROVE FlagOK'
    BY <1>21 DEF Counted, At, SendOrCancel, Delivered, Refused, FlagOK
  <1>22. ASSUME NEW c \in Conns, FinishScan(c) PROVE FlagOK'
    BY <1>22 DEF FinishScan, At, Returns, NoScan, NoHist, FlagOK
  <1>23. ASSUME NEW f \in Files, Change(f) PROVE FlagOK'
    BY <1>23 DEF Change, Event, Gone, FlagOK
  <1>24. ASSUME NEW w \in Workers, DetectionFound(w) PROVE FlagOK'
    BY <1>24 DEF DetectionFound, Event, FlagOK
  <1>25. ASSUME NEW w \in Workers, BroadcastLock(w) PROVE FlagOK'
    BY <1>25 DEF BroadcastLock, FlagOK
  <1>26. ASSUME NEW w \in Workers, BroadcastSend(w) PROVE FlagOK'
    BY <1>26 DEF BroadcastSend, Delivered, Refused, FlagOK
  <1>27. ASSUME NEW w \in Workers, BroadcastDone(w) PROVE FlagOK'
    BY <1>27 DEF BroadcastDone, FlagOK
  <1>28. CASE Sigterm
    BY <1>28 DEF Sigterm, FlagOK
  <1>29. CASE Exit
    BY <1>29 DEF Exit, NoRequest, NoScan, NoHist, FlagOK
  <1>30. CASE UNCHANGED vars
    BY <1>30 DEF vars, FlagOK
  <1> QED
    BY WalkIs, <1>1, <1>2, <1>3, <1>4, <1>5, <1>6, <1>7, <1>8, <1>9, <1>10, <1>11, <1>12,
       <1>13, <1>14, <1>15, <1>16, <1>17, <1>18, <1>19, <1>20, <1>21, <1>22, <1>23,
       <1>24, <1>25, <1>26, <1>27, <1>28, <1>29, <1>30 DEF Next, ConnStep,
       BroadcastStep

(* The table.                                                              *)
LEMMA TableStep ==
    ASSUME RowsOK, ConnOK, [Next]_vars
    PROVE  RowsOK'
  <1>1. ASSUME NEW c \in Conns, Connect(c) PROVE RowsOK'
    BY <1>1 DEF Connect, RowsOK, ConnOK, Thread, Points, Ends, ScanPoints, About,
       Root, NoFile
  <1>2. ASSUME NEW c \in Conns, Ask(c) PROVE RowsOK'
    BY <1>2 DEF Ask, Event, NoRequest, RowsOK, ConnOK, Thread, Points, Ends,
       ScanPoints, About, Root, NoFile
  <1>3. ASSUME NEW c \in Conns, Read(c) PROVE RowsOK'
    BY <1>3 DEF Read, RowsOK, ConnOK, Thread, Points, Ends, ScanPoints, About, Root,
       NoFile
  <1>4. ASSUME NEW c \in Conns, Behave(c) PROVE RowsOK'
    BY <1>4 DEF Behave, Event, RowsOK, ConnOK, Thread, Points, Ends, ScanPoints,
       About, Root, NoFile
  <1>5. ASSUME NEW c \in Conns, Register(c) PROVE RowsOK'
    BY <1>5 DEF Register, At, Goto, RowsOK, ConnOK, Thread, Points, Ends,
       ScanPoints, About, Root, NoFile
  <1>6. ASSUME NEW c \in Conns, ScanStart(c) PROVE RowsOK'
    BY <1>6 DEF ScanStart, At, Goto, Taken, Event, NoRequest, NoScan, NoHist,
       RowsOK, ConnOK, Thread, Points, Ends, ScanPoints, About, Root, NoFile
  <1>7. ASSUME NEW c \in Conns, ScanCancel(c) PROVE RowsOK'
    BY <1>7 DEF ScanCancel, At, Goto, Taken, Hit, NoRequest, RowsOK, ConnOK, Thread,
       Points, Ends, ScanPoints, About, Root, NoFile
  <1>8. ASSUME NEW c \in Conns, Respond(c) PROVE RowsOK'
    BY <1>8 DEF Respond, At, Goto, Delivered, Refused, RowsOK, ConnOK, Thread,
       Points, Ends, ScanPoints, About, Root, NoFile
  <1>9. ASSUME NEW c \in Conns, EndOfFile(c) PROVE RowsOK'
    BY <1>9 DEF EndOfFile, At, Goto, RowsOK, ConnOK, Thread, Points, Ends,
       ScanPoints, About, Root, NoFile
  <1>10. ASSUME NEW c \in Conns, Unregister(c) PROVE RowsOK'
    BY <1>10 DEF Unregister, At, Goto, RowsOK, ConnOK, Thread, Points, Ends,
       ScanPoints, About, Root, NoFile
  <1>11. ASSUME NEW c \in Conns, InsertScan(c) PROVE RowsOK'
    BY <1>11 DEF InsertScan, At, RowsOK, ConnOK, Thread, Points, Ends, ScanPoints,
       About, Root, NoFile
  <1>12. ASSUME NEW c \in Conns, Activate(c) PROVE RowsOK'
    BY <1>12 DEF Activate, At, Goto, RowsOK, ConnOK, Thread, Points, Ends,
       ScanPoints, About, Root, NoFile
  <1>13. ASSUME NEW c \in Conns, Greet(c) PROVE RowsOK'
    BY <1>13 DEF Greet, At, Event, SendOrCancel, Delivered, Refused, RowsOK, ConnOK,
       Thread, Points, Ends, ScanPoints, About, Root, NoFile
  <1>14. ASSUME NEW c \in Conns, Announce(c) PROVE RowsOK'
    BY <1>14 DEF Announce, At, SendOrCancel, Delivered, Refused, RowsOK, ConnOK,
       Thread, Points, Ends, ScanPoints, About, Root, NoFile
  <1>15. ASSUME NEW c \in Conns, WalkEnds(c) PROVE RowsOK'
    BY <1>15 DEF WalkEnds, At, Ending, RowsOK, ConnOK, Thread, Points, Ends,
       ScanPoints, About, Root, NoFile
  <1>16. ASSUME NEW c \in Conns, WalkExpands(c) PROVE RowsOK'
    BY <1>16 DEF WalkExpands, At, Event, Left, Expand, RowsOK, ConnOK, Thread, Points, Ends,
       ScanPoints, About, Root, NoFile
  <1>17. ASSUME NEW c \in Conns, WalkPasses(c) PROVE RowsOK'
    BY <1>17 DEF WalkPasses, At, Event, Left, PassOver, Scannable, RowsOK, ConnOK, Thread,
       Points, Ends, ScanPoints, About, Root, NoFile
  <1>18. ASSUME NEW c \in Conns, WalkBegins(c) PROVE RowsOK'
    BY <1>18 DEF WalkBegins, At, Begin, Scannable, RowsOK, ConnOK, Thread, Points,
       Ends, ScanPoints, About, Root, NoFile
  <1>19. ASSUME NEW c \in Conns, ScanFile(c) PROVE RowsOK'
    BY <1>19 DEF ScanFile, At, Event, Left, Goto, Ending, RowsOK, ConnOK, Thread, Points,
       Ends, ScanPoints, About, Root, NoFile
  <1>20. ASSUME NEW c \in Conns, Detect(c) PROVE RowsOK'
    BY <1>20 DEF Detect, At, Goto, Gone, SendOrCancel, Delivered, Refused, RowsOK,
       ConnOK, Thread, Points, Ends, ScanPoints, About, Root, NoFile
  <1>21. ASSUME NEW c \in Conns, Counted(c) PROVE RowsOK'
    BY <1>21 DEF Counted, At, SendOrCancel, Delivered, Refused, RowsOK, ConnOK,
       Thread, Points, Ends, ScanPoints, About, Root, NoFile
  <1>22. ASSUME NEW c \in Conns, FinishScan(c) PROVE RowsOK'
    <2>1. rows' = [rows EXCEPT ![conn[c].id] =
                     [status |-> conn[c].status, scanned |-> conn[c].scanned,
                      threats |-> conn[c].threats]]
      BY <1>22 DEF FinishScan
    <2>2. [status |-> conn[c].status, scanned |-> conn[c].scanned,
           threats |-> conn[c].threats] \in [status : Ends, scanned : Nat, threats : Nat]
      BY DEF ConnOK, Thread
    <2>3. CASE conn[c].id \in 1..Len(rows)
      BY <2>1, <2>2, <2>3, ExceptSeq DEF RowsOK
    <2>4. CASE conn[c].id \notin 1..Len(rows)
      <3>1. rows' = rows
        BY <2>1, <2>4, LenProperties DEF RowsOK
      <3> QED BY <3>1 DEF RowsOK
    <2> QED BY <2>3, <2>4
  <1>23. ASSUME NEW f \in Files, Change(f) PROVE RowsOK'
    BY <1>23 DEF Change, Event, Gone, RowsOK, ConnOK, Thread, Points, Ends,
       ScanPoints, About, Root, NoFile
  <1>24. ASSUME NEW w \in Workers, DetectionFound(w) PROVE RowsOK'
    BY <1>24 DEF DetectionFound, Event, RowsOK, ConnOK, Thread, Points, Ends,
       ScanPoints, About, Root, NoFile
  <1>25. ASSUME NEW w \in Workers, BroadcastLock(w) PROVE RowsOK'
    BY <1>25 DEF BroadcastLock, RowsOK, ConnOK, Thread, Points, Ends, ScanPoints,
       About, Root, NoFile
  <1>26. ASSUME NEW w \in Workers, BroadcastSend(w) PROVE RowsOK'
    BY <1>26 DEF BroadcastSend, Delivered, Refused, RowsOK, ConnOK, Thread, Points,
       Ends, ScanPoints, About, Root, NoFile
  <1>27. ASSUME NEW w \in Workers, BroadcastDone(w) PROVE RowsOK'
    BY <1>27 DEF BroadcastDone, RowsOK, ConnOK, Thread, Points, Ends, ScanPoints,
       About, Root, NoFile
  <1>28. CASE Sigterm
    BY <1>28 DEF Sigterm, RowsOK, ConnOK, Thread, Points, Ends, ScanPoints, About,
       Root, NoFile
  <1>29. CASE Exit
    BY <1>29 DEF Exit, NoRequest, NoScan, NoHist, RowsOK, ConnOK, Thread, Points,
       Ends, ScanPoints, About, Root, NoFile
  <1>30. CASE UNCHANGED vars
    BY <1>30 DEF vars, RowsOK, ConnOK, Thread, Points, Ends, ScanPoints, About,
       Root, NoFile
  <1> QED
    BY WalkIs, <1>1, <1>2, <1>3, <1>4, <1>5, <1>6, <1>7, <1>8, <1>9, <1>10, <1>11, <1>12,
       <1>13, <1>14, <1>15, <1>16, <1>17, <1>18, <1>19, <1>20, <1>21, <1>22, <1>23,
       <1>24, <1>25, <1>26, <1>27, <1>28, <1>29, <1>30 DEF Next, ConnStep,
       BroadcastStep

(* The workers.                                                            *)
LEMMA WorkersStep ==
    ASSUME WorkersOK, [Next]_vars
    PROVE  WorkersOK'
  <1>1. ASSUME NEW c \in Conns, Connect(c) PROVE WorkersOK'
    BY <1>1 DEF Connect, WorkersOK
  <1>2. ASSUME NEW c \in Conns, Ask(c) PROVE WorkersOK'
    BY <1>2 DEF Ask, Event, NoRequest, WorkersOK
  <1>3. ASSUME NEW c \in Conns, Read(c) PROVE WorkersOK'
    BY <1>3 DEF Read, WorkersOK
  <1>4. ASSUME NEW c \in Conns, Behave(c) PROVE WorkersOK'
    BY <1>4 DEF Behave, Event, WorkersOK
  <1>5. ASSUME NEW c \in Conns, Register(c) PROVE WorkersOK'
    BY <1>5 DEF Register, At, Goto, WorkersOK
  <1>6. ASSUME NEW c \in Conns, ScanStart(c) PROVE WorkersOK'
    BY <1>6 DEF ScanStart, At, Goto, Taken, Event, NoRequest, NoScan, NoHist,
       WorkersOK
  <1>7. ASSUME NEW c \in Conns, ScanCancel(c) PROVE WorkersOK'
    BY <1>7 DEF ScanCancel, At, Goto, Taken, Hit, NoRequest, WorkersOK
  <1>8. ASSUME NEW c \in Conns, Respond(c) PROVE WorkersOK'
    BY <1>8 DEF Respond, At, Goto, Delivered, Refused, WorkersOK
  <1>9. ASSUME NEW c \in Conns, EndOfFile(c) PROVE WorkersOK'
    BY <1>9 DEF EndOfFile, At, Goto, WorkersOK
  <1>10. ASSUME NEW c \in Conns, Unregister(c) PROVE WorkersOK'
    BY <1>10 DEF Unregister, At, Goto, WorkersOK
  <1>11. ASSUME NEW c \in Conns, InsertScan(c) PROVE WorkersOK'
    BY <1>11 DEF InsertScan, At, WorkersOK
  <1>12. ASSUME NEW c \in Conns, Activate(c) PROVE WorkersOK'
    BY <1>12 DEF Activate, At, Goto, WorkersOK
  <1>13. ASSUME NEW c \in Conns, Greet(c) PROVE WorkersOK'
    BY <1>13 DEF Greet, At, Event, SendOrCancel, Delivered, Refused, WorkersOK
  <1>14. ASSUME NEW c \in Conns, Announce(c) PROVE WorkersOK'
    BY <1>14 DEF Announce, At, SendOrCancel, Delivered, Refused, WorkersOK
  <1>15. ASSUME NEW c \in Conns, WalkEnds(c) PROVE WorkersOK'
    BY <1>15 DEF WalkEnds, At, Ending, WorkersOK
  <1>16. ASSUME NEW c \in Conns, WalkExpands(c) PROVE WorkersOK'
    BY <1>16 DEF WalkExpands, At, Event, Left, Expand, WorkersOK
  <1>17. ASSUME NEW c \in Conns, WalkPasses(c) PROVE WorkersOK'
    BY <1>17 DEF WalkPasses, At, Event, Left, PassOver, Scannable, WorkersOK
  <1>18. ASSUME NEW c \in Conns, WalkBegins(c) PROVE WorkersOK'
    BY <1>18 DEF WalkBegins, At, Begin, Scannable, WorkersOK
  <1>19. ASSUME NEW c \in Conns, ScanFile(c) PROVE WorkersOK'
    BY <1>19 DEF ScanFile, At, Event, Left, Goto, Ending, WorkersOK
  <1>20. ASSUME NEW c \in Conns, Detect(c) PROVE WorkersOK'
    BY <1>20 DEF Detect, At, Goto, Gone, SendOrCancel, Delivered, Refused, WorkersOK
  <1>21. ASSUME NEW c \in Conns, Counted(c) PROVE WorkersOK'
    BY <1>21 DEF Counted, At, SendOrCancel, Delivered, Refused, WorkersOK
  <1>22. ASSUME NEW c \in Conns, FinishScan(c) PROVE WorkersOK'
    BY <1>22 DEF FinishScan, At, Returns, NoScan, NoHist, WorkersOK
  <1>23. ASSUME NEW f \in Files, Change(f) PROVE WorkersOK'
    BY <1>23 DEF Change, Event, Gone, WorkersOK
  <1>24. ASSUME NEW w \in Workers, DetectionFound(w) PROVE WorkersOK'
    BY <1>24 DEF DetectionFound, Event, WorkersOK
  <1>25. ASSUME NEW w \in Workers, BroadcastLock(w) PROVE WorkersOK'
    BY <1>25 DEF BroadcastLock, WorkersOK
  <1>26. ASSUME NEW w \in Workers, BroadcastSend(w) PROVE WorkersOK'
    BY <1>26 DEF BroadcastSend, Delivered, Refused, WorkersOK
  <1>27. ASSUME NEW w \in Workers, BroadcastDone(w) PROVE WorkersOK'
    BY <1>27 DEF BroadcastDone, WorkersOK
  <1>28. CASE Sigterm
    BY <1>28 DEF Sigterm, WorkersOK
  <1>29. CASE Exit
    BY <1>29 DEF Exit, NoRequest, NoScan, NoHist, WorkersOK
  <1>30. CASE UNCHANGED vars
    BY <1>30 DEF vars, WorkersOK
  <1> QED
    BY WalkIs, <1>1, <1>2, <1>3, <1>4, <1>5, <1>6, <1>7, <1>8, <1>9, <1>10, <1>11, <1>12,
       <1>13, <1>14, <1>15, <1>16, <1>17, <1>18, <1>19, <1>20, <1>21, <1>22, <1>23,
       <1>24, <1>25, <1>26, <1>27, <1>28, <1>29, <1>30 DEF Next, ConnStep,
       BroadcastStep

(* The gap of a scan grows by some of the files.                           *)
LEMMA GapGrows ==
    ASSUME FilesOK, NEW c \in Conns, NEW S \in SUBSET Files, present' = present,
           hist' = [hist EXCEPT ![c].gap = hist[c].gap \cup S]
    PROVE  FilesOK'
  <1>1. hist[c] \in About
    BY DEF FilesOK
  <1>2. [hist[c] EXCEPT !.gap = hist[c].gap \cup S] \in About
    BY <1>1 DEF About
  <1>3. hist' = [hist EXCEPT ![c] = [hist[c] EXCEPT !.gap = hist[c].gap \cup S]]
    BY <1>1
  <1> HIDE DEF About
  <1> QED BY <1>2, <1>3 DEF FilesOK

(* A file that goes is no longer steady.                                   *)
LEMMA GoneKeeps ==
    ASSUME FilesOK, NEW f, present' = present \ {f}, hist' = Gone(hist, f)
    PROVE  FilesOK'
  <1>1. \A d \in Conns : [hist[d] EXCEPT !.steady = @ \ {f}] \in About
    <2> TAKE d \in Conns
    <2>1. hist[d] \in About
      BY DEF FilesOK
    <2> QED BY <2>1 DEF About
  <1> HIDE DEF About
  <1> QED BY <1>1 DEF FilesOK, Gone

(* The files and the histories.                                            *)
LEMMA FilesStep ==
    ASSUME FilesOK, ConnOK, [Next]_vars
    PROVE  FilesOK'
  <1>1. ASSUME NEW c \in Conns, Connect(c) PROVE FilesOK'
    BY <1>1 DEF Connect, FilesOK, ConnOK, Thread, Points, Ends, ScanPoints, About,
       Root, NoFile
  <1>2. ASSUME NEW c \in Conns, Ask(c) PROVE FilesOK'
    BY <1>2 DEF Ask, Event, NoRequest, FilesOK, ConnOK, Thread, Points, Ends,
       ScanPoints, About, Root, NoFile
  <1>3. ASSUME NEW c \in Conns, Read(c) PROVE FilesOK'
    BY <1>3 DEF Read, FilesOK, ConnOK, Thread, Points, Ends, ScanPoints, About,
       Root, NoFile
  <1>4. ASSUME NEW c \in Conns, Behave(c) PROVE FilesOK'
    BY <1>4 DEF Behave, Event, FilesOK, ConnOK, Thread, Points, Ends, ScanPoints,
       About, Root, NoFile
  <1>5. ASSUME NEW c \in Conns, Register(c) PROVE FilesOK'
    BY <1>5 DEF Register, At, Goto, FilesOK, ConnOK, Thread, Points, Ends,
       ScanPoints, About, Root, NoFile
  <1>6. ASSUME NEW c \in Conns, ScanStart(c) PROVE FilesOK'
    <2>1. \E h \in About : hist' \in {hist, [hist EXCEPT ![c] = h]}
      BY <1>6 DEF ScanStart, NoHist, FilesOK, About
    <2> QED BY <1>6, <2>1 DEF ScanStart, FilesOK
  <1>7. ASSUME NEW c \in Conns, ScanCancel(c) PROVE FilesOK'
    BY <1>7 DEF ScanCancel, At, Goto, Taken, Hit, NoRequest, FilesOK, ConnOK,
       Thread, Points, Ends, ScanPoints, About, Root, NoFile
  <1>8. ASSUME NEW c \in Conns, Respond(c) PROVE FilesOK'
    BY <1>8 DEF Respond, At, Goto, Delivered, Refused, FilesOK, ConnOK, Thread,
       Points, Ends, ScanPoints, About, Root, NoFile
  <1>9. ASSUME NEW c \in Conns, EndOfFile(c) PROVE FilesOK'
    BY <1>9 DEF EndOfFile, At, Goto, FilesOK, ConnOK, Thread, Points, Ends,
       ScanPoints, About, Root, NoFile
  <1>10. ASSUME NEW c \in Conns, Unregister(c) PROVE FilesOK'
    BY <1>10 DEF Unregister, At, Goto, FilesOK, ConnOK, Thread, Points, Ends,
       ScanPoints, About, Root, NoFile
  <1>11. ASSUME NEW c \in Conns, InsertScan(c) PROVE FilesOK'
    BY <1>11 DEF InsertScan, At, FilesOK, ConnOK, Thread, Points, Ends, ScanPoints,
       About, Root, NoFile
  <1>12. ASSUME NEW c \in Conns, Activate(c) PROVE FilesOK'
    BY <1>12 DEF Activate, At, Goto, FilesOK, ConnOK, Thread, Points, Ends,
       ScanPoints, About, Root, NoFile
  <1>13. ASSUME NEW c \in Conns, Greet(c) PROVE FilesOK'
    BY <1>13 DEF Greet, At, Event, SendOrCancel, Delivered, Refused, FilesOK, ConnOK,
       Thread, Points, Ends, ScanPoints, About, Root, NoFile
  <1>14. ASSUME NEW c \in Conns, Announce(c) PROVE FilesOK'
    BY <1>14 DEF Announce, At, SendOrCancel, Delivered, Refused, FilesOK, ConnOK,
       Thread, Points, Ends, ScanPoints, About, Root, NoFile
  <1>15. ASSUME NEW c \in Conns, WalkEnds(c) PROVE FilesOK'
    BY <1>15 DEF WalkEnds, At, Ending, FilesOK, ConnOK, Thread, Points, Ends,
       ScanPoints, About, Root, NoFile
  <1>16. ASSUME NEW c \in Conns, WalkExpands(c) PROVE FilesOK'
    <2>1. \/ UNCHANGED hist
          \/ \E S \in SUBSET Files : hist' = [hist EXCEPT ![c].gap = hist[c].gap \cup S]
      <3>1. \A listed \in SUBSET present : present \ listed \in SUBSET Files
        BY DEF FilesOK
      <3> QED BY <1>16, <3>1 DEF WalkExpands, Expand, Left
    <2>2. present' = present
      BY <1>16 DEF WalkExpands
    <2>3. CASE UNCHANGED hist
      BY <2>2, <2>3 DEF FilesOK
    <2>4. ASSUME NEW S \in SUBSET Files, hist' = [hist EXCEPT ![c].gap = hist[c].gap \cup S]
          PROVE  FilesOK'
      BY <2>2, <2>4, GapGrows
    <2> QED BY <2>1, <2>3, <2>4
  <1>17. ASSUME NEW c \in Conns, WalkPasses(c) PROVE FilesOK'
    <2>1. \/ UNCHANGED hist
          \/ \E S \in SUBSET Files : hist' = [hist EXCEPT ![c].gap = hist[c].gap \cup S]
      <3>1. Scannable(Top(c)) => {Top(c)} \in SUBSET Files
        BY DEF Scannable, FilesOK
      <3> QED BY <1>17, <3>1 DEF WalkPasses, PassOver, Left
    <2>2. present' = present
      BY <1>17 DEF WalkPasses
    <2>3. CASE UNCHANGED hist
      BY <2>2, <2>3 DEF FilesOK
    <2>4. ASSUME NEW S \in SUBSET Files, hist' = [hist EXCEPT ![c].gap = hist[c].gap \cup S]
          PROVE  FilesOK'
      BY <2>2, <2>4, GapGrows
    <2> QED BY <2>1, <2>3, <2>4
  <1>18. ASSUME NEW c \in Conns, WalkBegins(c) PROVE FilesOK'
    <2>1. hist[c].late \in Nat /\ hist[c].orphaned \in Nat
      BY DEF FilesOK, About
    <2>2. PICK n \in Nat, m \in Nat :
             hist' = [hist EXCEPT ![c].late = n, ![c].orphaned = m]
      <3>1. /\ (IF flag[c] THEN hist[c].late + 1 ELSE hist[c].late) \in Nat
            /\ (IF peer[c] = "gone" THEN hist[c].orphaned + 1 ELSE hist[c].orphaned) \in Nat
        BY <2>1
      <3> QED BY <1>18, <3>1 DEF WalkBegins, Begin
    <2> QED BY <1>18, <2>2 DEF WalkBegins, FilesOK, About
  <1>19. ASSUME NEW c \in Conns, ScanFile(c) PROVE FilesOK'
    <2>1. \/ UNCHANGED hist
          \/ \E f \in Files :
                \/ hist' = [hist EXCEPT ![c].seen = hist[c].seen \cup {f}]
                \/ hist' = [hist EXCEPT ![c].gap = hist[c].gap \cup {f}]
      BY <1>19 DEF ScanFile, Left, FilesOK
    <2> QED BY <1>19, <2>1 DEF ScanFile, FilesOK, About
  <1>20. ASSUME NEW c \in Conns, Detect(c) PROVE FilesOK'
    <2>1. CASE UNCHANGED <<present, hist>>
      BY <2>1 DEF FilesOK
    <2>2. CASE present' = present \ {conn[c].file} /\ hist' = Gone(hist, conn[c].file)
      BY <2>2, GoneKeeps
    <2> QED BY <1>20, <2>1, <2>2 DEF Detect
  <1>21. ASSUME NEW c \in Conns, Counted(c) PROVE FilesOK'
    BY <1>21 DEF Counted, At, SendOrCancel, Delivered, Refused, FilesOK, ConnOK,
       Thread, Points, Ends, ScanPoints, About, Root, NoFile
  <1>22. ASSUME NEW c \in Conns, FinishScan(c) PROVE FilesOK'
    BY <1>22 DEF FinishScan, At, Returns, NoScan, NoHist, FilesOK, ConnOK, Thread,
       Points, Ends, ScanPoints, About, Root, NoFile
  <1>23. ASSUME NEW f \in Files, Change(f) PROVE FilesOK'
    <2>1. CASE present' = present \ {f} /\ hist' = Gone(hist, f)
      BY <2>1, GoneKeeps
    <2>2. CASE present' = present \cup {f} /\ UNCHANGED hist
      BY <2>2 DEF FilesOK
    <2> QED BY <1>23, <2>1, <2>2 DEF Change
  <1>24. ASSUME NEW w \in Workers, DetectionFound(w) PROVE FilesOK'
    BY <1>24 DEF DetectionFound, Event, FilesOK, ConnOK, Thread, Points, Ends,
       ScanPoints, About, Root, NoFile
  <1>25. ASSUME NEW w \in Workers, BroadcastLock(w) PROVE FilesOK'
    BY <1>25 DEF BroadcastLock, FilesOK, ConnOK, Thread, Points, Ends, ScanPoints,
       About, Root, NoFile
  <1>26. ASSUME NEW w \in Workers, BroadcastSend(w) PROVE FilesOK'
    BY <1>26 DEF BroadcastSend, Delivered, Refused, FilesOK, ConnOK, Thread, Points,
       Ends, ScanPoints, About, Root, NoFile
  <1>27. ASSUME NEW w \in Workers, BroadcastDone(w) PROVE FilesOK'
    BY <1>27 DEF BroadcastDone, FilesOK, ConnOK, Thread, Points, Ends, ScanPoints,
       About, Root, NoFile
  <1>28. CASE Sigterm
    BY <1>28 DEF Sigterm, FilesOK, ConnOK, Thread, Points, Ends, ScanPoints, About,
       Root, NoFile
  <1>29. CASE Exit
    BY <1>29 DEF Exit, NoRequest, NoScan, NoHist, FilesOK, ConnOK, Thread, Points,
       Ends, ScanPoints, About, Root, NoFile
  <1>30. CASE UNCHANGED vars
    BY <1>30 DEF vars, FilesOK, ConnOK, Thread, Points, Ends, ScanPoints, About,
       Root, NoFile
  <1> QED
    BY WalkIs, <1>1, <1>2, <1>3, <1>4, <1>5, <1>6, <1>7, <1>8, <1>9, <1>10, <1>11, <1>12,
       <1>13, <1>14, <1>15, <1>16, <1>17, <1>18, <1>19, <1>20, <1>21, <1>22, <1>23,
       <1>24, <1>25, <1>26, <1>27, <1>28, <1>29, <1>30 DEF Next, ConnStep,
       BroadcastStep

(* The bound of events.                                                    *)
LEMMA UsedStep ==
    ASSUME UsedOK, [Next]_vars
    PROVE  UsedOK'
  <1>1. ASSUME NEW c \in Conns, Connect(c) PROVE UsedOK'
    BY Sizes, <1>1 DEF Connect, UsedOK
  <1>2. ASSUME NEW c \in Conns, Ask(c) PROVE UsedOK'
    BY Sizes, <1>2 DEF Ask, Event, NoRequest, UsedOK
  <1>3. ASSUME NEW c \in Conns, Read(c) PROVE UsedOK'
    BY Sizes, <1>3 DEF Read, UsedOK
  <1>4. ASSUME NEW c \in Conns, Behave(c) PROVE UsedOK'
    BY Sizes, <1>4 DEF Behave, Event, UsedOK
  <1>5. ASSUME NEW c \in Conns, Register(c) PROVE UsedOK'
    BY Sizes, <1>5 DEF Register, At, Goto, UsedOK
  <1>6. ASSUME NEW c \in Conns, ScanStart(c) PROVE UsedOK'
    BY Sizes, <1>6 DEF ScanStart, At, Goto, Taken, Event, NoRequest, NoScan, NoHist,
       UsedOK
  <1>7. ASSUME NEW c \in Conns, ScanCancel(c) PROVE UsedOK'
    BY Sizes, <1>7 DEF ScanCancel, At, Goto, Taken, Hit, NoRequest, UsedOK
  <1>8. ASSUME NEW c \in Conns, Respond(c) PROVE UsedOK'
    BY Sizes, <1>8 DEF Respond, At, Goto, Delivered, Refused, UsedOK
  <1>9. ASSUME NEW c \in Conns, EndOfFile(c) PROVE UsedOK'
    BY Sizes, <1>9 DEF EndOfFile, At, Goto, UsedOK
  <1>10. ASSUME NEW c \in Conns, Unregister(c) PROVE UsedOK'
    BY Sizes, <1>10 DEF Unregister, At, Goto, UsedOK
  <1>11. ASSUME NEW c \in Conns, InsertScan(c) PROVE UsedOK'
    BY Sizes, <1>11 DEF InsertScan, At, UsedOK
  <1>12. ASSUME NEW c \in Conns, Activate(c) PROVE UsedOK'
    BY Sizes, <1>12 DEF Activate, At, Goto, UsedOK
  <1>13. ASSUME NEW c \in Conns, Greet(c) PROVE UsedOK'
    BY Sizes, <1>13 DEF Greet, At, Event, SendOrCancel, Delivered, Refused, UsedOK
  <1>14. ASSUME NEW c \in Conns, Announce(c) PROVE UsedOK'
    BY Sizes, <1>14 DEF Announce, At, SendOrCancel, Delivered, Refused, UsedOK
  <1>15. ASSUME NEW c \in Conns, WalkEnds(c) PROVE UsedOK'
    BY Sizes, <1>15 DEF WalkEnds, At, Ending, UsedOK
  <1>16. ASSUME NEW c \in Conns, WalkExpands(c) PROVE UsedOK'
    BY Sizes, <1>16 DEF WalkExpands, At, Event, Left, Expand, UsedOK
  <1>17. ASSUME NEW c \in Conns, WalkPasses(c) PROVE UsedOK'
    BY Sizes, <1>17 DEF WalkPasses, At, Event, Left, PassOver, Scannable, UsedOK
  <1>18. ASSUME NEW c \in Conns, WalkBegins(c) PROVE UsedOK'
    BY Sizes, <1>18 DEF WalkBegins, At, Begin, Scannable, UsedOK
  <1>19. ASSUME NEW c \in Conns, ScanFile(c) PROVE UsedOK'
    BY Sizes, <1>19 DEF ScanFile, At, Event, Left, Goto, Ending, UsedOK
  <1>20. ASSUME NEW c \in Conns, Detect(c) PROVE UsedOK'
    BY Sizes, <1>20 DEF Detect, At, Goto, Gone, SendOrCancel, Delivered, Refused,
       UsedOK
  <1>21. ASSUME NEW c \in Conns, Counted(c) PROVE UsedOK'
    BY Sizes, <1>21 DEF Counted, At, SendOrCancel, Delivered, Refused, UsedOK
  <1>22. ASSUME NEW c \in Conns, FinishScan(c) PROVE UsedOK'
    BY Sizes, <1>22 DEF FinishScan, At, Returns, NoScan, NoHist, UsedOK
  <1>23. ASSUME NEW f \in Files, Change(f) PROVE UsedOK'
    BY Sizes, <1>23 DEF Change, Event, Gone, UsedOK
  <1>24. ASSUME NEW w \in Workers, DetectionFound(w) PROVE UsedOK'
    BY Sizes, <1>24 DEF DetectionFound, Event, UsedOK
  <1>25. ASSUME NEW w \in Workers, BroadcastLock(w) PROVE UsedOK'
    BY Sizes, <1>25 DEF BroadcastLock, UsedOK
  <1>26. ASSUME NEW w \in Workers, BroadcastSend(w) PROVE UsedOK'
    BY Sizes, <1>26 DEF BroadcastSend, Delivered, Refused, UsedOK
  <1>27. ASSUME NEW w \in Workers, BroadcastDone(w) PROVE UsedOK'
    BY Sizes, <1>27 DEF BroadcastDone, UsedOK
  <1>28. CASE Sigterm
    BY Sizes, <1>28 DEF Sigterm, UsedOK
  <1>29. CASE Exit
    BY Sizes, <1>29 DEF Exit, NoRequest, NoScan, NoHist, UsedOK
  <1>30. CASE UNCHANGED vars
    BY Sizes, <1>30 DEF vars, UsedOK
  <1> QED
    BY WalkIs, <1>1, <1>2, <1>3, <1>4, <1>5, <1>6, <1>7, <1>8, <1>9, <1>10, <1>11, <1>12,
       <1>13, <1>14, <1>15, <1>16, <1>17, <1>18, <1>19, <1>20, <1>21, <1>22, <1>23,
       <1>24, <1>25, <1>26, <1>27, <1>28, <1>29, <1>30 DEF Next, ConnStep,
       BroadcastStep

-----------------------------------------------------------------------------
(* What keeps scans apart, stops them and makes them complete.             *)

Busy(c) == conn[c].at \in {"scan", "detect", "counted"}
Walking(c) == conn[c].at \in {"walk", "finish"} \/ Busy(c)
Recorded(c) == conn[c].at \in {"activate", "greet", "announce"} \/ Walking(c)

(* Before its second walk a scan has done nothing.                         *)
Fresh ==
    \A c \in Conns :
       /\ peer[c] = "none" => conn[c].at = "none"
       /\ ~Walking(c) =>
          /\ conn[c].todo = {} /\ conn[c].scanned = 0 /\ conn[c].threats = 0
          /\ ~conn[c].cancelled /\ conn[c].status = "running"
          /\ hist[c].late = 0 /\ hist[c].orphaned = 0

(* Every recorded scan has a row of its own.                               *)
RowsRun ==
    /\ \A c \in Conns : Recorded(c) =>
          conn[c].id \in 1..Len(rows) /\ rows[conn[c].id].status = "running"
    /\ \A c, d \in Conns : Recorded(c) /\ Recorded(d) /\ conn[c].id = conn[d].id => c = d

Flagged ==
    \A c \in Conns : conn[c].cancelled \/ conn[c].status = "cancelled" => flag[c]

(* The flag is read before a file is begun, and stays up.                  *)
Late ==
    \A c \in Conns :
       /\ hist[c].late \in {0, 1}
       /\ hist[c].late = 1 => flag[c]
       /\ conn[c].at = "walk" /\ ~conn[c].cancelled => hist[c].late = 0

(* A file that is begun for a client that has gone comes after the last    *)
(* report of progress.                                                     *)
SinceReport(c) == conn[c].scanned % PROGRESS_EVERY
OrphanOf(c) ==
    /\ hist[c].orphaned <= PROGRESS_EVERY
    /\ hist[c].orphaned > 0 => peer[c] = "gone"
    /\ conn[c].at = "walk" /\ ~conn[c].cancelled => hist[c].orphaned <= SinceReport(c)
    /\ Busy(c) => hist[c].orphaned <= SinceReport(c) + 1
Orphan == \A c \in Conns : OrphanOf(c)

Steady == \A c \in Conns : hist[c].steady \subseteq present

(* A file that was there all the time has been scanned, is being scanned,  *)
(* is still on the stack, or is in the scan's gap.                         *)
Covered(c) ==
    conn[c].todo = {Root} \/
    hist[c].steady \ Excluded \subseteq
       hist[c].seen \cup hist[c].gap \cup conn[c].todo \cup
          (IF conn[c].at = "scan" THEN {conn[c].file} ELSE {})
CoverOf(c) ==
    /\ conn[c].at = "walk" \/ Busy(c) => Covered(c) /\ conn[c].status = "running"
    /\ conn[c].status = "completed" =>
          hist[c].steady \ Excluded \subseteq hist[c].seen \cup hist[c].gap
    /\ conn[c].todo = {Root} \/ conn[c].todo \subseteq Files
    /\ conn[c].todo = {Root} => conn[c].at \in {"walk", "finish"}
Cover == \A c \in Conns : CoverOf(c)

(* A scan is accounted for by an event from its request on.                *)
Pending == {c \in Conns : asked[c].op = "start" \/ conn[c].at = "insert"}
Requests == Len(rows) + Cardinality(Pending) <= used
Waits == \A c \in Conns : asked[c].op = "start" => conn[c].at \in {"register", "serve"}
Known == \A c \in Conns : asked[c].id <= Len(rows) /\ conn[c].id <= Len(rows)

(* The files scanned, the one at work and those on the stack are no more   *)
(* than there are.                                                         *)
CountOf(c) ==
    /\ conn[c].todo = {Root} => conn[c].scanned = 0 /\ conn[c].threats = 0
    /\ conn[c].todo # {Root} =>
          conn[c].scanned + Cardinality(conn[c].todo) + (IF Busy(c) THEN 1 ELSE 0)
             <= Cardinality(Files)
    /\ conn[c].threats <=
          conn[c].scanned + (IF conn[c].at \in {"detect", "counted"} THEN 1 ELSE 0)
Count == \A c \in Conns : CountOf(c)
RowsCount ==
    \A i \in DOMAIN rows :
       rows[i].scanned <= Cardinality(Files) /\ rows[i].threats <= Cardinality(Files)

(* A thread is started.                                                    *)
LEMMA ConnectDoes ==
    ASSUME SocketsOK, ConnOK, FlagOK, FilesOK, NEW c \in Conns, Connect(c)
    PROVE  /\ conn'[c].at = "register"
           /\ conn'[c].id = conn[c].id
           /\ conn'[c].todo = conn[c].todo
           /\ conn'[c].file = conn[c].file
           /\ conn'[c].scanned = conn[c].scanned
           /\ conn'[c].threats = conn[c].threats
           /\ conn'[c].cancelled = conn[c].cancelled
           /\ conn'[c].status = conn[c].status
           /\ \A d \in Conns : d # c => conn'[d] = conn[d]
           /\ UNCHANGED flag
           /\ UNCHANGED hist
           /\ peer[c] = "none"
           /\ peer'[c] = "reading"
           /\ \A d \in Conns : d # c => peer'[d] = peer[d]
           /\ UNCHANGED <<rows, present, active>>
  BY DEF Connect, SocketsOK, ConnOK, Thread, FilesOK, FlagOK

(* The Broadcaster knows the client.                                       *)
LEMMA RegisterDoes ==
    ASSUME ConnOK, FlagOK, FilesOK, NEW c \in Conns, Register(c)
    PROVE  /\ conn[c].at = "register"
           /\ conn'[c].at = "serve"
           /\ conn'[c].id = conn[c].id
           /\ conn'[c].todo = conn[c].todo
           /\ conn'[c].file = conn[c].file
           /\ conn'[c].scanned = conn[c].scanned
           /\ conn'[c].threats = conn[c].threats
           /\ conn'[c].cancelled = conn[c].cancelled
           /\ conn'[c].status = conn[c].status
           /\ \A d \in Conns : d # c => conn'[d] = conn[d]
           /\ UNCHANGED flag
           /\ UNCHANGED hist
           /\ UNCHANGED <<rows, present, peer, active>>
  BY DEF Register, At, Goto, ConnOK, Thread, FilesOK, FlagOK

(* Flags are raised.                                                       *)
LEMMA ScanCancelDoes ==
    ASSUME ConnOK, FlagOK, FilesOK, NEW c \in Conns, ScanCancel(c)
    PROVE  /\ conn[c].at = "serve"
           /\ conn'[c].at = "respond"
           /\ conn'[c].id = conn[c].id
           /\ conn'[c].todo = conn[c].todo
           /\ conn'[c].file = conn[c].file
           /\ conn'[c].scanned = conn[c].scanned
           /\ conn'[c].threats = conn[c].threats
           /\ conn'[c].cancelled = conn[c].cancelled
           /\ conn'[c].status = conn[c].status
           /\ \A d \in Conns : d # c => conn'[d] = conn[d]
           /\ \A d \in Conns : flag[d] => flag'[d]
           /\ UNCHANGED hist
           /\ UNCHANGED <<rows, present, peer, active>>
  BY DEF ScanCancel, At, Goto, ConnOK, Thread, FilesOK, FlagOK

(* The answer is sent.                                                     *)
LEMMA RespondDoes ==
    ASSUME ConnOK, FlagOK, FilesOK, NEW c \in Conns, Respond(c)
    PROVE  /\ conn[c].at = "respond"
           /\ conn'[c].at = "serve"
           /\ conn'[c].id = conn[c].id
           /\ conn'[c].todo = conn[c].todo
           /\ conn'[c].file = conn[c].file
           /\ conn'[c].scanned = conn[c].scanned
           /\ conn'[c].threats = conn[c].threats
           /\ conn'[c].cancelled = conn[c].cancelled
           /\ conn'[c].status = conn[c].status
           /\ \A d \in Conns : d # c => conn'[d] = conn[d]
           /\ UNCHANGED flag
           /\ UNCHANGED hist
           /\ UNCHANGED <<rows, present, peer, active>>
  BY DEF Respond, At, Goto, ConnOK, Thread, FilesOK, FlagOK

(* The client has gone.                                                    *)
LEMMA EndOfFileDoes ==
    ASSUME ConnOK, FlagOK, FilesOK, NEW c \in Conns, EndOfFile(c)
    PROVE  /\ conn[c].at = "serve"
           /\ conn'[c].at = "unregister"
           /\ conn'[c].id = conn[c].id
           /\ conn'[c].todo = conn[c].todo
           /\ conn'[c].file = conn[c].file
           /\ conn'[c].scanned = conn[c].scanned
           /\ conn'[c].threats = conn[c].threats
           /\ conn'[c].cancelled = conn[c].cancelled
           /\ conn'[c].status = conn[c].status
           /\ \A d \in Conns : d # c => conn'[d] = conn[d]
           /\ UNCHANGED flag
           /\ UNCHANGED hist
           /\ UNCHANGED <<rows, present, peer, active>>
  BY DEF EndOfFile, At, Goto, ConnOK, Thread, FilesOK, FlagOK

(* The Broadcaster forgets the client.                                     *)
LEMMA UnregisterDoes ==
    ASSUME ConnOK, FlagOK, FilesOK, NEW c \in Conns, Unregister(c)
    PROVE  /\ conn[c].at = "unregister"
           /\ conn'[c].at = "ended"
           /\ conn'[c].id = conn[c].id
           /\ conn'[c].todo = conn[c].todo
           /\ conn'[c].file = conn[c].file
           /\ conn'[c].scanned = conn[c].scanned
           /\ conn'[c].threats = conn[c].threats
           /\ conn'[c].cancelled = conn[c].cancelled
           /\ conn'[c].status = conn[c].status
           /\ \A d \in Conns : d # c => conn'[d] = conn[d]
           /\ UNCHANGED flag
           /\ UNCHANGED hist
           /\ UNCHANGED <<rows, present, peer, active>>
  BY DEF Unregister, At, Goto, ConnOK, Thread, FilesOK, FlagOK

(* A new row.                                                              *)
LEMMA InsertScanDoes ==
    ASSUME ConnOK, FlagOK, FilesOK, NEW c \in Conns, InsertScan(c)
    PROVE  /\ conn[c].at = "insert"
           /\ conn'[c].at = "activate"
           /\ conn'[c].id = Len(rows) + 1
           /\ conn'[c].todo = conn[c].todo
           /\ conn'[c].file = conn[c].file
           /\ conn'[c].scanned = conn[c].scanned
           /\ conn'[c].threats = conn[c].threats
           /\ conn'[c].cancelled = conn[c].cancelled
           /\ conn'[c].status = conn[c].status
           /\ \A d \in Conns : d # c => conn'[d] = conn[d]
           /\ UNCHANGED flag
           /\ UNCHANGED hist
           /\ UNCHANGED <<present, peer, active>>
           /\ rows' = Append(rows, [status |-> "running", scanned |-> 0, threats |-> 0])
  BY DEF InsertScan, At, ConnOK, Thread, FilesOK, FlagOK

(* The scan is registered.                                                 *)
LEMMA ActivateDoes ==
    ASSUME ConnOK, FlagOK, FilesOK, NEW c \in Conns, Activate(c)
    PROVE  /\ conn[c].at = "activate"
           /\ conn'[c].at = "greet"
           /\ conn'[c].id = conn[c].id
           /\ conn'[c].todo = conn[c].todo
           /\ conn'[c].file = conn[c].file
           /\ conn'[c].scanned = conn[c].scanned
           /\ conn'[c].threats = conn[c].threats
           /\ conn'[c].cancelled = conn[c].cancelled
           /\ conn'[c].status = conn[c].status
           /\ \A d \in Conns : d # c => conn'[d] = conn[d]
           /\ UNCHANGED flag
           /\ UNCHANGED hist
           /\ UNCHANGED <<rows, present, peer>>
           /\ active' = active \cup {Entry(c)}
  BY DEF Activate, At, Goto, Entry, ConnOK, Thread, FilesOK, FlagOK

(* The first message.                                                      *)
LEMMA GreetDoes ==
    ASSUME ConnOK, FlagOK, FilesOK, NEW c \in Conns, Greet(c)
    PROVE  /\ conn[c].at = "greet"
           /\ conn'[c].at = "announce"
           /\ conn'[c].id = conn[c].id
           /\ conn'[c].todo = conn[c].todo
           /\ conn'[c].file = conn[c].file
           /\ conn'[c].scanned = conn[c].scanned
           /\ conn'[c].threats = conn[c].threats
           /\ conn'[c].cancelled = conn[c].cancelled
           /\ conn'[c].status = conn[c].status
           /\ \A d \in Conns : d # c => conn'[d] = conn[d]
           /\ \A d \in Conns : flag[d] => flag'[d]
           /\ UNCHANGED hist
           /\ UNCHANGED <<rows, present, peer, active>>
  BY DEF Greet, At, Event, SendOrCancel, Delivered, Refused, ConnOK, Thread, FilesOK, FlagOK

(* The second walk begins.                                                 *)
LEMMA AnnounceDoes ==
    ASSUME ConnOK, FlagOK, FilesOK, NEW c \in Conns, Announce(c)
    PROVE  /\ conn[c].at = "announce"
           /\ conn'[c].at = "walk"
           /\ conn'[c].id = conn[c].id
           /\ conn'[c].todo = {Root}
           /\ conn'[c].file = conn[c].file
           /\ conn'[c].scanned = conn[c].scanned
           /\ conn'[c].threats = conn[c].threats
           /\ conn'[c].cancelled = flag'[c]
           /\ conn'[c].status = conn[c].status
           /\ \A d \in Conns : d # c => conn'[d] = conn[d]
           /\ \A d \in Conns : flag[d] => flag'[d]
           /\ UNCHANGED hist
           /\ UNCHANGED <<rows, present, peer, active>>
  BY DEF Announce, At, SendOrCancel, Delivered, Refused, ConnOK, Thread, FilesOK, FlagOK

(* The loop is left.                                                       *)
LEMMA WalkEndsDoes ==
    ASSUME ConnOK, FlagOK, FilesOK, NEW c \in Conns, WalkEnds(c)
    PROVE  /\ conn[c].at = "walk"
           /\ conn'[c].at = "finish"
           /\ conn'[c].id = conn[c].id
           /\ conn'[c].todo = conn[c].todo
           /\ conn'[c].file = conn[c].file
           /\ conn'[c].scanned = conn[c].scanned
           /\ conn'[c].threats = conn[c].threats
           /\ conn'[c].cancelled = conn[c].cancelled
           /\ \A d \in Conns : d # c => conn'[d] = conn[d]
           /\ UNCHANGED flag
           /\ UNCHANGED hist
           /\ \/ conn[c].cancelled /\ conn'[c].status = "cancelled"
              \/ conn[c].todo = {} /\ conn'[c].status = "completed"
           /\ UNCHANGED <<rows, present, peer, active>>
  BY DEF WalkEnds, At, Ending, ConnOK, Thread, FilesOK, FlagOK

(* The directory is read.                                                  *)
LEMMA WalkExpandsDoes ==
    ASSUME ConnOK, FlagOK, FilesOK, NEW c \in Conns, WalkExpands(c)
    PROVE  /\ conn[c].at = "walk"
           /\ conn'[c].at = "walk"
           /\ conn'[c].id = conn[c].id
           /\ \E listed \in SUBSET present :
                 /\ conn'[c].todo = listed
                 /\ hist'[c].gap = hist[c].gap \cup (present \ listed)
           /\ conn'[c].file = conn[c].file
           /\ conn'[c].scanned = conn[c].scanned
           /\ conn'[c].threats = conn[c].threats
           /\ conn'[c].cancelled = conn[c].cancelled
           /\ conn'[c].status = conn[c].status
           /\ \A d \in Conns : d # c => conn'[d] = conn[d]
           /\ UNCHANGED flag
           /\ \A d \in Conns : d # c => hist'[d] = hist[d]
           /\ hist'[c].late = hist[c].late /\ hist'[c].orphaned = hist[c].orphaned
           /\ hist'[c].steady = hist[c].steady /\ hist'[c].seen = hist[c].seen
           /\ ~conn[c].cancelled
           /\ conn[c].todo = {Root}
           /\ UNCHANGED <<rows, present, peer, active>>
  BY DEF WalkExpands, At, Event, Left, Expand, ConnOK, Thread, FilesOK, FlagOK, About

(* A file is passed over.                                                  *)
LEMMA WalkPassesDoes ==
    ASSUME ConnOK, FlagOK, FilesOK, NEW c \in Conns, WalkPasses(c)
    PROVE  /\ conn[c].at = "walk"
           /\ conn'[c].at = "walk"
           /\ conn'[c].id = conn[c].id
           /\ conn'[c].file = conn[c].file
           /\ conn'[c].scanned = conn[c].scanned
           /\ conn'[c].threats = conn[c].threats
           /\ conn'[c].cancelled = conn[c].cancelled
           /\ conn'[c].status = conn[c].status
           /\ \A d \in Conns : d # c => conn'[d] = conn[d]
           /\ UNCHANGED flag
           /\ \A d \in Conns : d # c => hist'[d] = hist[d]
           /\ hist'[c].late = hist[c].late /\ hist'[c].orphaned = hist[c].orphaned
           /\ hist'[c].steady = hist[c].steady /\ hist'[c].seen = hist[c].seen
           /\ ~conn[c].cancelled
           /\ conn[c].todo \cap Files # {}
           /\ \/ /\ Top(c) \notin present \/ Top(c) \in Excluded
                 /\ hist'[c].gap = hist[c].gap
              \/ hist'[c].gap = hist[c].gap \cup {Top(c)}
           /\ conn'[c].todo = conn[c].todo \ {Top(c)}
           /\ UNCHANGED <<rows, present, peer, active>>
  BY DEF WalkPasses, At, Event, Left, PassOver, Scannable, ConnOK, Thread, FilesOK, FlagOK, About

(* A file is begun.                                                        *)
LEMMA WalkBeginsDoes ==
    ASSUME ConnOK, FlagOK, FilesOK, NEW c \in Conns, WalkBegins(c)
    PROVE  /\ conn[c].at = "walk"
           /\ conn'[c].at = "scan"
           /\ conn'[c].id = conn[c].id
           /\ conn'[c].todo = conn[c].todo \ {Top(c)}
           /\ conn'[c].file = Top(c)
           /\ conn'[c].scanned = conn[c].scanned
           /\ conn'[c].threats = conn[c].threats
           /\ conn'[c].cancelled = conn[c].cancelled
           /\ conn'[c].status = conn[c].status
           /\ \A d \in Conns : d # c => conn'[d] = conn[d]
           /\ UNCHANGED flag
           /\ ~conn[c].cancelled
           /\ conn[c].todo \cap Files # {}
           /\ Top(c) \in Files
           /\ \A d \in Conns : d # c => hist'[d] = hist[d]
           /\ hist'[c].late = IF flag[c] THEN hist[c].late + 1 ELSE hist[c].late
           /\ hist'[c].orphaned = IF peer[c] = "gone" THEN hist[c].orphaned + 1 ELSE hist[c].orphaned
           /\ hist'[c].steady = hist[c].steady /\ hist'[c].seen = hist[c].seen
           /\ hist'[c].gap = hist[c].gap
           /\ UNCHANGED <<rows, present, peer, active>>
  BY DEF WalkBegins, At, Begin, Scannable, About, ConnOK, Thread, FilesOK, FlagOK

(* A file has been scanned, or the scan fails.                             *)
LEMMA ScanFileDoes ==
    ASSUME ConnOK, FlagOK, FilesOK, NEW c \in Conns, ScanFile(c)
    PROVE  /\ conn[c].at = "scan"
           /\ conn'[c].id = conn[c].id
           /\ conn'[c].todo = conn[c].todo
           /\ conn'[c].file = conn[c].file
           /\ conn'[c].scanned = conn[c].scanned
           /\ conn'[c].cancelled = conn[c].cancelled
           /\ \A d \in Conns : d # c => conn'[d] = conn[d]
           /\ UNCHANGED flag
           /\ \A d \in Conns : d # c => hist'[d] = hist[d]
           /\ hist'[c].late = hist[c].late /\ hist'[c].orphaned = hist[c].orphaned
           /\ hist'[c].steady = hist[c].steady
           /\ \/ /\ conn'[c].at = "detect" /\ conn'[c].threats = conn[c].threats + 1
                 /\ conn'[c].status = conn[c].status
                 /\ hist'[c].seen = hist[c].seen \cup {conn[c].file}
                 /\ hist'[c].gap = hist[c].gap
              \/ /\ conn'[c].at = "counted" /\ conn'[c].threats = conn[c].threats
                 /\ conn'[c].status = conn[c].status
                 /\ \/ /\ hist'[c].seen = hist[c].seen \cup {conn[c].file}
                       /\ hist'[c].gap = hist[c].gap
                    \/ /\ hist'[c].gap = hist[c].gap \cup {conn[c].file}
                       /\ hist'[c].seen = hist[c].seen
              \/ /\ conn'[c].at = "finish" /\ conn'[c].threats = conn[c].threats
                 /\ conn'[c].status = "error" /\ hist' = hist
           /\ UNCHANGED <<rows, present, peer, active>>
  BY DEF ScanFile, At, Left, Goto, Ending, About, ConnOK, Thread, FilesOK, FlagOK

(* A detection is reported, and the file may go.                           *)
LEMMA DetectDoes ==
    ASSUME ConnOK, FlagOK, FilesOK, NEW c \in Conns, Detect(c)
    PROVE  /\ conn[c].at = "detect"
           /\ conn'[c].at = "counted"
           /\ conn'[c].id = conn[c].id
           /\ conn'[c].todo = conn[c].todo
           /\ conn'[c].file = conn[c].file
           /\ conn'[c].scanned = conn[c].scanned
           /\ conn'[c].threats = conn[c].threats
           /\ conn'[c].cancelled = conn[c].cancelled
           /\ conn'[c].status = conn[c].status
           /\ \A d \in Conns : d # c => conn'[d] = conn[d]
           /\ \A d \in Conns : flag[d] => flag'[d]
           /\ \A d \in Conns : hist'[d].late = hist[d].late /\ hist'[d].orphaned = hist[d].orphaned
           /\ \A d \in Conns : hist'[d].seen = hist[d].seen /\ hist'[d].gap = hist[d].gap
           /\ \A d \in Conns : hist'[d].steady \subseteq hist[d].steady
           /\ \A d \in Conns : hist[d].steady \subseteq present => hist'[d].steady \subseteq present'
           /\ UNCHANGED <<rows, peer, active>>
  <1>1. /\ conn[c].at = "detect" /\ conn' = [conn EXCEPT ![c].at = "counted"]
        /\ \A d \in Conns : flag[d] => flag'[d]
        /\ UNCHANGED <<rows, peer, active>>
    BY DEF Detect, At, Goto, SendOrCancel, Delivered, Refused, FlagOK
  <1>2. CASE UNCHANGED <<present, hist>>
    BY <1>1, <1>2 DEF ConnOK, Thread
  <1>3. CASE \E f \in {conn[c].file} : present' = present \ {f} /\ hist' = Gone(hist, f)
    <2>1. PICK f : present' = present \ {f} /\ hist' = Gone(hist, f)
      BY <1>3
    <2>2. \A d \in Conns : /\ hist'[d].late = hist[d].late /\ hist'[d].orphaned = hist[d].orphaned
                            /\ hist'[d].seen = hist[d].seen /\ hist'[d].gap = hist[d].gap
                            /\ hist'[d].steady = hist[d].steady \ {f}
      BY <2>1 DEF Gone, FilesOK, About
    <2> QED BY <1>1, <2>1, <2>2 DEF ConnOK, Thread
  <1> QED BY <1>2, <1>3 DEF Detect

(* The end of the loop's body.                                             *)
LEMMA CountedDoes ==
    ASSUME ConnOK, FlagOK, FilesOK, NEW c \in Conns, Counted(c)
    PROVE  /\ conn[c].at = "counted"
           /\ conn'[c].at = "walk"
           /\ conn'[c].id = conn[c].id
           /\ conn'[c].todo = conn[c].todo
           /\ conn'[c].file = NoFile
           /\ conn'[c].scanned = conn[c].scanned + 1
           /\ conn'[c].threats = conn[c].threats
           /\ conn'[c].cancelled = flag'[c]
           /\ conn'[c].status = conn[c].status
           /\ \A d \in Conns : d # c => conn'[d] = conn[d]
           /\ \A d \in Conns : flag[d] => flag'[d]
           /\ UNCHANGED hist
           /\ peer[c] = "gone" /\ (conn[c].scanned + 1) % PROGRESS_EVERY = 0 => flag'[c]
           /\ UNCHANGED <<rows, present, peer, active>>
  BY DEF Counted, At, Reports, SendOrCancel, Delivered, Refused, ConnOK, Thread, FilesOK, FlagOK

(* The end of the scan.                                                    *)
LEMMA FinishScanDoes ==
    ASSUME ConnOK, FlagOK, FilesOK, NEW c \in Conns, FinishScan(c)
    PROVE  /\ conn[c].at = "finish"
           /\ conn'[c].at = "respond"
           /\ conn'[c].id = 0 /\ conn'[c].todo = {} /\ conn'[c].scanned = 0 /\ conn'[c].threats = 0
           /\ ~conn'[c].cancelled /\ conn'[c].status = "running"
           /\ \A d \in Conns : d # c => conn'[d] = conn[d]
           /\ \A d \in Conns : d # c => (flag[d] <=> flag'[d])
           /\ \A d \in Conns : d # c => hist'[d] = hist[d]
           /\ hist'[c].seen = {} /\ hist'[c].steady = {} /\ hist'[c].late = 0 /\ hist'[c].orphaned = 0
           /\ UNCHANGED <<present, peer>>
  BY DEF FinishScan, At, Returns, NoScan, NoHist, ConnOK, Thread, FilesOK, FlagOK

(* The request is taken.                                                   *)
LEMMA ScanStartDoes ==
    ASSUME ConnOK, FlagOK, FilesOK, NEW c \in Conns, ScanStart(c)
    PROVE  /\ conn[c].at = "serve"
           /\ \A d \in Conns : d # c => conn'[d] = conn[d]
           /\ \A d \in Conns : d # c => (flag[d] <=> flag'[d])
           /\ \A d \in Conns : d # c => hist'[d] = hist[d]
           /\ ~flag'[c]
           /\ \/ /\ conn'[c].at = "insert" /\ conn'[c].id = 0 /\ conn'[c].todo = {} /\ conn'[c].scanned = 0
                 /\ conn'[c].threats = 0 /\ ~conn'[c].cancelled /\ conn'[c].status = "running"
                 /\ hist'[c].seen = {} /\ hist'[c].steady = present
                 /\ hist'[c].late = 0 /\ hist'[c].orphaned = 0 /\ UNCHANGED used
              \/ /\ conn'[c].at = "respond" /\ hist'[c] = hist[c]
                 /\ conn'[c].id = conn[c].id /\ conn'[c].todo = conn[c].todo
                 /\ conn'[c].scanned = conn[c].scanned /\ conn'[c].threats = conn[c].threats
                 /\ conn'[c].cancelled = conn[c].cancelled /\ conn'[c].status = conn[c].status
                 /\ used' = used + 1
           /\ UNCHANGED <<rows, present, peer, active>>
  <1>1. /\ conn[c].at = "serve" /\ flag' = [flag EXCEPT ![c] = FALSE]
        /\ UNCHANGED <<rows, present, peer, active>>
    BY DEF ScanStart, At
  <1>2. CASE /\ conn' = [conn EXCEPT ![c] = [NoScan EXCEPT !.at = "insert"]]
             /\ hist' = [hist EXCEPT ![c] = [NoHist EXCEPT !.steady = present]]
             /\ UNCHANGED used
    BY <1>1, <1>2 DEF ConnOK, FilesOK, FlagOK, NoScan, NoHist
  <1>3. CASE conn' = [conn EXCEPT ![c].at = "respond"] /\ UNCHANGED hist /\ used' = used + 1
    BY <1>1, <1>3 DEF ConnOK, Thread, FlagOK
  <1> QED BY <1>2, <1>3 DEF ScanStart, Goto, Event

(* The requests and the stacks are finite sets.                            *)
LEMMA Finite ==
    ASSUME ConnOK
    PROVE  /\ IsFiniteSet(Pending) /\ Cardinality(Pending) \in Nat
           /\ Cardinality(Files) \in Nat
           /\ \A c \in Conns : /\ IsFiniteSet(conn[c].todo)
                               /\ Cardinality(conn[c].todo) \in Nat
  <1>1. IsFiniteSet(Pending)
    BY FS_Subset DEF Pending
  <1>2. IsFiniteSet(Files \cup {Root})
    BY FS_AddElement
  <1>3. \A c \in Conns : conn[c].todo \in SUBSET (Files \cup {Root})
    BY DEF ConnOK, Thread
  <1>4. \A c \in Conns : IsFiniteSet(conn[c].todo)
    BY <1>2, <1>3, FS_Subset
  <1> QED BY <1>1, <1>4, FS_CardinalityType

(* Requests that are not more than before stay accounted for.              *)
LEMMA PendingFalls ==
    ASSUME ConnOK, RowsOK, UsedOK, Requests, Pending' \subseteq Pending,
           used' \in Nat, used' >= used, Len(rows') = Len(rows)
    PROVE  Requests'
  <1>1. Cardinality(Pending') <= Cardinality(Pending) /\ Cardinality(Pending') \in Nat
    BY Finite, FS_Subset, FS_CardinalityType
  <1>2. Cardinality(Pending) \in Nat /\ Len(rows) \in Nat /\ used \in Nat
    BY Finite, Sizes, LenProperties DEF RowsOK, UsedOK
  <1> QED BY <1>1, <1>2 DEF Requests

(* The top of the stack is on it.                                          *)
LEMMA TopIsOn ==
    ASSUME ConnOK, Cover, NEW c \in Conns, conn[c].todo \cap Files # {}
    PROVE  Top(c) \in conn[c].todo /\ conn[c].todo \subseteq Files
  <1>1. conn[c].todo \subseteq Files
    BY Sizes DEF Cover, CoverOf
  <1>2. IsFiniteSet(conn[c].todo) /\ conn[c].todo # {} /\ conn[c].todo \subseteq Nat
    BY <1>1, Finite
  <1>3. \E e \in conn[c].todo : \A d \in conn[c].todo : d <= e
    BY <1>2, Greatest
  <1> QED BY <1>1, <1>3 DEF Top

(* Only a walk does anything.                                              *)
LEMMA FreshStep ==
    ASSUME SocketsOK, ConnOK, FlagOK, FilesOK, Fresh, [Next]_vars
    PROVE  Fresh'
  <1>1. ASSUME NEW c \in Conns, Connect(c) PROVE Fresh'
    BY <1>1, ConnectDoes DEF Fresh, Busy, Walking
  <1>2. ASSUME NEW c \in Conns, Ask(c) PROVE Fresh'
    BY <1>2 DEF Ask, Event, NoRequest, SocketsOK, ConnOK, Thread, FilesOK, About,
       Busy, Walking, Fresh
  <1>3. ASSUME NEW c \in Conns, Read(c) PROVE Fresh'
    BY <1>3 DEF Read, SocketsOK, ConnOK, Thread, FilesOK, About, Busy, Walking,
       Fresh
  <1>4. ASSUME NEW c \in Conns, Behave(c) PROVE Fresh'
    BY <1>4 DEF Behave, Event, SocketsOK, ConnOK, Thread, FilesOK, About, Busy,
       Walking, Fresh
  <1>5. ASSUME NEW c \in Conns, Register(c) PROVE Fresh'
    BY <1>5, RegisterDoes DEF Fresh, Busy, Walking
  <1>6. ASSUME NEW c \in Conns, ScanStart(c) PROVE Fresh'
    BY <1>6, ScanStartDoes DEF Fresh, Busy, Walking
  <1>7. ASSUME NEW c \in Conns, ScanCancel(c) PROVE Fresh'
    BY <1>7, ScanCancelDoes DEF Fresh, Busy, Walking
  <1>8. ASSUME NEW c \in Conns, Respond(c) PROVE Fresh'
    BY <1>8, RespondDoes DEF Fresh, Busy, Walking
  <1>9. ASSUME NEW c \in Conns, EndOfFile(c) PROVE Fresh'
    BY <1>9, EndOfFileDoes DEF Fresh, Busy, Walking
  <1>10. ASSUME NEW c \in Conns, Unregister(c) PROVE Fresh'
    BY <1>10, UnregisterDoes DEF Fresh, Busy, Walking
  <1>11. ASSUME NEW c \in Conns, InsertScan(c) PROVE Fresh'
    BY <1>11, InsertScanDoes DEF Fresh, Busy, Walking
  <1>12. ASSUME NEW c \in Conns, Activate(c) PROVE Fresh'
    BY <1>12, ActivateDoes DEF Fresh, Busy, Walking
  <1>13. ASSUME NEW c \in Conns, Greet(c) PROVE Fresh'
    BY <1>13, GreetDoes DEF Fresh, Busy, Walking
  <1>14. ASSUME NEW c \in Conns, Announce(c) PROVE Fresh'
    BY <1>14, AnnounceDoes DEF Fresh, Busy, Walking
  <1>15. ASSUME NEW c \in Conns, WalkEnds(c) PROVE Fresh'
    BY <1>15, WalkEndsDoes DEF Fresh, Busy, Walking
  <1>16. ASSUME NEW c \in Conns, WalkExpands(c) PROVE Fresh'
    BY <1>16, WalkExpandsDoes DEF Fresh, Busy, Walking
  <1>17. ASSUME NEW c \in Conns, WalkPasses(c) PROVE Fresh'
    BY <1>17, WalkPassesDoes DEF Fresh, Busy, Walking
  <1>18. ASSUME NEW c \in Conns, WalkBegins(c) PROVE Fresh'
    BY <1>18, WalkBeginsDoes DEF Fresh, Busy, Walking
  <1>19. ASSUME NEW c \in Conns, ScanFile(c) PROVE Fresh'
    BY <1>19, ScanFileDoes DEF Fresh, Busy, Walking
  <1>20. ASSUME NEW c \in Conns, Detect(c) PROVE Fresh'
    BY <1>20, DetectDoes DEF Fresh, Busy, Walking
  <1>21. ASSUME NEW c \in Conns, Counted(c) PROVE Fresh'
    BY <1>21, CountedDoes DEF Fresh, Busy, Walking
  <1>22. ASSUME NEW c \in Conns, FinishScan(c) PROVE Fresh'
    BY <1>22, FinishScanDoes DEF Fresh, Busy, Walking
  <1>23. ASSUME NEW f \in Files, Change(f) PROVE Fresh'
    BY <1>23 DEF Change, Event, Gone, SocketsOK, ConnOK, Thread, FilesOK, About,
       Busy, Walking, Fresh
  <1>24. ASSUME NEW w \in Workers, DetectionFound(w) PROVE Fresh'
    BY <1>24 DEF DetectionFound, Event, SocketsOK, ConnOK, Thread, FilesOK, About,
       Busy, Walking, Fresh
  <1>25. ASSUME NEW w \in Workers, BroadcastLock(w) PROVE Fresh'
    BY <1>25 DEF BroadcastLock, SocketsOK, ConnOK, Thread, FilesOK, About, Busy,
       Walking, Fresh
  <1>26. ASSUME NEW w \in Workers, BroadcastSend(w) PROVE Fresh'
    BY <1>26 DEF BroadcastSend, Delivered, Refused, SocketsOK, ConnOK, Thread,
       FilesOK, About, Busy, Walking, Fresh
  <1>27. ASSUME NEW w \in Workers, BroadcastDone(w) PROVE Fresh'
    BY <1>27 DEF BroadcastDone, SocketsOK, ConnOK, Thread, FilesOK, About, Busy,
       Walking, Fresh
  <1>28. CASE Sigterm
    BY <1>28 DEF Sigterm, SocketsOK, ConnOK, Thread, FilesOK, About, Busy, Walking,
       Fresh
  <1>29. CASE Exit
    BY <1>29 DEF Exit, NoRequest, NoScan, NoHist, SocketsOK, ConnOK, Thread,
       FilesOK, About, Busy, Walking, Fresh
  <1>30. CASE UNCHANGED vars
    BY <1>30 DEF vars, SocketsOK, ConnOK, Thread, FilesOK, About, Busy, Walking,
       Fresh
  <1> QED
    BY WalkIs, <1>1, <1>2, <1>3, <1>4, <1>5, <1>6, <1>7, <1>8, <1>9, <1>10, <1>11, <1>12,
       <1>13, <1>14, <1>15, <1>16, <1>17, <1>18, <1>19, <1>20, <1>21, <1>22, <1>23,
       <1>24, <1>25, <1>26, <1>27, <1>28, <1>29, <1>30 DEF Next, ConnStep,
       BroadcastStep

(* Rows are not shared, and only their scan ends them.                     *)
LEMMA RowsRunStep ==
    ASSUME SocketsOK, ConnOK, FlagOK, FilesOK, RowsOK, Fresh, RowsRun,
           [Next]_vars
    PROVE  RowsRun'
  <1>1. ASSUME NEW c \in Conns, Connect(c) PROVE RowsRun'
    BY <1>1, ConnectDoes DEF RowsRun, Busy, Walking, Recorded, Fresh
  <1>2. ASSUME NEW c \in Conns, Ask(c) PROVE RowsRun'
    BY <1>2 DEF Ask, Event, NoRequest, Fresh, Busy, Walking, Recorded, RowsRun
  <1>3. ASSUME NEW c \in Conns, Read(c) PROVE RowsRun'
    BY <1>3 DEF Read, Fresh, Busy, Walking, Recorded, RowsRun
  <1>4. ASSUME NEW c \in Conns, Behave(c) PROVE RowsRun'
    BY <1>4 DEF Behave, Event, Fresh, Busy, Walking, Recorded, RowsRun
  <1>5. ASSUME NEW c \in Conns, Register(c) PROVE RowsRun'
    BY <1>5, RegisterDoes DEF RowsRun, Busy, Walking, Recorded, Fresh
  <1>6. ASSUME NEW c \in Conns, ScanStart(c) PROVE RowsRun'
    BY <1>6, ScanStartDoes DEF RowsRun, Busy, Walking, Recorded, Fresh
  <1>7. ASSUME NEW c \in Conns, ScanCancel(c) PROVE RowsRun'
    BY <1>7, ScanCancelDoes DEF RowsRun, Busy, Walking, Recorded, Fresh
  <1>8. ASSUME NEW c \in Conns, Respond(c) PROVE RowsRun'
    BY <1>8, RespondDoes DEF RowsRun, Busy, Walking, Recorded, Fresh
  <1>9. ASSUME NEW c \in Conns, EndOfFile(c) PROVE RowsRun'
    BY <1>9, EndOfFileDoes DEF RowsRun, Busy, Walking, Recorded, Fresh
  <1>10. ASSUME NEW c \in Conns, Unregister(c) PROVE RowsRun'
    BY <1>10, UnregisterDoes DEF RowsRun, Busy, Walking, Recorded, Fresh
  <1>11. ASSUME NEW c \in Conns, InsertScan(c) PROVE RowsRun'
    BY <1>11, InsertScanDoes DEF RowsRun, Busy, Walking, Recorded, Fresh
  <1>12. ASSUME NEW c \in Conns, Activate(c) PROVE RowsRun'
    BY <1>12, ActivateDoes DEF RowsRun, Busy, Walking, Recorded, Fresh
  <1>13. ASSUME NEW c \in Conns, Greet(c) PROVE RowsRun'
    BY <1>13, GreetDoes DEF RowsRun, Busy, Walking, Recorded, Fresh
  <1>14. ASSUME NEW c \in Conns, Announce(c) PROVE RowsRun'
    BY <1>14, AnnounceDoes DEF RowsRun, Busy, Walking, Recorded, Fresh
  <1>15. ASSUME NEW c \in Conns, WalkEnds(c) PROVE RowsRun'
    BY <1>15, WalkEndsDoes DEF RowsRun, Busy, Walking, Recorded, Fresh
  <1>16. ASSUME NEW c \in Conns, WalkExpands(c) PROVE RowsRun'
    BY <1>16, WalkExpandsDoes DEF RowsRun, Busy, Walking, Recorded, Fresh
  <1>17. ASSUME NEW c \in Conns, WalkPasses(c) PROVE RowsRun'
    BY <1>17, WalkPassesDoes DEF RowsRun, Busy, Walking, Recorded, Fresh
  <1>18. ASSUME NEW c \in Conns, WalkBegins(c) PROVE RowsRun'
    BY <1>18, WalkBeginsDoes DEF RowsRun, Busy, Walking, Recorded, Fresh
  <1>19. ASSUME NEW c \in Conns, ScanFile(c) PROVE RowsRun'
    BY <1>19, ScanFileDoes DEF RowsRun, Busy, Walking, Recorded, Fresh
  <1>20. ASSUME NEW c \in Conns, Detect(c) PROVE RowsRun'
    BY <1>20, DetectDoes DEF RowsRun, Busy, Walking, Recorded, Fresh
  <1>21. ASSUME NEW c \in Conns, Counted(c) PROVE RowsRun'
    BY <1>21, CountedDoes DEF RowsRun, Busy, Walking, Recorded, Fresh
  <1>22. ASSUME NEW c \in Conns, FinishScan(c) PROVE RowsRun'
    <2>1. /\ Recorded(c)
          /\ rows' = [rows EXCEPT ![conn[c].id] = [status |-> conn[c].status,
                       scanned |-> conn[c].scanned, threats |-> conn[c].threats]]
      BY <1>22, FinishScanDoes DEF FinishScan, Recorded, Walking
    <2>2. conn[c].id \in 1..Len(rows)
      BY <2>1 DEF RowsRun
    <2>3. Len(rows') = Len(rows) /\ \A i \in 1..Len(rows) : i # conn[c].id => rows'[i] = rows[i]
      BY <2>1, <2>2 DEF RowsOK
    <2>4. \A d \in Conns : Recorded(d)' => d # c /\ Recorded(d) /\ conn'[d] = conn[d]
      BY <1>22, FinishScanDoes DEF Recorded, Walking, Busy
    <2>5. \A d \in Conns : Recorded(d) /\ d # c => conn[d].id # conn[c].id
      BY <2>1 DEF RowsRun
    <2> QED BY <2>3, <2>4, <2>5 DEF RowsRun
  <1>23. ASSUME NEW f \in Files, Change(f) PROVE RowsRun'
    BY <1>23 DEF Change, Event, Gone, Fresh, Busy, Walking, Recorded, RowsRun
  <1>24. ASSUME NEW w \in Workers, DetectionFound(w) PROVE RowsRun'
    BY <1>24 DEF DetectionFound, Event, Fresh, Busy, Walking, Recorded, RowsRun
  <1>25. ASSUME NEW w \in Workers, BroadcastLock(w) PROVE RowsRun'
    BY <1>25 DEF BroadcastLock, Fresh, Busy, Walking, Recorded, RowsRun
  <1>26. ASSUME NEW w \in Workers, BroadcastSend(w) PROVE RowsRun'
    BY <1>26 DEF BroadcastSend, Delivered, Refused, Fresh, Busy, Walking, Recorded,
       RowsRun
  <1>27. ASSUME NEW w \in Workers, BroadcastDone(w) PROVE RowsRun'
    BY <1>27 DEF BroadcastDone, Fresh, Busy, Walking, Recorded, RowsRun
  <1>28. CASE Sigterm
    BY <1>28 DEF Sigterm, Fresh, Busy, Walking, Recorded, RowsRun
  <1>29. CASE Exit
    BY <1>29 DEF Exit, NoRequest, NoScan, NoHist, Fresh, Busy, Walking, Recorded,
       RowsRun
  <1>30. CASE UNCHANGED vars
    BY <1>30 DEF vars, Fresh, Busy, Walking, Recorded, RowsRun
  <1> QED
    BY WalkIs, <1>1, <1>2, <1>3, <1>4, <1>5, <1>6, <1>7, <1>8, <1>9, <1>10, <1>11, <1>12,
       <1>13, <1>14, <1>15, <1>16, <1>17, <1>18, <1>19, <1>20, <1>21, <1>22, <1>23,
       <1>24, <1>25, <1>26, <1>27, <1>28, <1>29, <1>30 DEF Next, ConnStep,
       BroadcastStep

(* A scan is cancelled only by its flag.                                   *)
LEMMA FlaggedStep ==
    ASSUME SocketsOK, ConnOK, FlagOK, FilesOK, Fresh, Flagged, [Next]_vars
    PROVE  Flagged'
  <1>1. ASSUME NEW c \in Conns, Connect(c) PROVE Flagged'
    BY <1>1, ConnectDoes DEF Flagged, Busy, Walking, Fresh
  <1>2. ASSUME NEW c \in Conns, Ask(c) PROVE Flagged'
    BY <1>2 DEF Ask, Event, NoRequest, ConnOK, Thread, FlagOK, Busy, Walking, Fresh,
       Flagged
  <1>3. ASSUME NEW c \in Conns, Read(c) PROVE Flagged'
    BY <1>3 DEF Read, ConnOK, Thread, FlagOK, Busy, Walking, Fresh, Flagged
  <1>4. ASSUME NEW c \in Conns, Behave(c) PROVE Flagged'
    BY <1>4 DEF Behave, Event, ConnOK, Thread, FlagOK, Busy, Walking, Fresh, Flagged
  <1>5. ASSUME NEW c \in Conns, Register(c) PROVE Flagged'
    BY <1>5, RegisterDoes DEF Flagged, Busy, Walking, Fresh
  <1>6. ASSUME NEW c \in Conns, ScanStart(c) PROVE Flagged'
    BY <1>6, ScanStartDoes DEF Flagged, Busy, Walking, Fresh
  <1>7. ASSUME NEW c \in Conns, ScanCancel(c) PROVE Flagged'
    BY <1>7, ScanCancelDoes DEF Flagged, Busy, Walking, Fresh
  <1>8. ASSUME NEW c \in Conns, Respond(c) PROVE Flagged'
    BY <1>8, RespondDoes DEF Flagged, Busy, Walking, Fresh
  <1>9. ASSUME NEW c \in Conns, EndOfFile(c) PROVE Flagged'
    BY <1>9, EndOfFileDoes DEF Flagged, Busy, Walking, Fresh
  <1>10. ASSUME NEW c \in Conns, Unregister(c) PROVE Flagged'
    BY <1>10, UnregisterDoes DEF Flagged, Busy, Walking, Fresh
  <1>11. ASSUME NEW c \in Conns, InsertScan(c) PROVE Flagged'
    BY <1>11, InsertScanDoes DEF Flagged, Busy, Walking, Fresh
  <1>12. ASSUME NEW c \in Conns, Activate(c) PROVE Flagged'
    BY <1>12, ActivateDoes DEF Flagged, Busy, Walking, Fresh
  <1>13. ASSUME NEW c \in Conns, Greet(c) PROVE Flagged'
    BY <1>13, GreetDoes DEF Flagged, Busy, Walking, Fresh
  <1>14. ASSUME NEW c \in Conns, Announce(c) PROVE Flagged'
    BY <1>14, AnnounceDoes DEF Flagged, Busy, Walking, Fresh
  <1>15. ASSUME NEW c \in Conns, WalkEnds(c) PROVE Flagged'
    BY <1>15, WalkEndsDoes DEF Flagged, Busy, Walking, Fresh
  <1>16. ASSUME NEW c \in Conns, WalkExpands(c) PROVE Flagged'
    BY <1>16, WalkExpandsDoes DEF Flagged, Busy, Walking, Fresh
  <1>17. ASSUME NEW c \in Conns, WalkPasses(c) PROVE Flagged'
    BY <1>17, WalkPassesDoes DEF Flagged, Busy, Walking, Fresh
  <1>18. ASSUME NEW c \in Conns, WalkBegins(c) PROVE Flagged'
    BY <1>18, WalkBeginsDoes DEF Flagged, Busy, Walking, Fresh
  <1>19. ASSUME NEW c \in Conns, ScanFile(c) PROVE Flagged'
    BY <1>19, ScanFileDoes DEF Flagged, Busy, Walking, Fresh
  <1>20. ASSUME NEW c \in Conns, Detect(c) PROVE Flagged'
    BY <1>20, DetectDoes DEF Flagged, Busy, Walking, Fresh
  <1>21. ASSUME NEW c \in Conns, Counted(c) PROVE Flagged'
    BY <1>21, CountedDoes DEF Flagged, Busy, Walking, Fresh
  <1>22. ASSUME NEW c \in Conns, FinishScan(c) PROVE Flagged'
    BY <1>22, FinishScanDoes DEF Flagged, Busy, Walking, Fresh
  <1>23. ASSUME NEW f \in Files, Change(f) PROVE Flagged'
    BY <1>23 DEF Change, Event, Gone, ConnOK, Thread, FlagOK, Busy, Walking, Fresh,
       Flagged
  <1>24. ASSUME NEW w \in Workers, DetectionFound(w) PROVE Flagged'
    BY <1>24 DEF DetectionFound, Event, ConnOK, Thread, FlagOK, Busy, Walking,
       Fresh, Flagged
  <1>25. ASSUME NEW w \in Workers, BroadcastLock(w) PROVE Flagged'
    BY <1>25 DEF BroadcastLock, ConnOK, Thread, FlagOK, Busy, Walking, Fresh,
       Flagged
  <1>26. ASSUME NEW w \in Workers, BroadcastSend(w) PROVE Flagged'
    BY <1>26 DEF BroadcastSend, Delivered, Refused, ConnOK, Thread, FlagOK, Busy,
       Walking, Fresh, Flagged
  <1>27. ASSUME NEW w \in Workers, BroadcastDone(w) PROVE Flagged'
    BY <1>27 DEF BroadcastDone, ConnOK, Thread, FlagOK, Busy, Walking, Fresh,
       Flagged
  <1>28. CASE Sigterm
    BY <1>28 DEF Sigterm, ConnOK, Thread, FlagOK, Busy, Walking, Fresh, Flagged
  <1>29. CASE Exit
    BY <1>29 DEF Exit, NoRequest, NoScan, NoHist, ConnOK, Thread, FlagOK, Busy,
       Walking, Fresh, Flagged
  <1>30. CASE UNCHANGED vars
    BY <1>30 DEF vars, ConnOK, Thread, FlagOK, Busy, Walking, Fresh, Flagged
  <1> QED
    BY WalkIs, <1>1, <1>2, <1>3, <1>4, <1>5, <1>6, <1>7, <1>8, <1>9, <1>10, <1>11, <1>12,
       <1>13, <1>14, <1>15, <1>16, <1>17, <1>18, <1>19, <1>20, <1>21, <1>22, <1>23,
       <1>24, <1>25, <1>26, <1>27, <1>28, <1>29, <1>30 DEF Next, ConnStep,
       BroadcastStep

(* At most one file is begun with the flag up.                             *)
LEMMA LateStep ==
    ASSUME SocketsOK, ConnOK, FlagOK, FilesOK, Fresh, Late, [Next]_vars
    PROVE  Late'
  <1>1. ASSUME NEW c \in Conns, Connect(c) PROVE Late'
    BY <1>1, ConnectDoes DEF Late, Busy, Walking, Fresh
  <1>2. ASSUME NEW c \in Conns, Ask(c) PROVE Late'
    BY <1>2 DEF Ask, Event, NoRequest, ConnOK, Thread, FlagOK, FilesOK, About, Busy,
       Walking, Fresh, Late
  <1>3. ASSUME NEW c \in Conns, Read(c) PROVE Late'
    BY <1>3 DEF Read, ConnOK, Thread, FlagOK, FilesOK, About, Busy, Walking, Fresh,
       Late
  <1>4. ASSUME NEW c \in Conns, Behave(c) PROVE Late'
    BY <1>4 DEF Behave, Event, ConnOK, Thread, FlagOK, FilesOK, About, Busy,
       Walking, Fresh, Late
  <1>5. ASSUME NEW c \in Conns, Register(c) PROVE Late'
    BY <1>5, RegisterDoes DEF Late, Busy, Walking, Fresh
  <1>6. ASSUME NEW c \in Conns, ScanStart(c) PROVE Late'
    BY <1>6, ScanStartDoes DEF Late, Busy, Walking, Fresh
  <1>7. ASSUME NEW c \in Conns, ScanCancel(c) PROVE Late'
    BY <1>7, ScanCancelDoes DEF Late, Busy, Walking, Fresh
  <1>8. ASSUME NEW c \in Conns, Respond(c) PROVE Late'
    BY <1>8, RespondDoes DEF Late, Busy, Walking, Fresh
  <1>9. ASSUME NEW c \in Conns, EndOfFile(c) PROVE Late'
    BY <1>9, EndOfFileDoes DEF Late, Busy, Walking, Fresh
  <1>10. ASSUME NEW c \in Conns, Unregister(c) PROVE Late'
    BY <1>10, UnregisterDoes DEF Late, Busy, Walking, Fresh
  <1>11. ASSUME NEW c \in Conns, InsertScan(c) PROVE Late'
    BY <1>11, InsertScanDoes DEF Late, Busy, Walking, Fresh
  <1>12. ASSUME NEW c \in Conns, Activate(c) PROVE Late'
    BY <1>12, ActivateDoes DEF Late, Busy, Walking, Fresh
  <1>13. ASSUME NEW c \in Conns, Greet(c) PROVE Late'
    BY <1>13, GreetDoes DEF Late, Busy, Walking, Fresh
  <1>14. ASSUME NEW c \in Conns, Announce(c) PROVE Late'
    BY <1>14, AnnounceDoes DEF Late, Busy, Walking, Fresh
  <1>15. ASSUME NEW c \in Conns, WalkEnds(c) PROVE Late'
    BY <1>15, WalkEndsDoes DEF Late, Busy, Walking, Fresh
  <1>16. ASSUME NEW c \in Conns, WalkExpands(c) PROVE Late'
    BY <1>16, WalkExpandsDoes DEF Late, Busy, Walking, Fresh
  <1>17. ASSUME NEW c \in Conns, WalkPasses(c) PROVE Late'
    BY <1>17, WalkPassesDoes DEF Late, Busy, Walking, Fresh
  <1>18. ASSUME NEW c \in Conns, WalkBegins(c) PROVE Late'
    BY <1>18, WalkBeginsDoes DEF Late, Busy, Walking, Fresh
  <1>19. ASSUME NEW c \in Conns, ScanFile(c) PROVE Late'
    BY <1>19, ScanFileDoes DEF Late, Busy, Walking, Fresh
  <1>20. ASSUME NEW c \in Conns, Detect(c) PROVE Late'
    BY <1>20, DetectDoes DEF Late, Busy, Walking, Fresh
  <1>21. ASSUME NEW c \in Conns, Counted(c) PROVE Late'
    BY <1>21, CountedDoes DEF Late, Busy, Walking, Fresh
  <1>22. ASSUME NEW c \in Conns, FinishScan(c) PROVE Late'
    BY <1>22, FinishScanDoes DEF Late, Busy, Walking, Fresh
  <1>23. ASSUME NEW f \in Files, Change(f) PROVE Late'
    BY <1>23 DEF Change, Event, Gone, ConnOK, Thread, FlagOK, FilesOK, About, Busy,
       Walking, Fresh, Late
  <1>24. ASSUME NEW w \in Workers, DetectionFound(w) PROVE Late'
    BY <1>24 DEF DetectionFound, Event, ConnOK, Thread, FlagOK, FilesOK, About,
       Busy, Walking, Fresh, Late
  <1>25. ASSUME NEW w \in Workers, BroadcastLock(w) PROVE Late'
    BY <1>25 DEF BroadcastLock, ConnOK, Thread, FlagOK, FilesOK, About, Busy,
       Walking, Fresh, Late
  <1>26. ASSUME NEW w \in Workers, BroadcastSend(w) PROVE Late'
    BY <1>26 DEF BroadcastSend, Delivered, Refused, ConnOK, Thread, FlagOK, FilesOK,
       About, Busy, Walking, Fresh, Late
  <1>27. ASSUME NEW w \in Workers, BroadcastDone(w) PROVE Late'
    BY <1>27 DEF BroadcastDone, ConnOK, Thread, FlagOK, FilesOK, About, Busy,
       Walking, Fresh, Late
  <1>28. CASE Sigterm
    BY <1>28 DEF Sigterm, ConnOK, Thread, FlagOK, FilesOK, About, Busy, Walking,
       Fresh, Late
  <1>29. CASE Exit
    BY <1>29 DEF Exit, NoRequest, NoScan, NoHist, ConnOK, Thread, FlagOK, FilesOK,
       About, Busy, Walking, Fresh, Late
  <1>30. CASE UNCHANGED vars
    BY <1>30 DEF vars, ConnOK, Thread, FlagOK, FilesOK, About, Busy, Walking, Fresh,
       Late
  <1> QED
    BY WalkIs, <1>1, <1>2, <1>3, <1>4, <1>5, <1>6, <1>7, <1>8, <1>9, <1>10, <1>11, <1>12,
       <1>13, <1>14, <1>15, <1>16, <1>17, <1>18, <1>19, <1>20, <1>21, <1>22, <1>23,
       <1>24, <1>25, <1>26, <1>27, <1>28, <1>29, <1>30 DEF Next, ConnStep,
       BroadcastStep

(* Few files are begun for a client that has gone.                         *)
LEMMA OrphanStep ==
    ASSUME SocketsOK, ConnOK, FlagOK, FilesOK, Fresh, Orphan, [Next]_vars
    PROVE  Orphan'
  <1>1. ASSUME NEW c \in Conns, Connect(c) PROVE Orphan'
    BY <1>1, ConnectDoes, Sizes DEF Orphan, Busy, Walking, OrphanOf, Fresh, SinceReport
  <1>2. ASSUME NEW c \in Conns, Ask(c) PROVE Orphan'
    BY Sizes, <1>2 DEF Ask, Event, NoRequest, SocketsOK, ConnOK, FlagOK, FilesOK,
       About, Busy, Walking, Fresh, SinceReport, Orphan, OrphanOf
  <1>3. ASSUME NEW c \in Conns, Read(c) PROVE Orphan'
    BY Sizes, <1>3 DEF Read, SocketsOK, ConnOK, FlagOK, FilesOK, About, Busy,
       Walking, Fresh, SinceReport, Orphan, OrphanOf
  <1>4. ASSUME NEW c \in Conns, Behave(c) PROVE Orphan'
    BY Sizes, <1>4 DEF Behave, Event, SocketsOK, ConnOK, FlagOK, FilesOK, About,
       Busy, Walking, Fresh, SinceReport, Orphan, OrphanOf
  <1>5. ASSUME NEW c \in Conns, Register(c) PROVE Orphan'
    BY <1>5, RegisterDoes, Sizes DEF Orphan, Busy, Walking, OrphanOf, Fresh,
       SinceReport
  <1>6. ASSUME NEW c \in Conns, ScanStart(c) PROVE Orphan'
    BY <1>6, ScanStartDoes, Sizes DEF Orphan, Busy, Walking, OrphanOf, Fresh,
       SinceReport
  <1>7. ASSUME NEW c \in Conns, ScanCancel(c) PROVE Orphan'
    BY <1>7, ScanCancelDoes, Sizes DEF Orphan, Busy, Walking, OrphanOf, Fresh,
       SinceReport
  <1>8. ASSUME NEW c \in Conns, Respond(c) PROVE Orphan'
    BY <1>8, RespondDoes, Sizes DEF Orphan, Busy, Walking, OrphanOf, Fresh, SinceReport
  <1>9. ASSUME NEW c \in Conns, EndOfFile(c) PROVE Orphan'
    BY <1>9, EndOfFileDoes, Sizes DEF Orphan, Busy, Walking, OrphanOf, Fresh,
       SinceReport
  <1>10. ASSUME NEW c \in Conns, Unregister(c) PROVE Orphan'
    BY <1>10, UnregisterDoes, Sizes DEF Orphan, Busy, Walking, OrphanOf, Fresh,
       SinceReport
  <1>11. ASSUME NEW c \in Conns, InsertScan(c) PROVE Orphan'
    BY <1>11, InsertScanDoes, Sizes DEF Orphan, Busy, Walking, OrphanOf, Fresh,
       SinceReport
  <1>12. ASSUME NEW c \in Conns, Activate(c) PROVE Orphan'
    BY <1>12, ActivateDoes, Sizes DEF Orphan, Busy, Walking, OrphanOf, Fresh,
       SinceReport
  <1>13. ASSUME NEW c \in Conns, Greet(c) PROVE Orphan'
    BY <1>13, GreetDoes, Sizes DEF Orphan, Busy, Walking, OrphanOf, Fresh, SinceReport
  <1>14. ASSUME NEW c \in Conns, Announce(c) PROVE Orphan'
    BY <1>14, AnnounceDoes, Sizes DEF Orphan, Busy, Walking, OrphanOf, Fresh,
       SinceReport
  <1>15. ASSUME NEW c \in Conns, WalkEnds(c) PROVE Orphan'
    BY <1>15, WalkEndsDoes, Sizes DEF Orphan, Busy, Walking, OrphanOf, Fresh,
       SinceReport
  <1>16. ASSUME NEW c \in Conns, WalkExpands(c) PROVE Orphan'
    BY <1>16, WalkExpandsDoes, Sizes DEF Orphan, Busy, Walking, OrphanOf, Fresh,
       SinceReport
  <1>17. ASSUME NEW c \in Conns, WalkPasses(c) PROVE Orphan'
    BY <1>17, WalkPassesDoes, Sizes DEF Orphan, Busy, Walking, OrphanOf, Fresh,
       SinceReport
  <1>18. ASSUME NEW c \in Conns, WalkBegins(c) PROVE Orphan'
    <2>1. ASSUME NEW d \in Conns, d # c PROVE OrphanOf(d)'
      BY <1>18, <2>1, WalkBeginsDoes DEF Orphan, OrphanOf, Busy, SinceReport
    <2>2. OrphanOf(c)'
      <3>1. OrphanOf(c) /\ conn[c].at = "walk" /\ ~conn[c].cancelled
        BY <1>18, WalkBeginsDoes DEF Orphan
      <3>2. conn[c].scanned \in Nat /\ hist[c].orphaned \in Nat
        BY DEF ConnOK, Thread, FilesOK, About
      <3>3. SinceReport(c) \in 0..PROGRESS_EVERY - 1 /\ SinceReport(c)' = SinceReport(c)
        BY <1>18, <3>2, WalkBeginsDoes, Sizes, NextRemainder DEF SinceReport
      <3> QED BY <1>18, <3>1, <3>2, <3>3, WalkBeginsDoes, Sizes DEF OrphanOf, Busy
    <2> QED BY <2>1, <2>2 DEF Orphan
  <1>19. ASSUME NEW c \in Conns, ScanFile(c) PROVE Orphan'
    BY <1>19, ScanFileDoes, Sizes DEF Orphan, Busy, Walking, OrphanOf, Fresh,
       SinceReport
  <1>20. ASSUME NEW c \in Conns, Detect(c) PROVE Orphan'
    BY <1>20, DetectDoes, Sizes DEF Orphan, Busy, Walking, OrphanOf, Fresh, SinceReport
  <1>21. ASSUME NEW c \in Conns, Counted(c) PROVE Orphan'
    <2>1. ASSUME NEW d \in Conns, d # c PROVE OrphanOf(d)'
      BY <1>21, <2>1, CountedDoes DEF Orphan, OrphanOf, Busy, SinceReport
    <2>2. OrphanOf(c)'
      <3>1. OrphanOf(c) /\ Busy(c)
        BY <1>21, CountedDoes DEF Orphan, Busy
      <3>2. conn[c].scanned \in Nat /\ hist[c].orphaned \in Nat
        BY DEF ConnOK, Thread, FilesOK, About
      <3>3. /\ SinceReport(c) \in 0..PROGRESS_EVERY - 1
            /\ SinceReport(c)' # 0 => SinceReport(c)' = SinceReport(c) + 1
            /\ SinceReport(c)' = (conn[c].scanned + 1) % PROGRESS_EVERY
        BY ZenonT(60), <1>21, <3>2, CountedDoes, Sizes, NextRemainder DEF SinceReport
      <3>4. CASE hist[c].orphaned = 0
        <4>1. SinceReport(c)' \in 0..PROGRESS_EVERY - 1
          BY <3>2, <3>3, Sizes
        <4> QED BY <1>21, <3>1, <3>2, <3>3, <3>4, <4>1, CountedDoes, Sizes DEF OrphanOf, Busy
      <3>5. CASE hist[c].orphaned > 0
        <4>1. peer[c] = "gone"
          BY <3>1, <3>5 DEF OrphanOf
        <4>2. SinceReport(c)' = 0 => conn'[c].cancelled
          BY <1>21, <3>3, <4>1, CountedDoes
        <4> QED BY <1>21, <3>1, <3>2, <3>3, <3>5, <4>1, <4>2, CountedDoes, Sizes DEF OrphanOf, Busy
      <3> QED BY <3>2, <3>4, <3>5
    <2> QED BY <2>1, <2>2 DEF Orphan
  <1>22. ASSUME NEW c \in Conns, FinishScan(c) PROVE Orphan'
    <2>1. ASSUME NEW d \in Conns, d # c PROVE OrphanOf(d)'
      BY <1>22, <2>1, FinishScanDoes DEF Orphan, OrphanOf, Busy, SinceReport
    <2>2. OrphanOf(c)'
      BY <1>22, FinishScanDoes, Sizes DEF OrphanOf, Busy
    <2> QED BY <2>1, <2>2 DEF Orphan
  <1>23. ASSUME NEW f \in Files, Change(f) PROVE Orphan'
    BY SMTT(30), Sizes, <1>23 DEF Change, Event, Gone, SocketsOK, ConnOK, FlagOK,
       FilesOK, About, Busy, Walking, Fresh, SinceReport, Orphan, OrphanOf
  <1>24. ASSUME NEW w \in Workers, DetectionFound(w) PROVE Orphan'
    BY Sizes, <1>24 DEF DetectionFound, Event, SocketsOK, ConnOK, FlagOK, FilesOK,
       About, Busy, Walking, Fresh, SinceReport, Orphan, OrphanOf
  <1>25. ASSUME NEW w \in Workers, BroadcastLock(w) PROVE Orphan'
    BY Sizes, <1>25 DEF BroadcastLock, SocketsOK, ConnOK, FlagOK, FilesOK, About,
       Busy, Walking, Fresh, SinceReport, Orphan, OrphanOf
  <1>26. ASSUME NEW w \in Workers, BroadcastSend(w) PROVE Orphan'
    BY Sizes, <1>26 DEF BroadcastSend, Delivered, Refused, SocketsOK, ConnOK,
       FlagOK, FilesOK, About, Busy, Walking, Fresh, SinceReport, Orphan, OrphanOf
  <1>27. ASSUME NEW w \in Workers, BroadcastDone(w) PROVE Orphan'
    BY Sizes, <1>27 DEF BroadcastDone, SocketsOK, ConnOK, FlagOK, FilesOK, About,
       Busy, Walking, Fresh, SinceReport, Orphan, OrphanOf
  <1>28. CASE Sigterm
    BY Sizes, <1>28 DEF Sigterm, SocketsOK, ConnOK, FlagOK, FilesOK, About, Busy,
       Walking, Fresh, SinceReport, Orphan, OrphanOf
  <1>29. CASE Exit
    BY Sizes, <1>29 DEF Exit, NoRequest, NoScan, NoHist, SocketsOK, ConnOK, FlagOK,
       FilesOK, About, Busy, Walking, Fresh, SinceReport, Orphan, OrphanOf
  <1>30. CASE UNCHANGED vars
    BY Sizes, <1>30 DEF vars, SocketsOK, ConnOK, FlagOK, FilesOK, About, Busy,
       Walking, Fresh, SinceReport, Orphan, OrphanOf
  <1> QED
    BY WalkIs, <1>1, <1>2, <1>3, <1>4, <1>5, <1>6, <1>7, <1>8, <1>9, <1>10, <1>11, <1>12,
       <1>13, <1>14, <1>15, <1>16, <1>17, <1>18, <1>19, <1>20, <1>21, <1>22, <1>23,
       <1>24, <1>25, <1>26, <1>27, <1>28, <1>29, <1>30 DEF Next, ConnStep,
       BroadcastStep

(* What has gone was not there all the time.                               *)
LEMMA SteadyStep ==
    ASSUME SocketsOK, ConnOK, FlagOK, FilesOK, Steady, [Next]_vars
    PROVE  Steady'
  <1>1. ASSUME NEW c \in Conns, Connect(c) PROVE Steady'
    BY <1>1, ConnectDoes DEF Steady, Busy, Walking
  <1>2. ASSUME NEW c \in Conns, Ask(c) PROVE Steady'
    BY <1>2 DEF Ask, Event, NoRequest, FilesOK, About, Steady
  <1>3. ASSUME NEW c \in Conns, Read(c) PROVE Steady'
    BY <1>3 DEF Read, FilesOK, About, Steady
  <1>4. ASSUME NEW c \in Conns, Behave(c) PROVE Steady'
    BY <1>4 DEF Behave, Event, FilesOK, About, Steady
  <1>5. ASSUME NEW c \in Conns, Register(c) PROVE Steady'
    BY <1>5, RegisterDoes DEF Steady, Busy, Walking
  <1>6. ASSUME NEW c \in Conns, ScanStart(c) PROVE Steady'
    BY <1>6, ScanStartDoes DEF Steady
  <1>7. ASSUME NEW c \in Conns, ScanCancel(c) PROVE Steady'
    BY <1>7, ScanCancelDoes DEF Steady, Busy, Walking
  <1>8. ASSUME NEW c \in Conns, Respond(c) PROVE Steady'
    BY <1>8, RespondDoes DEF Steady, Busy, Walking
  <1>9. ASSUME NEW c \in Conns, EndOfFile(c) PROVE Steady'
    BY <1>9, EndOfFileDoes DEF Steady, Busy, Walking
  <1>10. ASSUME NEW c \in Conns, Unregister(c) PROVE Steady'
    BY <1>10, UnregisterDoes DEF Steady, Busy, Walking
  <1>11. ASSUME NEW c \in Conns, InsertScan(c) PROVE Steady'
    BY <1>11, InsertScanDoes DEF Steady, Busy, Walking
  <1>12. ASSUME NEW c \in Conns, Activate(c) PROVE Steady'
    BY <1>12, ActivateDoes DEF Steady, Busy, Walking
  <1>13. ASSUME NEW c \in Conns, Greet(c) PROVE Steady'
    BY <1>13, GreetDoes DEF Steady, Busy, Walking
  <1>14. ASSUME NEW c \in Conns, Announce(c) PROVE Steady'
    BY <1>14, AnnounceDoes DEF Steady, Busy, Walking
  <1>15. ASSUME NEW c \in Conns, WalkEnds(c) PROVE Steady'
    BY <1>15, WalkEndsDoes DEF Steady, Busy, Walking
  <1>16. ASSUME NEW c \in Conns, WalkExpands(c) PROVE Steady'
    BY <1>16, WalkExpandsDoes DEF Steady, Busy, Walking
  <1>17. ASSUME NEW c \in Conns, WalkPasses(c) PROVE Steady'
    BY <1>17, WalkPassesDoes DEF Steady, Busy, Walking
  <1>18. ASSUME NEW c \in Conns, WalkBegins(c) PROVE Steady'
    BY <1>18, WalkBeginsDoes DEF Steady, Busy, Walking
  <1>19. ASSUME NEW c \in Conns, ScanFile(c) PROVE Steady'
    BY <1>19, ScanFileDoes DEF Steady, Busy, Walking
  <1>20. ASSUME NEW c \in Conns, Detect(c) PROVE Steady'
    BY <1>20, DetectDoes DEF Steady
  <1>21. ASSUME NEW c \in Conns, Counted(c) PROVE Steady'
    BY <1>21, CountedDoes DEF Steady, Busy, Walking
  <1>22. ASSUME NEW c \in Conns, FinishScan(c) PROVE Steady'
    BY <1>22, FinishScanDoes DEF Steady, Busy, Walking
  <1>23. ASSUME NEW f \in Files, Change(f) PROVE Steady'
    BY <1>23 DEF Change, Event, Gone, FilesOK, About, Steady
  <1>24. ASSUME NEW w \in Workers, DetectionFound(w) PROVE Steady'
    BY <1>24 DEF DetectionFound, Event, FilesOK, About, Steady
  <1>25. ASSUME NEW w \in Workers, BroadcastLock(w) PROVE Steady'
    BY <1>25 DEF BroadcastLock, FilesOK, About, Steady
  <1>26. ASSUME NEW w \in Workers, BroadcastSend(w) PROVE Steady'
    BY <1>26 DEF BroadcastSend, Delivered, Refused, FilesOK, About, Steady
  <1>27. ASSUME NEW w \in Workers, BroadcastDone(w) PROVE Steady'
    BY <1>27 DEF BroadcastDone, FilesOK, About, Steady
  <1>28. CASE Sigterm
    BY <1>28 DEF Sigterm, FilesOK, About, Steady
  <1>29. CASE Exit
    BY <1>29 DEF Exit, NoRequest, NoScan, NoHist, FilesOK, About, Steady
  <1>30. CASE UNCHANGED vars
    BY <1>30 DEF vars, FilesOK, About, Steady
  <1> QED
    BY WalkIs, <1>1, <1>2, <1>3, <1>4, <1>5, <1>6, <1>7, <1>8, <1>9, <1>10, <1>11, <1>12,
       <1>13, <1>14, <1>15, <1>16, <1>17, <1>18, <1>19, <1>20, <1>21, <1>22, <1>23,
       <1>24, <1>25, <1>26, <1>27, <1>28, <1>29, <1>30 DEF Next, ConnStep,
       BroadcastStep

(* No file is forgotten on the stack.                                      *)
LEMMA CoverStep ==
    ASSUME SocketsOK, ConnOK, FlagOK, FilesOK, Fresh, Steady, Cover, [Next]_vars
    PROVE  Cover'
  <1>1. ASSUME NEW c \in Conns, Connect(c) PROVE Cover'
    BY <1>1, ConnectDoes, Sizes DEF Cover, Busy, Walking, CoverOf, Covered, Fresh,
       Steady, FilesOK
  <1>2. ASSUME NEW c \in Conns, Ask(c) PROVE Cover'
    BY Sizes, <1>2 DEF Ask, Event, NoRequest, ConnOK, Thread, FilesOK, About, Busy,
       Walking, Fresh, Steady, Covered, Cover, CoverOf
  <1>3. ASSUME NEW c \in Conns, Read(c) PROVE Cover'
    BY Sizes, <1>3 DEF Read, ConnOK, Thread, FilesOK, About, Busy, Walking, Fresh,
       Steady, Covered, Cover, CoverOf
  <1>4. ASSUME NEW c \in Conns, Behave(c) PROVE Cover'
    BY Sizes, <1>4 DEF Behave, Event, ConnOK, Thread, FilesOK, About, Busy, Walking,
       Fresh, Steady, Covered, Cover, CoverOf
  <1>5. ASSUME NEW c \in Conns, Register(c) PROVE Cover'
    BY <1>5, RegisterDoes, Sizes DEF Cover, Busy, Walking, CoverOf, Covered, Fresh,
       Steady, FilesOK
  <1>6. ASSUME NEW c \in Conns, ScanStart(c) PROVE Cover'
    <2>1. ASSUME NEW d \in Conns, d # c PROVE CoverOf(d)'
      BY <1>6, <2>1, ScanStartDoes DEF Cover, CoverOf, Covered, Busy
    <2>2. CoverOf(c)'
      BY <1>6, ScanStartDoes, Sizes DEF Fresh, Walking, Cover, CoverOf, Covered, Busy
    <2> QED BY <2>1, <2>2 DEF Cover
  <1>7. ASSUME NEW c \in Conns, ScanCancel(c) PROVE Cover'
    BY <1>7, ScanCancelDoes, Sizes DEF Cover, Busy, Walking, CoverOf, Covered, Fresh,
       Steady, FilesOK
  <1>8. ASSUME NEW c \in Conns, Respond(c) PROVE Cover'
    BY <1>8, RespondDoes, Sizes DEF Cover, Busy, Walking, CoverOf, Covered, Fresh,
       Steady, FilesOK
  <1>9. ASSUME NEW c \in Conns, EndOfFile(c) PROVE Cover'
    BY <1>9, EndOfFileDoes, Sizes DEF Cover, Busy, Walking, CoverOf, Covered, Fresh,
       Steady, FilesOK
  <1>10. ASSUME NEW c \in Conns, Unregister(c) PROVE Cover'
    BY <1>10, UnregisterDoes, Sizes DEF Cover, Busy, Walking, CoverOf, Covered, Fresh,
       Steady, FilesOK
  <1>11. ASSUME NEW c \in Conns, InsertScan(c) PROVE Cover'
    BY <1>11, InsertScanDoes, Sizes DEF Cover, Busy, Walking, CoverOf, Covered, Fresh,
       Steady, FilesOK
  <1>12. ASSUME NEW c \in Conns, Activate(c) PROVE Cover'
    BY <1>12, ActivateDoes, Sizes DEF Cover, Busy, Walking, CoverOf, Covered, Fresh,
       Steady, FilesOK
  <1>13. ASSUME NEW c \in Conns, Greet(c) PROVE Cover'
    BY <1>13, GreetDoes, Sizes DEF Cover, Busy, Walking, CoverOf, Covered, Fresh,
       Steady, FilesOK
  <1>14. ASSUME NEW c \in Conns, Announce(c) PROVE Cover'
    BY <1>14, AnnounceDoes, Sizes DEF Cover, Busy, Walking, CoverOf, Covered, Fresh,
       Steady, FilesOK
  <1>15. ASSUME NEW c \in Conns, WalkEnds(c) PROVE Cover'
    BY <1>15, WalkEndsDoes, Sizes DEF Cover, Busy, Walking, CoverOf, Covered, Fresh,
       Steady, FilesOK
  <1>16. ASSUME NEW c \in Conns, WalkExpands(c) PROVE Cover'
    <2>1. ASSUME NEW d \in Conns, d # c PROVE CoverOf(d)'
      BY <1>16, <2>1, WalkExpandsDoes DEF Cover, CoverOf, Covered, Busy
    <2>2. CoverOf(c)'
      <3>1. present \subseteq Files /\ Root \notin Files
        BY Sizes DEF FilesOK, Root
      <3>2. PICK listed \in SUBSET present :
               /\ conn'[c].todo = listed
               /\ hist'[c].gap = hist[c].gap \cup (present \ listed)
        BY <1>16, WalkExpandsDoes
      <3>3. listed # {Root} /\ listed \subseteq Files /\ hist[c].steady \subseteq present
        BY <3>1 DEF Steady
      <3>4. /\ conn[c].at = "walk" /\ conn'[c].at = "walk"
            /\ conn'[c].status = conn[c].status
            /\ hist'[c].steady = hist[c].steady /\ hist'[c].seen = hist[c].seen
        BY <1>16, WalkExpandsDoes
      <3>5. hist'[c].steady \ Excluded \subseteq hist'[c].seen \cup hist'[c].gap \cup conn'[c].todo
        BY <3>2, <3>3, <3>4
      <3>6. conn[c].status = "running"
        BY <3>4 DEF Cover, CoverOf
      <3> QED BY <3>2, <3>3, <3>4, <3>5, <3>6 DEF CoverOf, Covered, Busy
    <2> QED BY <2>1, <2>2 DEF Cover
  <1>17. ASSUME NEW c \in Conns, WalkPasses(c) PROVE Cover'
    BY <1>17, WalkPassesDoes, Sizes DEF Cover, Busy, Walking, CoverOf, Covered, Fresh,
       Steady, FilesOK
  <1>18. ASSUME NEW c \in Conns, WalkBegins(c) PROVE Cover'
    BY <1>18, WalkBeginsDoes, Sizes DEF Cover, Busy, Walking, CoverOf, Covered, Fresh,
       Steady, FilesOK
  <1>19. ASSUME NEW c \in Conns, ScanFile(c) PROVE Cover'
    BY <1>19, ScanFileDoes, Sizes DEF Cover, Busy, Walking, CoverOf, Covered, Fresh,
       Steady, FilesOK
  <1>20. ASSUME NEW c \in Conns, Detect(c) PROVE Cover'
    <2>1. \A d \in Conns :
             /\ hist'[d].steady \subseteq hist[d].steady
             /\ hist'[d].seen = hist[d].seen /\ hist'[d].gap = hist[d].gap
      BY <1>20, DetectDoes
    <2>2. ASSUME NEW d \in Conns PROVE CoverOf(d)'
      <3>1. CoverOf(d)
        BY DEF Cover
      <3>2. CASE d = c
        BY <1>20, <2>1, <3>1, <3>2, DetectDoes DEF CoverOf, Covered, Busy
      <3>3. CASE d # c
        BY <1>20, <2>1, <3>1, <3>3, DetectDoes DEF CoverOf, Covered, Busy
      <3> QED BY <3>2, <3>3
    <2> QED BY <2>2 DEF Cover
  <1>21. ASSUME NEW c \in Conns, Counted(c) PROVE Cover'
    BY <1>21, CountedDoes, Sizes DEF Cover, Busy, Walking, CoverOf, Covered, Fresh,
       Steady, FilesOK
  <1>22. ASSUME NEW c \in Conns, FinishScan(c) PROVE Cover'
    <2>1. ASSUME NEW d \in Conns, d # c PROVE CoverOf(d)'
      BY <1>22, <2>1, FinishScanDoes DEF Cover, CoverOf, Covered, Busy
    <2>2. CoverOf(c)'
      BY <1>22, FinishScanDoes, Sizes DEF CoverOf, Covered, Busy
    <2> QED BY <2>1, <2>2 DEF Cover
  <1>23. ASSUME NEW f \in Files, Change(f) PROVE Cover'
    BY Sizes, <1>23 DEF Change, Event, Gone, ConnOK, Thread, FilesOK, About, Busy,
       Walking, Fresh, Steady, Covered, Cover, CoverOf
  <1>24. ASSUME NEW w \in Workers, DetectionFound(w) PROVE Cover'
    BY Sizes, <1>24 DEF DetectionFound, Event, ConnOK, Thread, FilesOK, About, Busy,
       Walking, Fresh, Steady, Covered, Cover, CoverOf
  <1>25. ASSUME NEW w \in Workers, BroadcastLock(w) PROVE Cover'
    BY Sizes, <1>25 DEF BroadcastLock, ConnOK, Thread, FilesOK, About, Busy,
       Walking, Fresh, Steady, Covered, Cover, CoverOf
  <1>26. ASSUME NEW w \in Workers, BroadcastSend(w) PROVE Cover'
    BY Sizes, <1>26 DEF BroadcastSend, Delivered, Refused, ConnOK, Thread, FilesOK,
       About, Busy, Walking, Fresh, Steady, Covered, Cover, CoverOf
  <1>27. ASSUME NEW w \in Workers, BroadcastDone(w) PROVE Cover'
    BY Sizes, <1>27 DEF BroadcastDone, ConnOK, Thread, FilesOK, About, Busy,
       Walking, Fresh, Steady, Covered, Cover, CoverOf
  <1>28. CASE Sigterm
    BY Sizes, <1>28 DEF Sigterm, ConnOK, Thread, FilesOK, About, Busy, Walking,
       Fresh, Steady, Covered, Cover, CoverOf
  <1>29. CASE Exit
    BY Sizes, <1>29 DEF Exit, NoRequest, NoScan, NoHist, ConnOK, Thread, FilesOK,
       About, Busy, Walking, Fresh, Steady, Covered, Cover, CoverOf
  <1>30. CASE UNCHANGED vars
    BY Sizes, <1>30 DEF vars, ConnOK, Thread, FilesOK, About, Busy, Walking, Fresh,
       Steady, Covered, Cover, CoverOf
  <1> QED
    BY WalkIs, <1>1, <1>2, <1>3, <1>4, <1>5, <1>6, <1>7, <1>8, <1>9, <1>10, <1>11, <1>12,
       <1>13, <1>14, <1>15, <1>16, <1>17, <1>18, <1>19, <1>20, <1>21, <1>22, <1>23,
       <1>24, <1>25, <1>26, <1>27, <1>28, <1>29, <1>30 DEF Next, ConnStep,
       BroadcastStep

(* The active scans are those that are registered.                         *)
LEMMA ActiveStep ==
    ASSUME SocketsOK, ConnOK, FlagOK, FilesOK, Fresh, RowsRun, ActiveOK,
           [Next]_vars
    PROVE  ActiveOK'
  <1>1. ASSUME NEW c \in Conns, Connect(c) PROVE ActiveOK'
    <2>1. active' = active
      BY <1>1, ConnectDoes
    <2>2. Active' = Active
      BY <1>1, ConnectDoes DEF Fresh, Active, ScanPoints
    <2>3. \A d \in Active : Entry(d)' = Entry(d)
      BY <1>1, ConnectDoes DEF Fresh, Entry, Active, ScanPoints
    <2> QED BY <2>1, <2>2, <2>3 DEF ActiveOK
  <1>2. ASSUME NEW c \in Conns, Ask(c) PROVE ActiveOK'
    BY <1>2 DEF Ask, Event, NoRequest, Active, Entry, ActiveOK
  <1>3. ASSUME NEW c \in Conns, Read(c) PROVE ActiveOK'
    BY <1>3 DEF Read, Active, Entry, ActiveOK
  <1>4. ASSUME NEW c \in Conns, Behave(c) PROVE ActiveOK'
    BY <1>4 DEF Behave, Event, Active, Entry, ActiveOK
  <1>5. ASSUME NEW c \in Conns, Register(c) PROVE ActiveOK'
    <2>1. active' = active
      BY <1>5, RegisterDoes
    <2>2. Active' = Active
      BY <1>5, RegisterDoes DEF Active, ScanPoints
    <2>3. \A d \in Active : Entry(d)' = Entry(d)
      BY <1>5, RegisterDoes DEF Entry, Active, ScanPoints
    <2> QED BY <2>1, <2>2, <2>3 DEF ActiveOK
  <1>6. ASSUME NEW c \in Conns, ScanStart(c) PROVE ActiveOK'
    <2>1. active' = active
      BY <1>6, ScanStartDoes
    <2>2. Active' = Active
      BY <1>6, ScanStartDoes DEF Active, ScanPoints
    <2>3. \A d \in Active : Entry(d)' = Entry(d)
      BY <1>6, ScanStartDoes DEF Entry, Active, ScanPoints
    <2> QED BY <2>1, <2>2, <2>3 DEF ActiveOK
  <1>7. ASSUME NEW c \in Conns, ScanCancel(c) PROVE ActiveOK'
    <2>1. active' = active
      BY <1>7, ScanCancelDoes
    <2>2. Active' = Active
      BY <1>7, ScanCancelDoes DEF Active, ScanPoints
    <2>3. \A d \in Active : Entry(d)' = Entry(d)
      BY <1>7, ScanCancelDoes DEF Entry, Active, ScanPoints
    <2> QED BY <2>1, <2>2, <2>3 DEF ActiveOK
  <1>8. ASSUME NEW c \in Conns, Respond(c) PROVE ActiveOK'
    <2>1. active' = active
      BY <1>8, RespondDoes
    <2>2. Active' = Active
      BY <1>8, RespondDoes DEF Active, ScanPoints
    <2>3. \A d \in Active : Entry(d)' = Entry(d)
      BY <1>8, RespondDoes DEF Entry, Active, ScanPoints
    <2> QED BY <2>1, <2>2, <2>3 DEF ActiveOK
  <1>9. ASSUME NEW c \in Conns, EndOfFile(c) PROVE ActiveOK'
    <2>1. active' = active
      BY <1>9, EndOfFileDoes
    <2>2. Active' = Active
      BY <1>9, EndOfFileDoes DEF Active, ScanPoints
    <2>3. \A d \in Active : Entry(d)' = Entry(d)
      BY <1>9, EndOfFileDoes DEF Entry, Active, ScanPoints
    <2> QED BY <2>1, <2>2, <2>3 DEF ActiveOK
  <1>10. ASSUME NEW c \in Conns, Unregister(c) PROVE ActiveOK'
    <2>1. active' = active
      BY <1>10, UnregisterDoes
    <2>2. Active' = Active
      BY <1>10, UnregisterDoes DEF Active, ScanPoints
    <2>3. \A d \in Active : Entry(d)' = Entry(d)
      BY <1>10, UnregisterDoes DEF Entry, Active, ScanPoints
    <2> QED BY <2>1, <2>2, <2>3 DEF ActiveOK
  <1>11. ASSUME NEW c \in Conns, InsertScan(c) PROVE ActiveOK'
    <2>1. active' = active
      BY <1>11, InsertScanDoes
    <2>2. Active' = Active
      BY <1>11, InsertScanDoes DEF Active, ScanPoints
    <2>3. \A d \in Active : Entry(d)' = Entry(d)
      BY <1>11, InsertScanDoes DEF Entry, Active, ScanPoints
    <2> QED BY <2>1, <2>2, <2>3 DEF ActiveOK
  <1>12. ASSUME NEW c \in Conns, Activate(c) PROVE ActiveOK'
    BY <1>12, ActivateDoes DEF ActiveOK, Busy, Walking, Active, Entry, ScanPoints
  <1>13. ASSUME NEW c \in Conns, Greet(c) PROVE ActiveOK'
    BY <1>13, GreetDoes DEF ActiveOK, Busy, Walking, Active, Entry, ScanPoints
  <1>14. ASSUME NEW c \in Conns, Announce(c) PROVE ActiveOK'
    BY <1>14, AnnounceDoes DEF ActiveOK, Busy, Walking, Active, Entry, ScanPoints
  <1>15. ASSUME NEW c \in Conns, WalkEnds(c) PROVE ActiveOK'
    BY <1>15, WalkEndsDoes DEF ActiveOK, Busy, Walking, Active, Entry, ScanPoints
  <1>16. ASSUME NEW c \in Conns, WalkExpands(c) PROVE ActiveOK'
    BY <1>16, WalkExpandsDoes DEF ActiveOK, Busy, Walking, Active, Entry, ScanPoints
  <1>17. ASSUME NEW c \in Conns, WalkPasses(c) PROVE ActiveOK'
    BY <1>17, WalkPassesDoes DEF ActiveOK, Busy, Walking, Active, Entry, ScanPoints
  <1>18. ASSUME NEW c \in Conns, WalkBegins(c) PROVE ActiveOK'
    BY <1>18, WalkBeginsDoes DEF ActiveOK, Busy, Walking, Active, Entry, ScanPoints
  <1>19. ASSUME NEW c \in Conns, ScanFile(c) PROVE ActiveOK'
    BY <1>19, ScanFileDoes DEF ActiveOK, Busy, Walking, Active, Entry, ScanPoints
  <1>20. ASSUME NEW c \in Conns, Detect(c) PROVE ActiveOK'
    BY <1>20, DetectDoes DEF ActiveOK, Busy, Walking, Active, Entry, ScanPoints
  <1>21. ASSUME NEW c \in Conns, Counted(c) PROVE ActiveOK'
    BY <1>21, CountedDoes DEF ActiveOK, Busy, Walking, Active, Entry, ScanPoints
  <1>22. ASSUME NEW c \in Conns, FinishScan(c) PROVE ActiveOK'
    <2>1. Active' = Active \ {c} /\ c \in Active
      BY <1>22, FinishScanDoes DEF Active, ScanPoints
    <2>2. \A d \in Active \ {c} : Entry(d)' = Entry(d)
      BY <1>22, FinishScanDoes DEF Entry, Active
    <2>3. \A d \in Active : conn[d].id = conn[c].id <=> d = c
      BY <2>1 DEF RowsRun, Recorded, Walking, Busy, Active, ScanPoints
    <2>4. \A d \in Active : Entry(d).id = conn[d].id
      BY DEF Entry
    <2>5. active' = {a \in active : a.id # conn[c].id}
      BY <1>22 DEF FinishScan
    <2>6. active' = {Entry(d) : d \in Active \ {c}}
      BY <2>1, <2>3, <2>4, <2>5 DEF ActiveOK
    <2> QED BY <2>1, <2>2, <2>6 DEF ActiveOK
  <1>23. ASSUME NEW f \in Files, Change(f) PROVE ActiveOK'
    BY <1>23 DEF Change, Event, Gone, Active, Entry, ActiveOK
  <1>24. ASSUME NEW w \in Workers, DetectionFound(w) PROVE ActiveOK'
    BY <1>24 DEF DetectionFound, Event, Active, Entry, ActiveOK
  <1>25. ASSUME NEW w \in Workers, BroadcastLock(w) PROVE ActiveOK'
    BY <1>25 DEF BroadcastLock, Active, Entry, ActiveOK
  <1>26. ASSUME NEW w \in Workers, BroadcastSend(w) PROVE ActiveOK'
    BY <1>26 DEF BroadcastSend, Delivered, Refused, Active, Entry, ActiveOK
  <1>27. ASSUME NEW w \in Workers, BroadcastDone(w) PROVE ActiveOK'
    BY <1>27 DEF BroadcastDone, Active, Entry, ActiveOK
  <1>28. CASE Sigterm
    BY <1>28 DEF Sigterm, Active, Entry, ActiveOK
  <1>29. CASE Exit
    <2>1. Active' = {} /\ active' = {}
      BY <1>29 DEF Exit, NoScan, Active, ScanPoints
    <2> QED BY <2>1 DEF ActiveOK
  <1>30. CASE UNCHANGED vars
    BY <1>30 DEF vars, Active, Entry, ActiveOK
  <1> QED
    BY WalkIs, <1>1, <1>2, <1>3, <1>4, <1>5, <1>6, <1>7, <1>8, <1>9, <1>10, <1>11, <1>12,
       <1>13, <1>14, <1>15, <1>16, <1>17, <1>18, <1>19, <1>20, <1>21, <1>22, <1>23,
       <1>24, <1>25, <1>26, <1>27, <1>28, <1>29, <1>30 DEF Next, ConnStep,
       BroadcastStep

(* Requests are accounted for.                                             *)
LEMMA RequestsStep ==
    ASSUME SocketsOK, ConnOK, FlagOK, FilesOK, RowsOK, UsedOK, Waits, Requests,
           [Next]_vars
    PROVE  Requests'
  <1>1. ASSUME NEW c \in Conns, Connect(c) PROVE Requests'
    <2>1. \A d \in Conns : asked'[d].op = "start" => asked[d].op = "start"
      BY <1>1 DEF Connect, SocketsOK
    <2>2. \A d \in Conns : conn'[d].at = "insert" => conn[d].at = "insert"
      BY <1>1, ConnectDoes
    <2>3. used' \in {used, used + 1} /\ Len(rows') = Len(rows)
      BY <1>1, ConnectDoes DEF Connect, RowsOK
    <2>4. used \in Nat
      BY Sizes DEF UsedOK
    <2>5. Pending' \subseteq Pending
      BY <2>1, <2>2 DEF Pending
    <2> QED BY <2>3, <2>4, <2>5, PendingFalls
  <1>2. ASSUME NEW c \in Conns, Ask(c) PROVE Requests'
    <2>1. Cardinality(Pending) \in Nat /\ Len(rows) \in Nat /\ used \in Nat
      BY Finite, Sizes, LenProperties DEF RowsOK, UsedOK
    <2>2. used' = used + 1 /\ conn' = conn /\ rows' = rows
      BY <1>2 DEF Ask, Event
    <2>3. Pending' \subseteq Pending \cup {c}
      BY <1>2, <2>2 DEF Ask, Pending, SocketsOK
    <2>4. /\ IsFiniteSet(Pending \cup {c})
          /\ Cardinality(Pending \cup {c}) \in Nat
          /\ Cardinality(Pending \cup {c}) <= Cardinality(Pending) + 1
      <3>1. IsFiniteSet(Pending)
        BY Finite
      <3>2. /\ IsFiniteSet(Pending \cup {c})
            /\ Cardinality(Pending \cup {c}) =
                  IF c \in Pending THEN Cardinality(Pending) ELSE Cardinality(Pending) + 1
        BY <3>1, FS_AddElement
      <3> QED BY <2>1, <3>2
    <2>5. Cardinality(Pending') \in Nat /\ Cardinality(Pending') <= Cardinality(Pending \cup {c})
      BY <2>3, <2>4, FS_Subset, FS_CardinalityType
    <2> QED BY <2>1, <2>2, <2>4, <2>5 DEF Requests
  <1>3. ASSUME NEW c \in Conns, Read(c) PROVE Requests'
    <2>1. \A d \in Conns : asked'[d].op = "start" => asked[d].op = "start"
      BY <1>3 DEF Read, SocketsOK
    <2>2. \A d \in Conns : conn'[d].at = "insert" => conn[d].at = "insert"
      BY <1>3 DEF Read
    <2>3. used' \in {used, used + 1} /\ Len(rows') = Len(rows)
      BY <1>3 DEF Read, RowsOK
    <2>4. used \in Nat
      BY Sizes DEF UsedOK
    <2>5. Pending' \subseteq Pending
      BY <2>1, <2>2 DEF Pending
    <2> QED BY <2>3, <2>4, <2>5, PendingFalls
  <1>4. ASSUME NEW c \in Conns, Behave(c) PROVE Requests'
    <2>1. \A d \in Conns : asked'[d].op = "start" => asked[d].op = "start"
      BY <1>4 DEF Behave, Event, SocketsOK
    <2>2. \A d \in Conns : conn'[d].at = "insert" => conn[d].at = "insert"
      BY <1>4 DEF Behave, Event
    <2>3. used' \in {used, used + 1} /\ Len(rows') = Len(rows)
      BY <1>4 DEF Behave, Event, RowsOK
    <2>4. used \in Nat
      BY Sizes DEF UsedOK
    <2>5. Pending' \subseteq Pending
      BY <2>1, <2>2 DEF Pending
    <2> QED BY <2>3, <2>4, <2>5, PendingFalls
  <1>5. ASSUME NEW c \in Conns, Register(c) PROVE Requests'
    <2>1. \A d \in Conns : asked'[d].op = "start" => asked[d].op = "start"
      BY <1>5 DEF Register, At, Goto, SocketsOK
    <2>2. \A d \in Conns : conn'[d].at = "insert" => conn[d].at = "insert"
      BY <1>5, RegisterDoes
    <2>3. used' \in {used, used + 1} /\ Len(rows') = Len(rows)
      BY <1>5, RegisterDoes DEF Register, At, Goto, RowsOK
    <2>4. used \in Nat
      BY Sizes DEF UsedOK
    <2>5. Pending' \subseteq Pending
      BY <2>1, <2>2 DEF Pending
    <2> QED BY <2>3, <2>4, <2>5, PendingFalls
  <1>6. ASSUME NEW c \in Conns, ScanStart(c) PROVE Requests'
    <2>1. asked[c].op = "start" /\ \A d \in Conns : asked'[d].op = "start" => asked[d].op = "start"
      BY <1>6 DEF ScanStart, Taken, NoRequest, SocketsOK
    <2>2. \A d \in Conns : conn'[d].at = "insert" => d = c \/ conn[d].at = "insert"
      BY <1>6, ScanStartDoes
    <2>3. used' \in {used, used + 1} /\ Len(rows') = Len(rows)
      BY <1>6, ScanStartDoes
    <2>4. used \in Nat
      BY Sizes DEF UsedOK
    <2>5. Pending' \subseteq Pending
      BY <2>1, <2>2 DEF Pending
    <2> QED BY <2>3, <2>4, <2>5, PendingFalls
  <1>7. ASSUME NEW c \in Conns, ScanCancel(c) PROVE Requests'
    <2>1. \A d \in Conns : asked'[d].op = "start" => asked[d].op = "start"
      BY <1>7 DEF ScanCancel, At, Goto, Taken, Hit, NoRequest, SocketsOK
    <2>2. \A d \in Conns : conn'[d].at = "insert" => conn[d].at = "insert"
      BY <1>7, ScanCancelDoes
    <2>3. used' \in {used, used + 1} /\ Len(rows') = Len(rows)
      BY <1>7, ScanCancelDoes DEF ScanCancel, At, Goto, Taken, Hit, NoRequest, RowsOK
    <2>4. used \in Nat
      BY Sizes DEF UsedOK
    <2>5. Pending' \subseteq Pending
      BY <2>1, <2>2 DEF Pending
    <2> QED BY <2>3, <2>4, <2>5, PendingFalls
  <1>8. ASSUME NEW c \in Conns, Respond(c) PROVE Requests'
    <2>1. \A d \in Conns : asked'[d].op = "start" => asked[d].op = "start"
      BY <1>8 DEF Respond, At, Goto, Delivered, Refused, SocketsOK
    <2>2. \A d \in Conns : conn'[d].at = "insert" => conn[d].at = "insert"
      BY <1>8, RespondDoes
    <2>3. used' \in {used, used + 1} /\ Len(rows') = Len(rows)
      BY <1>8, RespondDoes DEF Respond, At, Goto, Delivered, Refused, RowsOK
    <2>4. used \in Nat
      BY Sizes DEF UsedOK
    <2>5. Pending' \subseteq Pending
      BY <2>1, <2>2 DEF Pending
    <2> QED BY <2>3, <2>4, <2>5, PendingFalls
  <1>9. ASSUME NEW c \in Conns, EndOfFile(c) PROVE Requests'
    <2>1. \A d \in Conns : asked'[d].op = "start" => asked[d].op = "start"
      BY <1>9 DEF EndOfFile, At, Goto, SocketsOK
    <2>2. \A d \in Conns : conn'[d].at = "insert" => conn[d].at = "insert"
      BY <1>9, EndOfFileDoes
    <2>3. used' \in {used, used + 1} /\ Len(rows') = Len(rows)
      BY <1>9, EndOfFileDoes DEF EndOfFile, At, Goto, RowsOK
    <2>4. used \in Nat
      BY Sizes DEF UsedOK
    <2>5. Pending' \subseteq Pending
      BY <2>1, <2>2 DEF Pending
    <2> QED BY <2>3, <2>4, <2>5, PendingFalls
  <1>10. ASSUME NEW c \in Conns, Unregister(c) PROVE Requests'
    <2>1. \A d \in Conns : asked'[d].op = "start" => asked[d].op = "start"
      BY <1>10 DEF Unregister, At, Goto, SocketsOK
    <2>2. \A d \in Conns : conn'[d].at = "insert" => conn[d].at = "insert"
      BY <1>10, UnregisterDoes
    <2>3. used' \in {used, used + 1} /\ Len(rows') = Len(rows)
      BY <1>10, UnregisterDoes DEF Unregister, At, Goto, RowsOK
    <2>4. used \in Nat
      BY Sizes DEF UsedOK
    <2>5. Pending' \subseteq Pending
      BY <2>1, <2>2 DEF Pending
    <2> QED BY <2>3, <2>4, <2>5, PendingFalls
  <1>11. ASSUME NEW c \in Conns, InsertScan(c) PROVE Requests'
    <2>1. Cardinality(Pending) \in Nat /\ Len(rows) \in Nat /\ used \in Nat
      BY Finite, Sizes, LenProperties DEF RowsOK, UsedOK
    <2>2. used' = used /\ asked' = asked /\ Len(rows') = Len(rows) + 1
      BY <1>11, InsertScanDoes, LenProperties, AppendProperties DEF InsertScan, RowsOK
    <2>3. c \in Pending /\ asked[c].op # "start"
      BY <1>11, InsertScanDoes DEF Pending, Waits
    <2>4. Pending' \subseteq Pending \ {c}
      BY <1>11, <2>2, <2>3, InsertScanDoes DEF Pending
    <2>5. IsFiniteSet(Pending \ {c}) /\ Cardinality(Pending \ {c}) = Cardinality(Pending) - 1
      BY <2>3, Finite, FS_RemoveElement
    <2>6. Cardinality(Pending') \in Nat /\ Cardinality(Pending') <= Cardinality(Pending \ {c})
      BY <2>4, <2>5, FS_Subset, FS_CardinalityType
    <2> QED BY <2>1, <2>2, <2>5, <2>6 DEF Requests
  <1>12. ASSUME NEW c \in Conns, Activate(c) PROVE Requests'
    <2>1. \A d \in Conns : asked'[d].op = "start" => asked[d].op = "start"
      BY <1>12 DEF Activate, At, Goto, SocketsOK
    <2>2. \A d \in Conns : conn'[d].at = "insert" => conn[d].at = "insert"
      BY <1>12, ActivateDoes
    <2>3. used' \in {used, used + 1} /\ Len(rows') = Len(rows)
      BY <1>12, ActivateDoes DEF Activate, At, Goto, RowsOK
    <2>4. used \in Nat
      BY Sizes DEF UsedOK
    <2>5. Pending' \subseteq Pending
      BY <2>1, <2>2 DEF Pending
    <2> QED BY <2>3, <2>4, <2>5, PendingFalls
  <1>13. ASSUME NEW c \in Conns, Greet(c) PROVE Requests'
    <2>1. \A d \in Conns : asked'[d].op = "start" => asked[d].op = "start"
      BY <1>13 DEF Greet, At, Event, SendOrCancel, Delivered, Refused, SocketsOK
    <2>2. \A d \in Conns : conn'[d].at = "insert" => conn[d].at = "insert"
      BY <1>13, GreetDoes
    <2>3. used' \in {used, used + 1} /\ Len(rows') = Len(rows)
      BY <1>13, GreetDoes DEF Greet, At, Event, SendOrCancel, Delivered, Refused, RowsOK
    <2>4. used \in Nat
      BY Sizes DEF UsedOK
    <2>5. Pending' \subseteq Pending
      BY <2>1, <2>2 DEF Pending
    <2> QED BY <2>3, <2>4, <2>5, PendingFalls
  <1>14. ASSUME NEW c \in Conns, Announce(c) PROVE Requests'
    <2>1. \A d \in Conns : asked'[d].op = "start" => asked[d].op = "start"
      BY <1>14 DEF Announce, At, SendOrCancel, Delivered, Refused, SocketsOK
    <2>2. \A d \in Conns : conn'[d].at = "insert" => conn[d].at = "insert"
      BY <1>14, AnnounceDoes
    <2>3. used' \in {used, used + 1} /\ Len(rows') = Len(rows)
      BY <1>14, AnnounceDoes DEF Announce, At, SendOrCancel, Delivered, Refused, RowsOK
    <2>4. used \in Nat
      BY Sizes DEF UsedOK
    <2>5. Pending' \subseteq Pending
      BY <2>1, <2>2 DEF Pending
    <2> QED BY <2>3, <2>4, <2>5, PendingFalls
  <1>15. ASSUME NEW c \in Conns, WalkEnds(c) PROVE Requests'
    <2>1. \A d \in Conns : asked'[d].op = "start" => asked[d].op = "start"
      BY <1>15 DEF WalkEnds, At, Ending, SocketsOK
    <2>2. \A d \in Conns : conn'[d].at = "insert" => conn[d].at = "insert"
      BY <1>15, WalkEndsDoes
    <2>3. used' \in {used, used + 1} /\ Len(rows') = Len(rows)
      BY <1>15, WalkEndsDoes DEF WalkEnds, At, Ending, RowsOK
    <2>4. used \in Nat
      BY Sizes DEF UsedOK
    <2>5. Pending' \subseteq Pending
      BY <2>1, <2>2 DEF Pending
    <2> QED BY <2>3, <2>4, <2>5, PendingFalls
  <1>16. ASSUME NEW c \in Conns, WalkExpands(c) PROVE Requests'
    <2>1. \A d \in Conns : asked'[d].op = "start" => asked[d].op = "start"
      BY <1>16 DEF WalkExpands, At, Event, Left, Expand, SocketsOK
    <2>2. \A d \in Conns : conn'[d].at = "insert" => conn[d].at = "insert"
      BY <1>16, WalkExpandsDoes
    <2>3. used' \in {used, used + 1} /\ Len(rows') = Len(rows)
      BY <1>16, WalkExpandsDoes DEF WalkExpands, At, Event, Left, Expand, RowsOK
    <2>4. used \in Nat
      BY Sizes DEF UsedOK
    <2>5. Pending' \subseteq Pending
      BY <2>1, <2>2 DEF Pending
    <2> QED BY <2>3, <2>4, <2>5, PendingFalls
  <1>17. ASSUME NEW c \in Conns, WalkPasses(c) PROVE Requests'
    <2>1. \A d \in Conns : asked'[d].op = "start" => asked[d].op = "start"
      BY <1>17 DEF WalkPasses, At, Event, Left, PassOver, Scannable, SocketsOK
    <2>2. \A d \in Conns : conn'[d].at = "insert" => conn[d].at = "insert"
      BY <1>17, WalkPassesDoes
    <2>3. used' \in {used, used + 1} /\ Len(rows') = Len(rows)
      BY <1>17, WalkPassesDoes DEF WalkPasses, At, Event, Left, PassOver, Scannable, RowsOK
    <2>4. used \in Nat
      BY Sizes DEF UsedOK
    <2>5. Pending' \subseteq Pending
      BY <2>1, <2>2 DEF Pending
    <2> QED BY <2>3, <2>4, <2>5, PendingFalls
  <1>18. ASSUME NEW c \in Conns, WalkBegins(c) PROVE Requests'
    <2>1. \A d \in Conns : asked'[d].op = "start" => asked[d].op = "start"
      BY <1>18 DEF WalkBegins, At, Begin, Scannable, SocketsOK
    <2>2. \A d \in Conns : conn'[d].at = "insert" => conn[d].at = "insert"
      BY <1>18, WalkBeginsDoes
    <2>3. used' \in {used, used + 1} /\ Len(rows') = Len(rows)
      BY <1>18, WalkBeginsDoes DEF WalkBegins, At, Begin, Scannable, RowsOK
    <2>4. used \in Nat
      BY Sizes DEF UsedOK
    <2>5. Pending' \subseteq Pending
      BY <2>1, <2>2 DEF Pending
    <2> QED BY <2>3, <2>4, <2>5, PendingFalls
  <1>19. ASSUME NEW c \in Conns, ScanFile(c) PROVE Requests'
    <2>1. \A d \in Conns : asked'[d].op = "start" => asked[d].op = "start"
      BY <1>19 DEF ScanFile, At, Event, Left, Goto, Ending, SocketsOK
    <2>2. \A d \in Conns : conn'[d].at = "insert" => conn[d].at = "insert"
      BY <1>19, ScanFileDoes
    <2>3. used' \in {used, used + 1} /\ Len(rows') = Len(rows)
      BY <1>19, ScanFileDoes DEF ScanFile, At, Event, Left, Goto, Ending, RowsOK
    <2>4. used \in Nat
      BY Sizes DEF UsedOK
    <2>5. Pending' \subseteq Pending
      BY <2>1, <2>2 DEF Pending
    <2> QED BY <2>3, <2>4, <2>5, PendingFalls
  <1>20. ASSUME NEW c \in Conns, Detect(c) PROVE Requests'
    <2>1. \A d \in Conns : asked'[d].op = "start" => asked[d].op = "start"
      BY <1>20 DEF Detect, At, Goto, Gone, SendOrCancel, Delivered, Refused, SocketsOK
    <2>2. \A d \in Conns : conn'[d].at = "insert" => conn[d].at = "insert"
      BY <1>20, DetectDoes
    <2>3. used' \in {used, used + 1} /\ Len(rows') = Len(rows)
      BY <1>20, DetectDoes DEF Detect, At, Goto, Gone, SendOrCancel, Delivered, Refused, RowsOK
    <2>4. used \in Nat
      BY Sizes DEF UsedOK
    <2>5. Pending' \subseteq Pending
      BY <2>1, <2>2 DEF Pending
    <2> QED BY <2>3, <2>4, <2>5, PendingFalls
  <1>21. ASSUME NEW c \in Conns, Counted(c) PROVE Requests'
    <2>1. \A d \in Conns : asked'[d].op = "start" => asked[d].op = "start"
      BY <1>21 DEF Counted, At, SendOrCancel, Delivered, Refused, SocketsOK
    <2>2. \A d \in Conns : conn'[d].at = "insert" => conn[d].at = "insert"
      BY <1>21, CountedDoes
    <2>3. used' \in {used, used + 1} /\ Len(rows') = Len(rows)
      BY <1>21, CountedDoes DEF Counted, At, SendOrCancel, Delivered, Refused, RowsOK
    <2>4. used \in Nat
      BY Sizes DEF UsedOK
    <2>5. Pending' \subseteq Pending
      BY <2>1, <2>2 DEF Pending
    <2> QED BY <2>3, <2>4, <2>5, PendingFalls
  <1>22. ASSUME NEW c \in Conns, FinishScan(c) PROVE Requests'
    <2>1. \A d \in Conns : asked'[d].op = "start" => asked[d].op = "start"
      BY <1>22 DEF FinishScan, At, Returns, NoScan, NoHist, SocketsOK
    <2>2. \A d \in Conns : conn'[d].at = "insert" => conn[d].at = "insert"
      BY <1>22, FinishScanDoes
    <2>3. used' \in {used, used + 1} /\ Len(rows') = Len(rows)
      BY <1>22 DEF FinishScan, At, Returns, NoScan, NoHist, RowsOK
    <2>4. used \in Nat
      BY Sizes DEF UsedOK
    <2>5. Pending' \subseteq Pending
      BY <2>1, <2>2 DEF Pending
    <2> QED BY <2>3, <2>4, <2>5, PendingFalls
  <1>23. ASSUME NEW f \in Files, Change(f) PROVE Requests'
    <2>1. \A d \in Conns : asked'[d].op = "start" => asked[d].op = "start"
      BY <1>23 DEF Change, Event, Gone, SocketsOK
    <2>2. \A d \in Conns : conn'[d].at = "insert" => conn[d].at = "insert"
      BY <1>23 DEF Change, Event, Gone
    <2>3. used' \in {used, used + 1} /\ Len(rows') = Len(rows)
      BY <1>23 DEF Change, Event, Gone, RowsOK
    <2>4. used \in Nat
      BY Sizes DEF UsedOK
    <2>5. Pending' \subseteq Pending
      BY <2>1, <2>2 DEF Pending
    <2> QED BY <2>3, <2>4, <2>5, PendingFalls
  <1>24. ASSUME NEW w \in Workers, DetectionFound(w) PROVE Requests'
    <2>1. \A d \in Conns : asked'[d].op = "start" => asked[d].op = "start"
      BY <1>24 DEF DetectionFound, Event, SocketsOK
    <2>2. \A d \in Conns : conn'[d].at = "insert" => conn[d].at = "insert"
      BY <1>24 DEF DetectionFound, Event
    <2>3. used' \in {used, used + 1} /\ Len(rows') = Len(rows)
      BY <1>24 DEF DetectionFound, Event, RowsOK
    <2>4. used \in Nat
      BY Sizes DEF UsedOK
    <2>5. Pending' \subseteq Pending
      BY <2>1, <2>2 DEF Pending
    <2> QED BY <2>3, <2>4, <2>5, PendingFalls
  <1>25. ASSUME NEW w \in Workers, BroadcastLock(w) PROVE Requests'
    <2>1. \A d \in Conns : asked'[d].op = "start" => asked[d].op = "start"
      BY <1>25 DEF BroadcastLock, SocketsOK
    <2>2. \A d \in Conns : conn'[d].at = "insert" => conn[d].at = "insert"
      BY <1>25 DEF BroadcastLock
    <2>3. used' \in {used, used + 1} /\ Len(rows') = Len(rows)
      BY <1>25 DEF BroadcastLock, RowsOK
    <2>4. used \in Nat
      BY Sizes DEF UsedOK
    <2>5. Pending' \subseteq Pending
      BY <2>1, <2>2 DEF Pending
    <2> QED BY <2>3, <2>4, <2>5, PendingFalls
  <1>26. ASSUME NEW w \in Workers, BroadcastSend(w) PROVE Requests'
    <2>1. \A d \in Conns : asked'[d].op = "start" => asked[d].op = "start"
      BY <1>26 DEF BroadcastSend, Delivered, Refused, SocketsOK
    <2>2. \A d \in Conns : conn'[d].at = "insert" => conn[d].at = "insert"
      BY <1>26 DEF BroadcastSend, Delivered, Refused
    <2>3. used' \in {used, used + 1} /\ Len(rows') = Len(rows)
      BY <1>26 DEF BroadcastSend, Delivered, Refused, RowsOK
    <2>4. used \in Nat
      BY Sizes DEF UsedOK
    <2>5. Pending' \subseteq Pending
      BY <2>1, <2>2 DEF Pending
    <2> QED BY <2>3, <2>4, <2>5, PendingFalls
  <1>27. ASSUME NEW w \in Workers, BroadcastDone(w) PROVE Requests'
    <2>1. \A d \in Conns : asked'[d].op = "start" => asked[d].op = "start"
      BY <1>27 DEF BroadcastDone, SocketsOK
    <2>2. \A d \in Conns : conn'[d].at = "insert" => conn[d].at = "insert"
      BY <1>27 DEF BroadcastDone
    <2>3. used' \in {used, used + 1} /\ Len(rows') = Len(rows)
      BY <1>27 DEF BroadcastDone, RowsOK
    <2>4. used \in Nat
      BY Sizes DEF UsedOK
    <2>5. Pending' \subseteq Pending
      BY <2>1, <2>2 DEF Pending
    <2> QED BY <2>3, <2>4, <2>5, PendingFalls
  <1>28. CASE Sigterm
    <2>1. \A d \in Conns : asked'[d].op = "start" => asked[d].op = "start"
      BY <1>28 DEF Sigterm, SocketsOK
    <2>2. \A d \in Conns : conn'[d].at = "insert" => conn[d].at = "insert"
      BY <1>28 DEF Sigterm
    <2>3. used' \in {used, used + 1} /\ Len(rows') = Len(rows)
      BY <1>28 DEF Sigterm, RowsOK
    <2>4. used \in Nat
      BY Sizes DEF UsedOK
    <2>5. Pending' \subseteq Pending
      BY <2>1, <2>2 DEF Pending
    <2> QED BY <2>3, <2>4, <2>5, PendingFalls
  <1>29. CASE Exit
    <2>1. Cardinality(Pending) \in Nat /\ Len(rows) \in Nat /\ used \in Nat
      BY Finite, Sizes, LenProperties DEF RowsOK, UsedOK
    <2>2. Pending' = {} /\ rows' = rows /\ used' = used
      BY <1>29 DEF Exit, Pending, NoRequest, NoScan
    <2> QED BY <2>1, <2>2, FS_EmptySet, PendingFalls
  <1>30. CASE UNCHANGED vars
    BY <1>30 DEF vars, Requests, Pending
  <1> QED
    BY WalkIs, <1>1, <1>2, <1>3, <1>4, <1>5, <1>6, <1>7, <1>8, <1>9, <1>10, <1>11, <1>12,
       <1>13, <1>14, <1>15, <1>16, <1>17, <1>18, <1>19, <1>20, <1>21, <1>22, <1>23,
       <1>24, <1>25, <1>26, <1>27, <1>28, <1>29, <1>30 DEF Next, ConnStep,
       BroadcastStep

(* A request waits for its thread.                                         *)
LEMMA WaitsStep ==
    ASSUME SocketsOK, ConnOK, FlagOK, FilesOK, Fresh, Waits, [Next]_vars
    PROVE  Waits'
  <1>1. ASSUME NEW c \in Conns, Connect(c) PROVE Waits'
    <2>1. \A d \in Conns : asked'[d].op = "start" => asked[d].op = "start"
      BY <1>1 DEF Connect, SocketsOK
    <2> QED BY <1>1, <2>1, ConnectDoes DEF Waits, Fresh
  <1>2. ASSUME NEW c \in Conns, Ask(c) PROVE Waits'
    BY <1>2 DEF Ask, Event, NoRequest, SocketsOK, Waits
  <1>3. ASSUME NEW c \in Conns, Read(c) PROVE Waits'
    BY <1>3 DEF Read, SocketsOK, Waits
  <1>4. ASSUME NEW c \in Conns, Behave(c) PROVE Waits'
    BY <1>4 DEF Behave, Event, SocketsOK, Waits
  <1>5. ASSUME NEW c \in Conns, Register(c) PROVE Waits'
    <2>1. \A d \in Conns : asked'[d].op = "start" => asked[d].op = "start"
      BY <1>5 DEF Register, At, Goto, SocketsOK
    <2> QED BY <1>5, <2>1, RegisterDoes DEF Waits, Fresh
  <1>6. ASSUME NEW c \in Conns, ScanStart(c) PROVE Waits'
    <2>1. \A d \in Conns : asked'[d].op = "start" => asked[d].op = "start" /\ d # c
      BY <1>6 DEF ScanStart, At, Goto, Taken, Event, NoRequest, NoScan, NoHist, SocketsOK
    <2> QED BY <1>6, <2>1, ScanStartDoes DEF Waits, Fresh
  <1>7. ASSUME NEW c \in Conns, ScanCancel(c) PROVE Waits'
    <2>1. \A d \in Conns : asked'[d].op = "start" => asked[d].op = "start" /\ d # c
      BY <1>7 DEF ScanCancel, At, Goto, Taken, Hit, NoRequest, SocketsOK
    <2> QED BY <1>7, <2>1, ScanCancelDoes DEF Waits, Fresh
  <1>8. ASSUME NEW c \in Conns, Respond(c) PROVE Waits'
    <2>1. \A d \in Conns : asked'[d].op = "start" => asked[d].op = "start"
      BY <1>8 DEF Respond, At, Goto, Delivered, Refused, SocketsOK
    <2> QED BY <1>8, <2>1, RespondDoes DEF Waits, Fresh
  <1>9. ASSUME NEW c \in Conns, EndOfFile(c) PROVE Waits'
    <2>1. asked' = asked /\ asked[c].op = "none"
      BY <1>9 DEF EndOfFile, NoRequest
    <2> QED BY <1>9, <2>1, EndOfFileDoes DEF Waits
  <1>10. ASSUME NEW c \in Conns, Unregister(c) PROVE Waits'
    <2>1. \A d \in Conns : asked'[d].op = "start" => asked[d].op = "start"
      BY <1>10 DEF Unregister, At, Goto, SocketsOK
    <2> QED BY <1>10, <2>1, UnregisterDoes DEF Waits, Fresh
  <1>11. ASSUME NEW c \in Conns, InsertScan(c) PROVE Waits'
    <2>1. \A d \in Conns : asked'[d].op = "start" => asked[d].op = "start"
      BY <1>11 DEF InsertScan, At, SocketsOK
    <2> QED BY <1>11, <2>1, InsertScanDoes DEF Waits, Fresh
  <1>12. ASSUME NEW c \in Conns, Activate(c) PROVE Waits'
    <2>1. \A d \in Conns : asked'[d].op = "start" => asked[d].op = "start"
      BY <1>12 DEF Activate, At, Goto, SocketsOK
    <2> QED BY <1>12, <2>1, ActivateDoes DEF Waits, Fresh
  <1>13. ASSUME NEW c \in Conns, Greet(c) PROVE Waits'
    <2>1. \A d \in Conns : asked'[d].op = "start" => asked[d].op = "start"
      BY <1>13 DEF Greet, At, Event, SendOrCancel, Delivered, Refused, SocketsOK
    <2> QED BY <1>13, <2>1, GreetDoes DEF Waits, Fresh
  <1>14. ASSUME NEW c \in Conns, Announce(c) PROVE Waits'
    <2>1. \A d \in Conns : asked'[d].op = "start" => asked[d].op = "start"
      BY <1>14 DEF Announce, At, SendOrCancel, Delivered, Refused, SocketsOK
    <2> QED BY <1>14, <2>1, AnnounceDoes DEF Waits, Fresh
  <1>15. ASSUME NEW c \in Conns, WalkEnds(c) PROVE Waits'
    <2>1. \A d \in Conns : asked'[d].op = "start" => asked[d].op = "start"
      BY <1>15 DEF WalkEnds, At, Ending, SocketsOK
    <2> QED BY <1>15, <2>1, WalkEndsDoes DEF Waits, Fresh
  <1>16. ASSUME NEW c \in Conns, WalkExpands(c) PROVE Waits'
    <2>1. \A d \in Conns : asked'[d].op = "start" => asked[d].op = "start"
      BY <1>16 DEF WalkExpands, At, Event, Left, Expand, SocketsOK
    <2> QED BY <1>16, <2>1, WalkExpandsDoes DEF Waits, Fresh
  <1>17. ASSUME NEW c \in Conns, WalkPasses(c) PROVE Waits'
    <2>1. \A d \in Conns : asked'[d].op = "start" => asked[d].op = "start"
      BY <1>17 DEF WalkPasses, At, Event, Left, PassOver, Scannable, SocketsOK
    <2> QED BY <1>17, <2>1, WalkPassesDoes DEF Waits, Fresh
  <1>18. ASSUME NEW c \in Conns, WalkBegins(c) PROVE Waits'
    <2>1. \A d \in Conns : asked'[d].op = "start" => asked[d].op = "start"
      BY <1>18 DEF WalkBegins, At, Begin, Scannable, SocketsOK
    <2> QED BY <1>18, <2>1, WalkBeginsDoes DEF Waits, Fresh
  <1>19. ASSUME NEW c \in Conns, ScanFile(c) PROVE Waits'
    <2>1. \A d \in Conns : asked'[d].op = "start" => asked[d].op = "start"
      BY <1>19 DEF ScanFile, At, Event, Left, Goto, Ending, SocketsOK
    <2> QED BY <1>19, <2>1, ScanFileDoes DEF Waits, Fresh
  <1>20. ASSUME NEW c \in Conns, Detect(c) PROVE Waits'
    <2>1. \A d \in Conns : asked'[d].op = "start" => asked[d].op = "start"
      BY <1>20 DEF Detect, At, Goto, Gone, SendOrCancel, Delivered, Refused, SocketsOK
    <2> QED BY <1>20, <2>1, DetectDoes DEF Waits, Fresh
  <1>21. ASSUME NEW c \in Conns, Counted(c) PROVE Waits'
    <2>1. \A d \in Conns : asked'[d].op = "start" => asked[d].op = "start"
      BY <1>21 DEF Counted, At, SendOrCancel, Delivered, Refused, SocketsOK
    <2> QED BY <1>21, <2>1, CountedDoes DEF Waits, Fresh
  <1>22. ASSUME NEW c \in Conns, FinishScan(c) PROVE Waits'
    <2>1. \A d \in Conns : asked'[d].op = "start" => asked[d].op = "start"
      BY <1>22 DEF FinishScan, At, Returns, NoScan, NoHist, SocketsOK
    <2> QED BY <1>22, <2>1, FinishScanDoes DEF Waits, Fresh
  <1>23. ASSUME NEW f \in Files, Change(f) PROVE Waits'
    BY <1>23 DEF Change, Event, Gone, SocketsOK, Waits
  <1>24. ASSUME NEW w \in Workers, DetectionFound(w) PROVE Waits'
    BY <1>24 DEF DetectionFound, Event, SocketsOK, Waits
  <1>25. ASSUME NEW w \in Workers, BroadcastLock(w) PROVE Waits'
    BY <1>25 DEF BroadcastLock, SocketsOK, Waits
  <1>26. ASSUME NEW w \in Workers, BroadcastSend(w) PROVE Waits'
    BY <1>26 DEF BroadcastSend, Delivered, Refused, SocketsOK, Waits
  <1>27. ASSUME NEW w \in Workers, BroadcastDone(w) PROVE Waits'
    BY <1>27 DEF BroadcastDone, SocketsOK, Waits
  <1>28. CASE Sigterm
    BY <1>28 DEF Sigterm, SocketsOK, Waits
  <1>29. CASE Exit
    BY <1>29 DEF Exit, NoRequest, NoScan, NoHist, SocketsOK, Waits
  <1>30. CASE UNCHANGED vars
    BY <1>30 DEF vars, SocketsOK, Waits
  <1> QED
    BY WalkIs, <1>1, <1>2, <1>3, <1>4, <1>5, <1>6, <1>7, <1>8, <1>9, <1>10, <1>11, <1>12,
       <1>13, <1>14, <1>15, <1>16, <1>17, <1>18, <1>19, <1>20, <1>21, <1>22, <1>23,
       <1>24, <1>25, <1>26, <1>27, <1>28, <1>29, <1>30 DEF Next, ConnStep,
       BroadcastStep

(* Only rows of the table are named.                                       *)
LEMMA KnownStep ==
    ASSUME SocketsOK, ConnOK, FlagOK, FilesOK, RowsOK, Known, [Next]_vars
    PROVE  Known'
  <1>1. ASSUME NEW c \in Conns, Connect(c) PROVE Known'
    <2>1. rows' = rows /\ \A d \in Conns : asked'[d].id \in {0, asked[d].id}
      BY <1>1 DEF Connect, SocketsOK
    <2>2. \A d \in Conns : conn'[d].id \in {0, conn[d].id}
      BY <1>1, ConnectDoes
    <2> QED BY <2>1, <2>2, LenProperties DEF Known, RowsOK
  <1>2. ASSUME NEW c \in Conns, Ask(c) PROVE Known'
    <2>1. rows' = rows /\ conn' = conn /\ Len(rows) \in Nat
      BY <1>2, LenProperties DEF Ask, RowsOK
    <2>2. \E i \in 0..Len(rows) : \E o \in {"start", "cancel"} :
             asked' = [asked EXCEPT ![c] = [op |-> o, id |-> i]]
      <3>1. CASE asked' = [asked EXCEPT ![c] = [op |-> "start", id |-> 0]]
        <4>1. 0 \in 0..Len(rows)
          BY <2>1
        <4> QED BY <3>1, <4>1, Zenon
      <3>2. CASE \E i \in 0..Len(rows) : asked' = [asked EXCEPT ![c] = [op |-> "cancel", id |-> i]]
        BY <3>2
      <3> QED BY <1>2, <3>1, <3>2 DEF Ask
    <2>3. \A d \in Conns : asked[d].id \in Nat /\ conn[d].id \in Nat
      BY DEF SocketsOK, ConnOK, Thread
    <2>4. \A d \in Conns : asked'[d].id = asked[d].id \/ asked'[d].id \in 0..Len(rows)
      BY <2>2 DEF SocketsOK
    <2> QED BY <2>1, <2>3, <2>4 DEF Known
  <1>3. ASSUME NEW c \in Conns, Read(c) PROVE Known'
    BY <1>3 DEF Read, SocketsOK, ConnOK, Thread, RowsOK, Known
  <1>4. ASSUME NEW c \in Conns, Behave(c) PROVE Known'
    BY <1>4 DEF Behave, Event, SocketsOK, ConnOK, Thread, RowsOK, Known
  <1>5. ASSUME NEW c \in Conns, Register(c) PROVE Known'
    <2>1. rows' = rows /\ \A d \in Conns : asked'[d].id \in {0, asked[d].id}
      BY <1>5 DEF Register, At, Goto, SocketsOK
    <2>2. \A d \in Conns : conn'[d].id \in {0, conn[d].id}
      BY <1>5, RegisterDoes
    <2> QED BY <2>1, <2>2, LenProperties DEF Known, RowsOK
  <1>6. ASSUME NEW c \in Conns, ScanStart(c) PROVE Known'
    <2>1. rows' = rows /\ \A d \in Conns : asked'[d].id \in {0, asked[d].id}
      BY <1>6 DEF ScanStart, At, Goto, Taken, Event, NoRequest, NoScan, NoHist, SocketsOK
    <2>2. \A d \in Conns : conn'[d].id \in {0, conn[d].id}
      BY <1>6, ScanStartDoes
    <2> QED BY <2>1, <2>2, LenProperties DEF Known, RowsOK
  <1>7. ASSUME NEW c \in Conns, ScanCancel(c) PROVE Known'
    <2>1. rows' = rows /\ \A d \in Conns : asked'[d].id \in {0, asked[d].id}
      BY <1>7 DEF ScanCancel, At, Goto, Taken, Hit, NoRequest, SocketsOK
    <2>2. \A d \in Conns : conn'[d].id \in {0, conn[d].id}
      BY <1>7, ScanCancelDoes
    <2> QED BY <2>1, <2>2, LenProperties DEF Known, RowsOK
  <1>8. ASSUME NEW c \in Conns, Respond(c) PROVE Known'
    <2>1. rows' = rows /\ \A d \in Conns : asked'[d].id \in {0, asked[d].id}
      BY <1>8 DEF Respond, At, Goto, Delivered, Refused, SocketsOK
    <2>2. \A d \in Conns : conn'[d].id \in {0, conn[d].id}
      BY <1>8, RespondDoes
    <2> QED BY <2>1, <2>2, LenProperties DEF Known, RowsOK
  <1>9. ASSUME NEW c \in Conns, EndOfFile(c) PROVE Known'
    <2>1. rows' = rows /\ \A d \in Conns : asked'[d].id \in {0, asked[d].id}
      BY <1>9 DEF EndOfFile, At, Goto, SocketsOK
    <2>2. \A d \in Conns : conn'[d].id \in {0, conn[d].id}
      BY <1>9, EndOfFileDoes
    <2> QED BY <2>1, <2>2, LenProperties DEF Known, RowsOK
  <1>10. ASSUME NEW c \in Conns, Unregister(c) PROVE Known'
    <2>1. rows' = rows /\ \A d \in Conns : asked'[d].id \in {0, asked[d].id}
      BY <1>10 DEF Unregister, At, Goto, SocketsOK
    <2>2. \A d \in Conns : conn'[d].id \in {0, conn[d].id}
      BY <1>10, UnregisterDoes
    <2> QED BY <2>1, <2>2, LenProperties DEF Known, RowsOK
  <1>11. ASSUME NEW c \in Conns, InsertScan(c) PROVE Known'
    <2>1. Len(rows') = Len(rows) + 1 /\ asked' = asked /\ Len(rows) \in Nat
      BY <1>11, InsertScanDoes, LenProperties, AppendProperties DEF InsertScan, RowsOK
    <2>2. \A d \in Conns : conn'[d].id \in {conn[d].id, Len(rows) + 1}
      BY <1>11, InsertScanDoes
    <2>3. \A d \in Conns : asked[d].id \in Nat /\ conn[d].id \in Nat
      BY DEF SocketsOK, ConnOK, Thread
    <2> QED BY <2>1, <2>2, <2>3 DEF Known
  <1>12. ASSUME NEW c \in Conns, Activate(c) PROVE Known'
    <2>1. rows' = rows /\ \A d \in Conns : asked'[d].id \in {0, asked[d].id}
      BY <1>12 DEF Activate, At, Goto, SocketsOK
    <2>2. \A d \in Conns : conn'[d].id \in {0, conn[d].id}
      BY <1>12, ActivateDoes
    <2> QED BY <2>1, <2>2, LenProperties DEF Known, RowsOK
  <1>13. ASSUME NEW c \in Conns, Greet(c) PROVE Known'
    <2>1. rows' = rows /\ \A d \in Conns : asked'[d].id \in {0, asked[d].id}
      BY <1>13 DEF Greet, At, Event, SendOrCancel, Delivered, Refused, SocketsOK
    <2>2. \A d \in Conns : conn'[d].id \in {0, conn[d].id}
      BY <1>13, GreetDoes
    <2> QED BY <2>1, <2>2, LenProperties DEF Known, RowsOK
  <1>14. ASSUME NEW c \in Conns, Announce(c) PROVE Known'
    <2>1. rows' = rows /\ \A d \in Conns : asked'[d].id \in {0, asked[d].id}
      BY <1>14 DEF Announce, At, SendOrCancel, Delivered, Refused, SocketsOK
    <2>2. \A d \in Conns : conn'[d].id \in {0, conn[d].id}
      BY <1>14, AnnounceDoes
    <2> QED BY <2>1, <2>2, LenProperties DEF Known, RowsOK
  <1>15. ASSUME NEW c \in Conns, WalkEnds(c) PROVE Known'
    <2>1. rows' = rows /\ \A d \in Conns : asked'[d].id \in {0, asked[d].id}
      BY <1>15 DEF WalkEnds, At, Ending, SocketsOK
    <2>2. \A d \in Conns : conn'[d].id \in {0, conn[d].id}
      BY <1>15, WalkEndsDoes
    <2> QED BY <2>1, <2>2, LenProperties DEF Known, RowsOK
  <1>16. ASSUME NEW c \in Conns, WalkExpands(c) PROVE Known'
    <2>1. rows' = rows /\ \A d \in Conns : asked'[d].id \in {0, asked[d].id}
      BY <1>16 DEF WalkExpands, At, Event, Left, Expand, SocketsOK
    <2>2. \A d \in Conns : conn'[d].id \in {0, conn[d].id}
      BY <1>16, WalkExpandsDoes
    <2> QED BY <2>1, <2>2, LenProperties DEF Known, RowsOK
  <1>17. ASSUME NEW c \in Conns, WalkPasses(c) PROVE Known'
    <2>1. rows' = rows /\ \A d \in Conns : asked'[d].id \in {0, asked[d].id}
      BY <1>17 DEF WalkPasses, At, Event, Left, PassOver, Scannable, SocketsOK
    <2>2. \A d \in Conns : conn'[d].id \in {0, conn[d].id}
      BY <1>17, WalkPassesDoes
    <2> QED BY <2>1, <2>2, LenProperties DEF Known, RowsOK
  <1>18. ASSUME NEW c \in Conns, WalkBegins(c) PROVE Known'
    <2>1. rows' = rows /\ \A d \in Conns : asked'[d].id \in {0, asked[d].id}
      BY <1>18 DEF WalkBegins, At, Begin, Scannable, SocketsOK
    <2>2. \A d \in Conns : conn'[d].id \in {0, conn[d].id}
      BY <1>18, WalkBeginsDoes
    <2> QED BY <2>1, <2>2, LenProperties DEF Known, RowsOK
  <1>19. ASSUME NEW c \in Conns, ScanFile(c) PROVE Known'
    <2>1. rows' = rows /\ \A d \in Conns : asked'[d].id \in {0, asked[d].id}
      BY <1>19 DEF ScanFile, At, Event, Left, Goto, Ending, SocketsOK
    <2>2. \A d \in Conns : conn'[d].id \in {0, conn[d].id}
      BY <1>19, ScanFileDoes
    <2> QED BY <2>1, <2>2, LenProperties DEF Known, RowsOK
  <1>20. ASSUME NEW c \in Conns, Detect(c) PROVE Known'
    <2>1. rows' = rows /\ \A d \in Conns : asked'[d].id \in {0, asked[d].id}
      BY <1>20 DEF Detect, At, Goto, Gone, SendOrCancel, Delivered, Refused, SocketsOK
    <2>2. \A d \in Conns : conn'[d].id \in {0, conn[d].id}
      BY <1>20, DetectDoes
    <2> QED BY <2>1, <2>2, LenProperties DEF Known, RowsOK
  <1>21. ASSUME NEW c \in Conns, Counted(c) PROVE Known'
    <2>1. rows' = rows /\ \A d \in Conns : asked'[d].id \in {0, asked[d].id}
      BY <1>21 DEF Counted, At, SendOrCancel, Delivered, Refused, SocketsOK
    <2>2. \A d \in Conns : conn'[d].id \in {0, conn[d].id}
      BY <1>21, CountedDoes
    <2> QED BY <2>1, <2>2, LenProperties DEF Known, RowsOK
  <1>22. ASSUME NEW c \in Conns, FinishScan(c) PROVE Known'
    <2>1. Len(rows') = Len(rows) /\ asked' = asked
      BY <1>22 DEF FinishScan, RowsOK
    <2>2. \A d \in Conns : conn'[d].id \in {0, conn[d].id}
      BY <1>22, FinishScanDoes
    <2> QED BY <2>1, <2>2, LenProperties DEF Known, RowsOK
  <1>23. ASSUME NEW f \in Files, Change(f) PROVE Known'
    BY <1>23 DEF Change, Event, Gone, SocketsOK, ConnOK, Thread, RowsOK, Known
  <1>24. ASSUME NEW w \in Workers, DetectionFound(w) PROVE Known'
    BY <1>24 DEF DetectionFound, Event, SocketsOK, ConnOK, Thread, RowsOK, Known
  <1>25. ASSUME NEW w \in Workers, BroadcastLock(w) PROVE Known'
    BY <1>25 DEF BroadcastLock, SocketsOK, ConnOK, Thread, RowsOK, Known
  <1>26. ASSUME NEW w \in Workers, BroadcastSend(w) PROVE Known'
    BY <1>26 DEF BroadcastSend, Delivered, Refused, SocketsOK, ConnOK, Thread,
       RowsOK, Known
  <1>27. ASSUME NEW w \in Workers, BroadcastDone(w) PROVE Known'
    BY <1>27 DEF BroadcastDone, SocketsOK, ConnOK, Thread, RowsOK, Known
  <1>28. CASE Sigterm
    BY <1>28 DEF Sigterm, SocketsOK, ConnOK, Thread, RowsOK, Known
  <1>29. CASE Exit
    <2>1. rows' = rows /\ \A d \in Conns : asked'[d].id = 0 /\ conn'[d].id = 0
      BY <1>29 DEF Exit, NoRequest, NoScan
    <2> QED BY <2>1, LenProperties DEF Known, RowsOK
  <1>30. CASE UNCHANGED vars
    BY <1>30 DEF vars, SocketsOK, ConnOK, Thread, RowsOK, Known
  <1> QED
    BY WalkIs, <1>1, <1>2, <1>3, <1>4, <1>5, <1>6, <1>7, <1>8, <1>9, <1>10, <1>11, <1>12,
       <1>13, <1>14, <1>15, <1>16, <1>17, <1>18, <1>19, <1>20, <1>21, <1>22, <1>23,
       <1>24, <1>25, <1>26, <1>27, <1>28, <1>29, <1>30 DEF Next, ConnStep,
       BroadcastStep

(* No more is scanned than there is.                                       *)
LEMMA CountStep ==
    ASSUME SocketsOK, ConnOK, FlagOK, FilesOK, Fresh, Cover, Count, [Next]_vars
    PROVE  Count'
  <1>1. ASSUME NEW c \in Conns, Connect(c) PROVE Count'
    <2>1. ASSUME NEW d \in Conns, d # c PROVE CountOf(d)'
      BY <1>1, <2>1, ConnectDoes DEF Count, CountOf, Busy
    <2>2. CountOf(c)'
      <3>1. /\ conn[c].scanned \in Nat /\ conn[c].threats \in Nat
            /\ Cardinality(conn[c].todo) \in Nat /\ Cardinality(Files) \in Nat
        BY Finite DEF ConnOK, Thread
      <3>2. CountOf(c)
        BY DEF Count
      <3> QED BY <1>1, <3>1, <3>2, ConnectDoes, FS_EmptySet DEF Fresh, Walking, CountOf, Busy
    <2> QED BY <2>1, <2>2 DEF Count
  <1>2. ASSUME NEW c \in Conns, Ask(c) PROVE Count'
    BY <1>2 DEF Ask, Event, NoRequest, Count, CountOf, Busy
  <1>3. ASSUME NEW c \in Conns, Read(c) PROVE Count'
    BY <1>3 DEF Read, Count, CountOf, Busy
  <1>4. ASSUME NEW c \in Conns, Behave(c) PROVE Count'
    BY <1>4 DEF Behave, Event, Count, CountOf, Busy
  <1>5. ASSUME NEW c \in Conns, Register(c) PROVE Count'
    <2>1. ASSUME NEW d \in Conns, d # c PROVE CountOf(d)'
      BY <1>5, <2>1, RegisterDoes DEF Count, CountOf, Busy
    <2>2. CountOf(c)'
      BY <1>5, RegisterDoes DEF Fresh, Walking, Count, CountOf, Busy
    <2> QED BY <2>1, <2>2 DEF Count
  <1>6. ASSUME NEW c \in Conns, ScanStart(c) PROVE Count'
    <2>1. ASSUME NEW d \in Conns, d # c PROVE CountOf(d)'
      BY <1>6, <2>1, ScanStartDoes DEF Count, CountOf, Busy
    <2>2. CountOf(c)'
      <3>1. /\ conn[c].scanned \in Nat /\ conn[c].threats \in Nat
            /\ Cardinality(conn[c].todo) \in Nat /\ Cardinality(Files) \in Nat
        BY Finite DEF ConnOK, Thread
      <3>2. CountOf(c)
        BY DEF Count
      <3> QED BY <1>6, <3>1, <3>2, ScanStartDoes, FS_EmptySet DEF Fresh, Walking, CountOf, Busy
    <2> QED BY <2>1, <2>2 DEF Count
  <1>7. ASSUME NEW c \in Conns, ScanCancel(c) PROVE Count'
    <2>1. ASSUME NEW d \in Conns, d # c PROVE CountOf(d)'
      BY <1>7, <2>1, ScanCancelDoes DEF Count, CountOf, Busy
    <2>2. CountOf(c)'
      BY <1>7, ScanCancelDoes DEF Fresh, Walking, Count, CountOf, Busy
    <2> QED BY <2>1, <2>2 DEF Count
  <1>8. ASSUME NEW c \in Conns, Respond(c) PROVE Count'
    <2>1. ASSUME NEW d \in Conns, d # c PROVE CountOf(d)'
      BY <1>8, <2>1, RespondDoes DEF Count, CountOf, Busy
    <2>2. CountOf(c)'
      BY <1>8, RespondDoes DEF Fresh, Walking, Count, CountOf, Busy
    <2> QED BY <2>1, <2>2 DEF Count
  <1>9. ASSUME NEW c \in Conns, EndOfFile(c) PROVE Count'
    <2>1. ASSUME NEW d \in Conns, d # c PROVE CountOf(d)'
      BY <1>9, <2>1, EndOfFileDoes DEF Count, CountOf, Busy
    <2>2. CountOf(c)'
      BY <1>9, EndOfFileDoes DEF Fresh, Walking, Count, CountOf, Busy
    <2> QED BY <2>1, <2>2 DEF Count
  <1>10. ASSUME NEW c \in Conns, Unregister(c) PROVE Count'
    <2>1. ASSUME NEW d \in Conns, d # c PROVE CountOf(d)'
      BY <1>10, <2>1, UnregisterDoes DEF Count, CountOf, Busy
    <2>2. CountOf(c)'
      BY <1>10, UnregisterDoes DEF Fresh, Walking, Count, CountOf, Busy
    <2> QED BY <2>1, <2>2 DEF Count
  <1>11. ASSUME NEW c \in Conns, InsertScan(c) PROVE Count'
    <2>1. ASSUME NEW d \in Conns, d # c PROVE CountOf(d)'
      BY <1>11, <2>1, InsertScanDoes DEF Count, CountOf, Busy
    <2>2. CountOf(c)'
      BY <1>11, InsertScanDoes DEF Fresh, Walking, Count, CountOf, Busy
    <2> QED BY <2>1, <2>2 DEF Count
  <1>12. ASSUME NEW c \in Conns, Activate(c) PROVE Count'
    <2>1. ASSUME NEW d \in Conns, d # c PROVE CountOf(d)'
      BY <1>12, <2>1, ActivateDoes DEF Count, CountOf, Busy
    <2>2. CountOf(c)'
      BY <1>12, ActivateDoes DEF Fresh, Walking, Count, CountOf, Busy
    <2> QED BY <2>1, <2>2 DEF Count
  <1>13. ASSUME NEW c \in Conns, Greet(c) PROVE Count'
    <2>1. ASSUME NEW d \in Conns, d # c PROVE CountOf(d)'
      BY <1>13, <2>1, GreetDoes DEF Count, CountOf, Busy
    <2>2. CountOf(c)'
      <3>1. /\ conn[c].scanned \in Nat /\ conn[c].threats \in Nat
            /\ Cardinality(conn[c].todo) \in Nat /\ Cardinality(Files) \in Nat
        BY Finite DEF ConnOK, Thread
      <3>2. CountOf(c)
        BY DEF Count
      <3> QED BY <1>13, <3>1, <3>2, GreetDoes, FS_EmptySet DEF Fresh, Walking, CountOf, Busy
    <2> QED BY <2>1, <2>2 DEF Count
  <1>14. ASSUME NEW c \in Conns, Announce(c) PROVE Count'
    <2>1. ASSUME NEW d \in Conns, d # c PROVE CountOf(d)'
      BY <1>14, <2>1, AnnounceDoes DEF Count, CountOf, Busy
    <2>2. CountOf(c)'
      BY <1>14, AnnounceDoes DEF Fresh, Walking, Busy, CountOf
    <2> QED BY <2>1, <2>2 DEF Count
  <1>15. ASSUME NEW c \in Conns, WalkEnds(c) PROVE Count'
    <2>1. ASSUME NEW d \in Conns, d # c PROVE CountOf(d)'
      BY <1>15, <2>1, WalkEndsDoes DEF Count, CountOf, Busy
    <2>2. CountOf(c)'
      <3>1. /\ conn[c].scanned \in Nat /\ conn[c].threats \in Nat
            /\ Cardinality(conn[c].todo) \in Nat /\ Cardinality(Files) \in Nat
        BY Finite DEF ConnOK, Thread
      <3>2. CountOf(c)
        BY DEF Count
      <3> QED BY <1>15, <3>1, <3>2, WalkEndsDoes, FS_EmptySet DEF Fresh, Walking, CountOf, Busy
    <2> QED BY <2>1, <2>2 DEF Count
  <1>16. ASSUME NEW c \in Conns, WalkExpands(c) PROVE Count'
    <2>1. ASSUME NEW d \in Conns, d # c PROVE CountOf(d)'
      BY <1>16, <2>1, WalkExpandsDoes DEF Count, CountOf, Busy
    <2>2. CountOf(c)'
      <3>1. /\ conn[c].scanned \in Nat /\ conn[c].threats \in Nat
            /\ Cardinality(conn[c].todo) \in Nat /\ Cardinality(Files) \in Nat
        BY Finite DEF ConnOK, Thread
      <3>2. CountOf(c)
        BY DEF Count
      <3>3. PICK listed \in SUBSET present : conn'[c].todo = listed
        BY <1>16, WalkExpandsDoes
      <3>4. listed \subseteq Files
        BY DEF FilesOK
      <3>5. listed # {Root} /\ Cardinality(listed) <= Cardinality(Files)
        BY <3>4, Sizes, FS_Subset
      <3>6. Cardinality(listed) \in Nat
        BY <3>4, FS_Subset, FS_CardinalityType
      <3>7. /\ conn[c].todo = {Root} /\ conn'[c].at = "walk"
            /\ conn'[c].scanned = conn[c].scanned /\ conn'[c].threats = conn[c].threats
        BY <1>16, WalkExpandsDoes
      <3> QED BY <3>1, <3>2, <3>3, <3>5, <3>6, <3>7 DEF CountOf, Busy
    <2> QED BY <2>1, <2>2 DEF Count
  <1>17. ASSUME NEW c \in Conns, WalkPasses(c) PROVE Count'
    <2>1. ASSUME NEW d \in Conns, d # c PROVE CountOf(d)'
      BY <1>17, <2>1, WalkPassesDoes DEF Count, CountOf, Busy
    <2>2. CountOf(c)'
      <3>1. /\ conn[c].scanned \in Nat /\ conn[c].threats \in Nat
            /\ Cardinality(conn[c].todo) \in Nat /\ Cardinality(Files) \in Nat
        BY Finite DEF ConnOK, Thread
      <3>2. CountOf(c)
        BY DEF Count
      <3>3. Top(c) \in conn[c].todo /\ conn[c].todo \subseteq Files
        BY <1>17, TopIsOn, WalkPassesDoes
      <3>4. Cardinality(conn[c].todo \ {Top(c)}) = Cardinality(conn[c].todo) - 1
        BY <3>3, Finite, FS_RemoveElement
      <3>5. conn[c].todo # {Root} /\ conn[c].todo \ {Top(c)} # {Root}
        BY <3>3, Sizes
      <3>6. /\ Cardinality(conn'[c].todo) = Cardinality(conn[c].todo) - 1
            /\ conn'[c].todo # {Root}
        BY <1>17, <3>4, <3>5, WalkPassesDoes
      <3>7. /\ conn'[c].scanned = conn[c].scanned /\ conn'[c].threats = conn[c].threats
            /\ conn[c].at = "walk" /\ conn'[c].at \in {"walk", "scan"}
        BY <1>17, WalkPassesDoes
      <3> QED BY <3>1, <3>2, <3>5, <3>6, <3>7 DEF CountOf, Busy
    <2> QED BY <2>1, <2>2 DEF Count
  <1>18. ASSUME NEW c \in Conns, WalkBegins(c) PROVE Count'
    <2>1. ASSUME NEW d \in Conns, d # c PROVE CountOf(d)'
      BY <1>18, <2>1, WalkBeginsDoes DEF Count, CountOf, Busy
    <2>2. CountOf(c)'
      <3>1. /\ conn[c].scanned \in Nat /\ conn[c].threats \in Nat
            /\ Cardinality(conn[c].todo) \in Nat /\ Cardinality(Files) \in Nat
        BY Finite DEF ConnOK, Thread
      <3>2. CountOf(c)
        BY DEF Count
      <3>3. Top(c) \in conn[c].todo /\ conn[c].todo \subseteq Files
        BY <1>18, TopIsOn, WalkBeginsDoes
      <3>4. Cardinality(conn[c].todo \ {Top(c)}) = Cardinality(conn[c].todo) - 1
        BY <3>3, Finite, FS_RemoveElement
      <3>5. conn[c].todo # {Root} /\ conn[c].todo \ {Top(c)} # {Root}
        BY <3>3, Sizes
      <3>6. /\ Cardinality(conn'[c].todo) = Cardinality(conn[c].todo) - 1
            /\ conn'[c].todo # {Root}
        BY <1>18, <3>4, <3>5, WalkBeginsDoes
      <3>7. /\ conn'[c].scanned = conn[c].scanned /\ conn'[c].threats = conn[c].threats
            /\ conn[c].at = "walk" /\ conn'[c].at \in {"walk", "scan"}
        BY <1>18, WalkBeginsDoes
      <3> QED BY <3>1, <3>2, <3>5, <3>6, <3>7 DEF CountOf, Busy
    <2> QED BY <2>1, <2>2 DEF Count
  <1>19. ASSUME NEW c \in Conns, ScanFile(c) PROVE Count'
    <2>1. ASSUME NEW d \in Conns, d # c PROVE CountOf(d)'
      BY <1>19, <2>1, ScanFileDoes DEF Count, CountOf, Busy
    <2>2. CountOf(c)'
      <3>1. /\ conn[c].scanned \in Nat /\ conn[c].threats \in Nat
            /\ Cardinality(conn[c].todo) \in Nat /\ Cardinality(Files) \in Nat
        BY Finite DEF ConnOK, Thread
      <3>2. CountOf(c)
        BY DEF Count
      <3>3. conn[c].todo # {Root}
        BY <1>19, ScanFileDoes DEF Cover, CoverOf
      <3> QED BY <1>19, <3>1, <3>2, <3>3, ScanFileDoes DEF CountOf, Busy
    <2> QED BY <2>1, <2>2 DEF Count
  <1>20. ASSUME NEW c \in Conns, Detect(c) PROVE Count'
    <2>1. ASSUME NEW d \in Conns, d # c PROVE CountOf(d)'
      BY <1>20, <2>1, DetectDoes DEF Count, CountOf, Busy
    <2>2. CountOf(c)'
      <3>1. /\ conn[c].scanned \in Nat /\ conn[c].threats \in Nat
            /\ Cardinality(conn[c].todo) \in Nat /\ Cardinality(Files) \in Nat
        BY Finite DEF ConnOK, Thread
      <3>2. CountOf(c)
        BY DEF Count
      <3>3. conn[c].todo # {Root}
        BY <1>20, DetectDoes DEF Cover, CoverOf
      <3> QED BY <1>20, <3>1, <3>2, <3>3, DetectDoes DEF CountOf, Busy
    <2> QED BY <2>1, <2>2 DEF Count
  <1>21. ASSUME NEW c \in Conns, Counted(c) PROVE Count'
    <2>1. ASSUME NEW d \in Conns, d # c PROVE CountOf(d)'
      BY <1>21, <2>1, CountedDoes DEF Count, CountOf, Busy
    <2>2. CountOf(c)'
      <3>1. /\ conn[c].scanned \in Nat /\ conn[c].threats \in Nat
            /\ Cardinality(conn[c].todo) \in Nat /\ Cardinality(Files) \in Nat
        BY Finite DEF ConnOK, Thread
      <3>2. CountOf(c)
        BY DEF Count
      <3>3. conn[c].todo # {Root}
        BY <1>21, CountedDoes DEF Cover, CoverOf
      <3> QED BY <1>21, <3>1, <3>2, <3>3, CountedDoes DEF CountOf, Busy
    <2> QED BY <2>1, <2>2 DEF Count
  <1>22. ASSUME NEW c \in Conns, FinishScan(c) PROVE Count'
    <2>1. ASSUME NEW d \in Conns, d # c PROVE CountOf(d)'
      BY <1>22, <2>1, FinishScanDoes DEF Count, CountOf, Busy
    <2>2. CountOf(c)'
      <3>1. Cardinality({}) = 0 /\ Cardinality(Files) \in Nat /\ {} # {Root}
        BY Finite, FS_EmptySet
      <3>2. /\ conn'[c].todo = {} /\ conn'[c].scanned = 0 /\ conn'[c].threats = 0
            /\ conn'[c].at = "respond"
        BY <1>22, FinishScanDoes
      <3>3. Cardinality(conn'[c].todo) = 0
        BY <3>1, <3>2
      <3> QED BY <3>1, <3>2, <3>3 DEF Busy, CountOf
    <2> QED BY <2>1, <2>2 DEF Count
  <1>23. ASSUME NEW f \in Files, Change(f) PROVE Count'
    BY <1>23 DEF Change, Event, Gone, Count, CountOf, Busy
  <1>24. ASSUME NEW w \in Workers, DetectionFound(w) PROVE Count'
    BY <1>24 DEF DetectionFound, Event, Count, CountOf, Busy
  <1>25. ASSUME NEW w \in Workers, BroadcastLock(w) PROVE Count'
    BY <1>25 DEF BroadcastLock, Count, CountOf, Busy
  <1>26. ASSUME NEW w \in Workers, BroadcastSend(w) PROVE Count'
    BY <1>26 DEF BroadcastSend, Delivered, Refused, Count, CountOf, Busy
  <1>27. ASSUME NEW w \in Workers, BroadcastDone(w) PROVE Count'
    BY <1>27 DEF BroadcastDone, Count, CountOf, Busy
  <1>28. CASE Sigterm
    BY <1>28 DEF Sigterm, Count, CountOf, Busy
  <1>29. CASE Exit
    <2>1. \A d \in Conns : conn'[d] = NoScan
      BY <1>29 DEF Exit
    <2> QED BY <2>1, Finite, FS_EmptySet DEF NoScan, Count, CountOf, Busy
  <1>30. CASE UNCHANGED vars
    BY <1>30 DEF vars, Count, CountOf, Busy
  <1> QED
    BY WalkIs, <1>1, <1>2, <1>3, <1>4, <1>5, <1>6, <1>7, <1>8, <1>9, <1>10, <1>11, <1>12,
       <1>13, <1>14, <1>15, <1>16, <1>17, <1>18, <1>19, <1>20, <1>21, <1>22, <1>23,
       <1>24, <1>25, <1>26, <1>27, <1>28, <1>29, <1>30 DEF Next, ConnStep,
       BroadcastStep

(* The table's numbers are no more than the files.                         *)
LEMMA RowsCountStep ==
    ASSUME SocketsOK, ConnOK, FlagOK, FilesOK, RowsOK, Count, RowsCount,
           [Next]_vars
    PROVE  RowsCount'
  <1>1. ASSUME NEW c \in Conns, Connect(c) PROVE RowsCount'
    BY <1>1 DEF Connect, RowsCount
  <1>2. ASSUME NEW c \in Conns, Ask(c) PROVE RowsCount'
    BY <1>2 DEF Ask, RowsCount
  <1>3. ASSUME NEW c \in Conns, Read(c) PROVE RowsCount'
    BY <1>3 DEF Read, RowsCount
  <1>4. ASSUME NEW c \in Conns, Behave(c) PROVE RowsCount'
    BY <1>4 DEF Behave, RowsCount
  <1>5. ASSUME NEW c \in Conns, Register(c) PROVE RowsCount'
    BY <1>5 DEF Register, RowsCount
  <1>6. ASSUME NEW c \in Conns, ScanStart(c) PROVE RowsCount'
    BY <1>6 DEF ScanStart, RowsCount
  <1>7. ASSUME NEW c \in Conns, ScanCancel(c) PROVE RowsCount'
    BY <1>7 DEF ScanCancel, RowsCount
  <1>8. ASSUME NEW c \in Conns, Respond(c) PROVE RowsCount'
    BY <1>8 DEF Respond, RowsCount
  <1>9. ASSUME NEW c \in Conns, EndOfFile(c) PROVE RowsCount'
    BY <1>9 DEF EndOfFile, RowsCount
  <1>10. ASSUME NEW c \in Conns, Unregister(c) PROVE RowsCount'
    BY <1>10 DEF Unregister, RowsCount
  <1>11. ASSUME NEW c \in Conns, InsertScan(c) PROVE RowsCount'
    <2>1. rows' = Append(rows, [status |-> "running", scanned |-> 0, threats |-> 0])
      BY <1>11 DEF InsertScan
    <2> QED BY <2>1, Finite, AppendProperties, LenProperties DEF RowsOK, RowsCount
  <1>12. ASSUME NEW c \in Conns, Activate(c) PROVE RowsCount'
    BY <1>12 DEF Activate, RowsCount
  <1>13. ASSUME NEW c \in Conns, Greet(c) PROVE RowsCount'
    BY <1>13 DEF Greet, RowsCount
  <1>14. ASSUME NEW c \in Conns, Announce(c) PROVE RowsCount'
    BY <1>14 DEF Announce, RowsCount
  <1>15. ASSUME NEW c \in Conns, WalkEnds(c) PROVE RowsCount'
    BY <1>15 DEF WalkEnds, RowsCount
  <1>16. ASSUME NEW c \in Conns, WalkExpands(c) PROVE RowsCount'
    BY <1>16 DEF WalkExpands, RowsCount
  <1>17. ASSUME NEW c \in Conns, WalkPasses(c) PROVE RowsCount'
    BY <1>17 DEF WalkPasses, RowsCount
  <1>18. ASSUME NEW c \in Conns, WalkBegins(c) PROVE RowsCount'
    BY <1>18 DEF WalkBegins, RowsCount
  <1>19. ASSUME NEW c \in Conns, ScanFile(c) PROVE RowsCount'
    BY <1>19 DEF ScanFile, RowsCount
  <1>20. ASSUME NEW c \in Conns, Detect(c) PROVE RowsCount'
    BY <1>20 DEF Detect, RowsCount
  <1>21. ASSUME NEW c \in Conns, Counted(c) PROVE RowsCount'
    BY <1>21 DEF Counted, RowsCount
  <1>22. ASSUME NEW c \in Conns, FinishScan(c) PROVE RowsCount'
    <2>1. rows' = [rows EXCEPT ![conn[c].id] = [status |-> conn[c].status,
                     scanned |-> conn[c].scanned, threats |-> conn[c].threats]]
      BY <1>22 DEF FinishScan
    <2>2. conn[c].scanned <= Cardinality(Files) /\ conn[c].threats <= Cardinality(Files)
      <3>1. CountOf(c) /\ ~Busy(c) /\ conn[c].at \notin {"detect", "counted"}
        BY <1>22, FinishScanDoes DEF Count, Busy
      <3>2. /\ conn[c].scanned \in Nat /\ conn[c].threats \in Nat
            /\ Cardinality(conn[c].todo) \in Nat /\ Cardinality(Files) \in Nat
        BY Finite DEF ConnOK, Thread
      <3> QED BY <3>1, <3>2 DEF CountOf
    <2> QED BY <2>1, <2>2 DEF RowsCount
  <1>23. ASSUME NEW f \in Files, Change(f) PROVE RowsCount'
    BY <1>23 DEF Change, RowsCount
  <1>24. ASSUME NEW w \in Workers, DetectionFound(w) PROVE RowsCount'
    BY <1>24 DEF DetectionFound, RowsCount
  <1>25. ASSUME NEW w \in Workers, BroadcastLock(w) PROVE RowsCount'
    BY <1>25 DEF BroadcastLock, RowsCount
  <1>26. ASSUME NEW w \in Workers, BroadcastSend(w) PROVE RowsCount'
    BY <1>26 DEF BroadcastSend, RowsCount
  <1>27. ASSUME NEW w \in Workers, BroadcastDone(w) PROVE RowsCount'
    BY <1>27 DEF BroadcastDone, RowsCount
  <1>28. CASE Sigterm
    BY <1>28 DEF Sigterm, RowsCount
  <1>29. CASE Exit
    BY <1>29 DEF Exit, RowsCount
  <1>30. CASE UNCHANGED vars
    BY <1>30 DEF vars, RowsCount
  <1> QED
    BY WalkIs, <1>1, <1>2, <1>3, <1>4, <1>5, <1>6, <1>7, <1>8, <1>9, <1>10, <1>11, <1>12,
       <1>13, <1>14, <1>15, <1>16, <1>17, <1>18, <1>19, <1>20, <1>21, <1>22, <1>23,
       <1>24, <1>25, <1>26, <1>27, <1>28, <1>29, <1>30 DEF Next, ConnStep,
       BroadcastStep

-----------------------------------------------------------------------------
(* The invariant.                                                          *)

ServInv ==
    /\ SocketsOK /\ ConnOK /\ FlagOK /\ RowsOK /\ WorkersOK
    /\ FilesOK /\ UsedOK /\ Fresh /\ RowsRun /\ Flagged
    /\ Late /\ Orphan /\ Steady /\ Cover /\ ActiveOK
    /\ Requests /\ Waits /\ Known /\ Count /\ RowsCount

(* It holds at first.                                                      *)
LEMMA InitServ == Init => ServInv
  <1> SUFFICES ASSUME Init PROVE ServInv
    OBVIOUS
  <1> USE DEF Init
  <1>1. SocketsOK /\ FlagOK /\ WorkersOK /\ UsedOK
    BY Sizes DEF SocketsOK, FlagOK, WorkersOK, UsedOK, NoRequest
  <1>2. ConnOK /\ FilesOK
    BY NoneIsThread DEF ConnOK, FilesOK, About, NoHist
  <1>3. RowsOK /\ RowsCount /\ Len(rows) = 0 /\ DOMAIN rows = {}
    BY EmptySeq DEF RowsOK, RowsCount
  <1>4. /\ Fresh /\ RowsRun /\ Flagged /\ Late /\ Steady
        /\ \A c \in Conns : ~Recorded(c) /\ ~Busy(c)
    BY DEF NoScan, NoHist, Fresh, RowsRun, Flagged, Late, Steady, Recorded, Walking, Busy
  <1>5. Orphan /\ Cover
    <2> SUFFICES ASSUME NEW c \in Conns PROVE OrphanOf(c) /\ CoverOf(c)
      BY DEF Orphan, Cover
    <2>1. /\ conn[c].at = "none" /\ conn[c].todo = {} /\ conn[c].status = "running"
          /\ hist[c].orphaned = 0 /\ ~conn[c].cancelled
      BY DEF NoScan, NoHist
    <2>2. OrphanOf(c)
      BY <2>1, Sizes DEF OrphanOf, Busy
    <2>3. CoverOf(c)
      BY <2>1 DEF CoverOf, Busy
    <2> QED BY <2>2, <2>3
  <1>6. ActiveOK
    <2>1. Active = {}
      BY DEF Active, NoScan, ScanPoints
    <2> QED BY <2>1 DEF ActiveOK
  <1>7. Requests /\ Waits /\ Known
    <2>1. Pending = {}
      BY DEF Pending, NoScan, NoRequest
    <2> QED BY <1>3, <2>1, FS_EmptySet DEF Requests, Waits, Known, NoScan, NoRequest
  <1>8. Count
    <2> SUFFICES ASSUME NEW c \in Conns PROVE CountOf(c)
      BY DEF Count
    <2>1. /\ conn[c].at = "none" /\ conn[c].todo = {} /\ conn[c].scanned = 0
          /\ conn[c].threats = 0
      BY DEF NoScan
    <2>2. Cardinality({}) = 0 /\ Cardinality(Files) \in Nat
      BY <1>2, Finite, FS_EmptySet
    <2>3. Cardinality(conn[c].todo) = 0 /\ conn[c].todo # {Root}
      BY <2>1, <2>2
    <2> QED BY <2>1, <2>2, <2>3 DEF CountOf, Busy
  <1> QED BY <1>1, <1>2, <1>3, <1>4, <1>5, <1>6, <1>7, <1>8 DEF ServInv

(* Every step keeps it.                                                    *)
LEMMA StepServ == ServInv /\ [Next]_vars => ServInv'
  <1> SUFFICES ASSUME ServInv, [Next]_vars PROVE ServInv'
    OBVIOUS
  <1>0. /\ SocketsOK /\ ConnOK /\ FlagOK /\ RowsOK /\ WorkersOK
        /\ FilesOK /\ UsedOK /\ Fresh /\ RowsRun /\ Flagged
        /\ Late /\ Orphan /\ Steady /\ Cover /\ ActiveOK
        /\ Requests /\ Waits /\ Known /\ Count /\ RowsCount
    BY DEF ServInv
  <1>1. SocketsOK'
    BY <1>0, SocketsStep
  <1>2. ConnOK'
    BY <1>0, ThreadsStep
  <1>3. FlagOK'
    BY <1>0, FlagStep
  <1>4. RowsOK'
    BY <1>0, TableStep
  <1>5. WorkersOK'
    BY <1>0, WorkersStep
  <1>6. FilesOK'
    BY <1>0, FilesStep
  <1>7. UsedOK'
    BY <1>0, UsedStep
  <1>8. Fresh'
    BY <1>0, FreshStep
  <1>9. RowsRun'
    BY <1>0, RowsRunStep
  <1>10. Flagged'
    BY <1>0, FlaggedStep
  <1>11. Late'
    BY <1>0, LateStep
  <1>12. Orphan'
    BY <1>0, OrphanStep
  <1>13. Steady'
    BY <1>0, SteadyStep
  <1>14. Cover'
    BY <1>0, CoverStep
  <1>15. ActiveOK'
    BY <1>0, ActiveStep
  <1>16. Requests'
    BY <1>0, RequestsStep
  <1>17. Waits'
    BY <1>0, WaitsStep
  <1>18. Known'
    BY <1>0, KnownStep
  <1>19. Count'
    BY <1>0, CountStep
  <1>20. RowsCount'
    BY <1>0, RowsCountStep
  <1> QED BY <1>1, <1>2, <1>3, <1>4, <1>5, <1>6, <1>7, <1>8, <1>9, <1>10, <1>11,
             <1>12, <1>13, <1>14, <1>15, <1>16, <1>17, <1>18, <1>19, <1>20 DEF
             ServInv

(* It holds in every reachable state.                                      *)
THEOREM ServingInvariant == Spec => []ServInv
  BY InitServ, StepServ, PTL DEF Spec

(* It implies the type invariant of the module, with its bounds.           *)
LEMMA Types == ServInv => TypeOK
  <1> SUFFICES ASSUME ServInv PROVE TypeOK
    OBVIOUS
  <1>1. /\ SocketsOK /\ ConnOK /\ FlagOK /\ RowsOK /\ WorkersOK /\ FilesOK /\ UsedOK
        /\ ActiveOK /\ Requests /\ Known /\ Cover /\ Count /\ RowsCount
    BY DEF ServInv
  <1>2. /\ Cardinality(Files) \in Nat /\ Len(rows) \in Nat /\ Len(rows) <= MaxEvents
        /\ MaxEvents \in Nat
    <2>1. Cardinality(Pending) \in Nat /\ Len(rows) \in Nat /\ Cardinality(Files) \in Nat
      BY <1>1, Finite, LenProperties DEF RowsOK
    <2> QED BY <1>1, <2>1, Sizes DEF Requests, UsedOK
  <1>3. asked \in [Conns -> [op : {"none", "start", "cancel"}, id : 0..MaxEvents]]
    <2>1. \A c \in Conns : asked[c].id \in 0..MaxEvents
      BY <1>1, <1>2 DEF SocketsOK, Known
    <2> QED BY <1>1, <2>1 DEF SocketsOK
  <1>4. \A c \in Conns : /\ conn[c].id \in 0..MaxEvents
                         /\ conn[c].scanned \in 0..Cardinality(Files)
                         /\ conn[c].threats \in 0..Cardinality(Files)
    <2> SUFFICES ASSUME NEW c \in Conns
                 PROVE  /\ conn[c].id \in 0..MaxEvents
                        /\ conn[c].scanned \in 0..Cardinality(Files)
                        /\ conn[c].threats \in 0..Cardinality(Files)
      OBVIOUS
    <2>1. /\ conn[c].id \in Nat /\ conn[c].scanned \in Nat /\ conn[c].threats \in Nat
          /\ Cardinality(conn[c].todo) \in Nat
      BY <1>1, Finite DEF ConnOK, Thread
    <2>2. conn[c].id <= Len(rows) /\ CountOf(c)
      BY <1>1 DEF Known, Count
    <2>3. conn[c].scanned <= Cardinality(Files)
      BY <1>2, <2>1, <2>2 DEF CountOf
    <2>4. conn[c].threats <= Cardinality(Files)
      <3>1. CASE Busy(c)
        <4>1. conn[c].todo # {Root}
          BY <1>1, <3>1 DEF Cover, CoverOf, Busy
        <4> QED BY <1>2, <2>1, <2>2, <3>1, <4>1 DEF CountOf
      <3>2. CASE ~Busy(c)
        BY <1>2, <2>1, <2>2, <2>3, <3>2 DEF CountOf, Busy
      <3> QED BY <3>1, <3>2
    <2> QED BY <1>2, <2>1, <2>2, <2>3, <2>4
  <1>5. conn \in [Conns ->
          [at : ScanPoints \cup {"none", "register", "serve", "respond",
                                 "unregister", "ended"},
           id : 0..MaxEvents, total : 0..Cardinality(Files),
           todo : SUBSET (Files \cup {Root}), file : Files \cup {NoFile},
           scanned : 0..Cardinality(Files), threats : 0..Cardinality(Files),
           cancelled : BOOLEAN,
           status : {"running", "completed", "cancelled", "error"}]]
    BY <1>1, <1>4 DEF ConnOK, Thread, Points, Ends
  <1>6. active = {[id |-> conn[c].id, conn |-> c] :
                    c \in {d \in Conns : conn[d].at \in
                              ScanPoints \ {"insert", "activate"}}}
    BY <1>1 DEF ActiveOK, Active, Entry
  <1>7. rows \in Seq([status : {"running", "completed", "cancelled", "error"},
                      scanned : 0..Cardinality(Files), threats : 0..Cardinality(Files)])
    <2>1. rows \in [1..Len(rows) -> [status : Ends, scanned : Nat, threats : Nat]]
      BY <1>1, LenProperties DEF RowsOK
    <2>2. \A i \in 1..Len(rows) :
             rows[i] \in [status : {"running", "completed", "cancelled", "error"},
                          scanned : 0..Cardinality(Files), threats : 0..Cardinality(Files)]
      BY <1>1, <1>2, <2>1 DEF RowsCount, Ends
    <2>3. rows \in [1..Len(rows) -> [status : {"running", "completed", "cancelled", "error"},
                       scanned : 0..Cardinality(Files), threats : 0..Cardinality(Files)]]
      BY <2>1, <2>2
    <2> QED BY ZenonT(60), <1>2, <2>3, SeqDef
  <1>8. worker \in [Workers -> [at : {"idle", "lock", "send"}, left : SUBSET writers]]
    BY <1>1 DEF WorkersOK
  <1>9. hist \in [Conns -> [seen : SUBSET Files, gap : SUBSET Files,
                            steady : SUBSET Files, late : Nat, orphaned : Nat]]
    BY <1>1 DEF FilesOK, About
  <1> QED
    BY <1>1, <1>3, <1>5, <1>6, <1>7, <1>8, <1>9 DEF TypeOK, SocketsOK, FlagOK, WorkersOK, FilesOK, UsedOK

-----------------------------------------------------------------------------
(* What follows.                                                           *)

(* A scan whose cancel flag is up begins at most the one file it was about *)
(* to begin, and one whose client has gone at most PROGRESS_EVERY files,   *)
(* whenever the flag is raised or the client goes (run_scan, scan.cancel). *)
THEOREM ScansAreStopped == Spec => []StoppedScansStop
  <1>1. ServInv => StoppedScansStop
    <2> SUFFICES ASSUME ServInv PROVE StoppedScansStop
      OBVIOUS
    <2>1. CancelStopsTheWalk
      BY DEF ServInv, Late, CancelStopsTheWalk
    <2>2. OrphanIsBounded
      BY DEF ServInv, Orphan, OrphanOf, OrphanIsBounded
    <2> QED BY <2>1, <2>2, Types DEF StoppedScansStop
  <1> QED BY <1>1, ServingInvariant, PTL

(* A scan recorded as completed has put to the engine every file that was  *)
(* there all the time and is not excluded, but for those its walk could    *)
(* not read and those too large, whatever files come and go between its    *)
(* two walks and whenever a cancel arrives (run_scan, FileWalker::next).   *)
THEOREM CompletedIsComplete == Spec => []CompletedCoversAll
  <1>1. ServInv => CompletedCoversAll
    BY DEF ServInv, Cover, CoverOf, CompletedCoversAll
  <1> QED BY <1>1, ServingInvariant, PTL

(* The row of a scan changes once, from running, when that scan finishes,  *)
(* and says cancelled only if its flag is up; ids are not shared (run_scan *)
(* and the table scans).                                                   *)
THEOREM RowsAreFinal == Spec => RowIsFinal
  <1> DEFINE Ended(i) ==
        rows'[i] # rows[i] =>
           /\ rows[i].status = "running"
           /\ \E c \in Conns :
                 /\ conn[c].id = i /\ conn[c].at = "finish"
                 /\ rows'[i].status = "cancelled" => flag[c]
  <1>1. ASSUME ServInv, [Next]_vars PROVE [\A i \in DOMAIN rows : Ended(i)]_vars
    <2>0. ConnOK /\ RowsOK /\ RowsRun /\ Flagged
      BY <1>1 DEF ServInv
    <2>1. ASSUME NEW c \in Conns, FinishScan(c) PROVE \A i \in DOMAIN rows : Ended(i)
      <3>1. /\ conn[c].at = "finish"
            /\ rows' = [rows EXCEPT ![conn[c].id] =
                          [status |-> conn[c].status, scanned |-> conn[c].scanned,
                           threats |-> conn[c].threats]]
        BY <2>1 DEF FinishScan, At
      <3>2. conn[c].id \in 1..Len(rows) /\ rows[conn[c].id].status = "running"
        BY <2>0, <3>1 DEF RowsRun, Recorded, Walking
      <3>3. conn[c].status = "cancelled" => flag[c]
        BY <2>0 DEF Flagged
      <3>4. \A i \in DOMAIN rows : i # conn[c].id => rows'[i] = rows[i]
        BY <3>1
      <3>5. conn[c].id \in DOMAIN rows => rows'[conn[c].id].status = conn[c].status
        BY <3>1
      <3> QED BY <3>1, <3>2, <3>3, <3>4, <3>5
    <2>2. ASSUME NEW c \in Conns, InsertScan(c) PROVE \A i \in DOMAIN rows : Ended(i)
      <3>1. \A i \in DOMAIN rows : rows'[i] = rows[i]
        BY <2>0, <2>2, AppendProperties, LenProperties DEF InsertScan, RowsOK
      <3> QED BY <3>1
    <2>3. CASE rows' = rows
      BY <2>3
    <2>4. ASSUME Next,
                 ~(\E c \in Conns : FinishScan(c) \/ InsertScan(c))
          PROVE  rows' = rows
      BY ZenonT(60), <2>4 DEF Next, ConnStep, BroadcastStep, Connect, Ask, Read, Behave,
         Register, ScanStart, ScanCancel, Respond, EndOfFile, Unregister, Activate,
         Greet, Announce, Walk, ScanFile, Detect, Counted, Change, DetectionFound,
         BroadcastLock, BroadcastSend, BroadcastDone, Sigterm, Exit
    <2>5. CASE UNCHANGED vars
      BY <2>5
    <2> HIDE DEF Ended
    <2> QED BY <1>1, <2>1, <2>2, <2>3, <2>4, <2>5
  <1> QED BY <1>1, ServingInvariant, PTL DEF Spec, RowIsFinal
=============================================================================
