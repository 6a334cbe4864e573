------------------------------ MODULE Serving ------------------------------
(***************************************************************************)
(* The daemon and its clients: a thread per connection                     *)
(* (`handle_connection` of server.rs), the on-demand scan it runs for      *)
(* `scan.start` (`run_scan` of scanner.rs), `scan.cancel`, the table       *)
(* `scans`, the Broadcaster with the real-time workers that use it, and    *)
(* the SIGTERM thread that joins these workers.                            *)
(*                                                                         *)
(* A socket is what matters of it here: how many messages its buffer       *)
(* holds, and whether the client reads, does not read for a while, or has  *)
(* closed.  Neither side sets a write timeout, so a send to a client that  *)
(* does not read waits for room.                                           *)
(***************************************************************************)
EXTENDS Integers, Sequences, FiniteSets

CONSTANTS
    Conns,            \* connections
    Workers,          \* real-time workers
    Nobody,           \* nobody holds the writers' mutex
    Files,            \* the directory a client asks to scan, in its order
    AtFirst,          \* the files that exist at first
    Infected,         \* files the engine finds a signature in
    Excluded,         \* files the exclusions skip
    ROOM,             \* messages that fit a socket buffer
    PROGRESS_EVERY,   \* scanner.rs
    MaxEvents         \* bound: scans and cancels asked for, detections,
                      \* changes of the files, what a walk cannot read,
                      \* files too large, failures of clamd, clients that
                      \* stop reading, go on or leave

ASSUME NoneAssumption ==
    /\ Nobody \notin Conns \cup Workers
    /\ Files \subseteq Nat \ {0}
ASSUME FiniteAssumption == IsFiniteSet(Conns) /\ IsFiniteSet(Files)
ASSUME SizeAssumption == {ROOM, PROGRESS_EVERY} \subseteq Nat \ {0}
ASSUME SetAssumption == \A S \in {AtFirst, Infected, Excluded} : S \subseteq Files
ASSUME BoundAssumption == MaxEvents \in Nat

VARIABLES
    peer,      \* per connection: what its client does
    asked,     \* per connection: the request in the socket, not yet read
    inbox,     \* per connection: messages the client has not read
    conn,      \* per connection: its thread and the scan it runs
    flag,      \* per connection: the cancel flag of that scan
    active,    \* Daemon::active_scans: the ids with the flag's connection
    rows,      \* table scans
    writers,   \* Broadcaster::writers
    lock,      \* who holds the mutex of writers
    worker,    \* the real-time workers
    daemon,    \* up, stopping after a SIGTERM, down
    present,   \* the files that exist
    used,      \* events so far
    hist       \* history, per connection: about its present scan

sockets == <<peer, asked, inbox>>
vars == <<peer, asked, inbox, conn, flag, active, rows, writers, lock, worker,
          daemon, present, used, hist>>

Root == 0      \* the directory itself, on the stack of a FileWalker
NoFile == 0

NoRequest == [op |-> "none", id |-> 0]
ScanPoints == {"insert", "activate", "greet", "announce", "walk", "scan",
               "detect", "counted", "finish"}
NoScan == [at |-> "none", id |-> 0, total |-> 0, todo |-> {}, file |-> NoFile,
           scanned |-> 0, threats |-> 0, cancelled |-> FALSE, status |-> "running"]
NoHist == [seen |-> {}, gap |-> {}, steady |-> {}, late |-> 0, orphaned |-> 0]

Init ==
    /\ peer = [c \in Conns |-> "none"]
    /\ asked = [c \in Conns |-> NoRequest]
    /\ inbox = [c \in Conns |-> 0]
    /\ conn = [c \in Conns |-> NoScan]
    /\ flag = [c \in Conns |-> FALSE]
    /\ active = {}
    /\ rows = <<>>
    /\ writers = {}
    /\ lock = Nobody
    /\ worker = [w \in Workers |-> [at |-> "idle", left |-> {}]]
    /\ daemon = "up"
    /\ present = AtFirst
    /\ used = 0
    /\ hist = [c \in Conns |-> NoHist]

Event == used < MaxEvents /\ used' = used + 1
Alive == daemon # "down"

(* client::send to connection c: the message is in the buffer, or the      *)
(* client is gone; it waits while the buffer is full.                      *)
Delivered(c) ==
    /\ peer[c] # "gone" /\ inbox[c] < ROOM
    /\ inbox' = [inbox EXCEPT ![c] = @ + 1]
RefusedOnceRead(c) == peer[c] = "gone" /\ inbox[c] = 0 /\ UNCHANGED inbox
Refused(c) == peer[c] = "gone" /\ UNCHANGED inbox

(* Its result is looked at: a failed send sets the cancel flag.            *)
SendOrCancel(c) ==
    \/ Delivered(c) /\ UNCHANGED flag
    \/ Refused(c) /\ flag' = [flag EXCEPT ![c] = TRUE]

-----------------------------------------------------------------------------
(* Clients and other programs.                                             *)

Connect(c) ==
    /\ Alive /\ peer[c] = "none"
    /\ peer' = [peer EXCEPT ![c] = "reading"]
    /\ conn' = [conn EXCEPT ![c].at = "register"]
    /\ UNCHANGED <<asked, inbox, flag, active, rows, writers, lock, worker,
                   daemon, present, used, hist>>

(* A client asks one thing at a time.                                      *)
Ask(c) ==
    /\ Alive /\ peer[c] = "reading"
    /\ conn[c].at \in {"register", "serve"} /\ asked[c] = NoRequest
    /\ \/ /\ Event
          /\ asked' = [asked EXCEPT ![c] = [op |-> "start", id |-> 0]]
       \/ /\ Event
          /\ \E i \in 0..Len(rows) :
                asked' = [asked EXCEPT ![c] = [op |-> "cancel", id |-> i]]
    /\ UNCHANGED <<peer, inbox, conn, flag, active, rows, writers, lock, worker,
                   daemon, present, hist>>

Read(c) ==
    /\ peer[c] = "reading" /\ inbox[c] > 0
    /\ inbox' = [inbox EXCEPT ![c] = @ - 1]
    /\ UNCHANGED <<peer, asked, conn, flag, active, rows, writers, lock, worker,
                   daemon, present, used, hist>>

(* The client stops reading, goes on, or closes its connection.            *)
Behave(c) ==
    /\ Alive /\ Event
    /\ \/ peer[c] = "reading" /\ peer' = [peer EXCEPT ![c] = "stopped"]
       \/ peer[c] = "stopped" /\ peer' = [peer EXCEPT ![c] = "reading"]
       \/ peer[c] \in {"reading", "stopped"} /\ peer' = [peer EXCEPT ![c] = "gone"]
    /\ UNCHANGED <<asked, inbox, conn, flag, active, rows, writers, lock, worker,
                   daemon, present, hist>>

Gone(h, f) == [c \in Conns |-> [h[c] EXCEPT !.steady = @ \ {f}]]

Change(f) ==
    /\ Alive /\ Event
    /\ \/ f \in present /\ present' = present \ {f} /\ hist' = Gone(hist, f)
       \/ f \notin present /\ present' = present \cup {f} /\ UNCHANGED hist
    /\ UNCHANGED <<peer, asked, inbox, conn, flag, active, rows, writers, lock,
                   worker, daemon>>

-----------------------------------------------------------------------------
(* The thread of connection c: handle_connection and dispatch.             *)

At(c, at) == Alive /\ conn[c].at = at
Goto(c, at) == conn' = [conn EXCEPT ![c].at = at]

Register(c) ==
    /\ At(c, "register") /\ lock = Nobody
    /\ writers' = writers \cup {c}
    /\ Goto(c, "serve")
    /\ UNCHANGED <<peer, asked, inbox, flag, active, rows, lock, worker, daemon,
                   present, used, hist>>

Taken(c) == asked' = [asked EXCEPT ![c] = NoRequest]

(* SCAN_START up to ClamdClient::connect: the paths must exist and clamd   *)
(* must be there.                                                          *)
ScanStart(c) ==
    /\ At(c, "serve") /\ asked[c].op = "start"
    /\ Taken(c)
    /\ flag' = [flag EXCEPT ![c] = FALSE]
    /\ \/ /\ conn' = [conn EXCEPT ![c] = [NoScan EXCEPT !.at = "insert"]]
          /\ hist' = [hist EXCEPT ![c] = [NoHist EXCEPT !.steady = present]]
          /\ UNCHANGED used
       \/ Event /\ Goto(c, "respond") /\ UNCHANGED hist
    /\ UNCHANGED <<peer, inbox, active, rows, writers, lock, worker, daemon,
                   present>>

(* SCAN_CANCEL: with an id, that scan; without, every scan.                *)
Hit(id) == {c \in Conns : \E a \in active : a.conn = c /\ id \in {0, a.id}}

ScanCancel(c) ==
    /\ At(c, "serve") /\ asked[c].op = "cancel"
    /\ Taken(c)
    /\ flag' = [d \in Conns |-> flag[d] \/ d \in Hit(asked[c].id)]
    /\ Goto(c, "respond")
    /\ UNCHANGED <<peer, inbox, active, rows, writers, lock, worker, daemon,
                   present, used, hist>>

Respond(c) ==
    /\ At(c, "respond")
    /\ Delivered(c) \/ Refused(c)
    /\ Goto(c, "serve")
    /\ UNCHANGED <<peer, asked, flag, active, rows, writers, lock, worker, daemon,
                   present, used, hist>>

EndsAtOnce(c) ==
    /\ At(c, "serve") /\ peer[c] = "gone" /\ asked[c] = NoRequest
    /\ Goto(c, "ended")
    /\ UNCHANGED <<peer, asked, inbox, flag, active, rows, writers, lock, worker,
                   daemon, present, used, hist>>

(* End of file, and no request left in the buffer.                         *)
EndOfFile(c) ==
    /\ At(c, "serve") /\ peer[c] = "gone" /\ asked[c] = NoRequest
    /\ Goto(c, "unregister")
    /\ UNCHANGED <<peer, asked, inbox, flag, active, rows, writers, lock, worker,
                   daemon, present, used, hist>>

Unregister(c) ==
    /\ At(c, "unregister") /\ lock = Nobody
    /\ writers' = writers \ {c}
    /\ Goto(c, "ended")
    /\ UNCHANGED <<peer, asked, inbox, flag, active, rows, lock, worker, daemon,
                   present, used, hist>>

-----------------------------------------------------------------------------
(* run_scan on connection c.                                               *)

InsertScan(c) ==
    /\ At(c, "insert")
    /\ rows' = Append(rows, [status |-> "running", scanned |-> 0, threats |-> 0])
    /\ conn' = [conn EXCEPT ![c].at = "activate", ![c].id = Len(rows) + 1]
    /\ UNCHANGED <<peer, asked, inbox, flag, active, writers, lock, worker, daemon,
                   present, used, hist>>

Activate(c) ==
    /\ At(c, "activate")
    /\ active' = active \cup {[id |-> conn[c].id, conn |-> c]}
    /\ Goto(c, "greet")
    /\ UNCHANGED <<peer, asked, inbox, flag, rows, writers, lock, worker, daemon,
                   present, used, hist>>

(* The first notification; then a FileWalker that only counts, and that    *)
(* counts fewer files when it cannot read something.                       *)
Greet(c) ==
    LET n == Cardinality(present \ Excluded) IN
    /\ At(c, "greet")
    /\ SendOrCancel(c)
    /\ \/ /\ conn' = [conn EXCEPT ![c].at = "announce", ![c].total = n]
          /\ UNCHANGED used
       \/ /\ Event
          /\ \E less \in 0..(n - 1) :
                conn' = [conn EXCEPT ![c].at = "announce", ![c].total = less]
    /\ UNCHANGED <<peer, asked, active, rows, writers, lock, worker, daemon,
                   present, hist>>

(* The total, and a second FileWalker that starts afresh.                  *)
Announce(c) ==
    /\ At(c, "announce")
    /\ SendOrCancel(c)
    /\ conn' = [conn EXCEPT ![c].at = "walk", ![c].todo = {Root},
                            ![c].cancelled = flag'[c]]
    /\ UNCHANGED <<peer, asked, active, rows, writers, lock, worker, daemon,
                   present, used, hist>>

EndingIgnoresCancel(c, status) ==
    [conn EXCEPT ![c].at = "finish",
                 ![c].status = IF status = "error" THEN status ELSE "completed"]

Ending(c, status) == [conn EXCEPT ![c].at = "finish", ![c].status = status]

(* FileWalker::next: the top of the stack is popped; a directory is        *)
(* replaced by what is in it now, and a file is yielded or passed over.    *)
(* What the walk cannot read it leaves out in silence: a directory without *)
(* metadata or that cannot be opened (nothing is listed), an entry that    *)
(* read_dir returns as an error, a file without metadata.                  *)
Top(c) == CHOOSE e \in conn[c].todo : \A d \in conn[c].todo : d <= e

Left(c, S) == hist' = [hist EXCEPT ![c].gap = @ \cup S]

Expand(c) ==
    /\ conn[c].todo = {Root}
    /\ \/ conn' = [conn EXCEPT ![c].todo = present] /\ UNCHANGED <<used, hist>>
       \/ /\ Event
          /\ \E listed \in SUBSET present \ {present} :
                /\ conn' = [conn EXCEPT ![c].todo = listed]
                /\ Left(c, present \ listed)

Scannable(f) == f \in present /\ f \notin Excluded

PassOver(c) ==
    /\ conn[c].todo \cap Files # {}
    /\ \/ ~Scannable(Top(c)) /\ UNCHANGED <<used, hist>>
       \/ Scannable(Top(c)) /\ Event /\ Left(c, {Top(c)})
    /\ conn' = [conn EXCEPT ![c].todo = @ \ {Top(c)}]

Begin(c) ==
    /\ conn[c].todo \cap Files # {} /\ Scannable(Top(c))
    /\ conn' = [conn EXCEPT ![c].at = "scan", ![c].file = Top(c),
                            ![c].todo = @ \ {Top(c)}]
    /\ hist' = [hist EXCEPT
                  ![c].late = IF flag[c] THEN @ + 1 ELSE @,
                  ![c].orphaned = IF peer[c] = "gone" THEN @ + 1 ELSE @]
    /\ UNCHANGED used

Leave(c) ==
    /\ \/ conn[c].cancelled /\ conn' = Ending(c, "cancelled")
       \/ ~conn[c].cancelled /\ conn[c].todo = {} /\ conn' = Ending(c, "completed")
    /\ UNCHANGED <<used, hist>>

Walk(c) ==
    /\ At(c, "walk")
    /\ \/ Leave(c)
       \/ ~conn[c].cancelled /\ (Expand(c) \/ PassOver(c) \/ Begin(c))
    /\ UNCHANGED <<peer, asked, inbox, flag, active, rows, writers, lock, worker,
                   daemon, present>>

(* scan_path: a verdict; an error of the engine, or an oversized file that *)
(* the client skips, which count as scanned; or an I/O error, which ends   *)
(* the scan.  A file that is no longer there cannot be opened, and that is *)
(* an I/O error.                                                           *)
ScanFile(c) ==
    LET f == conn[c].file IN
    /\ At(c, "scan")
    /\ \/ /\ f \in present
          /\ conn' = IF f \in Infected
                     THEN [conn EXCEPT ![c].at = "detect", ![c].threats = @ + 1]
                     ELSE [conn EXCEPT ![c].at = "counted"]
          /\ hist' = [hist EXCEPT ![c].seen = @ \cup {f}]
          /\ UNCHANGED used
       \/ /\ f \in present /\ Event
          /\ \/ Goto(c, "counted") /\ hist' = [hist EXCEPT ![c].seen = @ \cup {f}]
             \/ Goto(c, "counted") /\ Left(c, {f})
             \/ conn' = Ending(c, "error") /\ UNCHANGED hist
       \/ f \notin present /\ conn' = Ending(c, "error") /\ UNCHANGED <<used, hist>>
    /\ UNCHANGED <<peer, asked, inbox, flag, active, rows, writers, lock, worker,
                   daemon, present>>

(* The notification, the threat's row, and the file goes to the quarantine *)
(* or stays.                                                               *)
Detect(c) ==
    LET f == conn[c].file IN
    /\ At(c, "detect")
    /\ SendOrCancel(c)
    /\ Goto(c, "counted")
    /\ \/ present' = present \ {f} /\ hist' = Gone(hist, f)
       \/ UNCHANGED <<present, hist>>
    /\ UNCHANGED <<peer, asked, active, rows, writers, lock, worker, daemon, used>>

Reports(n, total) == n % PROGRESS_EVERY = 0 \/ n = total

CountedReadsFlagWithProgress(c) ==
    LET n == conn[c].scanned + 1 IN
    /\ At(c, "counted")
    /\ IF Reports(n, conn[c].total) THEN SendOrCancel(c)
                                    ELSE UNCHANGED <<inbox, flag>>
    /\ conn' = [conn EXCEPT ![c].at = "walk", ![c].scanned = n,
                            ![c].file = NoFile,
                            ![c].cancelled = Reports(n, conn[c].total) /\ flag'[c]]
    /\ UNCHANGED <<peer, asked, active, rows, writers, lock, worker, daemon,
                   present, used, hist>>

(* The end of the loop's body: progress, and the cancel flag is read.      *)
Counted(c) ==
    LET n == conn[c].scanned + 1 IN
    /\ At(c, "counted")
    /\ IF Reports(n, conn[c].total) THEN SendOrCancel(c)
                                    ELSE UNCHANGED <<inbox, flag>>
    /\ conn' = [conn EXCEPT ![c].at = "walk", ![c].scanned = n,
                            ![c].file = NoFile, ![c].cancelled = flag'[c]]
    /\ UNCHANGED <<peer, asked, active, rows, writers, lock, worker, daemon,
                   present, used, hist>>

(* The scan's locals and its flag are gone when run_scan returns.          *)
Returns(c) ==
    /\ conn' = [conn EXCEPT ![c] = [NoScan EXCEPT !.at = "respond"]]
    /\ flag' = [flag EXCEPT ![c] = FALSE]
    /\ hist' = [hist EXCEPT ![c] = NoHist]

FinishesLatest(c) ==
    /\ At(c, "finish")
    /\ active' = {a \in active : a.id # conn[c].id}
    /\ rows' = [rows EXCEPT ![Len(rows)] =
                  [status |-> conn[c].status, scanned |-> conn[c].scanned,
                   threats |-> conn[c].threats]]
    /\ Returns(c)
    /\ UNCHANGED <<peer, asked, inbox, writers, lock, worker, daemon, present,
                   used>>

(* Out of active_scans, then the row: completed, cancelled or error.       *)
FinishScan(c) ==
    /\ At(c, "finish")
    /\ active' = {a \in active : a.id # conn[c].id}
    /\ rows' = [rows EXCEPT ![conn[c].id] =
                  [status |-> conn[c].status, scanned |-> conn[c].scanned,
                   threats |-> conn[c].threats]]
    /\ Returns(c)
    /\ UNCHANGED <<peer, asked, inbox, writers, lock, worker, daemon, present,
                   used>>

-----------------------------------------------------------------------------
(* Real-time workers: the end of handle_detection, Broadcaster::broadcast. *)

(* After a SIGTERM too: a task that was popped before is finished.         *)
DetectionFound(w) ==
    /\ Alive /\ worker[w].at = "idle"
    /\ Event
    /\ worker' = [worker EXCEPT ![w].at = "lock"]
    /\ UNCHANGED <<peer, asked, inbox, conn, flag, active, rows, writers, lock,
                   daemon, present, hist>>

BroadcastLock(w) ==
    /\ Alive /\ worker[w].at = "lock" /\ lock = Nobody
    /\ lock' = w
    /\ worker' = [worker EXCEPT ![w] = [at |-> "send", left |-> writers]]
    /\ UNCHANGED <<peer, asked, inbox, conn, flag, active, rows, writers, daemon,
                   present, used, hist>>

BroadcastRetries(w) ==
    /\ Alive /\ worker[w].at = "send"
    /\ \E c \in worker[w].left :
          Delivered(c) /\ worker' = [worker EXCEPT ![w].left = @ \ {c}]
    /\ UNCHANGED <<peer, asked, conn, flag, active, rows, writers, lock, daemon,
                   present, used, hist>>

(* retain: a writer whose send fails is dropped.                           *)
BroadcastSend(w) ==
    /\ Alive /\ worker[w].at = "send"
    /\ \E c \in worker[w].left :
          /\ \/ Delivered(c) /\ UNCHANGED writers
             \/ Refused(c) /\ writers' = writers \ {c}
          /\ worker' = [worker EXCEPT ![w].left = @ \ {c}]
    /\ UNCHANGED <<peer, asked, conn, flag, active, rows, lock, daemon, present,
                   used, hist>>

BroadcastDone(w) ==
    /\ Alive /\ worker[w].at = "send" /\ worker[w].left = {}
    /\ lock' = Nobody
    /\ worker' = [worker EXCEPT ![w].at = "idle"]
    /\ UNCHANGED <<peer, asked, inbox, conn, flag, active, rows, writers, daemon,
                   present, used, hist>>

(* SIGTERM: stop_realtime joins the workers, then the process exits: of     *)
(* what it had in memory nothing is left.                                  *)
Sigterm ==
    /\ daemon = "up" /\ daemon' = "stopping"
    /\ UNCHANGED <<peer, asked, inbox, conn, flag, active, rows, writers, lock,
                   worker, present, used, hist>>

Exit ==
    /\ daemon = "stopping" /\ \A w \in Workers : worker[w].at = "idle"
    /\ daemon' = "down"
    /\ peer' = [c \in Conns |-> "gone"]
    /\ asked' = [c \in Conns |-> NoRequest]
    /\ inbox' = [c \in Conns |-> 0]
    /\ conn' = [c \in Conns |-> NoScan]
    /\ flag' = [c \in Conns |-> FALSE]
    /\ active' = {} /\ writers' = {}
    /\ hist' = [c \in Conns |-> NoHist]
    /\ UNCHANGED <<rows, lock, worker, present, used>>

-----------------------------------------------------------------------------

ConnStep(c) ==
    \/ Register(c) \/ ScanStart(c) \/ ScanCancel(c) \/ Respond(c)
    \/ EndOfFile(c) \/ Unregister(c)
    \/ InsertScan(c) \/ Activate(c) \/ Greet(c) \/ Announce(c) \/ Walk(c)
    \/ ScanFile(c) \/ Detect(c) \/ Counted(c) \/ FinishScan(c)
BroadcastStep(w) == BroadcastLock(w) \/ BroadcastSend(w) \/ BroadcastDone(w)

Next ==
    \/ \E c \in Conns : Connect(c) \/ Ask(c) \/ Read(c) \/ Behave(c) \/ ConnStep(c)
    \/ \E f \in Files : Change(f)
    \/ \E w \in Workers : DetectionFound(w) \/ BroadcastStep(w)
    \/ Sigterm \/ Exit

Spec == Init /\ [][Next]_vars

(* The scheduler runs every thread, and a client that reads reads on.      *)
FairSpec ==
    /\ Spec
    /\ \A c \in Conns : WF_vars(ConnStep(c)) /\ WF_vars(Read(c))
    /\ \A w \in Workers : WF_vars(BroadcastStep(w))
    /\ WF_vars(Exit)

-----------------------------------------------------------------------------
(* Properties.                                                             *)

(* The type invariant; the threads' control points agree with the shared   *)
(* state: the holder of the writers' mutex is the worker that is sending,  *)
(* and a scan is in active_scans from its registration to its end.         *)
TypeOK ==
    /\ peer \in [Conns -> {"none", "reading", "stopped", "gone"}]
    /\ asked \in [Conns -> [op : {"none", "start", "cancel"}, id : 0..MaxEvents]]
    /\ inbox \in [Conns -> 0..ROOM]
    /\ conn \in [Conns ->
          [at : ScanPoints \cup {"none", "register", "serve", "respond",
                                 "unregister", "ended"},
           id : 0..MaxEvents, total : 0..Cardinality(Files),
           todo : SUBSET (Files \cup {Root}), file : Files \cup {NoFile},
           scanned : 0..Cardinality(Files), threats : 0..Cardinality(Files),
           cancelled : BOOLEAN,
           status : {"running", "completed", "cancelled", "error"}]]
    /\ flag \in [Conns -> BOOLEAN]
    /\ active = {[id |-> conn[c].id, conn |-> c] :
                    c \in {d \in Conns : conn[d].at \in
                              ScanPoints \ {"insert", "activate"}}}
    /\ rows \in Seq([status : {"running", "completed", "cancelled", "error"},
                     scanned : 0..Cardinality(Files), threats : 0..Cardinality(Files)])
    /\ writers \subseteq Conns /\ lock \in Workers \cup {Nobody}
    /\ worker \in [Workers -> [at : {"idle", "lock", "send"}, left : SUBSET writers]]
    /\ \A w \in Workers : (worker[w].at = "send") <=> (lock = w)
    /\ daemon \in {"up", "stopping", "down"}
    /\ present \subseteq Files
    /\ used \in 0..MaxEvents
    /\ hist \in [Conns -> [seen : SUBSET Files, gap : SUBSET Files,
                           steady : SUBSET Files, late : Nat, orphaned : Nat]]

(* A scan whose cancel flag is up, by scan.cancel or by a send to a client *)
(* that is gone, begins at most the one file it was about to begin: the    *)
(* flag is read again after every file, not only when progress is sent.    *)
CancelStopsTheWalk == \A c \in Conns : hist[c].late <= 1

(* A client that goes away cannot leave a scan running: before             *)
(* PROGRESS_EVERY more files are through, a send fails and cancels it.     *)
OrphanIsBounded == \A c \in Conns : hist[c].orphaned <= PROGRESS_EVERY

(* StoppedScansStop: a scan nobody wants any more, because it was          *)
(* cancelled or its client left, puts no more than a bounded number of     *)
(* files to the engine (scanner.rs run_scan).                              *)
StoppedScansStop == TypeOK /\ CancelStopsTheWalk /\ OrphanIsBounded

(* A scan that is recorded as completed has put every file to the engine   *)
(* that was there all the time and is not excluded, whatever was created   *)
(* and deleted between its two walks and whenever a cancel came; except    *)
(* the files in its gap, for which the row says completed all the same:    *)
(* those the walk could not read (scanner.rs:55, 62, 63 go on in silence)  *)
(* and those too large for clamd, which are counted as scanned (188-193).  *)
CompletedCoversAll ==
    \A c \in Conns :
        conn[c].status = "completed" =>
           hist[c].steady \ Excluded \subseteq hist[c].seen \cup hist[c].gap

(* A row of scans belongs to one scan: it says running until that scan     *)
(* writes its end, once, and no other scan or cancel writes it after.      *)
RowIsFinal ==
    [][\A i \in DOMAIN rows :
          rows'[i] # rows[i] =>
             /\ rows[i].status = "running"
             /\ \E c \in Conns :
                   /\ conn[c].id = i /\ conn[c].at = "finish"
                   /\ rows'[i].status = "cancelled" => flag[c]]_vars

Stuck == \E c \in Conns : peer[c] = "stopped"

(* A scan ends, cancelled or not and whether its client is still there or  *)
(* not, unless its client keeps the connection and does not read.  (Of the *)
(* bounded number of scans none is under way for ever.)                    *)
ScansEnd ==
    []<>(\A c \in Conns : conn[c].at \in ScanPoints => peer[c] = "stopped")

(* A connection whose client has gone leaves the Broadcaster, as long as   *)
(* no client stands still with its connection open.                        *)
GoneAreForgotten ==
    []<>(Stuck \/ \A c \in writers : peer[c] # "gone")

(* A SIGTERM ends the daemon, under the same condition.                    *)
StopCompletes == (daemon = "stopping") ~> (~Alive \/ Stuck)
=============================================================================
