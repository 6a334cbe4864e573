------------------------------ MODULE ClamdClient ------------------------------
(***************************************************************************)
(* A client of clamd (crates/engines/clamav `ClamdClient`) and clamd       *)
(* itself at the other end of the socket.  There are three kinds of user   *)
(* of the client, which share nothing but clamd, so that one of them at a  *)
(* time is enough:                                                         *)
(*                                                                         *)
(*   - a worker of the real-time watcher (`scan_one`), which keeps its     *)
(*     connection and has it registered, for a stop to shut it down;       *)
(*   - the exec gate (`scan_bounded`), with a connection for each verdict; *)
(*   - the scan of a connection (`run_scan`), which ends at any error.     *)
(*                                                                         *)
(* One action is one system call that may fail or block.  A file, its size *)
(* and its state are new with each scan.  Time is abstract: a keepalive    *)
(* may be due before any attempt, a read may time out whenever it waits.   *)
(* Only reads have a time limit: a connect waits while clamd accepts       *)
(* nobody, and a write while it reads nothing.                             *)
(***************************************************************************)
EXTENDS Integers, Sequences

CONSTANTS
    STREAM_MAX,        \* stream_max: the StreamMaxLength of clamd.conf
    BIGSCAN_COPY_CAP,  \* the largest file that is copied
    Sizes,             \* the sizes a file may have
    MaxAsks,           \* bound: files to scan
    MaxStarts          \* bound: starts of clamd

ASSUME SizeAssumption == STREAM_MAX \in Nat /\ BIGSCAN_COPY_CAP \in Nat /\ Sizes \subseteq Nat
ASSUME BoundAssumption == MaxAsks \in Nat /\ MaxStarts \in Nat

VARIABLES
    kind,         \* who uses the client
    clamd,        \* up, down (its socket refuses) or gone (no socket)
    stalled,      \* clamd accepts nobody and reads nothing for a while
    starts,       \* starts of clamd so far (bounded)
    size,         \* the size of the file, Gone if it was deleted
    ask,          \* the number of this scan (bounded)
    job,          \* where the client is, and in which attempt
    link,         \* its connection
    copies,       \* copies in the scratch directory of the scan under way
    debris,       \* a copy that failed was left behind
    exit,         \* the watcher is ending: interrupt_workers has been called
    cut,          \* history: the interrupt found a read waiting (cut), and
                  \* clamd reset the connection before it returned (reset)
    reads,        \* history: waiting reads begun since the interrupt
    last          \* history: how the last scan ended, and by which answer

client == <<job, link, copies>>
history == <<cut, reads, last>>
vars == <<kind, clamd, stalled, starts, size, ask, job, link, copies, debris, exit,
          cut, reads, last>>

Gone == -1
Version == 0    \* the number of a keepalive, among those of the scans

Idle == [at |-> "idle", try |-> 1]
NoLink == [end |-> "none", shut |-> FALSE, registered |-> FALSE, sent |-> <<>>,
           replies |-> <<>>]
FreshLink == [NoLink EXCEPT !.end = "open"]

Init ==
    /\ kind \in {"worker", "gate", "scan"}
    /\ clamd = "up" /\ stalled = FALSE /\ starts = 0
    /\ size = Gone /\ ask = 0
    /\ job = Idle /\ link = NoLink
    /\ copies = 0 /\ debris = FALSE
    /\ exit = FALSE
    /\ cut = "no" /\ reads = 0
    /\ last = [what |-> "none", ask |-> 0, of |-> 0]

-----------------------------------------------------------------------------
(* The ways a scan ends.                                                   *)

Ended(what, of) ==
    /\ job' = Idle
    /\ last' = [what |-> what, ask |-> ask, of |-> of]

Answered(what, of) ==
    /\ Ended(what, of)
    /\ link' = IF kind = "gate" THEN NoLink ELSE link

(* scan_one takes NotFound for a file that vanished and keeps the          *)
(* connection; after every other error the next scan connects again.       *)
KeepsForTheGate(error) == error = "NotFound"
KeepsAfterTimeout(error) == kind = "worker" /\ error \in {"NotFound", "WouldBlock"}
Keeps(error) == kind = "worker" /\ error = "NotFound"

Failed(error) ==
    /\ Ended(IF Keeps(error) THEN "quiet" ELSE "failed", 0)
    /\ link' = IF Keeps(error) THEN link ELSE NoLink

(* scan_path: one more attempt, over a new connection.  The gate calls     *)
(* scan_path_once.                                                         *)
RetryKinds == {"BrokenPipe", "ConnectionReset", "TimedOut"}
Retries(error) == kind # "gate" /\ job.try = 1 /\ error \in RetryKinds

Fails(error) ==
    IF Retries(error)
    THEN job' = [job EXCEPT !.at = "reconnect"] /\ UNCHANGED <<link, last>>
    ELSE Failed(error)

Goes(at) == job' = [job EXCEPT !.at = at] /\ UNCHANGED last

-----------------------------------------------------------------------------
(* The socket.                                                             *)

Writable == link.end = "open" /\ ~link.shut

Sends(n, form) ==
    link' = [link EXCEPT !.sent = Append(@, [ask |-> n, form |-> form])]

(* read_line wants a newline, or the end of the stream: a reply to         *)
(* zINSTREAM ends with a NUL, so that clamd has to close after it.         *)
HasLine == link.replies # <<>> /\ Head(link.replies).newline
Waits == Writable /\ ~HasLine
WaitsIf(b) == reads' = IF b /\ exit /\ ~HasLine THEN reads + 1 ELSE reads

TimesOutOnce == job.try = 1
TimesOut == TRUE

(* Without a line, the kernel reports a reset where clamd left something   *)
(* unread, and an end of file otherwise: read_line gives what there is, an *)
(* empty line if there is nothing.  On a connection that was shut down it  *)
(* may report either.                                                      *)
EofIsReset == ~Writable /\ ~HasLine
IsReset == link.end = "reset" /\ ~HasLine
CanRead == HasLine \/ (~Writable /\ (link.end = "reset" => link.shut))
AfterRead == [link EXCEPT !.replies = IF @ = <<>> THEN @ ELSE Tail(@)]

(* connect waits for clamd to accept, write_all for room in the buffer; a  *)
(* command is short and waits only behind what clamd has not read.         *)
ConnectWaits == stalled /\ clamd = "up"
ChunksWait == stalled /\ Writable
CommandWaits == ChunksWait /\ link.sent # <<>>

-----------------------------------------------------------------------------
(* A scan begins.  A worker first asks for the file's metadata.            *)

Begin ==
    /\ job = Idle
    /\ ask < MaxAsks
    /\ kind = "worker" => ~exit
    /\ ask' = ask + 1
    /\ size' \in IF kind = "worker" THEN Sizes ELSE Sizes \cup {Gone}
    /\ job' = [Idle EXCEPT !.at = IF link = NoLink THEN "connect" ELSE "begin"]
    /\ UNCHANGED <<kind, clamd, stalled, starts, link, copies, debris, exit, history>>

(* The sockets of socket_candidates stand for one clamd.  Descriptors may  *)
(* have run out.                                                           *)
Connect ==
    /\ job.at = "connect" /\ ~ConnectWaits
    /\ \/ /\ clamd = "up"
          /\ link' = FreshLink
          /\ Goes(IF kind = "worker" THEN "register" ELSE "begin")
       \/ Failed("Refused")
    /\ UNCHANGED <<kind, clamd, stalled, starts, size, ask, copies, debris, exit,
                   cut, reads>>

(* Without a second handle the worker goes on unregistered.                *)
Register ==
    /\ job.at = "register"
    /\ \E ok \in BOOLEAN : link' = [link EXCEPT !.registered = ok]
    /\ Goes("begin")
    /\ UNCHANGED <<kind, clamd, stalled, starts, size, ask, copies, debris, exit,
                   cut, reads>>

(* The connection of the retry is not registered; if clamd is not there,   *)
(* the old one stays.                                                      *)
Reconnect ==
    /\ job.at = "reconnect" /\ ~ConnectWaits
    /\ \/ /\ clamd = "up"
          /\ link' = FreshLink
          /\ job' = [at |-> "begin", try |-> 2]
          /\ UNCHANGED last
       \/ Failed(IF clamd = "gone" THEN "NotFound" ELSE "Refused")
    /\ UNCHANGED <<kind, clamd, stalled, starts, size, ask, copies, debris, exit,
                   cut, reads>>

-----------------------------------------------------------------------------
(* scan_once: a keepalive after a pause, then one of three rungs.          *)

Due ==
    /\ job.at = "begin"
    /\ Goes("ping")
    /\ UNCHANGED <<kind, clamd, stalled, starts, size, ask, link, copies, debris, exit,
                   cut, reads>>

Keepalive ==
    /\ job.at = "ping" /\ ~CommandWaits
    /\ IF Writable THEN Sends(Version, "n") /\ Goes("alive") ELSE Fails("BrokenPipe")
    /\ WaitsIf(Writable)
    /\ UNCHANGED <<kind, clamd, stalled, starts, size, ask, copies, debris, exit, cut>>

ReadVersion ==
    /\ job.at = "alive"
    /\ \/ CanRead /\ link' = AfterRead /\ Goes("measure")
       \/ IsReset /\ Fails("ConnectionReset")
       \/ Waits /\ TimesOut /\ Fails("WouldBlock")
    /\ UNCHANGED <<kind, clamd, stalled, starts, size, ask, copies, debris, exit,
                   cut, reads>>

NotDue ==
    /\ job.at = "begin"
    /\ Goes("measure")
    /\ UNCHANGED <<kind, clamd, stalled, starts, size, ask, link, copies, debris,
                   exit, cut, reads>>

(* ladder_for; no metadata counts as length zero.                          *)
Rung(len) ==
    IF len <= STREAM_MAX THEN "open"
    ELSE IF len <= BIGSCAN_COPY_CAP THEN "copy" ELSE "skip"
Length == IF size = Gone THEN 0 ELSE size

Measure ==
    /\ job.at = "measure"
    /\ IF Rung(Length) = "skip" THEN Answered("skipped", ask)
       ELSE Goes(Rung(Length)) /\ UNCHANGED link
    /\ UNCHANGED <<kind, clamd, stalled, starts, size, ask, copies, debris, exit,
                   cut, reads>>

(* INSTREAM: open the file, announce it, send its chunks, end them.        *)
OpenFile ==
    /\ job.at = "open"
    /\ \/ size = Gone /\ Fails("NotFound")
       \/ ~CommandWaits /\ Fails("Io")
       \/ size # Gone /\ ~Writable /\ Fails("BrokenPipe")
       \/ /\ size # Gone /\ Writable /\ ~CommandWaits
          /\ Sends(ask, "part") /\ Goes("chunks")
    /\ UNCHANGED <<kind, clamd, stalled, starts, size, ask, copies, debris, exit,
                   cut, reads>>

WholeStream == [link EXCEPT !.sent = [i \in DOMAIN @ |->
                   IF i = Len(@) THEN [@[i] EXCEPT !.form = "z"] ELSE @[i]]]

SendChunks ==
    /\ job.at = "chunks" /\ ~ChunksWait
    /\ \/ \E error \in {"Io", "TimedOut"} : Fails(error) /\ UNCHANGED reads
       \/ ~Writable /\ Fails("BrokenPipe") /\ UNCHANGED reads
       \/ Writable /\ link' = WholeStream /\ Goes("reply") /\ WaitsIf(TRUE)
    /\ UNCHANGED <<kind, clamd, stalled, starts, size, ask, copies, debris, exit, cut>>

(* bigscan_copy; a copy that fails half-way stays in the directory.        *)
CopyFile ==
    /\ job.at = "copy"
    /\ \/ size = Gone /\ Fails("NotFound") /\ UNCHANGED <<copies, debris>>
       \/ Fails("Io") /\ debris' \in {debris, TRUE} /\ UNCHANGED copies
       \/ size # Gone /\ copies' = copies + 1 /\ Goes("scan") /\ UNCHANGED <<link,
                                                                             debris>>
    /\ UNCHANGED <<kind, clamd, stalled, starts, size, ask, exit, cut, reads>>

(* The copy is removed whatever becomes of the command.                    *)
RemovesIfAnswered(answered) == copies' = IF answered THEN 0 ELSE copies
Removes(answered) == copies' = 0

ScanCopy ==
    /\ job.at = "scan" /\ ~CommandWaits
    /\ IF Writable
       THEN Sends(ask, "n") /\ Goes("reply") /\ UNCHANGED copies
       ELSE Fails("BrokenPipe") /\ Removes(FALSE)
    /\ WaitsIf(Writable)
    /\ UNCHANGED <<kind, clamd, stalled, starts, size, ask, debris, exit, cut>>

(* parse_scan_response.                                                    *)
Parse(says) ==
    IF says = "OK" THEN "clean" ELSE IF says = "FOUND" THEN "infected" ELSE "error"

ReadReply ==
    /\ job.at = "reply"
    /\ \/ /\ CanRead
          /\ IF link.replies = <<>> THEN Ended("error", ask)
             ELSE Ended(Parse(Head(link.replies).says), Head(link.replies).ask)
          /\ link' = IF kind = "gate" THEN NoLink ELSE AfterRead
          /\ Removes(TRUE)
       \/ IsReset /\ Fails("ConnectionReset") /\ Removes(FALSE)
       \/ Waits /\ TimesOut /\ Fails("WouldBlock") /\ Removes(FALSE)
    /\ UNCHANGED <<kind, clamd, stalled, starts, size, ask, debris, exit, cut, reads>>

-----------------------------------------------------------------------------
(* The stop of the watcher: the registered connections are shut down, and  *)
(* no worker begins another scan.                                          *)
InterruptWorkers ==
    /\ kind = "worker"
    /\ ~exit
    /\ exit' = TRUE
    /\ link' = IF link.registered THEN [link EXCEPT !.shut = TRUE] ELSE link
    /\ cut' = IF link.registered /\ job.at = "reply" /\ Waits THEN "cut" ELSE cut
    /\ UNCHANGED <<kind, clamd, stalled, starts, size, ask, job, copies, debris,
                   reads, last>>

-----------------------------------------------------------------------------
(* clamd, and the other users of the file.                                 *)

FileChanges ==
    /\ job # Idle
    /\ size' \in (Sizes \cup {Gone}) \ {size}
    /\ UNCHANGED <<kind, clamd, stalled, starts, ask, client, debris, exit, history>>

(* clamd resets the connection: it closes and leaves something unread.     *)
Resets == cut' = IF cut = "cut" THEN "reset" ELSE cut

Says(command) ==
    IF command.ask = Version THEN {"VERSION"} ELSE {"OK", "FOUND", "ERROR"}

(* A whole command is answered; a command that follows the pieces of an    *)
(* unfinished one is taken for its next chunk and refused.                 *)
Answer ==
    /\ link.end = "open"
    /\ link.sent # <<>>
    /\ LET head == Head(link.sent)
       IN \/ /\ head.form # "part"
             /\ \E says \in Says(head), end \in {"open", "eof"} :
                   link' = [link EXCEPT !.end = end, !.sent = Tail(@),
                             !.replies = Append(@, [ask |-> head.ask, says |-> says,
                                                    newline |-> head.form = "n"])]
             /\ UNCHANGED cut
          \/ /\ head.form = "part" /\ Len(link.sent) > 1
             /\ link' = [link EXCEPT !.end = "reset", !.sent = <<>>,
                          !.replies = Append(@, [ask |-> head.ask, says |-> "ERROR",
                                                 newline |-> FALSE])]
             /\ Resets
    /\ UNCHANGED <<kind, clamd, stalled, starts, size, ask, job, copies, debris, exit,
                   reads, last>>

(* clamd reaps a connection, refuses a stream that is too long, or stops.  *)
Hangup ==
    /\ link.end = "open"
    /\ \/ link' = [link EXCEPT !.end = "eof", !.sent = <<>>] /\ UNCHANGED cut
       \/ /\ link.sent # <<>> /\ link' = [link EXCEPT !.end = "reset", !.sent = <<>>]
          /\ Resets
    /\ UNCHANGED <<kind, clamd, stalled, starts, size, ask, job, copies, debris, exit,
                   reads, last>>

(* It is busy, suspended or out of threads, and goes on.                   *)
Stalls ==
    /\ stalled' = ~stalled
    /\ UNCHANGED <<kind, clamd, starts, size, ask, client, debris, exit, history>>

(* The socket refuses or disappears; a clamd that is still ending may      *)
(* serve the connections it has.                                           *)
ClamdStops ==
    /\ clamd = "up"
    /\ clamd' \in {"down", "gone"}
    /\ UNCHANGED <<kind, stalled, starts, size, ask, client, debris, exit, history>>

ClamdStarts ==
    /\ clamd # "up"
    /\ starts < MaxStarts
    /\ starts' = starts + 1
    /\ clamd' = "up"
    /\ UNCHANGED <<kind, stalled, size, ask, client, debris, exit, history>>

Step ==
    \/ Connect
    \/ Register
    \/ Reconnect
    \/ Due
    \/ Keepalive
    \/ NotDue
    \/ ReadVersion
    \/ Measure
    \/ OpenFile
    \/ SendChunks
    \/ CopyFile
    \/ ScanCopy
    \/ ReadReply

Next ==
    \/ Begin
    \/ Step
    \/ InterruptWorkers
    \/ FileChanges
    \/ Answer
    \/ Hangup
    \/ Stalls
    \/ ClamdStops
    \/ ClamdStarts

Spec == Init /\ [][Next]_vars

(* The client's thread runs, and a read of a socket with a timeout ends.   *)
(* Nothing is asked of clamd, and a write or connect that waits is no step *)
(* that must be taken.                                                     *)
FairSpec == Spec /\ WF_vars(Step)

-----------------------------------------------------------------------------
(* Properties.                                                             *)

Places == {"idle", "connect", "register", "begin", "ping", "alive", "measure", "open",
           "chunks", "copy", "scan", "reply", "reconnect"}
Command == [ask : Nat, form : {"n", "z", "part"}]
Reply == [ask : Nat, says : {"OK", "FOUND", "ERROR", "VERSION"}, newline : BOOLEAN]
Link == [end : {"none", "open", "eof", "reset"}, shut : BOOLEAN, registered : BOOLEAN,
         sent : Seq(Command), replies : Seq(Reply)]
Outcome == {"none", "quiet", "failed", "skipped", "clean", "infected", "error"}

(* Each variable has its type; the connection is there while an attempt    *)
(* needs it, and the exec gate keeps none.                                 *)
TypeOK ==
    /\ kind \in {"worker", "gate", "scan"}
    /\ clamd \in {"up", "down", "gone"} /\ stalled \in BOOLEAN
    /\ starts \in Nat /\ ask \in Nat /\ reads \in Nat /\ copies \in Nat
    /\ size \in Sizes \cup {Gone}
    /\ job \in [at : Places, try : {1, 2}]
    /\ link \in Link
    /\ job.at \notin {"idle", "connect"} => link.end # "none"
    /\ link.end = "none" => link = NoLink
    /\ kind = "gate" /\ job.at = "idle" => link = NoLink
    /\ debris \in BOOLEAN /\ exit \in BOOLEAN /\ cut \in {"no", "cut", "reset"}
    /\ last \in [what : Outcome, ask : Nat, of : Nat]

(* A verdict on a file is clamd's answer to the command that sent this     *)
(* file, never the late answer to another, over time-outs, retries and     *)
(* connections that are kept from scan to scan (lib.rs scan_path,          *)
(* realtime.rs scan_one).                                                  *)
AnswersBelong == last.what \in {"clean", "infected"} => last.of = last.ask

(* On a connection that is kept for the next scan no answer waits or is    *)
(* still to come.  All that may be left is an unfinished zINSTREAM, when   *)
(* its file timed out while the socket of clamd was gone: scan_one takes   *)
(* that NotFound for a vanished file, and clamd will refuse what follows.  *)
KeptInStep ==
    job = Idle /\ Writable =>
        link.replies = <<>> /\ \A i \in DOMAIN link.sent : link.sent[i].form = "part"

(* A scan that the stop interrupts while it waits for an answer ends       *)
(* without waiting for another one (realtime.rs interrupt_workers).  If    *)
(* clamd resets the connection before the read has returned, that may be   *)
(* what the read reports, and scan_path tries once more.                   *)
InterruptedReadIsLast == (cut = "cut" => reads = 0) /\ (cut = "reset" => reads <= 2)

(* Whatever a stop finds a worker at, the worker begins at most four reads *)
(* that may wait, each of them bounded by WORKER_READ_TIMEOUT: a keepalive *)
(* and an answer in each of two attempts.                                  *)
StopIsBounded == reads <= 4

(* StopIsPrompt: of reads, a stop waits for no more than a worker may      *)
(* still begin, and for none if it cuts one (realtime.rs                   *)
(* interrupt_workers, lib.rs scan_path).  It bounds no write and no        *)
(* connect: those have no time limit in the code, and on a connection that *)
(* the stop does not find registered, a retry's for instance, one of them  *)
(* can hold it up for as long as clamd stands still.                       *)
StopIsPrompt == InterruptedReadIsLast /\ StopIsBounded

(* No copy of an oversized file outlives its scan, except one that failed  *)
(* half-way (lib.rs bigscan_copy, "the caller deletes it after").          *)
CopiesRemoved == copies <= 1 /\ (job.at \notin {"scan", "reply"} => copies = 0)

(* The client waits at a connect or a write, which only clamd can end.     *)
Blocked ==
    \/ job.at \in {"connect", "reconnect"} /\ ConnectWaits
    \/ job.at \in {"ping", "open", "scan"} /\ CommandWaits
    \/ job.at = "chunks" /\ ChunksWait

(* Every scan ends, with clamd answering or not, unless clamd stands still *)
(* when the client connects or writes: reads are bounded in time, and an   *)
(* attempt is repeated only once.                                          *)
ScansEnd == []<>(job = Idle \/ Blocked)
=============================================================================
