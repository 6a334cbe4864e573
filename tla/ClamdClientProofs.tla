-------------------------- MODULE ClamdClientProofs --------------------------
(***************************************************************************)
(* Proofs about ClamdClient, for any sizes, limits and number of scans.    *)
(*                                                                         *)
(* That an answer belongs to the file that is scanned is not inductive: it *)
(* rests on what is still to come on the connection.  The invariant IInv   *)
(* says it with Quiet and OneOut, which Answer and a read turn into each   *)
(* other: only a quiet connection is ever written to, and one that is no   *)
(* longer in step is no longer writable, or is dropped.                    *)
(***************************************************************************)
EXTENDS ClamdClient, SequenceTheorems, TLAPS

-----------------------------------------------------------------------------
(* The inductive invariant.                                                *)

Verdicts == {"OK", "FOUND"}

(* Nothing on the connection will ever be answered with a verdict.         *)
Quiet(l) == l.replies = <<>> /\ \A i \in 1..Len(l.sent) : l.sent[i].form = "part"

(* One command is out, behind leftovers at most, or its answer is here.    *)
OneOut(l) ==
    \/ /\ l.replies = <<>>
       /\ l.sent # <<>>
       /\ l.sent[Len(l.sent)].form # "part"
       /\ \A i \in 1..(Len(l.sent) - 1) : l.sent[i].form = "part"
    \/ l.sent = <<>> /\ Len(l.replies) = 1

(* A usable connection is quiet except while an answer is waited for.      *)
Usable ==
    Writable => IF job.at \in {"alive", "reply"} THEN OneOut(link) ELSE Quiet(link)

(* While the chunks are sent, what was begun last is this file.            *)
Begun ==
    job.at = "chunks" /\ Writable =>
        link.sent # <<>> /\ link.sent[Len(link.sent)].ask = ask

(* The verdict that is waited for is on this file.                         *)
Asked ==
    job.at = "reply" =>
        /\ \A i \in 1..Len(link.sent) :
              link.sent[i].form # "part" => link.sent[i].ask = ask
        /\ \A i \in 1..Len(link.replies) :
              link.replies[i].says \in Verdicts => link.replies[i].ask = ask

InStep == Usable /\ Begun /\ Asked

(* A read that was cut is the last thing its worker does, unless clamd     *)
(* resets the connection first.                                            *)
CutIsLast ==
    cut = "cut" =>
        /\ exit /\ kind = "worker" /\ reads = 0
        /\ job.at = "idle" \/ (job.at = "reply" /\ link.shut /\ link.end # "reset")

(* How many reads a scan may have begun by the time it is at a place; the  *)
(* two of the first attempt are spent when a read that was cut reports a   *)
(* reset.                                                                  *)
Spent == IF cut = "reset" THEN 2 ELSE 0

Budget ==
    IF job.at = "idle" THEN 4
    ELSE (IF job.try = 1 THEN 0 ELSE 2)
         + (IF job.at \in {"connect", "register", "begin", "ping"} THEN 0
            ELSE IF job.at \in {"reply", "reconnect"} THEN 2 ELSE 1)

WithinBudget ==
    /\ ~exit => reads = 0 /\ cut = "no"
    /\ exit => kind = "worker" /\ reads + Spent <= Budget
    /\ job.at \in {"connect", "register", "reconnect"} => job.try = 1

IInv == TypeOK /\ AnswersBelong /\ InStep /\ CutIsLast /\ WithinBudget /\ CopiesRemoved
-----------------------------------------------------------------------------
(* Type correctness.                                                       *)

USE SizeAssumption, BoundAssumption

Jobs == [at : Places, try : {1, 2}]
Outcomes == [what : Outcome, ask : Nat, of : Nat]

(* What a step leaves of the client: TypeOK without the rest of the state. *)
ClientOK ==
    /\ job \in Jobs /\ link \in Link /\ last \in Outcomes
    /\ job.at \notin {"idle", "connect"} => link.end # "none"
    /\ link.end = "none" => link = NoLink
    /\ kind = "gate" /\ job.at = "idle" => link = NoLink

(* The connections that the steps make of one are connections.             *)
LEMMA NewLinks == NoLink \in Link /\ FreshLink \in Link /\ FreshLink.end = "open"
  <1>1. <<>> \in Seq(Command) /\ <<>> \in Seq(Reply)
    OBVIOUS
  <1> QED BY <1>1 DEF NoLink, FreshLink, Link

LEMMA LinkTypes ==
    ASSUME link \in Link
    PROVE  /\ AfterRead \in Link /\ WholeStream \in Link
           /\ AfterRead.end = link.end /\ WholeStream.end = link.end
           /\ \A n \in Nat, form \in {"n", "z", "part"} :
                 Sends(n, form) => link' \in Link /\ link'.end = link.end
  <1>1. link.sent \in Seq(Command) /\ link.replies \in Seq(Reply)
    BY DEF Link
  <1>2. AfterRead \in Link /\ AfterRead.end = link.end
    <2>1. link.replies # <<>> => Tail(link.replies) \in Seq(Reply)
      BY <1>1
    <2> QED BY <2>1 DEF AfterRead, Link
  <1>3. WholeStream \in Link /\ WholeStream.end = link.end
    <2> DEFINE s == [i \in DOMAIN link.sent |->
                       IF i = Len(link.sent) THEN [link.sent[i] EXCEPT !.form = "z"]
                       ELSE link.sent[i]]
    <2>1. s \in Seq(Command)
      <3>1. DOMAIN link.sent = 1..Len(link.sent) /\ Len(link.sent) \in Nat
        BY <1>1
      <3>2. \A i \in 1..Len(link.sent) : link.sent[i] \in Command
        BY <1>1
      <3>3. \A i \in 1..Len(link.sent) : s[i] \in Command
        BY <3>1, <3>2 DEF Command
      <3>4. s \in [1..Len(link.sent) -> Command]
        BY <3>1, <3>3
      <3> QED BY <3>1, <3>4
    <2>2. WholeStream = [link EXCEPT !.sent = s]
      BY DEF WholeStream
    <2> HIDE DEF s
    <2> QED BY <2>1, <2>2 DEF Link
  <1>4. ASSUME NEW n \in Nat, NEW form \in {"n", "z", "part"}, Sends(n, form)
        PROVE  link' \in Link /\ link'.end = link.end
    <2>1. Append(link.sent, [ask |-> n, form |-> form]) \in Seq(Command)
      BY <1>1 DEF Command
    <2> QED BY <1>4, <2>1 DEF Sends, Link
  <1> QED BY <1>2, <1>3, <1>4

(* However an attempt fails, the client is in order (scan_path, scan_one). *)
LEMMA FailsTypes ==
    ASSUME TypeOK, UNCHANGED kind, NEW error
    PROVE  /\ Failed(error) => ClientOK'
           /\ job.at \notin {"idle", "connect"} /\ Fails(error) => ClientOK'
  <1>1. Failed(error) => ClientOK'
    <2> SUFFICES ASSUME Failed(error) PROVE ClientOK'
      OBVIOUS
    <2>1. job' = Idle /\ job' \in Jobs /\ job'.at = "idle"
      BY DEF Failed, Ended, Idle, Jobs, Places
    <2>2. last' \in Outcomes
      BY DEF Failed, Ended, TypeOK, Outcomes, Outcome
    <2>3. CASE Keeps(error)
      BY <2>1, <2>2, <2>3 DEF Failed, Keeps, TypeOK, ClientOK
    <2>4. CASE ~Keeps(error)
      BY <2>1, <2>2, <2>4, NewLinks DEF Failed, ClientOK
    <2> QED BY <2>3, <2>4
  <1>2. ASSUME job.at \notin {"idle", "connect"}, Fails(error)
        PROVE  ClientOK'
    <2>1. CASE Retries(error)
      BY <1>2, <2>1 DEF Fails, TypeOK, ClientOK, Jobs, Outcomes, Places
    <2>2. CASE ~Retries(error)
      BY <1>1, <1>2, <2>2 DEF Fails
    <2> QED BY <2>1, <2>2
  <1> QED BY <1>1, <1>2

(* Answered: the scan ends with clamd's word, or is skipped.               *)
LEMMA AnsweredTypes ==
    ASSUME TypeOK, UNCHANGED kind, NEW what \in Outcome, NEW of \in Nat, Answered(what, of)
    PROVE  ClientOK'
  <1>1. job' = Idle /\ job' \in Jobs /\ job'.at = "idle" /\ last' \in Outcomes
    BY DEF Answered, Ended, Idle, Jobs, Places, TypeOK, Outcomes
  <1> QED BY <1>1, NewLinks DEF Answered, TypeOK, ClientOK

(* Another place in the same attempt, with the connection there.           *)
LEMMA GoesTypes ==
    ASSUME TypeOK, UNCHANGED kind, NEW at \in Places \ {"idle", "connect"}, Goes(at),
           link' \in Link, link'.end # "none"
    PROVE  ClientOK'
  <1>1. job' \in Jobs /\ job'.at = at /\ last' \in Outcomes
    BY DEF Goes, TypeOK, Jobs, Outcomes
  <1> QED BY <1>1 DEF ClientOK

(* Every step keeps the type invariant.                                    *)
LEMMA TypeStep == TypeOK /\ [Next]_vars => TypeOK'
  <1> SUFFICES ASSUME TypeOK, [Next]_vars PROVE TypeOK'
    OBVIOUS
  <1> DEFINE Rest == /\ kind \in {"worker", "gate", "scan"} /\ clamd \in {"up", "down", "gone"}
                     /\ stalled \in BOOLEAN
                     /\ starts \in Nat /\ ask \in Nat /\ reads \in Nat /\ copies \in Nat
                     /\ size \in Sizes \cup {Gone}
                     /\ debris \in BOOLEAN /\ exit \in BOOLEAN
                     /\ cut \in {"no", "cut", "reset"}
  <1>0. ClientOK' /\ Rest' => TypeOK'
    BY DEF ClientOK, TypeOK, Jobs, Outcomes
  <1>1. /\ job \in Jobs /\ link \in Link /\ last \in Outcomes
        /\ ask \in Nat /\ reads \in Nat /\ copies \in Nat /\ Version \in Nat
        /\ AfterRead \in Link /\ AfterRead.end = link.end
        /\ WholeStream \in Link /\ WholeStream.end = link.end
    BY LinkTypes DEF TypeOK, Jobs, Outcomes, Version
  <1> HIDE DEF Rest
  <1>2. CASE Begin
    <2>1. ClientOK'
      BY <1>2 DEF Begin, client, history, ClientOK, TypeOK, Idle, Jobs, Outcomes, Places
    <2>9. Rest'
      BY <1>2, <1>1 DEF Begin, client, history, Rest, TypeOK
    <2> QED BY <1>0, <2>9, <2>1
  <1>3. CASE Connect
    <2>1. ASSUME NEW at \in {"register", "begin"}, link' = FreshLink, Goes(at)
          PROVE  ClientOK'
      BY <1>3, <2>1, GoesTypes, NewLinks DEF Connect, Places
    <2>2. ASSUME Failed("Refused")
          PROVE  ClientOK'
      BY <1>3, <2>2, FailsTypes DEF Connect
    <2>3. \/ link' = FreshLink /\ \E at \in {"register", "begin"} : Goes(at)
          \/ Failed("Refused")
      BY <1>3 DEF Connect
    <2>9. Rest'
      BY <1>3, <1>1 DEF Connect, Rest, TypeOK
    <2> QED BY <1>0, <2>9, <2>1, <2>2, <2>3
  <1>4. CASE Register
    <2>1. link' \in Link /\ link'.end # "none"
      <3>1. PICK ok \in BOOLEAN : link' = [link EXCEPT !.registered = ok]
        BY <1>4 DEF Register
      <3>2. link.end # "none"
        BY <1>4 DEF Register, TypeOK
      <3> QED BY <1>1, <3>1, <3>2 DEF Link
    <2>9. Rest'
      BY <1>4, <1>1 DEF Register, Rest, TypeOK
    <2>2. ClientOK'
      BY <1>4, <2>1, GoesTypes DEF Register, Places
    <2> QED BY <1>0, <2>9, <2>2
  <1>5. CASE Reconnect
    <2>1. ASSUME link' = FreshLink, job' = [at |-> "begin", try |-> 2], UNCHANGED last
          PROVE  ClientOK'
      BY <1>5, <1>1, <2>1, NewLinks DEF Reconnect, ClientOK, Jobs, Places
    <2>2. ASSUME NEW error, Failed(error)
          PROVE  ClientOK'
      BY <1>5, <2>2, FailsTypes DEF Reconnect
    <2>3. \/ link' = FreshLink /\ job' = [at |-> "begin", try |-> 2] /\ UNCHANGED last
          \/ \E error : Failed(error)
      BY <1>5 DEF Reconnect
    <2>9. Rest'
      BY <1>5, <1>1 DEF Reconnect, Rest, TypeOK
    <2> QED BY <1>0, <2>9, <2>1, <2>2, <2>3
  <1>6. CASE Keepalive
    <2>1. ASSUME Writable
          PROVE  ClientOK'
      BY <1>6, <1>1, <2>1, GoesTypes, LinkTypes DEF Keepalive, TypeOK, Places
    <2>2. ASSUME ~Writable
          PROVE  ClientOK'
      BY <1>6, <2>2, FailsTypes DEF Keepalive
    <2>9. Rest'
      BY <1>6, <1>1 DEF Keepalive, WaitsIf, Rest, TypeOK
    <2> QED BY <1>0, <2>9, <2>1, <2>2
  <1>7. CASE NotDue
    <2>1. ClientOK'
      BY <1>7, <1>1, GoesTypes DEF NotDue, TypeOK, Places
    <2>9. Rest'
      BY <1>7, <1>1 DEF NotDue, Rest, TypeOK
    <2> QED BY <1>0, <2>9, <2>1
  <1>22. CASE Due
    <2>1. ClientOK'
      BY <1>22, <1>1, GoesTypes DEF Due, TypeOK, Places
    <2>9. Rest'
      BY <1>22, <1>1 DEF Due, Rest, TypeOK
    <2> QED BY <1>0, <2>9, <2>1
  <1>8. CASE ReadVersion
    <2>1. ClientOK'
      BY <1>8, <1>1, GoesTypes, FailsTypes DEF ReadVersion, TypeOK, Places
    <2>9. Rest'
      BY <1>8, <1>1 DEF ReadVersion, Rest, TypeOK
    <2> QED BY <1>0, <2>9, <2>1
  <1>9. CASE Measure
    <2>1. ASSUME Rung(Length) = "skip"
          PROVE  ClientOK'
      BY <1>9, <1>1, <2>1, AnsweredTypes DEF Measure, Outcome
    <2>2. ASSUME Rung(Length) # "skip"
          PROVE  ClientOK'
      <3>1. Rung(Length) \in {"open", "copy"}
        BY <2>2 DEF Rung
      <3> QED BY <1>9, <1>1, <2>2, <3>1, GoesTypes DEF Measure, TypeOK, Places
    <2>9. Rest'
      BY <1>9, <1>1 DEF Measure, Rest, TypeOK
    <2> QED BY <1>0, <2>9, <2>1, <2>2
  <1>10. CASE OpenFile
    <2>1. ASSUME \E error : Fails(error)
          PROVE  ClientOK'
      BY <1>10, <2>1, FailsTypes DEF OpenFile
    <2>2. ASSUME Sends(ask, "part") /\ Goes("chunks")
          PROVE  ClientOK'
      BY <1>10, <1>1, <2>2, GoesTypes, LinkTypes DEF OpenFile, TypeOK, Places
    <2>3. (\E error : Fails(error)) \/ (Sends(ask, "part") /\ Goes("chunks"))
      BY <1>10 DEF OpenFile
    <2>9. Rest'
      BY <1>10, <1>1 DEF OpenFile, Rest, TypeOK
    <2> QED BY <1>0, <2>9, <2>1, <2>2, <2>3
  <1>11. CASE SendChunks
    <2>1. ASSUME \E error : Fails(error)
          PROVE  ClientOK'
      BY <1>11, <2>1, FailsTypes DEF SendChunks
    <2>2. ASSUME link' = WholeStream /\ Goes("reply")
          PROVE  ClientOK'
      BY <1>11, <1>1, <2>2, GoesTypes DEF SendChunks, TypeOK, Places
    <2>3. (\E error : Fails(error)) \/ (link' = WholeStream /\ Goes("reply"))
      BY <1>11 DEF SendChunks
    <2>9. Rest'
      BY <1>11, <1>1 DEF SendChunks, WaitsIf, Rest, TypeOK
    <2> QED BY <1>0, <2>9, <2>1, <2>2, <2>3
  <1>12. CASE CopyFile
    <2>1. ASSUME \E error : Fails(error)
          PROVE  ClientOK'
      BY <1>12, <2>1, FailsTypes DEF CopyFile
    <2>2. ASSUME Goes("scan") /\ UNCHANGED link
          PROVE  ClientOK'
      BY <1>12, <1>1, <2>2, GoesTypes DEF CopyFile, TypeOK, Places
    <2>3. (\E error : Fails(error)) \/ (Goes("scan") /\ UNCHANGED link)
      BY <1>12 DEF CopyFile
    <2>4. debris' \in BOOLEAN
      BY <1>12, Zenon DEF CopyFile, TypeOK
    <2>5. copies' \in Nat
      <3>1. copies' = copies \/ copies' = copies + 1
        BY <1>12, Zenon DEF CopyFile
      <3> QED BY <1>1, <3>1
    <2>9. Rest'
      BY <1>12, <1>1, <2>4, <2>5 DEF CopyFile, Rest, TypeOK
    <2> QED BY <1>0, <2>9, <2>1, <2>2, <2>3
  <1>13. CASE ScanCopy
    <2>1. ASSUME Writable
          PROVE  ClientOK'
      BY <1>13, <1>1, <2>1, GoesTypes, LinkTypes DEF ScanCopy, TypeOK, Places
    <2>2. ASSUME ~Writable
          PROVE  ClientOK'
      BY <1>13, <2>2, FailsTypes DEF ScanCopy
    <2>9. Rest'
      BY <1>13, <1>1 DEF ScanCopy, WaitsIf, Removes, Rest, TypeOK
    <2> QED BY <1>0, <2>9, <2>1, <2>2
  <1>14. CASE ReadReply
    <2>1. ASSUME \E error : Fails(error)
          PROVE  ClientOK'
      BY <1>14, <2>1, FailsTypes DEF ReadReply
    <2>2. ASSUME /\ link.replies = <<>>
                  /\ Ended("error", ask)
                  /\ link' = IF kind = "gate" THEN NoLink ELSE AfterRead
          PROVE  ClientOK'
      BY <1>14, <1>1, <2>2, NewLinks
      DEF ReadReply, Ended, Idle, ClientOK, TypeOK, Jobs, Places, Outcomes, Outcome
    <2>3. ASSUME /\ link.replies # <<>>
                  /\ Ended(Parse(Head(link.replies).says), Head(link.replies).ask)
                  /\ link' = IF kind = "gate" THEN NoLink ELSE AfterRead
          PROVE  ClientOK'
      <3>1. link.replies \in Seq(Reply)
        BY <1>1 DEF Link
      <3>2. Head(link.replies) \in Reply
        BY <2>3, <3>1
      <3>4. Head(link.replies).ask \in Nat
        BY <3>2 DEF Reply
      <3>3. Parse(Head(link.replies).says) \in Outcome
        BY DEF Parse, Outcome
      <3> QED
        BY <1>14, <1>1, <2>3, <3>4, <3>3, NewLinks
        DEF ReadReply, Ended, Idle, ClientOK, TypeOK, Jobs, Places, Outcomes
    <2>4. \/ \E error : Fails(error)
          \/ /\ link.replies = <<>>
             /\ Ended("error", ask)
             /\ link' = IF kind = "gate" THEN NoLink ELSE AfterRead
          \/ /\ link.replies # <<>>
             /\ Ended(Parse(Head(link.replies).says), Head(link.replies).ask)
             /\ link' = IF kind = "gate" THEN NoLink ELSE AfterRead
      BY <1>14 DEF ReadReply
    <2>9. Rest'
      BY <1>14, <1>1 DEF ReadReply, Removes, Rest, TypeOK
    <2> QED BY <1>0, <2>9, <2>1, <2>2, <2>3, <2>4
  <1>15. CASE InterruptWorkers
    <2>1. link' \in Link /\ link'.end = link.end /\ (link = NoLink => link' = NoLink)
      <3>1. CASE link.registered
        <4>1. link' = [link EXCEPT !.shut = TRUE]
          BY <1>15, <3>1 DEF InterruptWorkers
        <4>2. link # NoLink
          BY <3>1 DEF NoLink
        <4> QED BY <1>1, <4>1, <4>2 DEF Link
      <3>2. CASE ~link.registered
        BY <1>15, <1>1, <3>2 DEF InterruptWorkers
      <3> QED BY <3>1, <3>2
    <2>9. Rest'
      BY <1>15, <1>1 DEF InterruptWorkers, Rest, TypeOK
    <2>2. ClientOK'
      BY <1>15, <1>1, <2>1 DEF InterruptWorkers, TypeOK, ClientOK
    <2> QED BY <1>0, <2>9, <2>2
  <1>16. CASE FileChanges
    <2>1. ClientOK'
      BY <1>16, <1>1 DEF FileChanges, client, history, TypeOK, ClientOK
    <2>9. Rest'
      BY <1>16, <1>1 DEF FileChanges, client, history, Rest, TypeOK
    <2> QED BY <1>0, <2>9, <2>1
  <1>17. CASE Answer
    <2>1. link.sent \in Seq(Command) /\ link.replies \in Seq(Reply) /\ link.sent # <<>>
      BY <1>17, <1>1 DEF Answer, Link
    <2>2. Head(link.sent) \in Command /\ Tail(link.sent) \in Seq(Command)
      BY <2>1
    <2>3. \A says \in {"OK", "FOUND", "ERROR", "VERSION"}, newline \in BOOLEAN :
            Append(link.replies, [ask |-> Head(link.sent).ask, says |-> says,
                                  newline |-> newline]) \in Seq(Reply)
      BY <2>1, <2>2 DEF Command, Reply
    <2>4. Says(Head(link.sent)) \subseteq {"OK", "FOUND", "ERROR", "VERSION"}
      BY DEF Says
    <2>5. <<>> \in Seq(Command)
      OBVIOUS
    <2>6. link' \in Link /\ link'.end # "none" /\ link.end = "open"
      <3> DEFINE Line == Head(link.sent).form = "n"
      <3> DEFINE Next1(end, sent, says, newline) ==
                   [link EXCEPT !.end = end, !.sent = sent,
                     !.replies = Append(@, [ask |-> Head(link.sent).ask, says |-> says,
                                            newline |-> newline])]
      <3>1. \/ \E says \in Says(Head(link.sent)), end \in {"open", "eof"} :
                 link' = Next1(end, Tail(link.sent), says, Line)
            \/ link' = Next1("reset", <<>>, "ERROR", FALSE)
        BY <1>17 DEF Answer
      <3>2. ASSUME NEW end \in {"open", "eof", "reset"}, NEW sent \in Seq(Command),
                   NEW says \in {"OK", "FOUND", "ERROR", "VERSION"}, NEW newline \in BOOLEAN
            PROVE  Next1(end, sent, says, newline) \in Link
                   /\ Next1(end, sent, says, newline).end = end
        <4>1. Append(link.replies, [ask |-> Head(link.sent).ask, says |-> says,
                                    newline |-> newline]) \in Seq(Reply)
          BY <2>3
        <4> QED BY <1>1, <4>1 DEF Link
      <3>3. link.end = "open"
        BY <1>17 DEF Answer
      <3>4. Line \in BOOLEAN
        OBVIOUS
      <3> HIDE DEF Next1, Line
      <3>5. CASE link' = Next1("reset", <<>>, "ERROR", FALSE)
        BY <2>5, <3>2, <3>3, <3>5
      <3>6. ASSUME NEW says \in Says(Head(link.sent)), NEW end \in {"open", "eof"},
                   link' = Next1(end, Tail(link.sent), says, Line)
            PROVE  link' \in Link /\ link'.end # "none"
        <4>1. says \in {"OK", "FOUND", "ERROR", "VERSION"} /\ end \in {"open", "eof", "reset"}
          BY <2>4
        <4>2. Next1(end, Tail(link.sent), says, Line) \in Link
              /\ Next1(end, Tail(link.sent), says, Line).end = end
          BY <2>2, <3>2, <3>4, <4>1
        <4>3. end # "none"
          OBVIOUS
        <4> QED BY <3>6, <4>2, <4>3
      <3> QED BY <3>1, <3>3, <3>5, <3>6
    <2>8. cut' \in {"no", "cut", "reset"}
      BY <1>17, Zenon DEF Answer, Resets, TypeOK
    <2>9. Rest'
      BY <1>17, <1>1, <2>8 DEF Answer, Rest, TypeOK
    <2>7. ClientOK'
      <3>1. UNCHANGED <<kind, job, last>>
        BY <1>17 DEF Answer
      <3>2. link # NoLink
        BY <2>6 DEF NoLink
      <3> QED BY <1>1, <2>6, <3>1, <3>2 DEF TypeOK, ClientOK
    <2> QED BY <1>0, <2>9, <2>7
  <1>18. CASE Hangup
    <2>1. link' \in Link /\ link'.end # "none" /\ link.end = "open"
      <3>1. PICK end \in {"eof", "reset"} : link' = [link EXCEPT !.end = end, !.sent = <<>>]
        BY <1>18 DEF Hangup
      <3>2. <<>> \in Seq(Command)
        OBVIOUS
      <3>3. link.end = "open"
        BY <1>18 DEF Hangup
      <3> QED BY <1>1, <3>1, <3>2, <3>3 DEF Link
    <2>8. cut' \in {"no", "cut", "reset"}
      BY <1>18, Zenon DEF Hangup, Resets, TypeOK
    <2>9. Rest'
      BY <1>18, <1>1, <2>8 DEF Hangup, Rest, TypeOK
    <2>2. ClientOK'
      BY <1>18, <1>1, <2>1 DEF Hangup, TypeOK, ClientOK, NoLink
    <2> QED BY <1>0, <2>9, <2>2
  <1>19. CASE ClamdStops
    <2>1. ClientOK'
      BY <1>19, <1>1 DEF ClamdStops, client, history, TypeOK, ClientOK
    <2>9. Rest'
      BY <1>19, <1>1 DEF ClamdStops, client, history, Rest, TypeOK
    <2> QED BY <1>0, <2>9, <2>1
  <1>20. CASE ClamdStarts
    <2>1. ClientOK'
      BY <1>20, <1>1 DEF ClamdStarts, client, history, TypeOK, ClientOK
    <2>9. Rest'
      BY <1>20, <1>1 DEF ClamdStarts, client, history, Rest, TypeOK
    <2> QED BY <1>0, <2>9, <2>1
  <1>23. CASE Stalls
    <2>1. ClientOK'
      BY <1>23, <1>1 DEF Stalls, client, history, TypeOK, ClientOK
    <2>9. Rest'
      BY <1>23, <1>1 DEF Stalls, client, history, Rest, TypeOK
    <2> QED BY <1>0, <2>9, <2>1
  <1>21. CASE UNCHANGED vars
    BY <1>21 DEF vars, TypeOK
  <1> QED
    BY <1>2, <1>3, <1>4, <1>5, <1>6, <1>7, <1>8, <1>9, <1>10, <1>11, <1>12, <1>13, <1>14,
       <1>15, <1>16, <1>17, <1>18, <1>19, <1>20, <1>21, <1>22, <1>23 DEF Next, Step

-----------------------------------------------------------------------------
(* Safety.                                                                 *)

(* However an attempt fails: it is repeated over a new connection, or the  *)
(* scan ends without a verdict; the connection is as it was, or dropped.   *)
LEMMA FailsEffect ==
    ASSUME NEW error
    PROVE  /\ Failed(error) =>
                /\ job' = Idle /\ last'.what \in {"quiet", "failed"}
                /\ link' = NoLink \/ (link' = link /\ Keeps(error))
           /\ Fails(error) =>
                \/ /\ job' = [job EXCEPT !.at = "reconnect"] /\ job.try = 1
                   /\ error \in RetryKinds /\ UNCHANGED <<link, last>>
                \/ Failed(error)
  BY DEF Failed, Ended, Fails, Retries

(* A verdict is on the file of its scan.                                   *)
LEMMA AnswersStep == IInv /\ [Next]_vars => AnswersBelong'
  <1> SUFFICES ASSUME IInv, [Next]_vars PROVE AnswersBelong'
    OBVIOUS
  <1> DEFINE Same == UNCHANGED last
             Bare == last'.what \in {"quiet", "failed", "skipped", "error"}
  <1>0. Same \/ Bare => AnswersBelong'
    BY DEF IInv, AnswersBelong
  <1>1. \A error : (Failed(error) => Bare) /\ (Fails(error) => Same \/ Bare)
    BY FailsEffect
  <1> HIDE DEF Bare
  <1>2. CASE Connect \/ Reconnect
    BY <1>0, <1>1, <1>2 DEF Connect, Reconnect, Goes
  <1>3. CASE Keepalive \/ ReadVersion
    BY <1>0, <1>1, <1>3 DEF Keepalive, ReadVersion, Goes
  <1>4. CASE Measure
    BY <1>0, <1>4 DEF Measure, Answered, Ended, Goes, Bare
  <1>5. CASE OpenFile \/ SendChunks
    BY <1>0, <1>1, <1>5 DEF OpenFile, SendChunks, Goes
  <1>6. CASE CopyFile \/ ScanCopy
    BY <1>0, <1>1, <1>6 DEF CopyFile, ScanCopy, Goes
  <1>7. CASE ReadReply
    <2>1. ASSUME \E error : Fails(error)
          PROVE  AnswersBelong'
      BY <1>0, <1>1, <2>1
    <2>2. ASSUME Ended("error", ask)
          PROVE  AnswersBelong'
      BY <1>0, <2>2 DEF Ended, Bare
    <2>3. ASSUME /\ link.replies # <<>>
                 /\ Ended(Parse(Head(link.replies).says), Head(link.replies).ask)
          PROVE  AnswersBelong'
      <3>1. 1 \in 1..Len(link.replies) /\ Head(link.replies) = link.replies[1]
        <4>1. link.replies \in Seq(Reply)
          BY DEF IInv, TypeOK, Link
        <4> QED BY <2>3, <4>1
      <3>2. CASE Head(link.replies).says \in Verdicts
        <4>1. Head(link.replies).ask = ask
          BY <1>7, <3>1, <3>2 DEF ReadReply, IInv, InStep, Asked
        <4> QED BY <2>3, <4>1 DEF Ended, AnswersBelong
      <3>3. CASE Head(link.replies).says \notin Verdicts
        <4>1. Parse(Head(link.replies).says) = "error"
          BY <3>3 DEF Parse, Verdicts
        <4> QED BY <1>0, <2>3, <4>1 DEF Ended, Bare
      <3> QED BY <3>2, <3>3
    <2> QED BY <1>7, <2>1, <2>2, <2>3 DEF ReadReply
  <1>8. CASE Begin \/ Register \/ Due \/ NotDue \/ InterruptWorkers \/ FileChanges
    BY <1>0, <1>8 DEF Begin, Register, Due, NotDue, InterruptWorkers, FileChanges, Goes,
                      history
  <1>9. CASE Answer \/ Hangup \/ Stalls \/ ClamdStops \/ ClamdStarts \/ UNCHANGED vars
    BY <1>0, <1>9 DEF Answer, Hangup, Stalls, ClamdStops, ClamdStarts, history, vars
  <1> QED
    BY <1>2, <1>3, <1>4, <1>5, <1>6, <1>7, <1>8, <1>9 DEF Next, Step

(* The copy of an oversized file goes with its scan.                       *)
LEMMA CopiesStep == IInv /\ [Next]_vars => CopiesRemoved'
  <1> SUFFICES ASSUME IInv, [Next]_vars PROVE CopiesRemoved'
    OBVIOUS
  <1>1. \A error : Failed(error) \/ Fails(error) => job'.at \notin {"scan", "reply"}
    BY FailsEffect DEF Idle, IInv, TypeOK
  <1>2. copies \in Nat /\ copies <= 1 /\ (job.at \notin {"scan", "reply"} => copies = 0)
    BY DEF IInv, CopiesRemoved, TypeOK
  <1>3. \A at : Goes(at) => job'.at = at
    BY DEF Goes, IInv, TypeOK
  <1>4. CASE copies' = 0
    BY <1>4 DEF CopiesRemoved
  <1>5. CASE copies' = copies /\ job.at \notin {"scan", "reply"}
    BY <1>2, <1>4, <1>5
  <1>6. CASE CopyFile
    <2>1. copies' \in {0, 1} /\ (copies' = 0 \/ job'.at = "scan")
      <3>1. copies' = copies \/ (copies' = copies + 1 /\ Goes("scan"))
        BY <1>6, Zenon DEF CopyFile
      <3>2. copies = 0
        BY <1>2, <1>6 DEF CopyFile
      <3> QED BY <1>3, <3>1, <3>2
    <2> QED BY <2>1 DEF CopiesRemoved
  <1>7. CASE ScanCopy
    BY <1>2, <1>3, <1>4, <1>7 DEF ScanCopy, Removes, CopiesRemoved
  <1>8. CASE ReadReply
    BY <1>4, <1>8 DEF ReadReply, Removes
  <1>9. CASE InterruptWorkers \/ FileChanges \/ Answer \/ Hangup
             \/ Stalls \/ ClamdStops \/ ClamdStarts \/ UNCHANGED vars
    <2>1. UNCHANGED <<job, copies>>
      BY <1>9 DEF InterruptWorkers, FileChanges, Answer, Hangup, Stalls, ClamdStops,
                  ClamdStarts, client, vars
    <2> QED BY <1>2, <2>1 DEF CopiesRemoved
  <1>10. CASE Begin \/ Connect \/ Register \/ Reconnect \/ Due \/ Keepalive \/ NotDue
              \/ ReadVersion
    BY <1>5, <1>10 DEF Begin, Connect, Register, Reconnect, Due, Keepalive, NotDue,
                       ReadVersion, Idle
  <1>11. CASE Measure \/ OpenFile \/ SendChunks
    BY <1>5, <1>11 DEF Measure, OpenFile, SendChunks
  <1> QED
    BY <1>6, <1>7, <1>8, <1>9, <1>10, <1>11 DEF Next, Step

(* A read that was cut is the last thing its worker does, or clamd has     *)
(* reset the connection.                                                   *)
LEMMA CutStep == IInv /\ [Next]_vars => CutIsLast'
  <1> SUFFICES ASSUME IInv, [Next]_vars, cut' = "cut" PROVE CutIsLast'
    BY DEF CutIsLast
  <1>1. CASE InterruptWorkers
    <2>1. /\ exit' /\ kind' = "worker" /\ reads' = reads /\ ~exit /\ job' = job
          /\ cut' = IF link.registered /\ job.at = "reply" /\ Waits THEN "cut" ELSE cut
          /\ link' = IF link.registered THEN [link EXCEPT !.shut = TRUE] ELSE link
      BY <1>1, Zenon DEF InterruptWorkers
    <2>2. reads' = 0 /\ cut = "no"
      BY <2>1 DEF IInv, WithinBudget
    <2>3. link.registered /\ job.at = "reply" /\ Waits
      BY <2>1, <2>2
    <2>4. link'.shut /\ link'.end # "reset"
      BY <2>1, <2>3 DEF IInv, TypeOK, Link, Waits, Writable
    <2> QED BY <2>1, <2>2, <2>3, <2>4 DEF CutIsLast
  <1>2. CASE ~InterruptWorkers
    <2>1. cut = "cut"
      <3>1. Resets => cut = "cut"
        BY DEF Resets
      <3>2. Answer \/ Hangup => cut = "cut"
        BY <3>1 DEF Answer, Hangup
      <3>3. Step => UNCHANGED cut
        BY Zenon DEF Step, Connect, Register, Reconnect, Due, Keepalive, NotDue, ReadVersion,
           Measure, OpenFile, SendChunks, CopyFile, ScanCopy, ReadReply
      <3> QED BY <1>2, <3>2, <3>3 DEF Next, Begin, FileChanges, Stalls, ClamdStops,
                                      ClamdStarts, history, vars
    <2>2. /\ exit /\ kind = "worker" /\ reads = 0
          /\ job.at = "idle" \/ (job.at = "reply" /\ link.shut /\ link.end # "reset")
      BY <2>1 DEF IInv, CutIsLast
    <2>3. CASE ReadReply
      <3>1. job' = Idle
        BY <2>2, <2>3 DEF ReadReply, IsReset, Waits, Writable, Ended
      <3> QED BY <2>2, <2>3, <3>1 DEF ReadReply, CutIsLast, Idle
    <2>4. CASE Begin \/ FileChanges \/ Stalls \/ ClamdStops \/ ClamdStarts \/ UNCHANGED vars
      BY <2>2, <2>4 DEF Begin, FileChanges, Stalls, ClamdStops, ClamdStarts, client, history,
                        vars, CutIsLast
    <2>5. CASE Answer \/ Hangup
      <3>1. UNCHANGED <<exit, kind, reads, job>>
        BY <2>5 DEF Answer, Hangup
      <3>2. ~Resets
        BY <2>1 DEF Resets
      <3>3. link'.shut = link.shut /\ link'.end # "reset"
        <4>1. link \in Link
          BY DEF IInv, TypeOK
        <4>2. CASE Hangup
          <5>1. link' = [link EXCEPT !.end = "eof", !.sent = <<>>]
            BY <3>2, <4>2 DEF Hangup
          <5> QED BY <4>1, <5>1 DEF Link
        <4>3. CASE Answer
          BY <3>2, <4>1, <4>3 DEF Answer, Link
        <4> QED BY <2>5, <4>2, <4>3
      <3> QED BY <2>2, <3>1, <3>3 DEF CutIsLast
    <2>6. ~(Step /\ ~ReadReply)
      BY <2>2 DEF Step, Connect, Register, Reconnect, Due, Keepalive, NotDue, ReadVersion,
                  Measure, OpenFile, SendChunks, CopyFile, ScanCopy
    <2> QED BY <1>2, <2>3, <2>4, <2>5, <2>6 DEF Next
  <1> QED BY <1>1, <1>2

(* What a read that begins adds (WaitsIf).                                 *)
LEMMA ReadsGrow ==
    ASSUME TypeOK, NEW b \in BOOLEAN, WaitsIf(b)
    PROVE  reads' = reads \/ (exit /\ reads' = reads + 1)
  BY DEF WaitsIf

(* The reads of a worker that is stopped stay within the budget.           *)
LEMMA BudgetStep == IInv /\ [Next]_vars => WithinBudget'
  <1> SUFFICES ASSUME IInv, [Next]_vars PROVE WithinBudget'
    OBVIOUS
  <1>1. /\ job \in [at : Places, try : {1, 2}] /\ reads \in Nat /\ exit \in BOOLEAN
        /\ Spent \in {0, 2}
        /\ ~exit => reads = 0 /\ cut = "no"
        /\ exit => kind = "worker" /\ reads + Spent <= Budget
        /\ job.at \in {"connect", "register", "reconnect"} => job.try = 1
    BY DEF IInv, TypeOK, WithinBudget, Spent
  <1>0. UNCHANGED cut => UNCHANGED Spent
    BY DEF Spent
  <1>2. ASSUME UNCHANGED <<kind, exit, cut, reads>>, NEW error, Fails(error) \/ Failed(error),
               job.at \notin {"idle", "connect"} \/ Failed(error)
        PROVE  WithinBudget'
    <2>1. CASE job' = Idle
      <3>1. Budget \in Nat /\ Budget <= 4 /\ Budget' = 4 /\ job'.at = "idle"
        BY <1>1, <2>1 DEF Idle, Budget
      <3> QED BY <1>0, <1>1, <1>2, <3>1 DEF WithinBudget
    <2>2. CASE job' = [job EXCEPT !.at = "reconnect"] /\ job.try = 1
      <3>1. job.at # "idle"
        BY <1>2, <2>1, <2>2, FailsEffect DEF Idle
      <3>2. job'.at = "reconnect" /\ job'.try = 1
        BY <1>1, <2>2
      <3>3. Budget <= 2 /\ Budget \in Nat /\ Budget' = 2
        BY <1>1, <2>2, <3>1, <3>2 DEF Budget
      <3> QED BY <1>0, <1>1, <1>2, <3>2, <3>3 DEF WithinBudget
    <2> QED BY <1>2, <2>1, <2>2, FailsEffect
  <1>3. ASSUME UNCHANGED <<kind, exit, cut>>, NEW at \in Places, Goes(at),
               at \notin {"connect", "register", "reconnect"} \/ job.try = 1,
               \/ reads' = reads /\ Budget <= Budget'
               \/ exit /\ reads' = reads + 1 /\ Budget + 1 <= Budget'
        PROVE  WithinBudget'
    <2>1. job'.at = at /\ job'.try = job.try
      BY <1>1, <1>3 DEF Goes
    <2>2. Budget \in Nat /\ Budget' \in Nat
      BY <1>1, <2>1 DEF Budget
    <2> HIDE DEF Budget
    <2> QED BY <1>0, <1>1, <1>3, <2>1, <2>2 DEF WithinBudget
  <1>4. \A at \in Places : Goes(at) => job'.at = at /\ job'.try = job.try
    BY <1>1 DEF Goes
  <1>5. CASE Begin
    BY <1>1, <1>5 DEF Begin, Idle, history, WithinBudget
  <1>6. CASE Connect
    <2>1. ASSUME NEW at \in {"register", "begin"}, Goes(at)
          PROVE  WithinBudget'
      <3>1. Budget' = Budget
        BY <1>1, <1>4, <1>6, <2>1 DEF Connect, Budget, Places
      <3> QED BY <1>1, <1>3, <1>6, <2>1, <3>1 DEF Connect, Places, Budget
    <2>2. (\E at \in {"register", "begin"} : Goes(at)) \/ Failed("Refused")
      BY <1>6 DEF Connect
    <2> QED BY <1>2, <1>6, <2>1, <2>2 DEF Connect
  <1>7. CASE Register
    BY <1>1, <1>3, <1>4, <1>7 DEF Register, Places, Budget
  <1>8. CASE Reconnect
    <2>1. ASSUME job' = [at |-> "begin", try |-> 2]
          PROVE  WithinBudget'
      <3>1. Budget = 2 /\ Budget' = 2 /\ job'.at = "begin"
        BY <1>1, <1>8, <2>1 DEF Reconnect, Budget
      <3> QED BY <1>0, <1>1, <1>8, <3>1 DEF Reconnect, WithinBudget
    <2>2. job' = [at |-> "begin", try |-> 2] \/ \E error : Failed(error)
      BY <1>8 DEF Reconnect
    <2> QED BY <1>2, <1>8, <2>1, <2>2 DEF Reconnect
  <1>9. CASE Keepalive
    <2>1. ASSUME Writable
          PROVE  WithinBudget'
      <3>1. reads' = reads \/ (exit /\ reads' = reads + 1)
        BY <1>9, <2>1, ReadsGrow DEF Keepalive, IInv
      <3>2. Budget + 1 <= Budget' /\ Budget <= Budget'
        BY <1>1, <1>4, <1>9, <2>1 DEF Keepalive, Budget, Places
      <3> QED BY <1>3, <1>9, <2>1, <3>1, <3>2 DEF Keepalive, Places
    <2>2. ASSUME ~Writable
          PROVE  WithinBudget'
      BY <1>2, <1>9, <2>2 DEF Keepalive, WaitsIf
    <2> QED BY <2>1, <2>2
  <1>10. CASE NotDue
    <2>1. Budget <= Budget'
      BY <1>1, <1>4, <1>10 DEF NotDue, Budget, Places
    <2> QED BY <1>3, <1>10, <2>1 DEF NotDue, Places
  <1>20. CASE Due
    <2>1. Budget <= Budget'
      BY <1>1, <1>4, <1>20 DEF Due, Budget, Places
    <2> QED BY <1>3, <1>20, <2>1 DEF Due, Places
  <1>11. CASE ReadVersion
    <2>1. ASSUME Goes("measure")
          PROVE  WithinBudget'
      <3>1. Budget <= Budget'
        BY <1>1, <1>4, <1>11, <2>1 DEF ReadVersion, Budget, Places
      <3> QED BY <1>3, <1>11, <2>1, <3>1 DEF ReadVersion, Places
    <2> QED BY <1>2, <1>11, <2>1 DEF ReadVersion
  <1>12. CASE Measure
    <2>1. ASSUME Rung(Length) = "skip"
          PROVE  WithinBudget'
      <3>1. Budget \in Nat /\ Budget <= 4 /\ Budget' = 4 /\ job'.at = "idle"
        BY <1>1, <1>12, <2>1 DEF Measure, Answered, Ended, Idle, Budget
      <3> QED BY <1>0, <1>1, <1>12, <3>1 DEF Measure, WithinBudget
    <2>2. ASSUME Rung(Length) # "skip"
          PROVE  WithinBudget'
      <3>1. Rung(Length) \in {"open", "copy"}
        BY <2>2 DEF Rung
      <3>2. Budget <= Budget'
        BY <1>1, <1>4, <1>12, <2>2, <3>1 DEF Measure, Budget, Places
      <3> QED BY <1>3, <1>12, <2>2, <3>1, <3>2 DEF Measure, Places
    <2> QED BY <2>1, <2>2
  <1>13. CASE OpenFile
    <2>1. ASSUME Goes("chunks")
          PROVE  WithinBudget'
      <3>1. Budget <= Budget'
        BY <1>1, <1>4, <1>13, <2>1 DEF OpenFile, Budget, Places
      <3> QED BY <1>3, <1>13, <2>1, <3>1 DEF OpenFile, Places
    <2> QED BY <1>2, <1>13, <2>1 DEF OpenFile
  <1>14. CASE SendChunks
    <2>1. ASSUME Goes("reply"), WaitsIf(TRUE)
          PROVE  WithinBudget'
      <3>1. reads' = reads \/ (exit /\ reads' = reads + 1)
        BY <2>1, ReadsGrow DEF IInv
      <3>2. Budget + 1 <= Budget' /\ Budget <= Budget'
        BY <1>1, <1>4, <1>14, <2>1 DEF SendChunks, Budget, Places
      <3> QED BY <1>3, <1>14, <2>1, <3>1, <3>2 DEF SendChunks, Places
    <2> QED BY <1>2, <1>14, <2>1 DEF SendChunks
  <1>15. CASE CopyFile
    <2>1. ASSUME Goes("scan")
          PROVE  WithinBudget'
      <3>1. Budget <= Budget'
        BY <1>1, <1>4, <1>15, <2>1 DEF CopyFile, Budget, Places
      <3> QED BY <1>3, <1>15, <2>1, <3>1 DEF CopyFile, Places
    <2> QED BY <1>2, <1>15, <2>1 DEF CopyFile
  <1>16. CASE ScanCopy
    <2>1. ASSUME Writable
          PROVE  WithinBudget'
      <3>1. reads' = reads \/ (exit /\ reads' = reads + 1)
        BY <1>16, <2>1, ReadsGrow DEF ScanCopy, IInv
      <3>2. Budget + 1 <= Budget' /\ Budget <= Budget'
        BY <1>1, <1>4, <1>16, <2>1 DEF ScanCopy, Budget, Places
      <3> QED BY <1>3, <1>16, <2>1, <3>1, <3>2 DEF ScanCopy, Places
    <2>2. ASSUME ~Writable
          PROVE  WithinBudget'
      BY <1>2, <1>16, <2>2 DEF ScanCopy, WaitsIf
    <2> QED BY <2>1, <2>2
  <1>17. CASE ReadReply
    <2>1. ASSUME \E what, of : Ended(what, of)
          PROVE  WithinBudget'
      <3>1. Budget \in Nat /\ Budget <= 4 /\ Budget' = 4 /\ job'.at = "idle"
        BY <1>1, <2>1 DEF Ended, Idle, Budget
      <3> QED BY <1>0, <1>1, <1>17, <3>1 DEF ReadReply, WithinBudget
    <2> QED BY <1>2, <1>17, <2>1 DEF ReadReply
  <1>18. CASE InterruptWorkers
    <2>1. reads' = 0 /\ kind' = "worker" /\ job' = job /\ exit' /\ cut' \in {"no", "cut"}
      BY <1>1, <1>18 DEF InterruptWorkers
    <2>2. Spent' = 0
      BY <2>1 DEF Spent
    <2>3. Budget' = Budget /\ Budget >= 0
      BY <1>1, <2>1 DEF Budget
    <2> QED BY <1>1, <2>1, <2>2, <2>3 DEF WithinBudget
  <1>19. CASE FileChanges \/ Stalls \/ ClamdStops \/ ClamdStarts \/ UNCHANGED vars
    <2>1. UNCHANGED <<kind, exit, cut, reads, job>>
      BY <1>19 DEF FileChanges, Stalls, ClamdStops, ClamdStarts, client, history, vars
    <2> QED BY <1>0, <1>1, <2>1 DEF WithinBudget, Budget
  <1>21. CASE Answer \/ Hangup
    <2>1. UNCHANGED <<kind, exit, reads, job>> /\ Budget' = Budget
      BY <1>21 DEF Answer, Hangup, Budget
    <2>2. UNCHANGED cut \/ (cut = "cut" /\ cut' = "reset")
      BY <1>21 DEF Answer, Hangup, Resets
    <2>3. CASE UNCHANGED cut
      BY <1>0, <1>1, <2>1, <2>3 DEF WithinBudget
    <2>4. CASE cut = "cut" /\ cut' = "reset"
      <3>1. exit /\ reads = 0 /\ job.at \in {"idle", "reply"}
        BY <2>4 DEF IInv, CutIsLast
      <3>2. Budget >= 2 /\ Budget \in Nat
        BY <1>1, <3>1 DEF Budget
      <3>3. Spent' = 2
        BY <2>4 DEF Spent
      <3> QED BY <1>1, <2>1, <3>1, <3>2, <3>3 DEF WithinBudget
    <2> QED BY <2>2, <2>3, <2>4
  <1> QED
    BY <1>5, <1>6, <1>7, <1>8, <1>9, <1>10, <1>11, <1>12, <1>13, <1>14, <1>15, <1>16,
       <1>17, <1>18, <1>19, <1>20, <1>21 DEF Next, Step

(* A command on a quiet connection is the one that is out, a piece of one  *)
(* leaves it quiet, and what is sent last is last.                         *)
LEMMA SendsOnQuiet ==
    ASSUME link \in Link, Quiet(link), NEW n \in Nat, NEW form \in {"n", "z", "part"},
           Sends(n, form)
    PROVE  /\ form = "part" => Quiet(link')
           /\ form # "part" => OneOut(link')
           /\ link'.sent # <<>> /\ link'.sent[Len(link'.sent)] = [ask |-> n, form |-> form]
           /\ \A i \in 1..Len(link'.sent) :
                 link'.sent[i].form # "part" => link'.sent[i].ask = n
           /\ link'.replies = <<>>
  <1> DEFINE c == [ask |-> n, form |-> form]
  <1>1. link.sent \in Seq(Command) /\ c \in Command
    BY DEF Link, Command
  <1>2. link'.sent = Append(link.sent, c) /\ link'.replies = <<>>
    BY DEF Sends, Quiet, Link
  <1>3. c.form = form /\ c.ask = n
    OBVIOUS
  <1> HIDE DEF c
  <1>4. /\ Len(link'.sent) = Len(link.sent) + 1 /\ Len(link.sent) \in Nat
        /\ link'.sent # <<>> /\ link'.sent[Len(link'.sent)] = c
        /\ \A i \in 1..Len(link.sent) : link'.sent[i] = link.sent[i]
    BY <1>1, <1>2
  <1>5. \A i \in 1..(Len(link'.sent) - 1) : link'.sent[i].form = "part"
    BY <1>4 DEF Quiet
  <1>6. form = "part" => Quiet(link')
    BY <1>2, <1>3, <1>4, <1>5 DEF Quiet
  <1>7. form # "part" => OneOut(link')
    BY <1>2, <1>3, <1>4, <1>5 DEF OneOut
  <1>8. \A i \in 1..Len(link'.sent) : link'.sent[i].form # "part" => link'.sent[i].ask = n
    BY <1>3, <1>4, <1>5
  <1> QED BY <1>2, <1>4, <1>6, <1>7, <1>8 DEF c

(* The last chunk makes a command of the pieces of one.                    *)
LEMMA StreamOnQuiet ==
    ASSUME link \in Link, Quiet(link), link.sent # <<>>, link' = WholeStream
    PROVE  /\ OneOut(link') /\ link'.replies = <<>>
           /\ \A i \in 1..Len(link'.sent) :
                 link'.sent[i].form # "part" =>
                    link'.sent[i].ask = link.sent[Len(link.sent)].ask
  <1> DEFINE s == [i \in DOMAIN link.sent |->
                     IF i = Len(link.sent) THEN [link.sent[i] EXCEPT !.form = "z"]
                     ELSE link.sent[i]]
             n == Len(link.sent)
  <1>1. link.sent \in Seq(Command) /\ DOMAIN link.sent = 1..n /\ n \in Nat
    BY DEF Link
  <1>2. n > 0 /\ \A i \in 1..n : link.sent[i] \in Command
    BY <1>1
  <1>3. link'.sent = s /\ link'.replies = <<>>
    BY DEF WholeStream, Quiet, Link
  <1>4. s[n] = [link.sent[n] EXCEPT !.form = "z"] /\ \A i \in 1..(n - 1) : s[i] = link.sent[i]
    BY <1>1, <1>2
  <1>5. s[n].form = "z" /\ s[n].ask = link.sent[n].ask
    BY <1>2, <1>4 DEF Command
  <1>6. s \in Seq(Command) /\ Len(s) = n /\ s # <<>>
    <2>1. \A i \in 1..n : s[i] \in Command
      BY <1>1, <1>2 DEF Command
    <2>2. s \in [1..n -> Command]
      BY <1>1, <2>1
    <2> HIDE DEF s
    <2> QED BY <1>1, <1>2, <2>2
  <1>7. \A i \in 1..(n - 1) : s[i].form = "part"
    BY <1>1, <1>4 DEF Quiet
  <1> HIDE DEF s, n
  <1>8. OneOut(link')
    BY <1>3, <1>5, <1>6, <1>7 DEF OneOut
  <1>9. \A i \in 1..n : s[i].form # "part" => s[i].ask = link.sent[n].ask
    BY <1>1, <1>5, <1>7
  <1> QED BY <1>3, <1>6, <1>8, <1>9 DEF n

(* Behind the only element of a sequence there is nothing.                 *)
LEMMA TailOfOne ==
    ASSUME NEW S, NEW s \in Seq(S), Len(s) = 1
    PROVE  Tail(s) = <<>>
  <1>1. \A t \in Seq(S) : t = <<>> <=> Len(t) = 0
    BY EmptySeq, Zenon
  <1>2. s # <<>>
    <2>1. s = <<>> => Len(s) = 0
      BY <1>1, Zenon
    <2>2. 0 # 1
      OBVIOUS
    <2> QED BY <2>1, <2>2, Zenon
  <1>3. Tail(s) \in Seq(S) /\ Len(Tail(s)) = 0
    BY <1>2, HeadTailProperties
  <1> QED BY <1>1, <1>3

(* A connection whose one answer is read is quiet.                         *)
LEMMA ReadOneOut ==
    ASSUME link \in Link, OneOut(link), HasLine
    PROVE  Quiet(AfterRead)
  <1>1. link.sent = <<>> /\ Len(link.replies) = 1 /\ link.replies \in Seq(Reply)
    BY DEF OneOut, HasLine, Link
  <1>2. Tail(link.replies) = <<>>
    BY <1>1, TailOfOne
  <1>3. AfterRead.replies = <<>> /\ AfterRead.sent = <<>>
    BY <1>1, <1>2 DEF AfterRead, Link, HasLine
  <1> QED BY <1>3 DEF Quiet

(* Answers stay with the commands they answer.                             *)
LEMMA InStepStep == IInv /\ [Next]_vars => InStep'
  <1> SUFFICES ASSUME IInv, [Next]_vars PROVE InStep'
    OBVIOUS
  <1>1. /\ link \in Link /\ job \in [at : Places, try : {1, 2}] /\ ask \in Nat
        /\ Usable /\ Begun /\ Asked
    BY DEF IInv, TypeOK, InStep
  <1>2. \A at \in Places : Goes(at) => job'.at = at
    BY <1>1 DEF Goes
  <1>3. ASSUME job'.at \notin {"alive", "chunks", "reply"}, Writable' => Quiet(link')
        PROVE  InStep'
    BY <1>3 DEF InStep, Usable, Begun, Asked
  <1>4. ASSUME NEW error, Failed(error) \/ Fails(error), ~Writable \/ Quiet(link) \/ ~Keeps(error),
               ~Writable \/ Quiet(link) \/ error \notin RetryKinds
        PROVE  InStep'
    <2>1. job'.at \in {"idle", "reconnect"}
      BY <1>1, <1>4, FailsEffect DEF Idle
    <2>2. Writable' => Quiet(link')
      <3>1. CASE link' = NoLink
        BY <3>1 DEF NoLink, Writable
      <3>2. CASE link' = link
        <4>1. ~Writable \/ Quiet(link) \/ (link' = NoLink)
          BY <1>4, FailsEffect
        <4> QED BY <3>1, <3>2, <4>1 DEF Writable
      <3> QED BY <1>4, <3>1, <3>2, FailsEffect
    <2> QED BY <1>3, <2>1, <2>2
  <1>5. Quiet(NoLink) /\ Quiet(FreshLink)
    BY DEF NoLink, FreshLink, Quiet
  <1>6. ASSUME Writable, job.at \notin {"alive", "reply"}
        PROVE  Quiet(link)
    BY <1>1, <1>6 DEF Usable
  <1>7. CASE Begin \/ Due \/ NotDue
    <2>1. job'.at \in {"connect", "begin", "ping", "measure"} /\ link' = link
      BY <1>2, <1>7 DEF Begin, Due, NotDue, Idle, Places
    <2>2. job.at \notin {"alive", "reply"}
      BY <1>7 DEF Begin, Due, NotDue, Idle
    <2> QED BY <1>3, <1>6, <2>1, <2>2 DEF Writable
  <1>8. CASE Connect \/ Reconnect
    <2>1. CASE link' = FreshLink /\ job'.at \in {"register", "begin"}
      BY <1>3, <1>5, <2>1
    <2>2. ASSUME NEW error, Failed(error)
          PROVE  InStep'
      BY <1>4, <1>6, <1>8, <2>2 DEF Connect, Reconnect
    <2>3. \/ link' = FreshLink /\ job'.at \in {"register", "begin"}
          \/ \E error : Failed(error)
      BY <1>2, <1>8 DEF Connect, Reconnect, Places
    <2> QED BY <2>1, <2>2, <2>3
  <1>9. CASE Register
    <2>1. job'.at = "begin" /\ link'.sent = link.sent /\ link'.replies = link.replies
          /\ link'.end = link.end /\ link'.shut = link.shut
      <3>1. PICK ok \in BOOLEAN : link' = [link EXCEPT !.registered = ok]
        BY <1>9 DEF Register
      <3>2. job'.at = "begin"
        BY <1>2, <1>9 DEF Register, Places
      <3> QED BY <1>1, <3>1, <3>2 DEF Link
    <2> QED BY <1>3, <1>6, <1>9, <2>1 DEF Register, Writable, Quiet
  <1>10. CASE Keepalive
    <2>1. ASSUME Writable
          PROVE  InStep'
      <3>1. Sends(Version, "n") /\ job'.at = "alive"
        BY <1>2, <1>10, <2>1 DEF Keepalive, Places
      <3>2. OneOut(link')
        BY <1>1, <1>6, <1>10, <2>1, <3>1, SendsOnQuiet DEF Keepalive, Version
      <3> QED BY <3>1, <3>2 DEF InStep, Usable, Begun, Asked
    <2> QED BY <1>4, <1>10, <2>1 DEF Keepalive
  <1>11. CASE ReadVersion
    <2>1. ASSUME CanRead, link' = AfterRead, Goes("measure")
          PROVE  InStep'
      <3>1. link'.end = link.end /\ link'.shut = link.shut
        BY <1>1, <2>1 DEF AfterRead, Link
      <3>2. ASSUME Writable
            PROVE  Quiet(link')
        BY <1>1, <1>11, <2>1, <3>2, ReadOneOut DEF ReadVersion, CanRead, Usable
      <3> QED BY <1>2, <1>3, <2>1, <3>1, <3>2 DEF Writable, Places
    <2>2. ASSUME IsReset /\ Fails("ConnectionReset")
          PROVE  InStep'
      BY <1>4, <2>2 DEF IsReset, Writable
    <2>3. ASSUME Fails("WouldBlock")
          PROVE  InStep'
      BY <1>4, <2>3 DEF Keeps, RetryKinds
    <2> QED BY <1>11, <2>1, <2>2, <2>3 DEF ReadVersion
  <1>12. CASE Measure
    <2>1. link' \in {link, NoLink} /\ job'.at \in {"idle", "open", "copy"}
      BY <1>2, <1>12 DEF Measure, Answered, Ended, Idle, Rung, Places
    <2>2. job.at = "measure"
      BY <1>12 DEF Measure
    <2> QED BY <1>3, <1>5, <1>6, <2>1, <2>2 DEF Writable
  <1>13. CASE OpenFile
    <2>1. ASSUME \E error : Fails(error)
          PROVE  InStep'
      BY <1>4, <1>6, <1>13, <2>1 DEF OpenFile
    <2>2. ASSUME Writable, Sends(ask, "part"), Goes("chunks")
          PROVE  InStep'
      <3>1. job'.at = "chunks" /\ ask' = ask
        BY <1>2, <1>13, <2>2 DEF OpenFile, Places
      <3>2. Quiet(link') /\ link'.sent # <<>> /\ link'.sent[Len(link'.sent)].ask = ask
        <4>1. Quiet(link)
          BY <1>6, <1>13, <2>2 DEF OpenFile
        <4>2. /\ Quiet(link') /\ link'.sent # <<>>
              /\ link'.sent[Len(link'.sent)] = [ask |-> ask, form |-> "part"]
          BY <1>1, <2>2, <4>1, SendsOnQuiet
        <4> QED BY <4>2
      <3> QED BY <3>1, <3>2 DEF InStep, Usable, Begun, Asked
    <2> QED BY <1>13, <2>1, <2>2 DEF OpenFile
  <1>14. CASE SendChunks
    <2>1. ASSUME \E error : Fails(error)
          PROVE  InStep'
      BY <1>4, <1>6, <1>14, <2>1 DEF SendChunks
    <2>2. ASSUME Writable, link' = WholeStream, Goes("reply")
          PROVE  InStep'
      <3>1. job'.at = "reply" /\ ask' = ask
        BY <1>2, <1>14, <2>2 DEF SendChunks, Places
      <3>2. Quiet(link) /\ link.sent # <<>> /\ link.sent[Len(link.sent)].ask = ask
        BY <1>1, <1>6, <1>14, <2>2 DEF SendChunks, Begun
      <3>3. /\ OneOut(link') /\ link'.replies = <<>>
            /\ \A i \in 1..Len(link'.sent) :
                  link'.sent[i].form # "part" => link'.sent[i].ask = ask
        BY <1>1, <2>2, <3>2, StreamOnQuiet
      <3> QED BY <3>1, <3>3 DEF InStep, Usable, Begun, Asked
    <2> QED BY <1>14, <2>1, <2>2 DEF SendChunks
  <1>15. CASE CopyFile
    <2>1. ASSUME \E error : Fails(error)
          PROVE  InStep'
      BY <1>4, <1>6, <1>15, <2>1 DEF CopyFile
    <2>2. ASSUME Goes("scan"), UNCHANGED link
          PROVE  InStep'
      BY <1>2, <1>3, <1>6, <1>15, <2>2 DEF CopyFile, Places, Writable
    <2> QED BY <1>15, <2>1, <2>2 DEF CopyFile
  <1>16. CASE ScanCopy
    <2>1. ASSUME Writable
          PROVE  InStep'
      <3>1. Sends(ask, "n") /\ job'.at = "reply" /\ ask' = ask
        BY <1>2, <1>16, <2>1 DEF ScanCopy, Places
      <3>2. /\ OneOut(link') /\ link'.replies = <<>>
            /\ \A i \in 1..Len(link'.sent) :
                  link'.sent[i].form # "part" => link'.sent[i].ask = ask
        BY <1>1, <1>6, <1>16, <2>1, <3>1, SendsOnQuiet DEF ScanCopy
      <3> QED BY <3>1, <3>2 DEF InStep, Usable, Begun, Asked
    <2> QED BY <1>4, <1>16, <2>1 DEF ScanCopy
  <1>17. CASE ReadReply
    <2>1. ASSUME CanRead, \E what, of : Ended(what, of),
                 link' = IF kind = "gate" THEN NoLink ELSE AfterRead
          PROVE  InStep'
      <3>1. job'.at = "idle"
        BY <2>1 DEF Ended, Idle
      <3>2. AfterRead.end = link.end /\ AfterRead.shut = link.shut
        BY <1>1 DEF AfterRead, Link
      <3>3. ASSUME Writable
            PROVE  Quiet(AfterRead)
        BY <1>1, <1>17, <2>1, <3>3, ReadOneOut DEF ReadReply, CanRead, Usable
      <3> QED BY <1>3, <1>5, <2>1, <3>1, <3>2, <3>3 DEF Writable
    <2>2. ASSUME IsReset /\ Fails("ConnectionReset")
          PROVE  InStep'
      BY <1>4, <2>2 DEF IsReset, Writable
    <2>3. ASSUME Fails("WouldBlock")
          PROVE  InStep'
      BY <1>4, <2>3 DEF Keeps, RetryKinds
    <2>4. (CanRead /\ (\E what, of : Ended(what, of))
             /\ link' = IF kind = "gate" THEN NoLink ELSE AfterRead)
          \/ (IsReset /\ Fails("ConnectionReset")) \/ Fails("WouldBlock")
      BY <1>17 DEF ReadReply
    <2> QED BY <2>1, <2>2, <2>3, <2>4
  <1>18. CASE InterruptWorkers
    <2>1. UNCHANGED <<job, ask>> /\ link' = IF link.registered THEN [link EXCEPT !.shut = TRUE]
                                            ELSE link
      BY <1>18 DEF InterruptWorkers
    <2>2. /\ link'.sent = link.sent /\ link'.replies = link.replies /\ link'.end = link.end
          /\ ~link'.shut => ~link.shut
      BY <1>1, <2>1 DEF Link
    <2> QED BY <1>1, <2>1, <2>2 DEF InStep, Usable, Begun, Asked, Writable, Quiet, OneOut
  <1>19. CASE Answer
    <2>1. UNCHANGED <<job, ask>> /\ link.end = "open"
      BY <1>19 DEF Answer
    <2>2. /\ link.sent \in Seq(Command) /\ link.replies \in Seq(Reply) /\ link.sent # <<>>
      BY <1>1, <1>19 DEF Answer, Link
    <2>3. /\ Len(link.sent) \in Nat /\ Len(link.sent) > 0 /\ Head(link.sent) = link.sent[1]
          /\ Head(link.sent) \in Command
          /\ Len(Tail(link.sent)) = Len(link.sent) - 1
          /\ \A i \in 1..Len(Tail(link.sent)) : Tail(link.sent)[i] = link.sent[i + 1]
          /\ Len(link.sent) = 1 => Tail(link.sent) = <<>>
      BY <2>2, TailOfOne
    <2> DEFINE New(says, newline) == [ask |-> Head(link.sent).ask, says |-> says,
                                      newline |-> newline]
    <2>4. ASSUME NEW e
          PROVE  /\ Len(Append(link.replies, e)) = Len(link.replies) + 1
                 /\ Len(link.replies) \in Nat
                 /\ Append(link.replies, e)[Len(link.replies) + 1] = e
                 /\ \A i \in 1..Len(link.replies) :
                       Append(link.replies, e)[i] = link.replies[i]
      BY <2>2
    <2>6. ASSUME NEW e, NEW end, e.ask = Head(link.sent).ask, Head(link.sent).form # "part",
                 link' = [link EXCEPT !.end = end, !.sent = Tail(@),
                           !.replies = Append(@, e)]
          PROVE  InStep'
      <3>1. /\ link'.sent = Tail(link.sent) /\ link'.shut = link.shut
            /\ link'.replies = Append(link.replies, e)
        BY <1>1, <2>6 DEF Link
      <3>2. Asked'
        <4> SUFFICES ASSUME job.at = "reply" PROVE Asked'
          BY <2>1 DEF Asked
        <4>1. ASSUME NEW i \in 1..Len(link'.sent), link'.sent[i].form # "part"
              PROVE  link'.sent[i].ask = ask
          <5>1. i + 1 \in 1..Len(link.sent) /\ link'.sent[i] = link.sent[i + 1]
            BY <2>3, <3>1
          <5> QED BY <1>1, <4>1, <5>1 DEF Asked
        <4>2. Head(link.sent).ask = ask
          <5>1. 1 \in 1..Len(link.sent)
            BY <2>3
          <5> QED BY <1>1, <2>3, <2>6, <5>1 DEF Asked
        <4>3. ASSUME NEW i \in 1..Len(link'.replies), link'.replies[i].says \in Verdicts
              PROVE  link'.replies[i].ask = ask
          <5>1. CASE i \in 1..Len(link.replies)
            BY <1>1, <2>4, <3>1, <4>3, <5>1 DEF Asked
          <5>2. CASE i = Len(link.replies) + 1
            BY <2>4, <2>6, <3>1, <4>2, <5>2
          <5> QED BY <2>4, <3>1, <5>1, <5>2
        <4> QED BY <2>1, <4>1, <4>3 DEF Asked
      <3>3. ASSUME ~link.shut
            PROVE  job.at \in {"alive", "reply"} /\ OneOut(link')
        <4>1. job.at \in {"alive", "reply"} /\ OneOut(link)
          <5>1. 1 \in 1..Len(link.sent)
            BY <2>3
          <5>2. ~Quiet(link)
            BY <2>3, <2>6, <5>1 DEF Quiet
          <5> QED BY <1>1, <2>1, <3>3, <5>2 DEF Writable, Usable
        <4>2. Len(link.sent) = 1 /\ link.replies = <<>>
          <5>1. /\ link.replies = <<>>
                /\ \A i \in 1..(Len(link.sent) - 1) : link.sent[i].form = "part"
            BY <2>2, <4>1 DEF OneOut
          <5>2. ~(1 \in 1..(Len(link.sent) - 1))
            BY <2>3, <2>6, <5>1
          <5>3. Len(link.sent) \in Nat /\ Len(link.sent) > 0
            BY <2>3
          <5>4. Len(link.sent) = 1
            <6>1. \A n \in Nat : n > 0 /\ ~(1 \in 1..(n - 1)) => n = 1
              OBVIOUS
            <6> QED BY <5>2, <5>3, <6>1
          <5> QED BY <5>1, <5>4
        <4>3. link'.sent = <<>> /\ Len(link'.replies) = 1
          BY <2>2, <2>3, <2>4, <3>1, <4>2
        <4> QED BY <4>1, <4>3 DEF OneOut
      <3> QED BY <2>1, <3>1, <3>2, <3>3 DEF InStep, Usable, Begun, Writable
    <2>7. ASSUME NEW e, e.says = "ERROR",
                 link' = [link EXCEPT !.end = "reset", !.sent = <<>>,
                           !.replies = Append(@, e)]
          PROVE  InStep'
      <3>1. /\ link'.end = "reset" /\ link'.sent = <<>>
            /\ link'.replies = Append(link.replies, e)
        BY <1>1, <2>7 DEF Link
      <3>2. Asked'
        <4> SUFFICES ASSUME job.at = "reply" PROVE Asked'
          BY <2>1 DEF Asked
        <4>1. ASSUME NEW i \in 1..Len(link'.replies), link'.replies[i].says \in Verdicts
              PROVE  link'.replies[i].ask = ask
          <5>1. CASE i \in 1..Len(link.replies)
            BY <1>1, <2>4, <3>1, <4>1, <5>1 DEF Asked
          <5>2. CASE i = Len(link.replies) + 1
            BY <2>4, <2>7, <3>1, <4>1, <5>2 DEF Verdicts
          <5> QED BY <2>4, <3>1, <5>1, <5>2
        <4>2. 1..Len(link'.sent) = {}
          BY <3>1
        <4> QED BY <2>1, <4>1, <4>2 DEF Asked
      <3> QED BY <3>1, <3>2 DEF InStep, Usable, Begun, Writable
    <2>8. \/ /\ Head(link.sent).form # "part"
             /\ \E e, end : /\ e.ask = Head(link.sent).ask
                           /\ link' = [link EXCEPT !.end = end, !.sent = Tail(@),
                                         !.replies = Append(@, e)]
          \/ \E e : /\ e.says = "ERROR"
                    /\ link' = [link EXCEPT !.end = "reset", !.sent = <<>>,
                                  !.replies = Append(@, e)]
      <3>1. ASSUME NEW says, NEW newline
            PROVE  LET e == [ask |-> Head(link.sent).ask, says |-> says, newline |-> newline]
                   IN  e.ask = Head(link.sent).ask /\ e.says = says
        OBVIOUS
      <3> QED BY <1>19, <3>1, Zenon DEF Answer
    <2> QED BY <2>6, <2>7, <2>8
  <1>20. CASE Hangup
    <2>1. UNCHANGED <<job, ask>>
      BY <1>20 DEF Hangup
    <2>2. link'.end # "open" /\ link'.sent = <<>> /\ link'.replies = link.replies
      BY <1>1, <1>20 DEF Hangup, Link
    <2> QED BY <1>1, <2>1, <2>2 DEF InStep, Usable, Begun, Asked, Writable
  <1>21. CASE FileChanges \/ Stalls \/ ClamdStops \/ ClamdStarts \/ UNCHANGED vars
    <2>1. UNCHANGED <<job, ask, link>>
      BY <1>21 DEF FileChanges, Stalls, ClamdStops, ClamdStarts, client, vars
    <2> QED BY <1>1, <2>1 DEF InStep, Usable, Begun, Asked, Writable, Quiet, OneOut
  <1> QED
    BY <1>7, <1>8, <1>9, <1>10, <1>11, <1>12, <1>13, <1>14, <1>15, <1>16, <1>17, <1>18, <1>19, <1>20, <1>21 DEF Next, Step

-----------------------------------------------------------------------------
(* The results.                                                            *)

(* It holds at first.                                                      *)
LEMMA InitIInv == Init => IInv
  <1> SUFFICES ASSUME Init PROVE IInv
    OBVIOUS
  <1>1. TypeOK
    BY NewLinks DEF Init, TypeOK, Gone, Idle, Places, Outcome
  <1>2. InStep
    BY DEF Init, InStep, Usable, Begun, Asked, Writable, NoLink, Idle
  <1>3. AnswersBelong /\ CutIsLast /\ WithinBudget /\ CopiesRemoved
    BY DEF Init, AnswersBelong, CutIsLast, WithinBudget, CopiesRemoved, Idle
  <1> QED BY <1>1, <1>2, <1>3 DEF IInv

(* The inductive invariant is one: in every state of every behaviour the   *)
(* command that is out, the place of the client and the reads it may still *)
(* begin fit each other.                                                   *)
THEOREM Invariance == Spec => []IInv
  <1>1. IInv /\ [Next]_vars => IInv'
    BY TypeStep, AnswersStep, CopiesStep, CutStep, BudgetStep, InStepStep DEF IInv
  <1> QED BY InitIInv, <1>1, PTL DEF Spec

(* Every variable keeps its type, and a connection is there whenever the   *)
(* client is about to use one.                                             *)
THEOREM Types == Spec => []TypeOK
  <1>1. IInv => TypeOK
    BY DEF IInv
  <1> QED BY Invariance, <1>1, PTL

(* A file is judged by clamd's answer to the command that sent this file,  *)
(* for any number of scans, time-outs, retries and restarts of clamd.      *)
THEOREM AnswersAreOwn == Spec => []AnswersBelong
  <1>1. IInv => AnswersBelong
    BY DEF IInv
  <1> QED BY Invariance, <1>1, PTL

(* A connection that is kept is never one answer behind.                   *)
THEOREM ConnectionsInStep == Spec => []KeptInStep
  <1>1. IInv => KeptInStep
    <2> SUFFICES ASSUME IInv, job = Idle, Writable
                 PROVE  link.replies = <<>>
                        /\ \A i \in DOMAIN link.sent : link.sent[i].form = "part"
      BY DEF KeptInStep
    <2>1. Quiet(link)
      BY DEF IInv, InStep, Usable, Idle
    <2>2. DOMAIN link.sent = 1..Len(link.sent)
      BY DEF IInv, TypeOK, Link
    <2> QED BY <2>1, <2>2 DEF Quiet
  <1> QED BY Invariance, <1>1, PTL

(* A stop that cuts a read is not followed by another read that waits,     *)
(* unless clamd resets the connection first, and then by two at most; a    *)
(* stopped worker begins at most four of them, whatever it was doing.      *)
THEOREM StopsArePrompt == Spec => []StopIsPrompt
  <1>0. ASSUME IInv
        PROVE  reads + Spent <= 4 /\ reads \in Nat
    BY <1>0 DEF IInv, TypeOK, WithinBudget, Budget, Spent
  <1>1. IInv => InterruptedReadIsLast
    BY <1>0 DEF IInv, CutIsLast, InterruptedReadIsLast, Spent
  <1>2. IInv => StopIsBounded
    BY <1>0 DEF StopIsBounded, Spent
  <1>3. IInv => StopIsPrompt
    BY <1>1, <1>2 DEF StopIsPrompt
  <1> QED BY Invariance, <1>3, PTL

(* A copy of an oversized file goes with its scan.                         *)
THEOREM CopiesGo == Spec => []CopiesRemoved
  <1>1. IInv => CopiesRemoved
    BY DEF IInv
  <1> QED BY Invariance, <1>1, PTL

=============================================================================
