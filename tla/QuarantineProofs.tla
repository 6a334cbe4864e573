--------------------------- MODULE QuarantineProofs ---------------------------
(***************************************************************************)
(* Proofs about Quarantine, for any paths, threads, ids, files and faults. *)
(***************************************************************************)
EXTENDS Quarantine, TLAPS

USE PathAssumption, ThreadAssumption, BoundAssumption

(* What a file can hold besides a content is none of the contents.         *)
LEMMA Values ==
    /\ None \notin Contents /\ Partial \notin Contents /\ Copying \notin Contents
    /\ None # Partial /\ None # Copying /\ Partial # Copying
    /\ None \in Stored /\ Partial \in Stored /\ Copying \in Stored
    /\ Contents \subseteq Stored
    /\ \A x \in Stored : x \in {None, Partial, Copying} \/ x \in Contents
    /\ None \notin Paths
  BY DEF None, Partial, Copying, Contents, Stored

(* The ids and the numbers of contents, and the next one.                  *)
LEMMA IdsAre ==
    /\ 0 \in Ids /\ 1..MaxIds \subseteq Ids
    /\ \A n \in Ids : n \in Nat /\ n <= MaxIds
    /\ \A n \in Ids : n < MaxIds => n + 1 \in Ids /\ n + 1 \in 1..MaxIds
    /\ \A n \in 0..MaxFiles : n < MaxFiles => n + 1 \in Contents /\ n + 1 \in 0..MaxFiles
  BY DEF Ids, Contents

-----------------------------------------------------------------------------
(* Types, in parts that the actions change together.                       *)

FilesOK ==
    /\ orig \in [Paths -> Stored]
    /\ blob \in [Ids -> Stored]
    /\ open \subseteq Ids
TablesOK ==
    /\ status \in [Ids -> {"none", "detected", "quarantined", "restored", "deleted"}]
    /\ rows \in [1..MaxIds -> {NoRow} \cup [threat : Ids, path : Paths]]
    /\ \A r \in 1..MaxIds : rows[r] # NoRow => r <= added
    /\ threats \in Ids /\ added \in Ids /\ last \in Ids
    /\ db \in {Nobody} \cup Scanners \cup Clients
ScannersOK ==
    /\ scanner \in [Scanners -> ScannerState]
    /\ \A s \in Scanners : scanner[s].at # "idle" => scanner[s].path \in Paths
ClientsOK ==
    /\ client \in [Clients -> ClientState]
    /\ \A c \in Clients : client[c].at # "idle" => client[c].row \in 1..MaxIds
CountsOK ==
    /\ made \in 0..MaxFiles
    /\ used \in [{"io", "db", "crashes"} -> Nat]
HistoryOK ==
    /\ released \subseteq Contents /\ swept \subseteq Contents
    /\ misfiled \subseteq Contents /\ shared \subseteq Ids
    /\ taken \in [Ids -> Stored]

Typed ==
    FilesOK /\ TablesOK /\ ScannersOK /\ ClientsOK /\ CountsOK /\ HistoryOK

(* The type invariant by parts, before and after a step.                   *)
LEMMA TypeParts == (TypeOK <=> Typed) /\ (TypeOK' <=> Typed')
  BY DEF TypeOK, Typed, FilesOK, TablesOK, ScannersOK, ClientsOK, CountsOK, HistoryOK

(* Every variable starts in its set.                                       *)
LEMMA TypeInit == Init => TypeOK
  <1> SUFFICES ASSUME Init
               PROVE  /\ FilesOK /\ TablesOK /\ ScannersOK /\ ClientsOK /\ CountsOK
                      /\ HistoryOK
    BY TypeParts DEF Typed
  <1>1. FilesOK /\ HistoryOK
    BY Values DEF Init, FilesOK, HistoryOK
  <1>2. TablesOK
    BY IdsAre DEF Init, TablesOK
  <1>3. ScannersOK /\ ClientsOK
    BY Values, IdsAre DEF Init, ScannersOK, ClientsOK, ScannerState,
       ClientState, IdleScanner, IdleClient
  <1>4. CountsOK
    BY DEF Init, CountsOK
  <1> QED BY <1>1, <1>2, <1>3, <1>4

(* A connection that is at work knows its threat, and its path or none.    *)
LEMMA ClientKnows ==
    ASSUME TablesOK, ClientsOK, NEW c \in Clients, client[c].at # "idle"
    PROVE  Threat(c) \in Ids /\ Home(c) \in Paths \cup {None}
  BY IdsAre DEF TablesOK, ClientsOK, NoRow, Threat, Home

(* The end of a copy back leaves a value where the file was being written. *)
LEMMA WrittenType ==
    ASSUME FilesOK, HistoryOK, NEW x \in Stored, Written(x)
    PROVE  orig' \in [Paths -> Stored] /\ blob' \in [Ids -> Stored]
           /\ taken' \in [Ids -> Stored]
  BY DEF FilesOK, HistoryOK, Written, Becomes

(* Every action keeps every variable in its set.                           *)
LEMMA TypeStep == TypeOK /\ [Next]_vars => TypeOK'
  <1> SUFFICES ASSUME TypeOK, [Next]_vars
               PROVE  Typed'
    BY TypeParts
  <1>0. FilesOK /\ TablesOK /\ ScannersOK /\ ClientsOK /\ CountsOK /\ HistoryOK
    BY TypeParts DEF Typed
  <1>1. ASSUME NEW p \in Paths, WriteFile(p)
        PROVE  Typed'
    <2>1. FilesOK'
      BY <1>0, <1>1, Values, IdsAre DEF WriteFile, tables, FilesOK, Whole, CountsOK,
         ScannersOK, ClientsOK, ScannerState, ClientState
    <2>2. CountsOK'
      BY <1>0, <1>1, Values, IdsAre DEF WriteFile, tables, CountsOK, Whole, TablesOK
    <2>3. HistoryOK'
      BY <1>0, <1>1, Values, IdsAre DEF WriteFile, tables, HistoryOK, Whole, Filed,
         FilesOK, ScannersOK, ClientsOK, ScannerState, ClientState
    <2>4. TablesOK' /\ ScannersOK' /\ ClientsOK'
      BY <1>0, <1>1 DEF WriteFile, tables, TablesOK, ScannersOK, ClientsOK
    <2> QED BY <2>1, <2>2, <2>3, <2>4 DEF Typed
  <1>2. ASSUME NEW p \in Paths, RemoveFile(p)
        PROVE  Typed'
    <2>1. FilesOK'
      BY <1>0, <1>2, Values, IdsAre DEF RemoveFile, tables, FilesOK, Whole,
         ScannersOK, ClientsOK, ScannerState, ClientState
    <2>2. HistoryOK'
      BY <1>0, <1>2, Values, IdsAre DEF RemoveFile, tables, HistoryOK, Whole, Filed,
         FilesOK, ScannersOK, ClientsOK, ScannerState, ClientState
    <2>3. TablesOK' /\ ScannersOK' /\ ClientsOK' /\ CountsOK'
      BY <1>0, <1>2 DEF RemoveFile, tables, TablesOK, ScannersOK, ClientsOK,
         CountsOK
    <2> QED BY <2>1, <2>2, <2>3 DEF Typed
  <1>3. ASSUME NEW s \in Scanners, NEW p \in Paths, Detect(s, p)
        PROVE  Typed'
    <2>1. ScannersOK'
      BY <1>0, <1>3, Values, IdsAre DEF Detect, IdleScanner, files, tables, history,
         ScannersOK, Whole, ScannerState, TablesOK
    <2>2. FilesOK' /\ TablesOK' /\ ClientsOK' /\ CountsOK' /\ HistoryOK'
      BY <1>0, <1>3 DEF Detect, IdleScanner, files, tables, history, FilesOK,
         TablesOK, ClientsOK, CountsOK, HistoryOK
    <2> QED BY <2>1, <2>2 DEF Typed
  <1>4. ASSUME NEW s \in Scanners, InsertThreat(s)
        PROVE  Typed'
    <2>1. TablesOK'
      BY <1>0, <1>4, Values, IdsAre DEF InsertThreat, DbFails, Faults, files,
         TablesOK, Whole
    <2>2. ScannersOK'
      <3>1. last' \in Ids
        BY <2>1 DEF TablesOK
      <3>2. scanner' = [scanner EXCEPT ![s] =
                          [scanner[s] EXCEPT !.at = "put", !.id = last']]
            /\ scanner[s].at # "idle"
        BY <1>4 DEF InsertThreat
      <3> QED BY <1>0, <3>1, <3>2 DEF ScannersOK, ScannerState
    <2>3. CountsOK'
      BY <1>0, <1>4, Values, IdsAre DEF InsertThreat, DbFails, Faults, files,
         CountsOK, Whole, TablesOK
    <2>4. HistoryOK'
      BY <1>0, <1>4, Values, IdsAre DEF InsertThreat, DbFails, Faults, files,
         HistoryOK, Whole, Filed, FilesOK, ScannersOK, ClientsOK, ScannerState,
         ClientState
    <2>5. FilesOK' /\ ClientsOK'
      BY <1>0, <1>4 DEF InsertThreat, DbFails, Faults, files, FilesOK, ClientsOK
    <2> QED BY <2>1, <2>2, <2>3, <2>4, <2>5 DEF Typed
  <1>5. ASSUME NEW s \in Scanners, PutFails(s)
        PROVE  Typed'
    <2>1. ScannersOK'
      BY <1>0, <1>5, Values, IdsAre DEF PutFails, IoFails, Faults, GivesUp,
         IdleScanner, files, tables, history, ScannersOK, Whole, ScannerState,
         TablesOK
    <2>2. CountsOK'
      BY <1>0, <1>5, Values, IdsAre DEF PutFails, IoFails, Faults, GivesUp,
         IdleScanner, files, tables, history, CountsOK, Whole, TablesOK
    <2>3. FilesOK' /\ TablesOK' /\ ClientsOK' /\ HistoryOK'
      BY <1>0, <1>5 DEF PutFails, IoFails, Faults, GivesUp, IdleScanner, files,
         tables, history, FilesOK, TablesOK, ClientsOK, HistoryOK
    <2> QED BY <2>1, <2>2, <2>3 DEF Typed
  <1>6. ASSUME NEW s \in Scanners, Rename(s)
        PROVE  Typed'
    <2>1. FilesOK'
      BY <1>0, <1>6, Values, IdsAre DEF Rename, Takes, Misfiles, Goes, tables,
         FilesOK, Whole, ScannersOK, ClientsOK, ScannerState, ClientState
    <2>2. ScannersOK'
      BY ZenonT(60), <1>0, <1>6, Values, IdsAre DEF Rename, Takes, Misfiles, Goes,
         tables, ScannersOK, Whole, ScannerState, TablesOK
    <2>3. HistoryOK'
      BY <1>0, <1>6, Values, IdsAre DEF Rename, Takes, Misfiles, Goes, tables,
         HistoryOK, Whole, Filed, FilesOK, ScannersOK, ClientsOK, ScannerState,
         ClientState
    <2>4. TablesOK' /\ ClientsOK' /\ CountsOK'
      BY <1>0, <1>6 DEF Rename, Takes, Misfiles, Goes, tables, TablesOK, ClientsOK,
         CountsOK
    <2> QED BY <2>1, <2>2, <2>3, <2>4 DEF Typed
  <1>7. ASSUME NEW s \in Scanners, StartCopy(s)
        PROVE  Typed'
    <2>1. FilesOK'
      BY <1>0, <1>7, Values, IdsAre DEF StartCopy, Misfiles, tables, FilesOK, Whole,
         ScannersOK, ClientsOK, ScannerState, ClientState
    <2>2. ScannersOK'
      <3>1. /\ scanner[s].at = "put" /\ scanner[s].path \in Paths
            /\ orig[scanner[s].path] \in Stored
        BY <1>0, <1>7 DEF StartCopy, ScannersOK, FilesOK
      <3>2. PICK x \in Stored : scanner' = [scanner EXCEPT ![s] =
                          [scanner[s] EXCEPT !.at = "copy", !.content = x]]
        BY <1>7, <3>1, Values DEF StartCopy
      <3> QED BY <1>0, <3>1, <3>2 DEF ScannersOK, ScannerState
    <2>3. ClientsOK'
      BY <1>0, <1>7, Values, IdsAre DEF StartCopy, Misfiles, tables, ClientsOK,
         Whole, ClientState, FilesOK
    <2>4. HistoryOK'
      BY <1>0, <1>7, Values, IdsAre DEF StartCopy, Misfiles, tables, HistoryOK,
         Whole, Filed, FilesOK, ScannersOK, ClientsOK, ScannerState, ClientState
    <2>5. TablesOK' /\ CountsOK'
      BY <1>0, <1>7 DEF StartCopy, Misfiles, tables, TablesOK, CountsOK
    <2> QED BY <2>1, <2>2, <2>3, <2>4, <2>5 DEF Typed
  <1>8. ASSUME NEW s \in Scanners, EndCopy(s)
        PROVE  Typed'
    <2>1. FilesOK'
      BY <1>0, <1>8, Values, IdsAre DEF EndCopy, Goes, tables, history, FilesOK,
         Whole, ScannersOK, ClientsOK, ScannerState, ClientState
    <2>2. ScannersOK'
      BY ZenonT(60), <1>0, <1>8, Values, IdsAre DEF EndCopy, Goes, tables, history,
         ScannersOK, Whole, ScannerState, TablesOK
    <2>3. TablesOK' /\ ClientsOK' /\ CountsOK' /\ HistoryOK'
      BY <1>0, <1>8 DEF EndCopy, Goes, tables, history, TablesOK, ClientsOK,
         CountsOK, HistoryOK
    <2> QED BY <2>1, <2>2, <2>3 DEF Typed
  <1>9. ASSUME NEW s \in Scanners, Unlink(s)
        PROVE  Typed'
    <2>1. FilesOK'
      BY <1>0, <1>9, Values, IdsAre DEF Unlink, Takes, tables, FilesOK, Whole,
         ScannersOK, ClientsOK, ScannerState, ClientState
    <2>2. ScannersOK'
      BY ZenonT(60), <1>0, <1>9, Values, IdsAre DEF Unlink, Takes, tables, ScannersOK,
         Whole, ScannerState, TablesOK
    <2>3. HistoryOK'
      BY <1>0, <1>9, Values, IdsAre DEF Unlink, Takes, tables, HistoryOK, Whole,
         Filed, FilesOK, ScannersOK, ClientsOK, ScannerState, ClientState
    <2>4. TablesOK' /\ ClientsOK' /\ CountsOK'
      BY <1>0, <1>9 DEF Unlink, Takes, tables, TablesOK, ClientsOK, CountsOK
    <2> QED BY <2>1, <2>2, <2>3, <2>4 DEF Typed
  <1>10. ASSUME NEW s \in Scanners, UnlinkGone(s)
        PROVE  Typed'
    <2>1. ScannersOK'
      BY <1>0, <1>10, Values, IdsAre DEF UnlinkGone, GivesUp, IdleScanner, files,
         tables, history, ScannersOK, Whole, ScannerState, TablesOK
    <2>2. FilesOK' /\ TablesOK' /\ ClientsOK' /\ CountsOK' /\ HistoryOK'
      BY <1>0, <1>10 DEF UnlinkGone, GivesUp, IdleScanner, files, tables, history,
         FilesOK, TablesOK, ClientsOK, CountsOK, HistoryOK
    <2> QED BY <2>1, <2>2 DEF Typed
  <1>11. ASSUME NEW s \in Scanners, Chmod(s)
        PROVE  Typed'
    <2>1. FilesOK'
      BY <1>0, <1>11, Values, IdsAre DEF Chmod, Goes, tables, history, FilesOK,
         Whole, ScannersOK, ClientsOK, ScannerState, ClientState
    <2>2. ScannersOK'
      BY ZenonT(60), <1>0, <1>11, Values, IdsAre DEF Chmod, Goes, tables, history,
         ScannersOK, Whole, ScannerState, TablesOK
    <2>3. TablesOK' /\ ClientsOK' /\ CountsOK' /\ HistoryOK'
      BY <1>0, <1>11 DEF Chmod, Goes, tables, history, TablesOK, ClientsOK,
         CountsOK, HistoryOK
    <2> QED BY <2>1, <2>2, <2>3 DEF Typed
  <1>12. ASSUME NEW s \in Scanners, SetQuarantined(s)
        PROVE  Typed'
    <2>1. TablesOK'
      BY <1>0, <1>12, Values, IdsAre DEF SetQuarantined, DbFails, Faults, Goes,
         files, history, TablesOK, Whole, ScannersOK, ScannerState
    <2>2. ScannersOK'
      BY SMTT(30), <1>0, <1>12, Values, IdsAre DEF SetQuarantined, DbFails, Faults,
         Goes, files, history, ScannersOK, Whole, ScannerState, TablesOK
    <2>3. CountsOK'
      BY <1>0, <1>12, Values, IdsAre DEF SetQuarantined, DbFails, Faults, Goes,
         files, history, CountsOK, Whole, TablesOK
    <2>4. FilesOK' /\ ClientsOK' /\ HistoryOK'
      BY <1>0, <1>12 DEF SetQuarantined, DbFails, Faults, Goes, files, history,
         FilesOK, ClientsOK, HistoryOK
    <2> QED BY <2>1, <2>2, <2>3, <2>4 DEF Typed
  <1>13. ASSUME NEW s \in Scanners, InsertQuarantine(s)
        PROVE  Typed'
    <2>1. TablesOK'
      <3>1. /\ scanner[s].id \in Ids /\ scanner[s].path \in Paths
        BY <1>0, <1>13 DEF InsertQuarantine, ScannersOK, ScannerState
      <3>2. CASE /\ added < MaxIds /\ added' = added + 1 /\ last' = added + 1
                 /\ rows' = [rows EXCEPT ![added + 1] =
                               [threat |-> scanner[s].id, path |-> scanner[s].path]]
        <4>1. added + 1 \in Ids /\ added + 1 \in 1..MaxIds /\ added \in Nat
          BY <1>0, <3>2, IdsAre DEF TablesOK
        <4>2. rows' \in [1..MaxIds -> {NoRow} \cup [threat : Ids, path : Paths]]
          BY <1>0, <3>1, <3>2 DEF TablesOK
        <4>3. \A r \in 1..MaxIds : rows'[r] # NoRow => r <= added'
          BY <1>0, <3>2, <4>1 DEF TablesOK
        <4> QED BY <1>0, <1>13, <3>2, <4>1, <4>2, <4>3 DEF InsertQuarantine, TablesOK
      <3>3. CASE UNCHANGED <<added, last, rows>>
        BY <1>0, <1>13, <3>3 DEF InsertQuarantine, TablesOK
      <3> QED BY <1>13, <3>2, <3>3 DEF InsertQuarantine
    <2>2. ScannersOK'
      BY <1>0, <1>13, Values, IdsAre DEF InsertQuarantine, DbFails, Faults, GivesUp,
         IdleScanner, files, history, ScannersOK, Whole, ScannerState, TablesOK
    <2>3. CountsOK'
      BY <1>0, <1>13, Values, IdsAre DEF InsertQuarantine, DbFails, Faults, GivesUp,
         IdleScanner, files, history, CountsOK, Whole, TablesOK
    <2>4. FilesOK' /\ ClientsOK' /\ HistoryOK'
      BY <1>0, <1>13 DEF InsertQuarantine, DbFails, Faults, GivesUp, IdleScanner,
         files, history, FilesOK, ClientsOK, HistoryOK
    <2> QED BY <2>1, <2>2, <2>3, <2>4 DEF Typed
  <1>14. ASSUME NEW c \in Clients, NEW op \in {"restore", "delete"},
               NEW r \in 1..MaxIds, Ask(c, op, r)
        PROVE  Typed'
    <2>1. TablesOK'
      BY <1>0, <1>14, Values, IdsAre DEF Ask, MutexFree, IdleClient, files, tables,
         TablesOK, Whole
    <2>2. ClientsOK'
      BY <1>0, <1>14, Values, IdsAre DEF Ask, MutexFree, IdleClient, files, tables,
         ClientsOK, Whole, ClientState, FilesOK
    <2>3. HistoryOK'
      BY <1>0, <1>14, Values, IdsAre DEF Ask, MutexFree, IdleClient, files, tables,
         HistoryOK, Whole, Filed, FilesOK, ScannersOK, ClientsOK, ScannerState,
         ClientState
    <2>4. FilesOK' /\ ScannersOK' /\ CountsOK'
      BY <1>0, <1>14 DEF Ask, MutexFree, IdleClient, files, tables, FilesOK,
         ScannersOK, CountsOK
    <2> QED BY <2>1, <2>2, <2>3, <2>4 DEF Typed
  <1>15. ASSUME NEW c \in Clients, MakeReadable(c)
        PROVE  Typed'
    <2>1. FilesOK'
      BY <1>0, <1>15, ClientKnows DEF MakeReadable, FilesOK
    <2>2. ClientsOK'
      BY <1>0, <1>15, Values, IdsAre DEF MakeReadable, At, tables, history,
         ClientsOK, Whole, ClientState
    <2>3. TablesOK' /\ ScannersOK' /\ CountsOK' /\ HistoryOK'
      BY <1>0, <1>15 DEF MakeReadable, At, tables, history, TablesOK, ScannersOK,
         CountsOK, HistoryOK
    <2> QED BY <2>1, <2>2, <2>3 DEF Typed
  <1>16. ASSUME NEW c \in Clients, StartCopyBack(c)
        PROVE  Typed'
    <2>1. FilesOK'
      BY <1>0, <1>16, Values, IdsAre DEF StartCopyBack, Truncated, Threat, Home,
         tables, FilesOK, Whole, ScannersOK, ClientsOK, ScannerState, ClientState
    <2>2. ScannersOK'
      BY <1>0, <1>16, Values DEF StartCopyBack, Truncated, ScannersOK, ScannerState
    <2>3. ClientsOK'
      <3>1. blob[Threat(c)] \in Stored
        BY <1>0, <1>16, ClientKnows DEF StartCopyBack, FilesOK
      <3> QED BY ZenonT(60), <1>0, <1>16, <3>1 DEF StartCopyBack, ClientsOK, ClientState
    <2>4. HistoryOK'
      BY <1>0, <1>16, Values, IdsAre DEF StartCopyBack, Truncated, Threat, Home,
         tables, HistoryOK, Whole, Filed, FilesOK, ScannersOK, ClientsOK,
         ScannerState, ClientState
    <2>5. TablesOK' /\ CountsOK'
      BY <1>0, <1>16 DEF StartCopyBack, Truncated, Threat, Home, tables, TablesOK,
         CountsOK
    <2> QED BY <2>1, <2>2, <2>3, <2>4, <2>5 DEF Typed
  <1>17. ASSUME NEW c \in Clients, EndCopyBack(c)
        PROVE  Typed'
    <2>1. FilesOK'
      BY <1>0, <1>17, Values, IdsAre DEF EndCopyBack, Written, Becomes, tables,
         FilesOK, Whole, ScannersOK, ClientsOK, ScannerState, ClientState
    <2>2. ClientsOK'
      BY ZenonT(60), <1>0, <1>17, Values, IdsAre DEF EndCopyBack, Written, Becomes,
         tables, ClientsOK, Whole, ClientState
    <2>3. HistoryOK'
      BY <1>0, <1>17, Values, IdsAre DEF EndCopyBack, Written, Becomes, tables,
         HistoryOK, Whole, Filed, FilesOK, ScannersOK, ClientsOK, ScannerState,
         ClientState
    <2>4. TablesOK' /\ ScannersOK' /\ CountsOK'
      BY <1>0, <1>17 DEF EndCopyBack, Written, Becomes, tables, TablesOK,
         ScannersOK, CountsOK
    <2> QED BY <2>1, <2>2, <2>3, <2>4 DEF Typed
  <1>18. ASSUME NEW c \in Clients, RestoreMode(c)
        PROVE  Typed'
    <2>1. ClientsOK'
      BY <1>0, <1>18, Values, IdsAre DEF RestoreMode, At, files, tables, history,
         ClientsOK, Whole, ClientState
    <2>2. FilesOK' /\ TablesOK' /\ ScannersOK' /\ CountsOK' /\ HistoryOK'
      BY <1>0, <1>18 DEF RestoreMode, At, files, tables, history, FilesOK, TablesOK,
         ScannersOK, CountsOK, HistoryOK
    <2> QED BY <2>1, <2>2 DEF Typed
  <1>19. ASSUME NEW c \in Clients, RemoveBlob(c)
        PROVE  Typed'
    <2>1. FilesOK'
      BY <1>0, <1>19, Values, IdsAre DEF RemoveBlob, At, Threat, tables, history,
         FilesOK, Whole, ScannersOK, ClientsOK, ScannerState, ClientState
    <2>2. ClientsOK'
      BY <1>0, <1>19, Values, IdsAre DEF RemoveBlob, At, Threat, tables, history,
         ClientsOK, Whole, ClientState
    <2>3. TablesOK' /\ ScannersOK' /\ CountsOK' /\ HistoryOK'
      BY <1>0, <1>19 DEF RemoveBlob, At, Threat, tables, history, TablesOK,
         ScannersOK, CountsOK, HistoryOK
    <2> QED BY <2>1, <2>2, <2>3 DEF Typed
  <1>20. ASSUME NEW c \in Clients, CallFails(c)
        PROVE  Typed'
    <2>1. FilesOK'
      <3>1. \/ UNCHANGED <<orig, blob>>
            \/ orig' \in [Paths -> Stored] /\ blob' \in [Ids -> Stored]
        BY <1>0, <1>20, Values, WrittenType DEF CallFails
      <3> QED BY <1>0, <1>20, <3>1 DEF CallFails, FilesOK
    <2>2. TablesOK'
      BY <1>0, <1>20, Values, IdsAre DEF CallFails, IoFails, Faults, Written,
         Becomes, IdleClient, tables, TablesOK, Whole
    <2>3. ClientsOK'
      BY <1>0, <1>20, Values, IdsAre DEF CallFails, IoFails, Faults, Written,
         Becomes, IdleClient, tables, ClientsOK, Whole, ClientState
    <2>4. CountsOK'
      BY <1>0, <1>20, Values, IdsAre DEF CallFails, IoFails, Faults, Written,
         Becomes, IdleClient, tables, CountsOK, Whole, TablesOK
    <2>5. HistoryOK'
      <3>1. UNCHANGED taken \/ taken' \in [Ids -> Stored]
        BY <1>0, <1>20, Values, WrittenType DEF CallFails
      <3> QED BY <1>0, <1>20, <3>1 DEF CallFails, HistoryOK
    <2>6. ScannersOK'
      BY <1>0, <1>20 DEF CallFails, IoFails, Faults, Written, Becomes, IdleClient,
         tables, ScannersOK
    <2> QED BY <2>1, <2>2, <2>3, <2>4, <2>5, <2>6 DEF Typed
  <1>21. ASSUME NEW c \in Clients, SetStatus(c)
        PROVE  Typed'
    <2>1. TablesOK'
      BY <1>0, <1>21, Values, IdsAre DEF SetStatus, DbFails, Faults, At,
         StatusAfter, files, history, TablesOK, Whole
    <2>2. ClientsOK'
      BY <1>0, <1>21, Values, IdsAre DEF SetStatus, DbFails, Faults, At,
         StatusAfter, files, history, ClientsOK, Whole, ClientState
    <2>3. CountsOK'
      BY <1>0, <1>21, Values, IdsAre DEF SetStatus, DbFails, Faults, At,
         StatusAfter, files, history, CountsOK, Whole, TablesOK
    <2>4. FilesOK' /\ ScannersOK' /\ HistoryOK'
      BY <1>0, <1>21 DEF SetStatus, DbFails, Faults, At, StatusAfter, files,
         history, FilesOK, ScannersOK, HistoryOK
    <2> QED BY <2>1, <2>2, <2>3, <2>4 DEF Typed
  <1>22. ASSUME NEW c \in Clients, DeleteRow(c)
        PROVE  Typed'
    <2>1. TablesOK'
      BY <1>0, <1>22, Values, IdsAre DEF DeleteRow, DbFails, Faults, IdleClient,
         files, history, TablesOK, Whole
    <2>2. ClientsOK'
      BY <1>0, <1>22, Values, IdsAre DEF DeleteRow, DbFails, Faults, IdleClient,
         files, history, ClientsOK, Whole, ClientState
    <2>3. CountsOK'
      BY <1>0, <1>22, Values, IdsAre DEF DeleteRow, DbFails, Faults, IdleClient,
         files, history, CountsOK, Whole, TablesOK
    <2>4. FilesOK' /\ ScannersOK' /\ HistoryOK'
      BY <1>0, <1>22 DEF DeleteRow, DbFails, Faults, IdleClient, files, history,
         FilesOK, ScannersOK, HistoryOK
    <2> QED BY <2>1, <2>2, <2>3, <2>4 DEF Typed
  <1>23. CASE Crash
    <2>1. FilesOK'
      BY <1>0, <1>23, Values, IdsAre DEF Crash, Faults, Written, Becomes,
         IdleScanner, IdleClient, FilesOK, Whole, ScannersOK, ClientsOK,
         ScannerState, ClientState
    <2>2. TablesOK'
      BY <1>0, <1>23, Values, IdsAre DEF Crash, Faults, Written, Becomes,
         IdleScanner, IdleClient, TablesOK, Whole
    <2>3. ScannersOK'
      BY <1>0, <1>23, Values, IdsAre DEF Crash, Faults, Written, Becomes,
         IdleScanner, IdleClient, ScannersOK, Whole, ScannerState, TablesOK
    <2>4. ClientsOK'
      BY <1>0, <1>23, Values, IdsAre DEF Crash, Faults, Written, Becomes,
         IdleScanner, IdleClient, ClientsOK, Whole, ClientState
    <2>5. CountsOK'
      BY <1>0, <1>23, Values, IdsAre DEF Crash, Faults, Written, Becomes,
         IdleScanner, IdleClient, CountsOK, Whole, TablesOK
    <2>6. HistoryOK'
      BY <1>0, <1>23, Values, IdsAre DEF Crash, Faults, Written, Becomes,
         IdleScanner, IdleClient, HistoryOK, Whole, Filed, FilesOK, ScannersOK,
         ClientsOK, ScannerState, ClientState
    <2> QED BY <2>1, <2>2, <2>3, <2>4, <2>5, <2>6 DEF Typed
  <1>24. CASE UNCHANGED vars
    <2>1. FilesOK' /\ TablesOK' /\ ScannersOK' /\ ClientsOK' /\ CountsOK' /\ HistoryOK'
      BY <1>0, <1>24 DEF vars, FilesOK, TablesOK, ScannersOK, ClientsOK, CountsOK,
         HistoryOK
    <2> QED BY <2>1 DEF Typed
  <1> QED
    BY <1>1, <1>2, <1>3, <1>4, <1>5, <1>6, <1>7, <1>8, <1>9, <1>10, <1>11, <1>12,
       <1>13, <1>14, <1>15, <1>16, <1>17, <1>18, <1>19, <1>20, <1>21, <1>22, <1>23,
       <1>24 DEF Next, ScannerStep, ClientStep

-----------------------------------------------------------------------------
(* What keeps contents from being lost.                                    *)

Busy(s) == scanner[s].at \notin {"idle", "insert"}
Live(c) == client[c].at # "idle"
IsRow(r) == rows[r] # NoRow

(* The mutex of the database: a connection has it from its first statement *)
(* to its last, a scanner between its two.                                 *)
Mutex ==
    /\ \A c \in Clients : Live(c) => db = c
    /\ \A s \in Scanners : scanner[s].at = "row" => db = s

Rowed == \A c \in Clients : Live(c) => IsRow(client[c].row)

(* Only a scanner that copies has a content in hand.                       *)
Handling ==
    \A s \in Scanners :
       /\ scanner[s].content # Copying
       /\ scanner[s].at \notin {"copy", "unlink"} => scanner[s].content = None

(* An id that insert_threat returned once belongs to one scanner, and to a *)
(* row only after that; an id it has not returned belongs to nobody.       *)
OneOwner ==
    \A s \in Scanners : Busy(s) /\ scanner[s].id \notin shared =>
       /\ \A t \in Scanners : Busy(t) /\ scanner[t].id = scanner[s].id => s = t
       /\ \A r \in 1..MaxIds : IsRow(r) => rows[r].threat # scanner[s].id

Fresh(i) == i \notin shared /\ (i = 0 \/ i > threats)
Unused ==
    \A i \in Ids : Fresh(i) =>
       /\ blob[i] = None
       /\ \A s \in Scanners : Busy(s) => scanner[s].id # i
       /\ \A r \in 1..MaxIds : IsRow(r) => rows[r].threat # i

(* What is under a scanner's own id follows from where it is in put.       *)
Progress ==
    \A s \in Scanners : scanner[s].id \notin shared =>
       /\ scanner[s].at = "put" => blob[scanner[s].id] = None
       /\ scanner[s].at = "copy" => blob[scanner[s].id] = Partial
       /\ scanner[s].at = "unlink" => blob[scanner[s].id] = scanner[s].content

(* What is under an id that was returned twice is known to be misfiled.    *)
Marked ==
    /\ \A i \in shared : blob[i] \in Contents => blob[i] \in misfiled
    /\ \A s \in Scanners :
          scanner[s].id \in shared /\ scanner[s].content \in Contents =>
             scanner[s].content \in misfiled
Faulty == used["db"] = 0 => shared = {} /\ misfiled = {}

(* A restore copies what is in the blob.                                   *)
Reading ==
    \A c \in Clients : client[c].at = "copying" =>
       Threat(c) \in shared \/ blob[Threat(c)] = client[c].content

(* A content that is about to be removed from the vault is let go, or      *)
(* somewhere else as well.                                                 *)
LetGo == released \cup swept \cup misfiled
Spare(x, i) ==
    \/ \E p \in Paths : orig[p] = x
    \/ \E j \in Ids : j # i /\ blob[j] = x
    \/ x \in LetGo
Spared ==
    \A c \in Clients :
       client[c].at \in {"chmod", "remove"} /\ blob[Threat(c)] \in Contents =>
          Spare(blob[Threat(c)], Threat(c))

Kept ==
    \A x \in 1..made :
       \/ \E p \in Paths : orig[p] = x
       \/ \E i \in Ids : blob[i] = x
       \/ x \in LetGo

(* Only the holder of the mutex gives it up.                               *)
LEMMA MutexStep ==
    ASSUME TypeOK, Mutex, [Next]_vars
    PROVE  Mutex'
  <1>0. FilesOK /\ TablesOK /\ ScannersOK /\ ClientsOK /\ CountsOK /\ HistoryOK
    BY TypeParts DEF Typed
  <1>1. ASSUME NEW p \in Paths, WriteFile(p) PROVE Mutex'
    BY <1>0, <1>1 DEF WriteFile, tables, Mutex, Live, ScannersOK, ClientsOK,
       ScannerState, ClientState
  <1>2. ASSUME NEW p \in Paths, RemoveFile(p) PROVE Mutex'
    BY <1>0, <1>2 DEF RemoveFile, tables, Mutex, Live, ScannersOK, ClientsOK,
       ScannerState, ClientState
  <1>3. ASSUME NEW s \in Scanners, NEW p \in Paths, Detect(s, p) PROVE Mutex'
    BY <1>0, <1>3 DEF Detect, IdleScanner, files, tables, history, Mutex, Live,
       ScannersOK, ClientsOK, ScannerState, ClientState
  <1>4. ASSUME NEW s \in Scanners, InsertThreat(s) PROVE Mutex'
    BY <1>0, <1>4 DEF InsertThreat, DbFails, Faults, files, Mutex, Live, ScannersOK,
       ClientsOK, ScannerState, ClientState
  <1>5. ASSUME NEW s \in Scanners, PutFails(s) PROVE Mutex'
    BY <1>0, <1>5 DEF PutFails, IoFails, Faults, GivesUp, IdleScanner, files,
       tables, history, Mutex, Live, ScannersOK, ClientsOK, ScannerState,
       ClientState
  <1>6. ASSUME NEW s \in Scanners, Rename(s) PROVE Mutex'
    BY <1>0, <1>6 DEF Rename, Takes, Misfiles, Goes, tables, Mutex, Live,
       ScannersOK, ClientsOK, ScannerState, ClientState
  <1>7. ASSUME NEW s \in Scanners, StartCopy(s) PROVE Mutex'
    BY <1>0, <1>7 DEF StartCopy, Misfiles, tables, Mutex, Live, ScannersOK,
       ClientsOK, ScannerState, ClientState
  <1>8. ASSUME NEW s \in Scanners, EndCopy(s) PROVE Mutex'
    BY <1>0, <1>8 DEF EndCopy, Goes, tables, history, Mutex, Live, ScannersOK,
       ClientsOK, ScannerState, ClientState
  <1>9. ASSUME NEW s \in Scanners, Unlink(s) PROVE Mutex'
    BY <1>0, <1>9 DEF Unlink, Takes, tables, Mutex, Live, ScannersOK, ClientsOK,
       ScannerState, ClientState
  <1>10. ASSUME NEW s \in Scanners, UnlinkGone(s) PROVE Mutex'
    BY <1>0, <1>10 DEF UnlinkGone, GivesUp, IdleScanner, files, tables, history,
       Mutex, Live, ScannersOK, ClientsOK, ScannerState, ClientState
  <1>11. ASSUME NEW s \in Scanners, Chmod(s) PROVE Mutex'
    BY <1>0, <1>11 DEF Chmod, Goes, tables, history, Mutex, Live, ScannersOK,
       ClientsOK, ScannerState, ClientState
  <1>12. ASSUME NEW s \in Scanners, SetQuarantined(s) PROVE Mutex'
    BY <1>0, <1>12 DEF SetQuarantined, DbFails, Faults, Goes, files, history, Mutex,
       Live, ScannersOK, ClientsOK, ScannerState, ClientState
  <1>13. ASSUME NEW s \in Scanners, InsertQuarantine(s) PROVE Mutex'
    BY <1>0, <1>13 DEF InsertQuarantine, DbFails, Faults, GivesUp, IdleScanner,
       files, history, Mutex, Live, ScannersOK, ClientsOK, ScannerState, ClientState
  <1>14. ASSUME NEW c \in Clients, NEW op \in {"restore", "delete"},
               NEW r \in 1..MaxIds, Ask(c, op, r) PROVE Mutex'
    BY <1>0, <1>14 DEF Ask, MutexFree, IdleClient, files, tables, Mutex, Live,
       ScannersOK, ClientsOK, ScannerState, ClientState
  <1>15. ASSUME NEW c \in Clients, MakeReadable(c) PROVE Mutex'
    BY <1>0, <1>15 DEF MakeReadable, At, tables, history, Mutex, Live, ScannersOK,
       ClientsOK, ScannerState, ClientState
  <1>16. ASSUME NEW c \in Clients, StartCopyBack(c) PROVE Mutex'
    BY <1>0, <1>16 DEF StartCopyBack, Truncated, Threat, Home, tables, Mutex, Live,
       ScannersOK, ClientsOK, ScannerState, ClientState
  <1>17. ASSUME NEW c \in Clients, EndCopyBack(c) PROVE Mutex'
    BY <1>0, <1>17 DEF EndCopyBack, Written, Becomes, tables, Mutex, Live,
       ScannersOK, ClientsOK, ScannerState, ClientState
  <1>18. ASSUME NEW c \in Clients, RestoreMode(c) PROVE Mutex'
    BY <1>0, <1>18 DEF RestoreMode, At, files, tables, history, Mutex, Live,
       ScannersOK, ClientsOK, ScannerState, ClientState
  <1>19. ASSUME NEW c \in Clients, RemoveBlob(c) PROVE Mutex'
    BY <1>0, <1>19 DEF RemoveBlob, At, Threat, tables, history, Mutex, Live,
       ScannersOK, ClientsOK, ScannerState, ClientState
  <1>20. ASSUME NEW c \in Clients, CallFails(c) PROVE Mutex'
    BY <1>0, <1>20 DEF CallFails, IoFails, Faults, Written, Becomes, IdleClient,
       tables, Mutex, Live, ScannersOK, ClientsOK, ScannerState, ClientState
  <1>21. ASSUME NEW c \in Clients, SetStatus(c) PROVE Mutex'
    BY <1>0, <1>21 DEF SetStatus, DbFails, Faults, At, StatusAfter, files, history,
       Mutex, Live, ScannersOK, ClientsOK, ScannerState, ClientState
  <1>22. ASSUME NEW c \in Clients, DeleteRow(c) PROVE Mutex'
    BY <1>0, <1>22 DEF DeleteRow, DbFails, Faults, IdleClient, files, history,
       Mutex, Live, ScannersOK, ClientsOK, ScannerState, ClientState
  <1>23. CASE Crash
    BY <1>0, <1>23 DEF Crash, Faults, Written, Becomes, IdleScanner, IdleClient,
       Mutex, Live, ScannersOK, ClientsOK, ScannerState, ClientState
  <1>24. CASE UNCHANGED vars
    BY <1>0, <1>24 DEF vars, Mutex, Live, ScannersOK, ClientsOK, ScannerState,
       ClientState
  <1> QED
    BY <1>1, <1>2, <1>3, <1>4, <1>5, <1>6, <1>7, <1>8, <1>9, <1>10, <1>11, <1>12,
       <1>13, <1>14, <1>15, <1>16, <1>17, <1>18, <1>19, <1>20, <1>21, <1>22, <1>23,
       <1>24 DEF Next, ScannerStep, ClientStep

(* The row of a connection at work is there.                               *)
LEMMA RowedStep ==
    ASSUME TypeOK, Mutex, Rowed, [Next]_vars
    PROVE  Rowed'
  <1>0. FilesOK /\ TablesOK /\ ScannersOK /\ ClientsOK /\ CountsOK /\ HistoryOK
    BY TypeParts DEF Typed
  <1>1. ASSUME NEW p \in Paths, WriteFile(p) PROVE Rowed'
    BY <1>0, Values, <1>1 DEF WriteFile, tables, Mutex, Rowed, Live, IsRow, NoRow,
       TablesOK, ScannersOK, ClientsOK, ScannerState, ClientState
  <1>2. ASSUME NEW p \in Paths, RemoveFile(p) PROVE Rowed'
    BY <1>0, Values, <1>2 DEF RemoveFile, tables, Mutex, Rowed, Live, IsRow, NoRow,
       TablesOK, ScannersOK, ClientsOK, ScannerState, ClientState
  <1>3. ASSUME NEW s \in Scanners, NEW p \in Paths, Detect(s, p) PROVE Rowed'
    BY <1>0, Values, <1>3 DEF Detect, IdleScanner, files, tables, history, Mutex,
       Rowed, Live, IsRow, NoRow, TablesOK, ScannersOK, ClientsOK, ScannerState,
       ClientState
  <1>4. ASSUME NEW s \in Scanners, InsertThreat(s) PROVE Rowed'
    BY <1>0, Values, <1>4 DEF InsertThreat, DbFails, Faults, files, Mutex, Rowed,
       Live, IsRow, NoRow, TablesOK, ScannersOK, ClientsOK, ScannerState,
       ClientState
  <1>5. ASSUME NEW s \in Scanners, PutFails(s) PROVE Rowed'
    BY <1>0, Values, <1>5 DEF PutFails, IoFails, Faults, GivesUp, IdleScanner,
       files, tables, history, Mutex, Rowed, Live, IsRow, NoRow, TablesOK,
       ScannersOK, ClientsOK, ScannerState, ClientState
  <1>6. ASSUME NEW s \in Scanners, Rename(s) PROVE Rowed'
    BY <1>0, Values, <1>6 DEF Rename, Takes, Misfiles, Goes, tables, Mutex, Rowed,
       Live, IsRow, NoRow, TablesOK, ScannersOK, ClientsOK, ScannerState,
       ClientState
  <1>7. ASSUME NEW s \in Scanners, StartCopy(s) PROVE Rowed'
    BY <1>0, Values, <1>7 DEF StartCopy, Misfiles, tables, Mutex, Rowed, Live,
       IsRow, NoRow, TablesOK, ScannersOK, ClientsOK, ScannerState, ClientState
  <1>8. ASSUME NEW s \in Scanners, EndCopy(s) PROVE Rowed'
    BY <1>0, Values, <1>8 DEF EndCopy, Goes, tables, history, Mutex, Rowed, Live,
       IsRow, NoRow, TablesOK, ScannersOK, ClientsOK, ScannerState, ClientState
  <1>9. ASSUME NEW s \in Scanners, Unlink(s) PROVE Rowed'
    BY <1>0, Values, <1>9 DEF Unlink, Takes, tables, Mutex, Rowed, Live, IsRow,
       NoRow, TablesOK, ScannersOK, ClientsOK, ScannerState, ClientState
  <1>10. ASSUME NEW s \in Scanners, UnlinkGone(s) PROVE Rowed'
    BY <1>0, Values, <1>10 DEF UnlinkGone, GivesUp, IdleScanner, files, tables,
       history, Mutex, Rowed, Live, IsRow, NoRow, TablesOK, ScannersOK, ClientsOK,
       ScannerState, ClientState
  <1>11. ASSUME NEW s \in Scanners, Chmod(s) PROVE Rowed'
    BY <1>0, Values, <1>11 DEF Chmod, Goes, tables, history, Mutex, Rowed, Live,
       IsRow, NoRow, TablesOK, ScannersOK, ClientsOK, ScannerState, ClientState
  <1>12. ASSUME NEW s \in Scanners, SetQuarantined(s) PROVE Rowed'
    BY <1>0, Values, <1>12 DEF SetQuarantined, DbFails, Faults, Goes, files,
       history, Mutex, Rowed, Live, IsRow, NoRow, TablesOK, ScannersOK, ClientsOK,
       ScannerState, ClientState
  <1>13. ASSUME NEW s \in Scanners, InsertQuarantine(s) PROVE Rowed'
    BY <1>0, Values, <1>13 DEF InsertQuarantine, DbFails, Faults, GivesUp,
       IdleScanner, files, history, Mutex, Rowed, Live, IsRow, NoRow, TablesOK,
       ScannersOK, ClientsOK, ScannerState, ClientState
  <1>14. ASSUME NEW c \in Clients, NEW op \in {"restore", "delete"},
               NEW r \in 1..MaxIds, Ask(c, op, r) PROVE Rowed'
    BY <1>0, Values, <1>14 DEF Ask, MutexFree, IdleClient, files, tables, Mutex,
       Rowed, Live, IsRow, NoRow, TablesOK, ScannersOK, ClientsOK, ScannerState,
       ClientState
  <1>15. ASSUME NEW c \in Clients, MakeReadable(c) PROVE Rowed'
    BY <1>0, Values, <1>15 DEF MakeReadable, At, tables, history, Mutex, Rowed,
       Live, IsRow, NoRow, TablesOK, ScannersOK, ClientsOK, ScannerState,
       ClientState
  <1>16. ASSUME NEW c \in Clients, StartCopyBack(c) PROVE Rowed'
    BY <1>0, Values, <1>16 DEF StartCopyBack, Truncated, Threat, Home, tables,
       Mutex, Rowed, Live, IsRow, NoRow, TablesOK, ScannersOK, ClientsOK,
       ScannerState, ClientState
  <1>17. ASSUME NEW c \in Clients, EndCopyBack(c) PROVE Rowed'
    BY <1>0, Values, <1>17 DEF EndCopyBack, Written, Becomes, tables, Mutex, Rowed,
       Live, IsRow, NoRow, TablesOK, ScannersOK, ClientsOK, ScannerState,
       ClientState
  <1>18. ASSUME NEW c \in Clients, RestoreMode(c) PROVE Rowed'
    BY <1>0, Values, <1>18 DEF RestoreMode, At, files, tables, history, Mutex,
       Rowed, Live, IsRow, NoRow, TablesOK, ScannersOK, ClientsOK, ScannerState,
       ClientState
  <1>19. ASSUME NEW c \in Clients, RemoveBlob(c) PROVE Rowed'
    BY <1>0, Values, <1>19 DEF RemoveBlob, At, Threat, tables, history, Mutex,
       Rowed, Live, IsRow, NoRow, TablesOK, ScannersOK, ClientsOK, ScannerState,
       ClientState
  <1>20. ASSUME NEW c \in Clients, CallFails(c) PROVE Rowed'
    BY <1>0, Values, <1>20 DEF CallFails, IoFails, Faults, Written, Becomes,
       IdleClient, tables, Mutex, Rowed, Live, IsRow, NoRow, TablesOK, ScannersOK,
       ClientsOK, ScannerState, ClientState
  <1>21. ASSUME NEW c \in Clients, SetStatus(c) PROVE Rowed'
    BY <1>0, Values, <1>21 DEF SetStatus, DbFails, Faults, At, StatusAfter, files,
       history, Mutex, Rowed, Live, IsRow, NoRow, TablesOK, ScannersOK, ClientsOK,
       ScannerState, ClientState
  <1>22. ASSUME NEW c \in Clients, DeleteRow(c) PROVE Rowed'
    BY <1>0, Values, <1>22 DEF DeleteRow, DbFails, Faults, IdleClient, files,
       history, Mutex, Rowed, Live, IsRow, NoRow, TablesOK, ScannersOK, ClientsOK,
       ScannerState, ClientState
  <1>23. CASE Crash
    BY <1>0, Values, <1>23 DEF Crash, Faults, Written, Becomes, IdleScanner,
       IdleClient, Mutex, Rowed, Live, IsRow, NoRow, TablesOK, ScannersOK,
       ClientsOK, ScannerState, ClientState
  <1>24. CASE UNCHANGED vars
    BY <1>0, Values, <1>24 DEF vars, Mutex, Rowed, Live, IsRow, NoRow, TablesOK,
       ScannersOK, ClientsOK, ScannerState, ClientState
  <1> QED
    BY <1>1, <1>2, <1>3, <1>4, <1>5, <1>6, <1>7, <1>8, <1>9, <1>10, <1>11, <1>12,
       <1>13, <1>14, <1>15, <1>16, <1>17, <1>18, <1>19, <1>20, <1>21, <1>22, <1>23,
       <1>24 DEF Next, ScannerStep, ClientStep

(* A scanner has a content in hand only where it copies.                   *)
LEMMA HandlingStep ==
    ASSUME TypeOK, Handling, [Next]_vars
    PROVE  Handling'
  <1>0. FilesOK /\ TablesOK /\ ScannersOK /\ ClientsOK /\ CountsOK /\ HistoryOK
    BY TypeParts DEF Typed
  <1>1. ASSUME NEW p \in Paths, WriteFile(p) PROVE Handling'
    BY <1>0, Values, <1>1 DEF WriteFile, tables, Handling, ScannersOK, ScannerState
  <1>2. ASSUME NEW p \in Paths, RemoveFile(p) PROVE Handling'
    BY <1>0, Values, <1>2 DEF RemoveFile, tables, Handling, ScannersOK, ScannerState
  <1>3. ASSUME NEW s \in Scanners, NEW p \in Paths, Detect(s, p) PROVE Handling'
    BY <1>0, Values, <1>3 DEF Detect, IdleScanner, files, tables, history, Handling,
       ScannersOK, ScannerState
  <1>4. ASSUME NEW s \in Scanners, InsertThreat(s) PROVE Handling'
    BY <1>0, Values, <1>4 DEF InsertThreat, DbFails, Faults, files, Handling,
       ScannersOK, ScannerState
  <1>5. ASSUME NEW s \in Scanners, PutFails(s) PROVE Handling'
    BY <1>0, Values, <1>5 DEF PutFails, IoFails, Faults, GivesUp, IdleScanner,
       files, tables, history, Handling, ScannersOK, ScannerState
  <1>6. ASSUME NEW s \in Scanners, Rename(s) PROVE Handling'
    BY <1>0, Values, <1>6 DEF Rename, Takes, Misfiles, Goes, tables, Handling,
       ScannersOK, ScannerState
  <1>7. ASSUME NEW s \in Scanners, StartCopy(s) PROVE Handling'
    BY <1>0, Values, <1>7 DEF StartCopy, Misfiles, tables, Handling, ScannersOK,
       ScannerState
  <1>8. ASSUME NEW s \in Scanners, EndCopy(s) PROVE Handling'
    BY <1>0, Values, <1>8 DEF EndCopy, Goes, tables, history, Handling, ScannersOK,
       ScannerState
  <1>9. ASSUME NEW s \in Scanners, Unlink(s) PROVE Handling'
    BY <1>0, Values, <1>9 DEF Unlink, Takes, tables, Handling, ScannersOK,
       ScannerState
  <1>10. ASSUME NEW s \in Scanners, UnlinkGone(s) PROVE Handling'
    BY <1>0, Values, <1>10 DEF UnlinkGone, GivesUp, IdleScanner, files, tables,
       history, Handling, ScannersOK, ScannerState
  <1>11. ASSUME NEW s \in Scanners, Chmod(s) PROVE Handling'
    BY <1>0, Values, <1>11 DEF Chmod, Goes, tables, history, Handling, ScannersOK,
       ScannerState
  <1>12. ASSUME NEW s \in Scanners, SetQuarantined(s) PROVE Handling'
    BY <1>0, Values, <1>12 DEF SetQuarantined, DbFails, Faults, Goes, files,
       history, Handling, ScannersOK, ScannerState
  <1>13. ASSUME NEW s \in Scanners, InsertQuarantine(s) PROVE Handling'
    BY <1>0, Values, <1>13 DEF InsertQuarantine, DbFails, Faults, GivesUp,
       IdleScanner, files, history, Handling, ScannersOK, ScannerState
  <1>14. ASSUME NEW c \in Clients, NEW op \in {"restore", "delete"},
               NEW r \in 1..MaxIds, Ask(c, op, r) PROVE Handling'
    BY <1>0, Values, <1>14 DEF Ask, MutexFree, IdleClient, files, tables, Handling,
       ScannersOK, ScannerState
  <1>15. ASSUME NEW c \in Clients, MakeReadable(c) PROVE Handling'
    BY <1>0, Values, <1>15 DEF MakeReadable, At, tables, history, Handling,
       ScannersOK, ScannerState
  <1>16. ASSUME NEW c \in Clients, StartCopyBack(c) PROVE Handling'
    BY <1>0, Values, <1>16 DEF StartCopyBack, Truncated, Threat, Home, tables,
       Handling, ScannersOK, ScannerState
  <1>17. ASSUME NEW c \in Clients, EndCopyBack(c) PROVE Handling'
    BY <1>0, Values, <1>17 DEF EndCopyBack, Written, Becomes, tables, Handling,
       ScannersOK, ScannerState
  <1>18. ASSUME NEW c \in Clients, RestoreMode(c) PROVE Handling'
    BY <1>0, Values, <1>18 DEF RestoreMode, At, files, tables, history, Handling,
       ScannersOK, ScannerState
  <1>19. ASSUME NEW c \in Clients, RemoveBlob(c) PROVE Handling'
    BY <1>0, Values, <1>19 DEF RemoveBlob, At, Threat, tables, history, Handling,
       ScannersOK, ScannerState
  <1>20. ASSUME NEW c \in Clients, CallFails(c) PROVE Handling'
    BY <1>0, Values, <1>20 DEF CallFails, IoFails, Faults, Written, Becomes,
       IdleClient, tables, Handling, ScannersOK, ScannerState
  <1>21. ASSUME NEW c \in Clients, SetStatus(c) PROVE Handling'
    BY <1>0, Values, <1>21 DEF SetStatus, DbFails, Faults, At, StatusAfter, files,
       history, Handling, ScannersOK, ScannerState
  <1>22. ASSUME NEW c \in Clients, DeleteRow(c) PROVE Handling'
    BY <1>0, Values, <1>22 DEF DeleteRow, DbFails, Faults, IdleClient, files,
       history, Handling, ScannersOK, ScannerState
  <1>23. CASE Crash
    BY <1>0, Values, <1>23 DEF Crash, Faults, Written, Becomes, IdleScanner,
       IdleClient, Handling, ScannersOK, ScannerState
  <1>24. CASE UNCHANGED vars
    BY <1>0, Values, <1>24 DEF vars, Handling, ScannersOK, ScannerState
  <1> QED
    BY <1>1, <1>2, <1>3, <1>4, <1>5, <1>6, <1>7, <1>8, <1>9, <1>10, <1>11, <1>12,
       <1>13, <1>14, <1>15, <1>16, <1>17, <1>18, <1>19, <1>20, <1>21, <1>22, <1>23,
       <1>24 DEF Next, ScannerStep, ClientStep

(* An id that is not shared has one owner.                                 *)
LEMMA OneOwnerStep ==
    ASSUME TypeOK, OneOwner, Unused, [Next]_vars
    PROVE  OneOwner'
  <1>0. FilesOK /\ TablesOK /\ ScannersOK /\ ClientsOK /\ CountsOK /\ HistoryOK
    BY TypeParts DEF Typed
  <1>1. ASSUME NEW p \in Paths, WriteFile(p) PROVE OneOwner'
    BY <1>0, Values, IdsAre, <1>1 DEF WriteFile, tables, OneOwner, Unused, Fresh,
       Busy, IsRow, NoRow, TablesOK, ScannersOK, ScannerState
  <1>2. ASSUME NEW p \in Paths, RemoveFile(p) PROVE OneOwner'
    BY <1>0, Values, IdsAre, <1>2 DEF RemoveFile, tables, OneOwner, Unused, Fresh,
       Busy, IsRow, NoRow, TablesOK, ScannersOK, ScannerState
  <1>3. ASSUME NEW s \in Scanners, NEW p \in Paths, Detect(s, p) PROVE OneOwner'
    BY <1>0, Values, IdsAre, <1>3 DEF Detect, IdleScanner, files, tables, history,
       OneOwner, Unused, Fresh, Busy, IsRow, NoRow, TablesOK, ScannersOK,
       ScannerState
  <1>4. ASSUME NEW s \in Scanners, InsertThreat(s) PROVE OneOwner'
    <2>1. /\ \A t \in Scanners : t # s => scanner'[t] = scanner[t]
          /\ scanner'[s].at = "put" /\ scanner'[s].id = last' /\ UNCHANGED rows
      BY <1>0, <1>4 DEF InsertThreat, ScannersOK, ScannerState
    <2>2. CASE threats < MaxIds /\ last' = threats + 1 /\ UNCHANGED shared
      <3>1. threats + 1 \in Ids /\ threats + 1 > threats
        BY <1>0, <2>2, IdsAre DEF TablesOK
      <3>2. last' \notin shared =>
              /\ \A t \in Scanners : Busy(t) => scanner[t].id # last'
              /\ \A r \in 1..MaxIds : IsRow(r) => rows[r].threat # last'
        BY <2>2, <3>1 DEF Unused, Fresh
      <3> QED BY <2>1, <2>2, <3>2 DEF OneOwner, Busy, IsRow
    <2>3. CASE last' = last /\ shared' = shared \cup {last}
      BY <2>1, <2>3 DEF OneOwner, Busy, IsRow
    <2> QED BY <1>4, <2>2, <2>3 DEF InsertThreat
  <1>5. ASSUME NEW s \in Scanners, PutFails(s) PROVE OneOwner'
    BY <1>0, Values, IdsAre, <1>5 DEF PutFails, IoFails, Faults, GivesUp,
       IdleScanner, files, tables, history, OneOwner, Unused, Fresh, Busy, IsRow,
       NoRow, TablesOK, ScannersOK, ScannerState
  <1>6. ASSUME NEW s \in Scanners, Rename(s) PROVE OneOwner'
    BY <1>0, Values, IdsAre, <1>6 DEF Rename, Takes, Misfiles, Goes, tables,
       OneOwner, Unused, Fresh, Busy, IsRow, NoRow, TablesOK, ScannersOK,
       ScannerState
  <1>7. ASSUME NEW s \in Scanners, StartCopy(s) PROVE OneOwner'
    BY <1>0, Values, IdsAre, <1>7 DEF StartCopy, Misfiles, tables, OneOwner, Unused,
       Fresh, Busy, IsRow, NoRow, TablesOK, ScannersOK, ScannerState
  <1>8. ASSUME NEW s \in Scanners, EndCopy(s) PROVE OneOwner'
    BY <1>0, Values, IdsAre, <1>8 DEF EndCopy, Goes, tables, history, OneOwner,
       Unused, Fresh, Busy, IsRow, NoRow, TablesOK, ScannersOK, ScannerState
  <1>9. ASSUME NEW s \in Scanners, Unlink(s) PROVE OneOwner'
    <2>1. /\ UNCHANGED <<rows, shared>>
          /\ \A t \in Scanners : scanner'[t].id = scanner[t].id /\ (Busy(t)' <=> Busy(t))
      BY <1>0, <1>9 DEF Unlink, tables, ScannersOK, ScannerState, Busy
    <2> QED BY <2>1 DEF OneOwner, IsRow
  <1>10. ASSUME NEW s \in Scanners, UnlinkGone(s) PROVE OneOwner'
    BY <1>0, Values, IdsAre, <1>10 DEF UnlinkGone, GivesUp, IdleScanner, files,
       tables, history, OneOwner, Unused, Fresh, Busy, IsRow, NoRow, TablesOK,
       ScannersOK, ScannerState
  <1>11. ASSUME NEW s \in Scanners, Chmod(s) PROVE OneOwner'
    BY <1>0, Values, IdsAre, <1>11 DEF Chmod, Goes, tables, history, OneOwner,
       Unused, Fresh, Busy, IsRow, NoRow, TablesOK, ScannersOK, ScannerState
  <1>12. ASSUME NEW s \in Scanners, SetQuarantined(s) PROVE OneOwner'
    BY <1>0, Values, IdsAre, <1>12 DEF SetQuarantined, DbFails, Faults, Goes, files,
       history, OneOwner, Unused, Fresh, Busy, IsRow, NoRow, TablesOK, ScannersOK,
       ScannerState
  <1>13. ASSUME NEW s \in Scanners, InsertQuarantine(s) PROVE OneOwner'
    <2>1. /\ Busy(s) /\ UNCHANGED shared /\ ~Busy(s)'
          /\ \A t \in Scanners : t # s => scanner'[t] = scanner[t]
      BY <1>0, <1>13 DEF InsertQuarantine, GivesUp, IdleScanner, history, ScannersOK,
                        ScannerState, Busy
    <2>2. \/ UNCHANGED rows
          \/ /\ added + 1 \in 1..MaxIds
             /\ rows' = [rows EXCEPT ![added + 1] =
                           [threat |-> scanner[s].id, path |-> scanner[s].path]]
      BY <1>0, <1>13, IdsAre DEF InsertQuarantine, TablesOK
    <2>3. \A r \in 1..MaxIds : IsRow(r)' =>
             (IsRow(r) /\ rows'[r] = rows[r]) \/ rows'[r].threat = scanner[s].id
      BY <1>0, <2>2 DEF IsRow, TablesOK
    <2> QED BY <2>1, <2>3 DEF OneOwner, Busy
  <1>14. ASSUME NEW c \in Clients, NEW op \in {"restore", "delete"},
               NEW r \in 1..MaxIds, Ask(c, op, r) PROVE OneOwner'
    BY <1>0, Values, IdsAre, <1>14 DEF Ask, MutexFree, IdleClient, files, tables,
       OneOwner, Unused, Fresh, Busy, IsRow, NoRow, TablesOK, ScannersOK,
       ScannerState
  <1>15. ASSUME NEW c \in Clients, MakeReadable(c) PROVE OneOwner'
    BY <1>0, Values, IdsAre, <1>15 DEF MakeReadable, At, tables, history, OneOwner,
       Unused, Fresh, Busy, IsRow, NoRow, TablesOK, ScannersOK, ScannerState
  <1>16. ASSUME NEW c \in Clients, StartCopyBack(c) PROVE OneOwner'
    BY <1>0, Values, IdsAre, <1>16 DEF StartCopyBack, Truncated, Threat, Home,
       tables, OneOwner, Unused, Fresh, Busy, IsRow, NoRow, TablesOK, ScannersOK,
       ScannerState
  <1>17. ASSUME NEW c \in Clients, EndCopyBack(c) PROVE OneOwner'
    BY <1>0, Values, IdsAre, <1>17 DEF EndCopyBack, Written, Becomes, tables,
       OneOwner, Unused, Fresh, Busy, IsRow, NoRow, TablesOK, ScannersOK,
       ScannerState
  <1>18. ASSUME NEW c \in Clients, RestoreMode(c) PROVE OneOwner'
    BY <1>0, Values, IdsAre, <1>18 DEF RestoreMode, At, files, tables, history,
       OneOwner, Unused, Fresh, Busy, IsRow, NoRow, TablesOK, ScannersOK,
       ScannerState
  <1>19. ASSUME NEW c \in Clients, RemoveBlob(c) PROVE OneOwner'
    BY <1>0, Values, IdsAre, <1>19 DEF RemoveBlob, At, Threat, tables, history,
       OneOwner, Unused, Fresh, Busy, IsRow, NoRow, TablesOK, ScannersOK,
       ScannerState
  <1>20. ASSUME NEW c \in Clients, CallFails(c) PROVE OneOwner'
    BY <1>0, Values, IdsAre, <1>20 DEF CallFails, IoFails, Faults, Written, Becomes,
       IdleClient, tables, OneOwner, Unused, Fresh, Busy, IsRow, NoRow, TablesOK,
       ScannersOK, ScannerState
  <1>21. ASSUME NEW c \in Clients, SetStatus(c) PROVE OneOwner'
    BY <1>0, Values, IdsAre, <1>21 DEF SetStatus, DbFails, Faults, At, StatusAfter,
       files, history, OneOwner, Unused, Fresh, Busy, IsRow, NoRow, TablesOK,
       ScannersOK, ScannerState
  <1>22. ASSUME NEW c \in Clients, DeleteRow(c) PROVE OneOwner'
    <2>1. /\ UNCHANGED <<scanner, shared>>
          /\ \A r \in 1..MaxIds : rows'[r] \in {rows[r], NoRow}
      BY <1>0, <1>22 DEF DeleteRow, history, TablesOK
    <2> QED BY <2>1 DEF OneOwner, Busy, IsRow
  <1>23. CASE Crash
    BY <1>0, Values, IdsAre, <1>23 DEF Crash, Faults, Written, Becomes, IdleScanner,
       IdleClient, OneOwner, Unused, Fresh, Busy, IsRow, NoRow, TablesOK,
       ScannersOK, ScannerState
  <1>24. CASE UNCHANGED vars
    BY <1>0, Values, IdsAre, <1>24 DEF vars, OneOwner, Unused, Fresh, Busy, IsRow,
       NoRow, TablesOK, ScannersOK, ScannerState
  <1> QED
    BY <1>1, <1>2, <1>3, <1>4, <1>5, <1>6, <1>7, <1>8, <1>9, <1>10, <1>11, <1>12,
       <1>13, <1>14, <1>15, <1>16, <1>17, <1>18, <1>19, <1>20, <1>21, <1>22, <1>23,
       <1>24 DEF Next, ScannerStep, ClientStep

(* An id nobody has been given is nobody's.                                *)
LEMMA UnusedStep ==
    ASSUME TypeOK, OneOwner, Unused, [Next]_vars
    PROVE  Unused'
  <1>0. FilesOK /\ TablesOK /\ ScannersOK /\ ClientsOK /\ CountsOK /\ HistoryOK
    BY TypeParts DEF Typed
  <1>1. ASSUME NEW p \in Paths, WriteFile(p) PROVE Unused'
    BY <1>0, Values, IdsAre, <1>1 DEF WriteFile, tables, OneOwner, Unused, Fresh,
       Busy, IsRow, NoRow, FilesOK, TablesOK, Threat, ScannersOK, ScannerState
  <1>2. ASSUME NEW p \in Paths, RemoveFile(p) PROVE Unused'
    BY <1>0, Values, IdsAre, <1>2 DEF RemoveFile, tables, OneOwner, Unused, Fresh,
       Busy, IsRow, NoRow, FilesOK, TablesOK, Threat, ScannersOK, ScannerState
  <1>3. ASSUME NEW s \in Scanners, NEW p \in Paths, Detect(s, p) PROVE Unused'
    BY <1>0, Values, IdsAre, <1>3 DEF Detect, IdleScanner, files, tables, history,
       OneOwner, Unused, Fresh, Busy, IsRow, NoRow, FilesOK, TablesOK, Threat,
       ScannersOK, ScannerState
  <1>4. ASSUME NEW s \in Scanners, InsertThreat(s) PROVE Unused'
    BY <1>0, Values, IdsAre, <1>4 DEF InsertThreat, DbFails, Faults, files,
       OneOwner, Unused, Fresh, Busy, IsRow, NoRow, FilesOK, TablesOK, Threat,
       ScannersOK, ScannerState
  <1>5. ASSUME NEW s \in Scanners, PutFails(s) PROVE Unused'
    BY <1>0, Values, IdsAre, <1>5 DEF PutFails, IoFails, Faults, GivesUp,
       IdleScanner, files, tables, history, OneOwner, Unused, Fresh, Busy, IsRow,
       NoRow, FilesOK, TablesOK, Threat, ScannersOK, ScannerState
  <1>6. ASSUME NEW s \in Scanners, Rename(s) PROVE Unused'
    BY <1>0, Values, IdsAre, <1>6 DEF Rename, Takes, Misfiles, Goes, tables,
       OneOwner, Unused, Fresh, Busy, IsRow, NoRow, FilesOK, TablesOK, Threat,
       ScannersOK, ScannerState
  <1>7. ASSUME NEW s \in Scanners, StartCopy(s) PROVE Unused'
    <2>1. /\ Busy(s) /\ UNCHANGED <<rows, threats, shared>>
          /\ blob' = [blob EXCEPT ![scanner[s].id] = blob'[scanner[s].id]]
          /\ \A t \in Scanners : scanner'[t].id = scanner[t].id /\ (Busy(t)' <=> Busy(t))
      BY <1>0, <1>7 DEF StartCopy, tables, ScannersOK, ScannerState, FilesOK,
                       Busy
    <2>2. \A i \in Ids : i # scanner[s].id => blob'[i] = blob[i]
      BY <1>0, <2>1 DEF FilesOK
    <2> QED BY <2>1, <2>2 DEF Unused, Fresh, IsRow
  <1>8. ASSUME NEW s \in Scanners, EndCopy(s) PROVE Unused'
    <2>1. /\ Busy(s) /\ UNCHANGED <<rows, threats, shared>>
          /\ blob' = [blob EXCEPT ![scanner[s].id] = blob'[scanner[s].id]]
          /\ \A t \in Scanners : scanner'[t].id = scanner[t].id /\ (Busy(t)' <=> Busy(t))
      BY <1>0, <1>8 DEF EndCopy, Goes, tables, history, ScannersOK, ScannerState, FilesOK,
                       Busy
    <2>2. \A i \in Ids : i # scanner[s].id => blob'[i] = blob[i]
      BY <1>0, <2>1 DEF FilesOK
    <2> QED BY <2>1, <2>2 DEF Unused, Fresh, IsRow
  <1>9. ASSUME NEW s \in Scanners, Unlink(s) PROVE Unused'
    BY <1>0, Values, IdsAre, <1>9 DEF Unlink, Takes, tables, OneOwner, Unused,
       Fresh, Busy, IsRow, NoRow, FilesOK, TablesOK, Threat, ScannersOK,
       ScannerState
  <1>10. ASSUME NEW s \in Scanners, UnlinkGone(s) PROVE Unused'
    BY <1>0, Values, IdsAre, <1>10 DEF UnlinkGone, GivesUp, IdleScanner, files,
       tables, history, OneOwner, Unused, Fresh, Busy, IsRow, NoRow, FilesOK,
       TablesOK, Threat, ScannersOK, ScannerState
  <1>11. ASSUME NEW s \in Scanners, Chmod(s) PROVE Unused'
    BY <1>0, Values, IdsAre, <1>11 DEF Chmod, Goes, tables, history, OneOwner,
       Unused, Fresh, Busy, IsRow, NoRow, FilesOK, TablesOK, Threat, ScannersOK,
       ScannerState
  <1>12. ASSUME NEW s \in Scanners, SetQuarantined(s) PROVE Unused'
    BY <1>0, Values, IdsAre, <1>12 DEF SetQuarantined, DbFails, Faults, Goes, files,
       history, OneOwner, Unused, Fresh, Busy, IsRow, NoRow, FilesOK, TablesOK,
       Threat, ScannersOK, ScannerState
  <1>13. ASSUME NEW s \in Scanners, InsertQuarantine(s) PROVE Unused'
    <2>1. /\ Busy(s) /\ UNCHANGED <<shared, threats, blob>> /\ ~Busy(s)'
          /\ \A t \in Scanners : t # s => scanner'[t] = scanner[t]
      BY <1>0, <1>13 DEF InsertQuarantine, GivesUp, IdleScanner, files, history,
                        ScannersOK, ScannerState, Busy
    <2>2. \/ UNCHANGED rows
          \/ /\ added + 1 \in 1..MaxIds
             /\ rows' = [rows EXCEPT ![added + 1] =
                           [threat |-> scanner[s].id, path |-> scanner[s].path]]
      BY <1>0, <1>13, IdsAre DEF InsertQuarantine, TablesOK
    <2>3. \A r \in 1..MaxIds : IsRow(r)' =>
             (IsRow(r) /\ rows'[r] = rows[r]) \/ rows'[r].threat = scanner[s].id
      BY <1>0, <2>2 DEF IsRow, TablesOK
    <2> QED BY <2>1, <2>3 DEF Unused, Fresh, Busy
  <1>14. ASSUME NEW c \in Clients, NEW op \in {"restore", "delete"},
               NEW r \in 1..MaxIds, Ask(c, op, r) PROVE Unused'
    BY <1>0, Values, IdsAre, <1>14 DEF Ask, MutexFree, IdleClient, files, tables,
       OneOwner, Unused, Fresh, Busy, IsRow, NoRow, FilesOK, TablesOK, Threat,
       ScannersOK, ScannerState
  <1>15. ASSUME NEW c \in Clients, MakeReadable(c) PROVE Unused'
    BY <1>0, Values, IdsAre, <1>15 DEF MakeReadable, At, tables, history, OneOwner,
       Unused, Fresh, Busy, IsRow, NoRow, FilesOK, TablesOK, Threat, ScannersOK,
       ScannerState
  <1>16. ASSUME NEW c \in Clients, StartCopyBack(c) PROVE Unused'
    BY <1>0, Values, IdsAre, <1>16 DEF StartCopyBack, Truncated, Threat, Home,
       tables, OneOwner, Unused, Fresh, Busy, IsRow, NoRow, FilesOK, TablesOK,
       Threat, ScannersOK, ScannerState
  <1>17. ASSUME NEW c \in Clients, EndCopyBack(c) PROVE Unused'
    BY <1>0, Values, IdsAre, <1>17 DEF EndCopyBack, Written, Becomes, tables,
       OneOwner, Unused, Fresh, Busy, IsRow, NoRow, FilesOK, TablesOK, Threat,
       ScannersOK, ScannerState
  <1>18. ASSUME NEW c \in Clients, RestoreMode(c) PROVE Unused'
    BY <1>0, Values, IdsAre, <1>18 DEF RestoreMode, At, files, tables, history,
       OneOwner, Unused, Fresh, Busy, IsRow, NoRow, FilesOK, TablesOK, Threat,
       ScannersOK, ScannerState
  <1>19. ASSUME NEW c \in Clients, RemoveBlob(c) PROVE Unused'
    BY <1>0, Values, IdsAre, <1>19 DEF RemoveBlob, At, Threat, tables, history,
       OneOwner, Unused, Fresh, Busy, IsRow, NoRow, FilesOK, TablesOK, Threat,
       ScannersOK, ScannerState
  <1>20. ASSUME NEW c \in Clients, CallFails(c) PROVE Unused'
    BY <1>0, Values, IdsAre, <1>20 DEF CallFails, IoFails, Faults, Written, Becomes,
       IdleClient, tables, OneOwner, Unused, Fresh, Busy, IsRow, NoRow, FilesOK,
       TablesOK, Threat, ScannersOK, ScannerState
  <1>21. ASSUME NEW c \in Clients, SetStatus(c) PROVE Unused'
    BY <1>0, Values, IdsAre, <1>21 DEF SetStatus, DbFails, Faults, At, StatusAfter,
       files, history, OneOwner, Unused, Fresh, Busy, IsRow, NoRow, FilesOK,
       TablesOK, Threat, ScannersOK, ScannerState
  <1>22. ASSUME NEW c \in Clients, DeleteRow(c) PROVE Unused'
    <2>1. /\ UNCHANGED <<scanner, shared, threats, blob>>
          /\ \A r \in 1..MaxIds : rows'[r] \in {rows[r], NoRow}
      BY <1>0, <1>22 DEF DeleteRow, files, history, TablesOK
    <2> QED BY <2>1 DEF Unused, Fresh, Busy, IsRow
  <1>23. CASE Crash
    BY <1>0, Values, IdsAre, <1>23 DEF Crash, Faults, Written, Becomes, IdleScanner,
       IdleClient, OneOwner, Unused, Fresh, Busy, IsRow, NoRow, FilesOK, TablesOK,
       Threat, ScannersOK, ScannerState
  <1>24. CASE UNCHANGED vars
    BY <1>0, Values, IdsAre, <1>24 DEF vars, OneOwner, Unused, Fresh, Busy, IsRow,
       NoRow, FilesOK, TablesOK, Threat, ScannersOK, ScannerState
  <1> QED
    BY <1>1, <1>2, <1>3, <1>4, <1>5, <1>6, <1>7, <1>8, <1>9, <1>10, <1>11, <1>12,
       <1>13, <1>14, <1>15, <1>16, <1>17, <1>18, <1>19, <1>20, <1>21, <1>22, <1>23,
       <1>24 DEF Next, ScannerStep, ClientStep

(* Nobody else touches the blob of a scanner's own id.                     *)
LEMMA ProgressStep ==
    ASSUME TypeOK, Handling, Rowed, OneOwner, Unused, Progress, [Next]_vars
    PROVE  Progress'
  <1>0. FilesOK /\ TablesOK /\ ScannersOK /\ ClientsOK /\ CountsOK /\ HistoryOK
    BY TypeParts DEF Typed
  <1>1. ASSUME NEW p \in Paths, WriteFile(p) PROVE Progress'
    BY <1>0, Values, IdsAre, <1>1 DEF WriteFile, tables, Handling, Rowed, Live,
       OneOwner, Unused, Fresh, Busy, Progress, FilesOK, TablesOK, Threat,
       ScannersOK, ScannerState, ClientsOK, ClientState
  <1>2. ASSUME NEW p \in Paths, RemoveFile(p) PROVE Progress'
    BY <1>0, Values, IdsAre, <1>2 DEF RemoveFile, tables, Handling, Rowed, Live,
       OneOwner, Unused, Fresh, Busy, Progress, FilesOK, TablesOK, Threat,
       ScannersOK, ScannerState, ClientsOK, ClientState
  <1>3. ASSUME NEW s \in Scanners, NEW p \in Paths, Detect(s, p) PROVE Progress'
    BY <1>0, Values, IdsAre, <1>3 DEF Detect, IdleScanner, files, tables, history,
       Handling, Rowed, Live, OneOwner, Unused, Fresh, Busy, Progress, FilesOK,
       TablesOK, Threat, ScannersOK, ScannerState, ClientsOK, ClientState
  <1>4. ASSUME NEW s \in Scanners, InsertThreat(s) PROVE Progress'
    BY <1>0, Values, IdsAre, <1>4 DEF InsertThreat, DbFails, Faults, files,
       Handling, Rowed, Live, OneOwner, Unused, Fresh, Busy, Progress, FilesOK,
       TablesOK, Threat, ScannersOK, ScannerState, ClientsOK, ClientState
  <1>5. ASSUME NEW s \in Scanners, PutFails(s) PROVE Progress'
    BY <1>0, Values, IdsAre, <1>5 DEF PutFails, IoFails, Faults, GivesUp,
       IdleScanner, files, tables, history, Handling, Rowed, Live, OneOwner, Unused,
       Fresh, Busy, Progress, FilesOK, TablesOK, Threat, ScannersOK, ScannerState,
       ClientsOK, ClientState
  <1>6. ASSUME NEW s \in Scanners, Rename(s) PROVE Progress'
    BY <1>0, Values, IdsAre, <1>6 DEF Rename, Takes, Misfiles, Goes, tables,
       Handling, Rowed, Live, OneOwner, Unused, Fresh, Busy, Progress, FilesOK,
       TablesOK, Threat, ScannersOK, ScannerState, ClientsOK, ClientState
  <1>7. ASSUME NEW s \in Scanners, StartCopy(s) PROVE Progress'
    BY <1>0, Values, IdsAre, <1>7 DEF StartCopy, Misfiles, tables, Handling, Rowed,
       Live, OneOwner, Unused, Fresh, Busy, Progress, FilesOK, TablesOK, Threat,
       ScannersOK, ScannerState, ClientsOK, ClientState
  <1>8. ASSUME NEW s \in Scanners, EndCopy(s) PROVE Progress'
    BY SMTT(30), <1>0, Values, IdsAre, <1>8 DEF EndCopy, Goes, tables, history,
       Handling, Rowed, Live, OneOwner, Unused, Fresh, Busy, Progress, FilesOK,
       TablesOK, Threat, ScannersOK, ScannerState, ClientsOK, ClientState
  <1>9. ASSUME NEW s \in Scanners, Unlink(s) PROVE Progress'
    BY <1>0, Values, IdsAre, <1>9 DEF Unlink, Takes, tables, Handling, Rowed, Live,
       OneOwner, Unused, Fresh, Busy, Progress, FilesOK, TablesOK, Threat,
       ScannersOK, ScannerState, ClientsOK, ClientState
  <1>10. ASSUME NEW s \in Scanners, UnlinkGone(s) PROVE Progress'
    BY <1>0, Values, IdsAre, <1>10 DEF UnlinkGone, GivesUp, IdleScanner, files,
       tables, history, Handling, Rowed, Live, OneOwner, Unused, Fresh, Busy,
       Progress, FilesOK, TablesOK, Threat, ScannersOK, ScannerState, ClientsOK,
       ClientState
  <1>11. ASSUME NEW s \in Scanners, Chmod(s) PROVE Progress'
    BY <1>0, Values, IdsAre, <1>11 DEF Chmod, Goes, tables, history, Handling,
       Rowed, Live, OneOwner, Unused, Fresh, Busy, Progress, FilesOK, TablesOK,
       Threat, ScannersOK, ScannerState, ClientsOK, ClientState
  <1>12. ASSUME NEW s \in Scanners, SetQuarantined(s) PROVE Progress'
    BY <1>0, Values, IdsAre, <1>12 DEF SetQuarantined, DbFails, Faults, Goes, files,
       history, Handling, Rowed, Live, OneOwner, Unused, Fresh, Busy, Progress,
       FilesOK, TablesOK, Threat, ScannersOK, ScannerState, ClientsOK, ClientState
  <1>13. ASSUME NEW s \in Scanners, InsertQuarantine(s) PROVE Progress'
    BY <1>0, Values, IdsAre, <1>13 DEF InsertQuarantine, DbFails, Faults, GivesUp,
       IdleScanner, files, history, Handling, Rowed, Live, OneOwner, Unused, Fresh,
       Busy, Progress, FilesOK, TablesOK, Threat, ScannersOK, ScannerState,
       ClientsOK, ClientState
  <1>14. ASSUME NEW c \in Clients, NEW op \in {"restore", "delete"},
               NEW r \in 1..MaxIds, Ask(c, op, r) PROVE Progress'
    BY <1>0, Values, IdsAre, <1>14 DEF Ask, MutexFree, IdleClient, files, tables,
       Handling, Rowed, Live, OneOwner, Unused, Fresh, Busy, Progress, FilesOK,
       TablesOK, Threat, ScannersOK, ScannerState, ClientsOK, ClientState
  <1>15. ASSUME NEW c \in Clients, MakeReadable(c) PROVE Progress'
    BY <1>0, Values, IdsAre, <1>15 DEF MakeReadable, At, tables, history, Handling,
       Rowed, Live, OneOwner, Unused, Fresh, Busy, Progress, FilesOK, TablesOK,
       Threat, ScannersOK, ScannerState, ClientsOK, ClientState
  <1>16. ASSUME NEW c \in Clients, StartCopyBack(c) PROVE Progress'
    BY <1>0, Values, IdsAre, <1>16 DEF StartCopyBack, Truncated, Threat, Home,
       tables, Handling, Rowed, Live, OneOwner, Unused, Fresh, Busy, Progress,
       FilesOK, TablesOK, Threat, ScannersOK, ScannerState, ClientsOK, ClientState
  <1>17. ASSUME NEW c \in Clients, EndCopyBack(c) PROVE Progress'
    BY <1>0, Values, IdsAre, <1>17 DEF EndCopyBack, Written, Becomes, tables,
       Handling, Rowed, Live, OneOwner, Unused, Fresh, Busy, Progress, FilesOK,
       TablesOK, Threat, ScannersOK, ScannerState, ClientsOK, ClientState
  <1>18. ASSUME NEW c \in Clients, RestoreMode(c) PROVE Progress'
    BY <1>0, Values, IdsAre, <1>18 DEF RestoreMode, At, files, tables, history,
       Handling, Rowed, Live, OneOwner, Unused, Fresh, Busy, Progress, FilesOK,
       TablesOK, Threat, ScannersOK, ScannerState, ClientsOK, ClientState
  <1>19. ASSUME NEW c \in Clients, RemoveBlob(c) PROVE Progress'
    BY ZenonT(60), <1>0, Values, IdsAre, <1>19 DEF RemoveBlob, At, Threat, tables,
       history, Handling, Rowed, Live, OneOwner, Unused, Fresh, Busy, Progress,
       FilesOK, TablesOK, Threat, ScannersOK, ScannerState, ClientsOK, ClientState
  <1>20. ASSUME NEW c \in Clients, CallFails(c) PROVE Progress'
    BY <1>0, Values, IdsAre, <1>20 DEF CallFails, IoFails, Faults, Written, Becomes,
       IdleClient, tables, Handling, Rowed, Live, OneOwner, Unused, Fresh, Busy,
       Progress, FilesOK, TablesOK, Threat, ScannersOK, ScannerState, ClientsOK,
       ClientState
  <1>21. ASSUME NEW c \in Clients, SetStatus(c) PROVE Progress'
    BY <1>0, Values, IdsAre, <1>21 DEF SetStatus, DbFails, Faults, At, StatusAfter,
       files, history, Handling, Rowed, Live, OneOwner, Unused, Fresh, Busy,
       Progress, FilesOK, TablesOK, Threat, ScannersOK, ScannerState, ClientsOK,
       ClientState
  <1>22. ASSUME NEW c \in Clients, DeleteRow(c) PROVE Progress'
    BY <1>0, Values, IdsAre, <1>22 DEF DeleteRow, DbFails, Faults, IdleClient,
       files, history, Handling, Rowed, Live, OneOwner, Unused, Fresh, Busy,
       Progress, FilesOK, TablesOK, Threat, ScannersOK, ScannerState, ClientsOK,
       ClientState
  <1>23. CASE Crash
    BY <1>0, Values, IdsAre, <1>23 DEF Crash, Faults, Written, Becomes, IdleScanner,
       IdleClient, Handling, Rowed, Live, OneOwner, Unused, Fresh, Busy, Progress,
       FilesOK, TablesOK, Threat, ScannersOK, ScannerState, ClientsOK, ClientState
  <1>24. CASE UNCHANGED vars
    BY <1>0, Values, IdsAre, <1>24 DEF vars, Handling, Rowed, Live, OneOwner,
       Unused, Fresh, Busy, Progress, FilesOK, TablesOK, Threat, ScannersOK,
       ScannerState, ClientsOK, ClientState
  <1> QED
    BY <1>1, <1>2, <1>3, <1>4, <1>5, <1>6, <1>7, <1>8, <1>9, <1>10, <1>11, <1>12,
       <1>13, <1>14, <1>15, <1>16, <1>17, <1>18, <1>19, <1>20, <1>21, <1>22, <1>23,
       <1>24 DEF Next, ScannerStep, ClientStep

(* What comes under a shared id is noted.                                  *)
LEMMA MarkedStep ==
    ASSUME TypeOK, Handling, Marked, [Next]_vars
    PROVE  Marked'
  <1>0. FilesOK /\ TablesOK /\ ScannersOK /\ ClientsOK /\ CountsOK /\ HistoryOK
    BY TypeParts DEF Typed
  <1>1. ASSUME NEW p \in Paths, WriteFile(p) PROVE Marked'
    BY <1>0, Values, IdsAre, <1>1 DEF WriteFile, tables, Handling, Marked, Filed,
       Whole, FilesOK, TablesOK, HistoryOK, ScannersOK, ScannerState
  <1>2. ASSUME NEW p \in Paths, RemoveFile(p) PROVE Marked'
    BY <1>0, Values, IdsAre, <1>2 DEF RemoveFile, tables, Handling, Marked, Filed,
       Whole, FilesOK, TablesOK, HistoryOK, ScannersOK, ScannerState
  <1>3. ASSUME NEW s \in Scanners, NEW p \in Paths, Detect(s, p) PROVE Marked'
    BY <1>0, Values, IdsAre, <1>3 DEF Detect, IdleScanner, files, tables, history,
       Handling, Marked, Filed, Whole, FilesOK, TablesOK, HistoryOK, ScannersOK,
       ScannerState
  <1>4. ASSUME NEW s \in Scanners, InsertThreat(s) PROVE Marked'
    BY <1>0, Values, IdsAre, <1>4 DEF InsertThreat, DbFails, Faults, files,
       Handling, Marked, Filed, Whole, FilesOK, TablesOK, HistoryOK, ScannersOK,
       ScannerState
  <1>5. ASSUME NEW s \in Scanners, PutFails(s) PROVE Marked'
    BY <1>0, Values, IdsAre, <1>5 DEF PutFails, IoFails, Faults, GivesUp,
       IdleScanner, files, tables, history, Handling, Marked, Filed, Whole, FilesOK,
       TablesOK, HistoryOK, ScannersOK, ScannerState
  <1>6. ASSUME NEW s \in Scanners, Rename(s) PROVE Marked'
    BY <1>0, Values, IdsAre, <1>6 DEF Rename, Takes, Misfiles, Goes, tables,
       Handling, Marked, Filed, Whole, FilesOK, TablesOK, HistoryOK, ScannersOK,
       ScannerState
  <1>7. ASSUME NEW s \in Scanners, StartCopy(s) PROVE Marked'
    BY <1>0, Values, IdsAre, <1>7 DEF StartCopy, Misfiles, tables, Handling, Marked,
       Filed, Whole, FilesOK, TablesOK, HistoryOK, ScannersOK, ScannerState
  <1>8. ASSUME NEW s \in Scanners, EndCopy(s) PROVE Marked'
    BY <1>0, Values, IdsAre, <1>8 DEF EndCopy, Goes, tables, history, Handling,
       Marked, Filed, Whole, FilesOK, TablesOK, HistoryOK, ScannersOK, ScannerState
  <1>9. ASSUME NEW s \in Scanners, Unlink(s) PROVE Marked'
    BY <1>0, Values, IdsAre, <1>9 DEF Unlink, Takes, tables, Handling, Marked,
       Filed, Whole, FilesOK, TablesOK, HistoryOK, ScannersOK, ScannerState
  <1>10. ASSUME NEW s \in Scanners, UnlinkGone(s) PROVE Marked'
    BY <1>0, Values, IdsAre, <1>10 DEF UnlinkGone, GivesUp, IdleScanner, files,
       tables, history, Handling, Marked, Filed, Whole, FilesOK, TablesOK,
       HistoryOK, ScannersOK, ScannerState
  <1>11. ASSUME NEW s \in Scanners, Chmod(s) PROVE Marked'
    BY <1>0, Values, IdsAre, <1>11 DEF Chmod, Goes, tables, history, Handling,
       Marked, Filed, Whole, FilesOK, TablesOK, HistoryOK, ScannersOK, ScannerState
  <1>12. ASSUME NEW s \in Scanners, SetQuarantined(s) PROVE Marked'
    BY <1>0, Values, IdsAre, <1>12 DEF SetQuarantined, DbFails, Faults, Goes, files,
       history, Handling, Marked, Filed, Whole, FilesOK, TablesOK, HistoryOK,
       ScannersOK, ScannerState
  <1>13. ASSUME NEW s \in Scanners, InsertQuarantine(s) PROVE Marked'
    BY <1>0, Values, IdsAre, <1>13 DEF InsertQuarantine, DbFails, Faults, GivesUp,
       IdleScanner, files, history, Handling, Marked, Filed, Whole, FilesOK,
       TablesOK, HistoryOK, ScannersOK, ScannerState
  <1>14. ASSUME NEW c \in Clients, NEW op \in {"restore", "delete"},
               NEW r \in 1..MaxIds, Ask(c, op, r) PROVE Marked'
    BY <1>0, Values, IdsAre, <1>14 DEF Ask, MutexFree, IdleClient, files, tables,
       Handling, Marked, Filed, Whole, FilesOK, TablesOK, HistoryOK, ScannersOK,
       ScannerState
  <1>15. ASSUME NEW c \in Clients, MakeReadable(c) PROVE Marked'
    BY <1>0, Values, IdsAre, <1>15 DEF MakeReadable, At, tables, history, Handling,
       Marked, Filed, Whole, FilesOK, TablesOK, HistoryOK, ScannersOK, ScannerState
  <1>16. ASSUME NEW c \in Clients, StartCopyBack(c) PROVE Marked'
    BY <1>0, Values, IdsAre, <1>16 DEF StartCopyBack, Truncated, Threat, Home,
       tables, Handling, Marked, Filed, Whole, FilesOK, TablesOK, HistoryOK,
       ScannersOK, ScannerState
  <1>17. ASSUME NEW c \in Clients, EndCopyBack(c) PROVE Marked'
    BY <1>0, Values, IdsAre, <1>17 DEF EndCopyBack, Written, Becomes, tables,
       Handling, Marked, Filed, Whole, FilesOK, TablesOK, HistoryOK, ScannersOK,
       ScannerState
  <1>18. ASSUME NEW c \in Clients, RestoreMode(c) PROVE Marked'
    BY <1>0, Values, IdsAre, <1>18 DEF RestoreMode, At, files, tables, history,
       Handling, Marked, Filed, Whole, FilesOK, TablesOK, HistoryOK, ScannersOK,
       ScannerState
  <1>19. ASSUME NEW c \in Clients, RemoveBlob(c) PROVE Marked'
    BY <1>0, Values, IdsAre, <1>19 DEF RemoveBlob, At, Threat, tables, history,
       Handling, Marked, Filed, Whole, FilesOK, TablesOK, HistoryOK, ScannersOK,
       ScannerState
  <1>20. ASSUME NEW c \in Clients, CallFails(c) PROVE Marked'
    <2>1. UNCHANGED <<scanner, shared, misfiled>> /\ (UNCHANGED blob \/ Written(Partial))
      BY <1>20 DEF CallFails
    <2>2. \A i \in Ids : blob'[i] = blob[i] \/ blob'[i] \notin Contents
      BY <1>0, <2>1, Values DEF Written, Becomes, FilesOK
    <2> QED BY <1>0, <2>1, <2>2 DEF Marked, HistoryOK
  <1>21. ASSUME NEW c \in Clients, SetStatus(c) PROVE Marked'
    BY <1>0, Values, IdsAre, <1>21 DEF SetStatus, DbFails, Faults, At, StatusAfter,
       files, history, Handling, Marked, Filed, Whole, FilesOK, TablesOK, HistoryOK,
       ScannersOK, ScannerState
  <1>22. ASSUME NEW c \in Clients, DeleteRow(c) PROVE Marked'
    BY <1>0, Values, IdsAre, <1>22 DEF DeleteRow, DbFails, Faults, IdleClient,
       files, history, Handling, Marked, Filed, Whole, FilesOK, TablesOK, HistoryOK,
       ScannersOK, ScannerState
  <1>23. CASE Crash
    BY <1>0, Values, IdsAre, <1>23 DEF Crash, Faults, Written, Becomes, IdleScanner,
       IdleClient, Handling, Marked, Filed, Whole, FilesOK, TablesOK, HistoryOK,
       ScannersOK, ScannerState
  <1>24. CASE UNCHANGED vars
    BY <1>0, Values, IdsAre, <1>24 DEF vars, Handling, Marked, Filed, Whole,
       FilesOK, TablesOK, HistoryOK, ScannersOK, ScannerState
  <1> QED
    BY <1>1, <1>2, <1>3, <1>4, <1>5, <1>6, <1>7, <1>8, <1>9, <1>10, <1>11, <1>12,
       <1>13, <1>14, <1>15, <1>16, <1>17, <1>18, <1>19, <1>20, <1>21, <1>22, <1>23,
       <1>24 DEF Next, ScannerStep, ClientStep

(* Ids are shared only after a failing statement.                          *)
LEMMA FaultyStep ==
    ASSUME TypeOK, Faulty, [Next]_vars
    PROVE  Faulty'
  <1>0. FilesOK /\ TablesOK /\ ScannersOK /\ ClientsOK /\ CountsOK /\ HistoryOK
    BY TypeParts DEF Typed
  <1>1. ASSUME NEW p \in Paths, WriteFile(p) PROVE Faulty'
    BY <1>0, <1>1 DEF WriteFile, tables, Faulty, CountsOK, HistoryOK
  <1>2. ASSUME NEW p \in Paths, RemoveFile(p) PROVE Faulty'
    BY <1>0, <1>2 DEF RemoveFile, tables, Faulty, CountsOK, HistoryOK
  <1>3. ASSUME NEW s \in Scanners, NEW p \in Paths, Detect(s, p) PROVE Faulty'
    BY <1>0, <1>3 DEF Detect, IdleScanner, files, tables, history, Faulty, CountsOK,
       HistoryOK
  <1>4. ASSUME NEW s \in Scanners, InsertThreat(s) PROVE Faulty'
    BY <1>0, <1>4 DEF InsertThreat, DbFails, Faults, files, Faulty, CountsOK,
       HistoryOK
  <1>5. ASSUME NEW s \in Scanners, PutFails(s) PROVE Faulty'
    BY <1>0, <1>5 DEF PutFails, IoFails, Faults, GivesUp, IdleScanner, files,
       tables, history, Faulty, CountsOK, HistoryOK
  <1>6. ASSUME NEW s \in Scanners, Rename(s) PROVE Faulty'
    BY <1>0, <1>6 DEF Rename, Takes, Misfiles, Goes, tables, Faulty, CountsOK,
       HistoryOK
  <1>7. ASSUME NEW s \in Scanners, StartCopy(s) PROVE Faulty'
    BY <1>0, <1>7 DEF StartCopy, Misfiles, tables, Faulty, CountsOK, HistoryOK
  <1>8. ASSUME NEW s \in Scanners, EndCopy(s) PROVE Faulty'
    BY <1>0, <1>8 DEF EndCopy, Goes, tables, history, Faulty, CountsOK, HistoryOK
  <1>9. ASSUME NEW s \in Scanners, Unlink(s) PROVE Faulty'
    BY <1>0, <1>9 DEF Unlink, Takes, tables, Faulty, CountsOK, HistoryOK
  <1>10. ASSUME NEW s \in Scanners, UnlinkGone(s) PROVE Faulty'
    BY <1>0, <1>10 DEF UnlinkGone, GivesUp, IdleScanner, files, tables, history,
       Faulty, CountsOK, HistoryOK
  <1>11. ASSUME NEW s \in Scanners, Chmod(s) PROVE Faulty'
    BY <1>0, <1>11 DEF Chmod, Goes, tables, history, Faulty, CountsOK, HistoryOK
  <1>12. ASSUME NEW s \in Scanners, SetQuarantined(s) PROVE Faulty'
    BY <1>0, <1>12 DEF SetQuarantined, DbFails, Faults, Goes, files, history,
       Faulty, CountsOK, HistoryOK
  <1>13. ASSUME NEW s \in Scanners, InsertQuarantine(s) PROVE Faulty'
    BY <1>0, <1>13 DEF InsertQuarantine, DbFails, Faults, GivesUp, IdleScanner,
       files, history, Faulty, CountsOK, HistoryOK
  <1>14. ASSUME NEW c \in Clients, NEW op \in {"restore", "delete"},
               NEW r \in 1..MaxIds, Ask(c, op, r) PROVE Faulty'
    BY <1>0, <1>14 DEF Ask, MutexFree, IdleClient, files, tables, Faulty, CountsOK,
       HistoryOK
  <1>15. ASSUME NEW c \in Clients, MakeReadable(c) PROVE Faulty'
    BY <1>0, <1>15 DEF MakeReadable, At, tables, history, Faulty, CountsOK,
       HistoryOK
  <1>16. ASSUME NEW c \in Clients, StartCopyBack(c) PROVE Faulty'
    BY <1>0, <1>16 DEF StartCopyBack, Truncated, Threat, Home, tables, Faulty,
       CountsOK, HistoryOK
  <1>17. ASSUME NEW c \in Clients, EndCopyBack(c) PROVE Faulty'
    BY <1>0, <1>17 DEF EndCopyBack, Written, Becomes, tables, Faulty, CountsOK,
       HistoryOK
  <1>18. ASSUME NEW c \in Clients, RestoreMode(c) PROVE Faulty'
    BY <1>0, <1>18 DEF RestoreMode, At, files, tables, history, Faulty, CountsOK,
       HistoryOK
  <1>19. ASSUME NEW c \in Clients, RemoveBlob(c) PROVE Faulty'
    BY <1>0, <1>19 DEF RemoveBlob, At, Threat, tables, history, Faulty, CountsOK,
       HistoryOK
  <1>20. ASSUME NEW c \in Clients, CallFails(c) PROVE Faulty'
    BY <1>0, <1>20 DEF CallFails, IoFails, Faults, Written, Becomes, IdleClient,
       tables, Faulty, CountsOK, HistoryOK
  <1>21. ASSUME NEW c \in Clients, SetStatus(c) PROVE Faulty'
    BY <1>0, <1>21 DEF SetStatus, DbFails, Faults, At, StatusAfter, files, history,
       Faulty, CountsOK, HistoryOK
  <1>22. ASSUME NEW c \in Clients, DeleteRow(c) PROVE Faulty'
    BY <1>0, <1>22 DEF DeleteRow, DbFails, Faults, IdleClient, files, history,
       Faulty, CountsOK, HistoryOK
  <1>23. CASE Crash
    BY <1>0, <1>23 DEF Crash, Faults, Written, Becomes, IdleScanner, IdleClient,
       Faulty, CountsOK, HistoryOK
  <1>24. CASE UNCHANGED vars
    BY <1>0, <1>24 DEF vars, Faulty, CountsOK, HistoryOK
  <1> QED
    BY <1>1, <1>2, <1>3, <1>4, <1>5, <1>6, <1>7, <1>8, <1>9, <1>10, <1>11, <1>12,
       <1>13, <1>14, <1>15, <1>16, <1>17, <1>18, <1>19, <1>20, <1>21, <1>22, <1>23,
       <1>24 DEF Next, ScannerStep, ClientStep

(* The blob a restore reads from stays what it is.                         *)
LEMMA ReadingStep ==
    ASSUME TypeOK, Mutex, Rowed, Handling, OneOwner, Reading, [Next]_vars
    PROVE  Reading'
  <1>0. FilesOK /\ TablesOK /\ ScannersOK /\ ClientsOK /\ CountsOK /\ HistoryOK
    BY TypeParts DEF Typed
  <1>1. ASSUME NEW p \in Paths, WriteFile(p) PROVE Reading'
    BY <1>0, Values, IdsAre, <1>1 DEF WriteFile, tables, Mutex, Rowed, Live, IsRow,
       OneOwner, Busy, Reading, FilesOK, TablesOK, Threat, HistoryOK, ScannersOK,
       ScannerState, ClientsOK, ClientState
  <1>2. ASSUME NEW p \in Paths, RemoveFile(p) PROVE Reading'
    BY <1>0, Values, IdsAre, <1>2 DEF RemoveFile, tables, Mutex, Rowed, Live, IsRow,
       OneOwner, Busy, Reading, FilesOK, TablesOK, Threat, HistoryOK, ScannersOK,
       ScannerState, ClientsOK, ClientState
  <1>3. ASSUME NEW s \in Scanners, NEW p \in Paths, Detect(s, p) PROVE Reading'
    BY <1>0, Values, IdsAre, <1>3 DEF Detect, IdleScanner, files, tables, history,
       Mutex, Rowed, Live, IsRow, OneOwner, Busy, Reading, FilesOK, TablesOK,
       Threat, HistoryOK, ScannersOK, ScannerState, ClientsOK, ClientState
  <1>4. ASSUME NEW s \in Scanners, InsertThreat(s) PROVE Reading'
    BY <1>0, Values, IdsAre, <1>4 DEF InsertThreat, DbFails, Faults, files, Mutex,
       Rowed, Live, IsRow, OneOwner, Busy, Reading, FilesOK, TablesOK, Threat,
       HistoryOK, ScannersOK, ScannerState, ClientsOK, ClientState
  <1>5. ASSUME NEW s \in Scanners, PutFails(s) PROVE Reading'
    BY <1>0, Values, IdsAre, <1>5 DEF PutFails, IoFails, Faults, GivesUp,
       IdleScanner, files, tables, history, Mutex, Rowed, Live, IsRow, OneOwner,
       Busy, Reading, FilesOK, TablesOK, Threat, HistoryOK, ScannersOK,
       ScannerState, ClientsOK, ClientState
  <1>6. ASSUME NEW s \in Scanners, Rename(s) PROVE Reading'
    BY <1>0, Values, IdsAre, <1>6 DEF Rename, Takes, Misfiles, Goes, tables, Mutex,
       Rowed, Live, IsRow, OneOwner, Busy, Reading, FilesOK, TablesOK, Threat,
       HistoryOK, ScannersOK, ScannerState, ClientsOK, ClientState
  <1>7. ASSUME NEW s \in Scanners, StartCopy(s) PROVE Reading'
    BY <1>0, Values, IdsAre, <1>7 DEF StartCopy, Misfiles, tables, Mutex, Rowed,
       Live, IsRow, OneOwner, Busy, Reading, FilesOK, TablesOK, Threat, HistoryOK,
       ScannersOK, ScannerState, ClientsOK, ClientState
  <1>8. ASSUME NEW s \in Scanners, EndCopy(s) PROVE Reading'
    BY <1>0, Values, IdsAre, <1>8 DEF EndCopy, Goes, tables, history, Mutex, Rowed,
       Live, IsRow, OneOwner, Busy, Reading, FilesOK, TablesOK, Threat, HistoryOK,
       ScannersOK, ScannerState, ClientsOK, ClientState
  <1>9. ASSUME NEW s \in Scanners, Unlink(s) PROVE Reading'
    BY <1>0, Values, IdsAre, <1>9 DEF Unlink, Takes, tables, Mutex, Rowed, Live,
       IsRow, OneOwner, Busy, Reading, FilesOK, TablesOK, Threat, HistoryOK,
       ScannersOK, ScannerState, ClientsOK, ClientState
  <1>10. ASSUME NEW s \in Scanners, UnlinkGone(s) PROVE Reading'
    BY <1>0, Values, IdsAre, <1>10 DEF UnlinkGone, GivesUp, IdleScanner, files,
       tables, history, Mutex, Rowed, Live, IsRow, OneOwner, Busy, Reading, FilesOK,
       TablesOK, Threat, HistoryOK, ScannersOK, ScannerState, ClientsOK, ClientState
  <1>11. ASSUME NEW s \in Scanners, Chmod(s) PROVE Reading'
    BY <1>0, Values, IdsAre, <1>11 DEF Chmod, Goes, tables, history, Mutex, Rowed,
       Live, IsRow, OneOwner, Busy, Reading, FilesOK, TablesOK, Threat, HistoryOK,
       ScannersOK, ScannerState, ClientsOK, ClientState
  <1>12. ASSUME NEW s \in Scanners, SetQuarantined(s) PROVE Reading'
    BY <1>0, Values, IdsAre, <1>12 DEF SetQuarantined, DbFails, Faults, Goes, files,
       history, Mutex, Rowed, Live, IsRow, OneOwner, Busy, Reading, FilesOK,
       TablesOK, Threat, HistoryOK, ScannersOK, ScannerState, ClientsOK, ClientState
  <1>13. ASSUME NEW s \in Scanners, InsertQuarantine(s) PROVE Reading'
    <2>1. /\ UNCHANGED <<client, blob, shared>>
          /\ \A r \in 1..MaxIds : r # added + 1 => rows'[r] = rows[r]
      BY <1>0, <1>13 DEF InsertQuarantine, files, history, TablesOK
    <2>2. \A c \in Clients : Live(c) => client[c].row # added + 1 /\ client[c].row \in 1..MaxIds
      BY <1>0, IdsAre DEF Rowed, IsRow, Live, TablesOK, ClientsOK
    <2> QED BY <2>1, <2>2 DEF Reading, Threat, Live
  <1>14. ASSUME NEW c \in Clients, NEW op \in {"restore", "delete"},
               NEW r \in 1..MaxIds, Ask(c, op, r) PROVE Reading'
    BY <1>0, Values, IdsAre, <1>14 DEF Ask, MutexFree, IdleClient, files, tables,
       Mutex, Rowed, Live, IsRow, OneOwner, Busy, Reading, FilesOK, TablesOK,
       Threat, HistoryOK, ScannersOK, ScannerState, ClientsOK, ClientState
  <1>15. ASSUME NEW c \in Clients, MakeReadable(c) PROVE Reading'
    BY <1>0, Values, IdsAre, <1>15 DEF MakeReadable, At, tables, history, Mutex,
       Rowed, Live, IsRow, OneOwner, Busy, Reading, FilesOK, TablesOK, Threat,
       HistoryOK, ScannersOK, ScannerState, ClientsOK, ClientState
  <1>16. ASSUME NEW c \in Clients, StartCopyBack(c) PROVE Reading'
    BY <1>0, Values, IdsAre, <1>16 DEF StartCopyBack, Truncated, Threat, Home,
       tables, Mutex, Rowed, Live, IsRow, OneOwner, Busy, Reading, FilesOK,
       TablesOK, Threat, HistoryOK, ScannersOK, ScannerState, ClientsOK, ClientState
  <1>17. ASSUME NEW c \in Clients, EndCopyBack(c) PROVE Reading'
    <2>1. Live(c) /\ client' = [client EXCEPT ![c].at = "chmod", ![c].content = None]
      BY <1>17 DEF EndCopyBack, Live
    <2>2. \A d \in Clients : client'[d].at # "copying"
      BY <1>0, <2>1 DEF Mutex, Live, ClientsOK, ClientState
    <2> QED BY <2>2 DEF Reading
  <1>18. ASSUME NEW c \in Clients, RestoreMode(c) PROVE Reading'
    BY <1>0, Values, IdsAre, <1>18 DEF RestoreMode, At, files, tables, history,
       Mutex, Rowed, Live, IsRow, OneOwner, Busy, Reading, FilesOK, TablesOK,
       Threat, HistoryOK, ScannersOK, ScannerState, ClientsOK, ClientState
  <1>19. ASSUME NEW c \in Clients, RemoveBlob(c) PROVE Reading'
    BY <1>0, Values, IdsAre, <1>19 DEF RemoveBlob, At, Threat, tables, history,
       Mutex, Rowed, Live, IsRow, OneOwner, Busy, Reading, FilesOK, TablesOK,
       Threat, HistoryOK, ScannersOK, ScannerState, ClientsOK, ClientState
  <1>20. ASSUME NEW c \in Clients, CallFails(c) PROVE Reading'
    BY <1>0, Values, IdsAre, <1>20 DEF CallFails, IoFails, Faults, Written, Becomes,
       IdleClient, tables, Mutex, Rowed, Live, IsRow, OneOwner, Busy, Reading,
       FilesOK, TablesOK, Threat, HistoryOK, ScannersOK, ScannerState, ClientsOK,
       ClientState
  <1>21. ASSUME NEW c \in Clients, SetStatus(c) PROVE Reading'
    BY <1>0, Values, IdsAre, <1>21 DEF SetStatus, DbFails, Faults, At, StatusAfter,
       files, history, Mutex, Rowed, Live, IsRow, OneOwner, Busy, Reading, FilesOK,
       TablesOK, Threat, HistoryOK, ScannersOK, ScannerState, ClientsOK, ClientState
  <1>22. ASSUME NEW c \in Clients, DeleteRow(c) PROVE Reading'
    BY <1>0, Values, IdsAre, <1>22 DEF DeleteRow, DbFails, Faults, IdleClient,
       files, history, Mutex, Rowed, Live, IsRow, OneOwner, Busy, Reading, FilesOK,
       TablesOK, Threat, HistoryOK, ScannersOK, ScannerState, ClientsOK, ClientState
  <1>23. CASE Crash
    BY <1>0, Values, IdsAre, <1>23 DEF Crash, Faults, Written, Becomes, IdleScanner,
       IdleClient, Mutex, Rowed, Live, IsRow, OneOwner, Busy, Reading, FilesOK,
       TablesOK, Threat, HistoryOK, ScannersOK, ScannerState, ClientsOK, ClientState
  <1>24. CASE UNCHANGED vars
    BY <1>0, Values, IdsAre, <1>24 DEF vars, Mutex, Rowed, Live, IsRow, OneOwner,
       Busy, Reading, FilesOK, TablesOK, Threat, HistoryOK, ScannersOK,
       ScannerState, ClientsOK, ClientState
  <1> QED
    BY <1>1, <1>2, <1>3, <1>4, <1>5, <1>6, <1>7, <1>8, <1>9, <1>10, <1>11, <1>12,
       <1>13, <1>14, <1>15, <1>16, <1>17, <1>18, <1>19, <1>20, <1>21, <1>22, <1>23,
       <1>24 DEF Next, ScannerStep, ClientStep

(* A step of put takes a content in under the scanner's id i: it is there  *)
(* then, and nothing else disappears that was not let go.                  *)
TakesIn(i) ==
    /\ \A x \in Contents : (\E p \in Paths : orig[p] = x) =>
          (\E p \in Paths : orig'[p] = x) \/ blob'[i] = x \/ x \in LetGo'
    /\ \A j \in Ids : j # i => blob'[j] = blob[j]
    /\ blob[i] \in Contents => blob'[i] = blob[i] \/ blob[i] \in LetGo'
    /\ \A x \in LetGo : blob'[i] = x \/ x \in LetGo'
    /\ i \in shared /\ blob'[i] \in Contents => blob'[i] \in LetGo'

(* The steps of a put from the rename or the copy to the unlink.           *)
LEMMA PutTakesIn ==
    ASSUME TypeOK, Handling, Progress, Marked, NEW s \in Scanners,
           Rename(s) \/ StartCopy(s) \/ EndCopy(s) \/ Unlink(s)
    PROVE  /\ TakesIn(scanner[s].id) /\ Busy(s) /\ UNCHANGED <<made, rows, shared>>
           /\ \A c \in Clients : client'[c].at = client[c].at
                                 /\ client'[c].row = client[c].row
  <1> DEFINE p == scanner[s].path
             i == scanner[s].id
  <1>0. FilesOK /\ TablesOK /\ ScannersOK /\ ClientsOK /\ CountsOK /\ HistoryOK
    BY TypeParts DEF Typed
  <1>1. /\ Busy(s) /\ p \in Paths /\ i \in Ids
        /\ UNCHANGED <<made, rows, shared>>
    BY <1>0 DEF Rename, StartCopy, EndCopy, Unlink, Busy, ScannersOK, ScannerState, tables,
                history
  <1>2. \A c \in Clients : client'[c].at = client[c].at /\ client'[c].row = client[c].row
    BY <1>0 DEF Rename, StartCopy, EndCopy, Unlink, ClientsOK, ClientState
  <1>3. CASE Rename(s)
    <2>1. /\ orig' = [orig EXCEPT ![p] = None] /\ blob' = [blob EXCEPT ![i] = orig[p]]
          /\ released' = released \ {orig[p]} /\ swept' = swept /\ scanner[s].at = "put"
          /\ misfiled' = IF i \in shared THEN misfiled \cup Filed(i) \cup Whole(orig[p])
                         ELSE misfiled
      BY <1>3 DEF Rename, Takes, Misfiles
    <2>2. /\ \A q \in Paths : q # p => orig'[q] = orig[q]
          /\ \A j \in Ids : j # i => blob'[j] = blob[j]
          /\ blob'[i] = orig[p]
      BY <1>0, <1>1, <2>1 DEF FilesOK
    <2>3. blob[i] \in Contents => blob[i] \in misfiled'
      BY <1>1, <2>1, Values DEF Progress, Filed
    <2>4. i \in shared /\ blob'[i] \in Contents => blob'[i] \in misfiled'
      BY <2>1, <2>2 DEF Whole
    <2>5. \A x \in LetGo : x \in LetGo' \/ x = orig[p]
      BY <2>1 DEF LetGo
    <2> QED BY <1>1, <1>2, <2>2, <2>3, <2>4, <2>5 DEF TakesIn, LetGo
  <1>4. CASE StartCopy(s)
    <2>1. /\ UNCHANGED <<orig, released, swept>> /\ blob' = [blob EXCEPT ![i] = Partial]
          /\ scanner[s].at = "put"
          /\ misfiled' = IF i \in shared THEN misfiled \cup Filed(i) \cup Whole(orig[p])
                         ELSE misfiled
      BY <1>4 DEF StartCopy, Misfiles
    <2>2. /\ \A j \in Ids : j # i => blob'[j] = blob[j]
          /\ blob'[i] = Partial
      BY <1>0, <1>1, <2>1 DEF FilesOK
    <2>3. blob[i] \in Contents => blob[i] \in misfiled'
      BY <1>1, <2>1, Values DEF Progress, Filed
    <2> QED BY <1>1, <1>2, <2>1, <2>2, <2>3, Values DEF TakesIn, LetGo
  <1>5. CASE EndCopy(s)
    <2>1. /\ UNCHANGED <<orig, released, swept, misfiled>> /\ scanner[s].at = "copy"
          /\ blob' = [blob EXCEPT ![i] = scanner[s].content]
      BY <1>5 DEF EndCopy, history
    <2>2. /\ \A j \in Ids : j # i => blob'[j] = blob[j]
          /\ blob'[i] = scanner[s].content
      BY <1>0, <1>1, <2>1 DEF FilesOK
    <2>3. /\ blob[i] \in Contents => blob[i] \in misfiled
          /\ i \in shared /\ blob'[i] \in Contents => blob'[i] \in misfiled
      BY <1>1, <2>1, <2>2, Values DEF Progress, Marked
    <2> QED BY <1>1, <1>2, <2>1, <2>2, <2>3 DEF TakesIn, LetGo
  <1>6. CASE Unlink(s)
    <2> DEFINE x == scanner[s].content
    <2>1. /\ orig' = [orig EXCEPT ![p] = None] /\ UNCHANGED <<blob, misfiled>>
          /\ released' = released \ {x} /\ swept' = swept \cup (Whole(orig[p]) \ {x})
          /\ scanner[s].at = "unlink"
      BY <1>6 DEF Unlink, Takes
    <2>2. /\ \A q \in Paths : q # p => orig'[q] = orig[q]
      BY <1>0, <1>1, <2>1 DEF FilesOK
    <2>3. x \in Contents => blob'[i] = x \/ x \in misfiled'
      BY <1>1, <2>1 DEF Progress, Marked
    <2>4. orig[p] \in Contents => orig[p] = x \/ orig[p] \in swept'
      BY <2>1 DEF Whole
    <2>5. \A y \in LetGo : y \in LetGo' \/ y = x
      BY <2>1 DEF LetGo
    <2>6. i \in shared /\ blob'[i] \in Contents => blob'[i] \in misfiled'
      BY <2>1 DEF Marked
    <2>7. LetGo \subseteq Contents /\ blob' = blob
      BY <1>0, <2>1 DEF LetGo, HistoryOK
    <2> HIDE DEF x
    <2>8. \A y \in Contents : (\E q \in Paths : orig[q] = y) =>
             (\E q \in Paths : orig'[q] = y) \/ blob'[i] = y \/ y \in LetGo'
      BY <2>2, <2>3, <2>4 DEF LetGo
    <2> QED BY <1>1, <1>2, <2>3, <2>5, <2>6, <2>7, <2>8 DEF TakesIn, LetGo
  <1> QED BY <1>3, <1>4, <1>5, <1>6

(* A content that is in no blob that changes stays where it is.            *)
LEMMA TakesInKeeps ==
    ASSUME TypeOK, NEW i \in Ids, TakesIn(i), Kept, UNCHANGED made
    PROVE  Kept'
  <1> SUFFICES ASSUME NEW x \in 1..made'
               PROVE  \/ \E p \in Paths : orig'[p] = x
                      \/ \E j \in Ids : blob'[j] = x
                      \/ x \in LetGo'
    BY DEF Kept
  <1>0. x \in 1..made /\ x \in Contents
    BY TypeParts DEF Typed, CountsOK, Contents
  <1>1. CASE \E p \in Paths : orig[p] = x
    BY <1>0, <1>1 DEF TakesIn
  <1>2. CASE \E j \in Ids : blob[j] = x
    BY <1>0, <1>2 DEF TakesIn
  <1>3. CASE x \in LetGo
    BY <1>3 DEF TakesIn
  <1> QED BY <1>0, <1>1, <1>2, <1>3 DEF Kept

(* Nor does a step of put take the last copy of what is leaving.           *)
LEMMA TakesInSpares ==
    ASSUME TypeOK, Mutex, Rowed, OneOwner, Spared, NEW s \in Scanners, Busy(s),
           TakesIn(scanner[s].id), UNCHANGED <<rows, shared>>,
           \A c \in Clients : client'[c].at = client[c].at /\ client'[c].row = client[c].row
    PROVE  Spared'
  <1> DEFINE i == scanner[s].id
  <1>0. FilesOK /\ TablesOK /\ ScannersOK /\ ClientsOK /\ HistoryOK
    BY TypeParts DEF Typed
  <1> SUFFICES ASSUME NEW c \in Clients, client[c].at \in {"chmod", "remove"},
                      NEW k, k = Threat(c), blob'[k] \in Contents
               PROVE  \/ \E p \in Paths : orig'[p] = blob'[k]
                      \/ \E j \in Ids : j # k /\ blob'[j] = blob'[k]
                      \/ blob'[k] \in LetGo'
    BY DEF Spared, Spare, Threat
  <1>1. k \in Ids /\ (k = i => i \in shared)
    <2>1. Live(c) /\ client[c].row \in 1..MaxIds /\ IsRow(client[c].row)
      BY <1>0 DEF Live, Rowed, ClientsOK
    <2>2. k \in Ids
      BY <1>0, <2>1, ClientKnows DEF Live
    <2> QED BY <2>1, <2>2 DEF OneOwner, Threat
  <1>2. CASE k = i
    BY <1>1, <1>2 DEF TakesIn
  <1>3. CASE k # i
    <2>1. blob'[k] = blob[k] /\ Spare(blob[k], k)
      BY <1>1, <1>3 DEF TakesIn, Spared
    <2>2. i \in Ids
      BY <1>0 DEF ScannersOK, ScannerState
    <2>3. CASE \E p \in Paths : orig[p] = blob[k]
      BY <1>3, <2>1, <2>2, <2>3 DEF TakesIn
    <2>4. CASE \E j \in Ids : j # k /\ blob[j] = blob[k]
      BY <1>3, <2>1, <2>2, <2>4 DEF TakesIn
    <2>5. CASE blob[k] \in LetGo
      BY <1>3, <2>1, <2>2, <2>5 DEF TakesIn
    <2> QED BY <2>1, <2>3, <2>4, <2>5 DEF Spare
  <1> QED BY <1>2, <1>3

(* What leaves the vault has been let go or is elsewhere.                  *)
LEMMA SparedStep ==
    ASSUME TypeOK, Mutex, Rowed, Handling, OneOwner, Progress, Marked, Reading,
           Spared, [Next]_vars
    PROVE  Spared'
  <1>0. FilesOK /\ TablesOK /\ ScannersOK /\ ClientsOK /\ CountsOK /\ HistoryOK
    BY TypeParts DEF Typed
  <1>1. ASSUME NEW p \in Paths, WriteFile(p) PROVE Spared'
    BY <1>0, Values, IdsAre, <1>1 DEF WriteFile, tables, Mutex, Rowed, Live, IsRow,
       Handling, OneOwner, Busy, Progress, Marked, Filed, Whole, Reading, Spared,
       Spare, LetGo, FilesOK, TablesOK, HistoryOK, Threat, Home, Blobs, ScannersOK,
       ScannerState, ClientsOK, ClientState
  <1>2. ASSUME NEW p \in Paths, RemoveFile(p) PROVE Spared'
    BY <1>0, Values, IdsAre, <1>2 DEF RemoveFile, tables, Mutex, Rowed, Live, IsRow,
       Handling, OneOwner, Busy, Progress, Marked, Filed, Whole, Reading, Spared,
       Spare, LetGo, FilesOK, TablesOK, HistoryOK, Threat, Home, Blobs, ScannersOK,
       ScannerState, ClientsOK, ClientState
  <1>3. ASSUME NEW s \in Scanners, NEW p \in Paths, Detect(s, p) PROVE Spared'
    BY <1>0, Values, IdsAre, <1>3 DEF Detect, IdleScanner, files, tables, history,
       Mutex, Rowed, Live, IsRow, Handling, OneOwner, Busy, Progress, Marked, Filed,
       Whole, Reading, Spared, Spare, LetGo, FilesOK, TablesOK, HistoryOK, Threat,
       Home, Blobs, ScannersOK, ScannerState, ClientsOK, ClientState
  <1>4. ASSUME NEW s \in Scanners, InsertThreat(s) PROVE Spared'
    BY <1>0, Values, IdsAre, <1>4 DEF InsertThreat, DbFails, Faults, files, Mutex,
       Rowed, Live, IsRow, Handling, OneOwner, Busy, Progress, Marked, Filed, Whole,
       Reading, Spared, Spare, LetGo, FilesOK, TablesOK, HistoryOK, Threat, Home,
       Blobs, ScannersOK, ScannerState, ClientsOK, ClientState
  <1>5. ASSUME NEW s \in Scanners, PutFails(s) PROVE Spared'
    BY <1>0, Values, IdsAre, <1>5 DEF PutFails, IoFails, Faults, GivesUp,
       IdleScanner, files, tables, history, Mutex, Rowed, Live, IsRow, Handling,
       OneOwner, Busy, Progress, Marked, Filed, Whole, Reading, Spared, Spare,
       LetGo, FilesOK, TablesOK, HistoryOK, Threat, Home, Blobs, ScannersOK,
       ScannerState, ClientsOK, ClientState
  <1>6. ASSUME NEW s \in Scanners, Rename(s) PROVE Spared'
    BY <1>0, <1>6, PutTakesIn, TakesInSpares
  <1>7. ASSUME NEW s \in Scanners, StartCopy(s) PROVE Spared'
    BY <1>0, <1>7, PutTakesIn, TakesInSpares
  <1>8. ASSUME NEW s \in Scanners, EndCopy(s) PROVE Spared'
    BY <1>0, <1>8, PutTakesIn, TakesInSpares
  <1>9. ASSUME NEW s \in Scanners, Unlink(s) PROVE Spared'
    BY <1>0, <1>9, PutTakesIn, TakesInSpares
  <1>10. ASSUME NEW s \in Scanners, UnlinkGone(s) PROVE Spared'
    BY <1>0, Values, IdsAre, <1>10 DEF UnlinkGone, GivesUp, IdleScanner, files,
       tables, history, Mutex, Rowed, Live, IsRow, Handling, OneOwner, Busy,
       Progress, Marked, Filed, Whole, Reading, Spared, Spare, LetGo, FilesOK,
       TablesOK, HistoryOK, Threat, Home, Blobs, ScannersOK, ScannerState,
       ClientsOK, ClientState
  <1>11. ASSUME NEW s \in Scanners, Chmod(s) PROVE Spared'
    BY <1>0, Values, IdsAre, <1>11 DEF Chmod, Goes, tables, history, Mutex, Rowed,
       Live, IsRow, Handling, OneOwner, Busy, Progress, Marked, Filed, Whole,
       Reading, Spared, Spare, LetGo, FilesOK, TablesOK, HistoryOK, Threat, Home,
       Blobs, ScannersOK, ScannerState, ClientsOK, ClientState
  <1>12. ASSUME NEW s \in Scanners, SetQuarantined(s) PROVE Spared'
    BY <1>0, Values, IdsAre, <1>12 DEF SetQuarantined, DbFails, Faults, Goes, files,
       history, Mutex, Rowed, Live, IsRow, Handling, OneOwner, Busy, Progress,
       Marked, Filed, Whole, Reading, Spared, Spare, LetGo, FilesOK, TablesOK,
       HistoryOK, Threat, Home, Blobs, ScannersOK, ScannerState, ClientsOK,
       ClientState
  <1>13. ASSUME NEW s \in Scanners, InsertQuarantine(s) PROVE Spared'
    BY <1>0, Values, IdsAre, <1>13 DEF InsertQuarantine, DbFails, Faults, GivesUp,
       IdleScanner, files, history, Mutex, Rowed, Live, IsRow, Handling, OneOwner,
       Busy, Progress, Marked, Filed, Whole, Reading, Spared, Spare, LetGo, FilesOK,
       TablesOK, HistoryOK, Threat, Home, Blobs, ScannersOK, ScannerState,
       ClientsOK, ClientState
  <1>14. ASSUME NEW c \in Clients, NEW op \in {"restore", "delete"},
               NEW r \in 1..MaxIds, Ask(c, op, r) PROVE Spared'
    BY <1>0, Values, IdsAre, <1>14 DEF Ask, MutexFree, IdleClient, files, tables,
       Mutex, Rowed, Live, IsRow, Handling, OneOwner, Busy, Progress, Marked, Filed,
       Whole, Reading, Spared, Spare, LetGo, FilesOK, TablesOK, HistoryOK, Threat,
       Home, Blobs, ScannersOK, ScannerState, ClientsOK, ClientState
  <1>15. ASSUME NEW c \in Clients, MakeReadable(c) PROVE Spared'
    BY SMTT(30), <1>0, Values, IdsAre, <1>15 DEF MakeReadable, At, tables, history,
       Mutex, Rowed, Live, IsRow, Handling, OneOwner, Busy, Progress, Marked, Filed,
       Whole, Reading, Spared, Spare, LetGo, FilesOK, TablesOK, HistoryOK, Threat,
       Home, Blobs, ScannersOK, ScannerState, ClientsOK, ClientState
  <1>16. ASSUME NEW c \in Clients, StartCopyBack(c) PROVE Spared'
    BY SMTT(60), <1>0, Values, IdsAre, <1>16 DEF StartCopyBack, Truncated, Threat,
       Home, tables, Mutex, Rowed, Live, IsRow, Handling, OneOwner, Busy, Progress,
       Marked, Filed, Whole, Reading, Spared, Spare, LetGo, FilesOK, TablesOK,
       HistoryOK, Threat, Home, Blobs, ScannersOK, ScannerState, ClientsOK,
       ClientState
  <1>17. ASSUME NEW c \in Clients, EndCopyBack(c) PROVE Spared'
    <2> DEFINE k == Threat(c)
               x == client[c].content
    <2>1. /\ client[c].at = "copying" /\ db = c /\ k \in Ids
          /\ UNCHANGED <<rows, swept, shared>> /\ orig' = Becomes(orig, x)
          /\ blob' = Becomes(blob, x)
          /\ client' = [client EXCEPT ![c].at = "chmod", ![c].content = None]
          /\ released' = IF Copying \in Blobs THEN released ELSE released \cup Whole(x)
          /\ misfiled' = IF \E i \in shared : blob[i] = Copying
                         THEN misfiled \cup Whole(x) ELSE misfiled
      BY <1>0, <1>17, ClientKnows DEF EndCopyBack, Written, Mutex, Live, tables
    <2> HIDE DEF x
    <2>2. \A d \in Clients : client'[d].at \in {"chmod", "remove"} => d = c
      BY <1>0, <2>1 DEF Mutex, Live, ClientsOK, ClientState
    <2>3. client'[c].row = client[c].row
      BY <1>0, <2>1 DEF ClientsOK, ClientState
    <2>4. Threat(c)' = k
      BY <2>1, <2>3 DEF Threat
    <2>5. ASSUME blob'[k] \in Contents
          PROVE  \/ \E j \in Ids : j # k /\ blob'[j] = blob'[k]
                 \/ blob'[k] \in LetGo'
      <3>1. \A j \in Ids : blob'[j] = IF blob[j] = Copying THEN x ELSE blob[j]
        BY <1>0, <2>1 DEF Becomes, FilesOK
      <3>2. CASE k \in shared
        BY <2>1, <2>5, <3>1, <3>2 DEF Marked, LetGo, Whole
      <3>3. CASE k \notin shared
        <4>1. blob[k] = x /\ blob'[k] = x /\ x \in Contents /\ x # Copying
          BY <2>1, <2>5, <3>1, <3>3, Values DEF Reading, x
        <4>2. CASE Copying \notin Blobs
          BY <2>1, <4>1, <4>2 DEF LetGo, Whole
        <4>3. CASE Copying \in Blobs
          BY <3>1, <4>1, <4>3 DEF Blobs
        <4> QED BY <4>2, <4>3
      <3> QED BY <3>2, <3>3
    <2> QED BY <2>2, <2>4, <2>5 DEF Spared, Spare
  <1>18. ASSUME NEW c \in Clients, RestoreMode(c) PROVE Spared'
    BY <1>0, Values, IdsAre, <1>18 DEF RestoreMode, At, files, tables, history,
       Mutex, Rowed, Live, IsRow, Handling, OneOwner, Busy, Progress, Marked, Filed,
       Whole, Reading, Spared, Spare, LetGo, FilesOK, TablesOK, HistoryOK, Threat,
       Home, Blobs, ScannersOK, ScannerState, ClientsOK, ClientState
  <1>19. ASSUME NEW c \in Clients, RemoveBlob(c) PROVE Spared'
    BY SMTT(30), <1>0, Values, IdsAre, <1>19 DEF RemoveBlob, At, Threat, tables,
       history, Mutex, Rowed, Live, IsRow, Handling, OneOwner, Busy, Progress, Marked,
       Filed, Whole, Reading, Spared, Spare, LetGo, FilesOK, TablesOK, HistoryOK,
       Threat, Home, Blobs, ScannersOK, ScannerState, ClientsOK, ClientState
  <1>20. ASSUME NEW c \in Clients, CallFails(c) PROVE Spared'
    BY SMTT(60), <1>0, Values, IdsAre, <1>20 DEF CallFails, IoFails, Faults, Written,
       Becomes, IdleClient, tables, Mutex, Rowed, Live, IsRow, Handling, OneOwner,
       Busy, Progress, Marked, Filed, Whole, Reading, Spared, Spare, LetGo, FilesOK,
       TablesOK, HistoryOK, Threat, Home, Blobs, ScannersOK, ScannerState, ClientsOK,
       ClientState
  <1>21. ASSUME NEW c \in Clients, SetStatus(c) PROVE Spared'
    <2>1. /\ UNCHANGED <<orig, blob, rows, released, swept, misfiled>>
          /\ \A d \in Clients : client'[d].at \in {"chmod", "remove"} =>
                client'[d] = client[d]
      BY <1>0, <1>21 DEF SetStatus, At, files, history, ClientsOK, ClientState
    <2> QED BY <2>1 DEF Spared, Spare, LetGo, Threat
  <1>22. ASSUME NEW c \in Clients, DeleteRow(c) PROVE Spared'
    BY <1>0, Values, IdsAre, <1>22 DEF DeleteRow, DbFails, Faults, IdleClient,
       files, history, Mutex, Rowed, Live, IsRow, Handling, OneOwner, Busy,
       Progress, Marked, Filed, Whole, Reading, Spared, Spare, LetGo, FilesOK,
       TablesOK, HistoryOK, Threat, Home, Blobs, ScannersOK, ScannerState,
       ClientsOK, ClientState
  <1>23. CASE Crash
    BY <1>0, Values, IdsAre, <1>23 DEF Crash, Faults, Written, Becomes, IdleScanner,
       IdleClient, Mutex, Rowed, Live, IsRow, Handling, OneOwner, Busy, Progress,
       Marked, Filed, Whole, Reading, Spared, Spare, LetGo, FilesOK, TablesOK,
       HistoryOK, Threat, Home, Blobs, ScannersOK, ScannerState, ClientsOK,
       ClientState
  <1>24. CASE UNCHANGED vars
    BY <1>0, Values, IdsAre, <1>24 DEF vars, Mutex, Rowed, Live, IsRow, Handling,
       OneOwner, Busy, Progress, Marked, Filed, Whole, Reading, Spared, Spare,
       LetGo, FilesOK, TablesOK, HistoryOK, Threat, Home, Blobs, ScannersOK,
       ScannerState, ClientsOK, ClientState
  <1> QED
    BY <1>1, <1>2, <1>3, <1>4, <1>5, <1>6, <1>7, <1>8, <1>9, <1>10, <1>11, <1>12,
       <1>13, <1>14, <1>15, <1>16, <1>17, <1>18, <1>19, <1>20, <1>21, <1>22, <1>23,
       <1>24 DEF Next, ScannerStep, ClientStep

(* A content goes only after it was let go.                                *)
LEMMA KeptStep ==
    ASSUME TypeOK, Mutex, Rowed, Handling, Progress, Marked, Spared, Kept,
           [Next]_vars
    PROVE  Kept'
  <1>0. FilesOK /\ TablesOK /\ ScannersOK /\ ClientsOK /\ CountsOK /\ HistoryOK
    BY TypeParts DEF Typed
  <1>1. ASSUME NEW p \in Paths, WriteFile(p) PROVE Kept'
    <2>1. /\ UNCHANGED <<blob, swept, misfiled>> /\ released' = released \cup Whole(orig[p])
          /\ \A q \in Paths : q # p => orig'[q] = orig[q]
      BY <1>0, <1>1 DEF WriteFile, FilesOK
    <2>2. made' = made + 1 /\ orig'[p] = made + 1
      BY <1>0, <1>1 DEF WriteFile, FilesOK
    <2>3. \A x \in 1..made' : x \in 1..made \/ x = made + 1
      BY <1>0, <2>2 DEF CountsOK
    <2>4. \A x \in 1..made : x \in Contents
      BY <1>0 DEF CountsOK, Contents
    <2> QED BY <2>1, <2>2, <2>3, <2>4 DEF Kept, LetGo, Whole
  <1>2. ASSUME NEW p \in Paths, RemoveFile(p) PROVE Kept'
    <2>1. /\ UNCHANGED <<blob, swept, misfiled>> /\ released' = released \cup Whole(orig[p])
          /\ \A q \in Paths : q # p => orig'[q] = orig[q]
      BY <1>0, <1>2 DEF RemoveFile, FilesOK
    <2>2. made' = made
      BY <1>2 DEF RemoveFile
    <2>3. \A x \in 1..made : x \in Contents
      BY <1>0 DEF CountsOK, Contents
    <2> QED BY <2>1, <2>2, <2>3 DEF Kept, LetGo, Whole
  <1>3. ASSUME NEW s \in Scanners, NEW p \in Paths, Detect(s, p) PROVE Kept'
    BY <1>0, Values, IdsAre, <1>3 DEF Detect, IdleScanner, files, tables, history,
       Handling, Live, Busy, Progress, Marked, Filed, Whole, Spared, Spare, LetGo,
       Kept, FilesOK, TablesOK, HistoryOK, CountsOK, Threat, Home, ScannersOK,
       ScannerState, ClientsOK, ClientState
  <1>4. ASSUME NEW s \in Scanners, InsertThreat(s) PROVE Kept'
    BY <1>0, Values, IdsAre, <1>4 DEF InsertThreat, DbFails, Faults, files,
       Handling, Live, Busy, Progress, Marked, Filed, Whole, Spared, Spare, LetGo,
       Kept, FilesOK, TablesOK, HistoryOK, CountsOK, Threat, Home, ScannersOK,
       ScannerState, ClientsOK, ClientState
  <1>5. ASSUME NEW s \in Scanners, PutFails(s) PROVE Kept'
    BY <1>0, Values, IdsAre, <1>5 DEF PutFails, IoFails, Faults, GivesUp,
       IdleScanner, files, tables, history, Handling, Live, Busy, Progress, Marked,
       Filed, Whole, Spared, Spare, LetGo, Kept, FilesOK, TablesOK, HistoryOK,
       CountsOK, Threat, Home, ScannersOK, ScannerState, ClientsOK, ClientState
  <1>6. ASSUME NEW s \in Scanners, Rename(s) PROVE Kept'
    BY <1>0, <1>6, PutTakesIn, TakesInKeeps DEF ScannersOK, ScannerState
  <1>7. ASSUME NEW s \in Scanners, StartCopy(s) PROVE Kept'
    BY <1>0, <1>7, PutTakesIn, TakesInKeeps DEF ScannersOK, ScannerState
  <1>8. ASSUME NEW s \in Scanners, EndCopy(s) PROVE Kept'
    BY <1>0, <1>8, PutTakesIn, TakesInKeeps DEF ScannersOK, ScannerState
  <1>9. ASSUME NEW s \in Scanners, Unlink(s) PROVE Kept'
    BY <1>0, <1>9, PutTakesIn, TakesInKeeps DEF ScannersOK, ScannerState
  <1>10. ASSUME NEW s \in Scanners, UnlinkGone(s) PROVE Kept'
    BY <1>0, Values, IdsAre, <1>10 DEF UnlinkGone, GivesUp, IdleScanner, files,
       tables, history, Handling, Live, Busy, Progress, Marked, Filed, Whole,
       Spared, Spare, LetGo, Kept, FilesOK, TablesOK, HistoryOK, CountsOK, Threat,
       Home, ScannersOK, ScannerState, ClientsOK, ClientState
  <1>11. ASSUME NEW s \in Scanners, Chmod(s) PROVE Kept'
    BY <1>0, Values, IdsAre, <1>11 DEF Chmod, Goes, tables, history, Handling, Live,
       Busy, Progress, Marked, Filed, Whole, Spared, Spare, LetGo, Kept, FilesOK,
       TablesOK, HistoryOK, CountsOK, Threat, Home, ScannersOK, ScannerState,
       ClientsOK, ClientState
  <1>12. ASSUME NEW s \in Scanners, SetQuarantined(s) PROVE Kept'
    BY <1>0, Values, IdsAre, <1>12 DEF SetQuarantined, DbFails, Faults, Goes, files,
       history, Handling, Live, Busy, Progress, Marked, Filed, Whole, Spared, Spare,
       LetGo, Kept, FilesOK, TablesOK, HistoryOK, CountsOK, Threat, Home,
       ScannersOK, ScannerState, ClientsOK, ClientState
  <1>13. ASSUME NEW s \in Scanners, InsertQuarantine(s) PROVE Kept'
    BY <1>0, Values, IdsAre, <1>13 DEF InsertQuarantine, DbFails, Faults, GivesUp,
       IdleScanner, files, history, Handling, Live, Busy, Progress, Marked, Filed,
       Whole, Spared, Spare, LetGo, Kept, FilesOK, TablesOK, HistoryOK, CountsOK,
       Threat, Home, ScannersOK, ScannerState, ClientsOK, ClientState
  <1>14. ASSUME NEW c \in Clients, NEW op \in {"restore", "delete"},
               NEW r \in 1..MaxIds, Ask(c, op, r) PROVE Kept'
    BY <1>0, Values, IdsAre, <1>14 DEF Ask, MutexFree, IdleClient, files, tables,
       Handling, Live, Busy, Progress, Marked, Filed, Whole, Spared, Spare, LetGo,
       Kept, FilesOK, TablesOK, HistoryOK, CountsOK, Threat, Home, ScannersOK,
       ScannerState, ClientsOK, ClientState
  <1>15. ASSUME NEW c \in Clients, MakeReadable(c) PROVE Kept'
    BY <1>0, Values, IdsAre, <1>15 DEF MakeReadable, At, tables, history, Handling,
       Live, Busy, Progress, Marked, Filed, Whole, Spared, Spare, LetGo, Kept,
       FilesOK, TablesOK, HistoryOK, CountsOK, Threat, Home, ScannersOK,
       ScannerState, ClientsOK, ClientState
  <1>16. ASSUME NEW c \in Clients, StartCopyBack(c) PROVE Kept'
    <2>1. /\ UNCHANGED <<blob, swept, misfiled, made>>
          /\ released' = released \cup Whole(orig[Home(c)])
          /\ \A q \in Paths : q # Home(c) => orig'[q] = orig[q]
      BY <1>0, <1>16 DEF StartCopyBack, FilesOK
    <2>2. \A x \in 1..made : x \in Contents
      BY <1>0 DEF CountsOK, Contents
    <2> QED BY <2>1, <2>2 DEF Kept, LetGo, Whole
  <1>17. ASSUME NEW c \in Clients, EndCopyBack(c) PROVE Kept'
    <2>1. /\ released \subseteq released' /\ misfiled \subseteq misfiled'
          /\ UNCHANGED <<swept, made>> /\ Written(client[c].content)
      BY <1>17 DEF EndCopyBack
    <2>2. /\ \A q \in Paths : orig[q] \in Contents => orig'[q] = orig[q]
          /\ \A j \in Ids : blob[j] \in Contents => blob'[j] = blob[j]
      BY <1>0, <2>1, Values DEF Written, Becomes, FilesOK
    <2>3. \A x \in 1..made : x \in Contents
      BY <1>0 DEF CountsOK, Contents
    <2> QED BY <2>1, <2>2, <2>3 DEF Kept, LetGo
  <1>18. ASSUME NEW c \in Clients, RestoreMode(c) PROVE Kept'
    BY <1>0, Values, IdsAre, <1>18 DEF RestoreMode, At, files, tables, history,
       Handling, Live, Busy, Progress, Marked, Filed, Whole, Spared, Spare, LetGo,
       Kept, FilesOK, TablesOK, HistoryOK, CountsOK, Threat, Home, ScannersOK,
       ScannerState, ClientsOK, ClientState
  <1>19. ASSUME NEW c \in Clients, RemoveBlob(c) PROVE Kept'
    <2> DEFINE k == Threat(c)
    <2>1. /\ UNCHANGED <<orig, released, swept, misfiled, made>> /\ k \in Ids
          /\ blob' = [blob EXCEPT ![k] = None] /\ client[c].at = "remove"
      BY <1>0, <1>19, ClientKnows DEF RemoveBlob, history
    <2>2. \A j \in Ids : j # k => blob'[j] = blob[j]
      BY <1>0, <2>1 DEF FilesOK
    <2>3. blob[k] \in Contents => Spare(blob[k], k)
      BY <2>1 DEF Spared
    <2> HIDE DEF k
    <2>4. \A x \in 1..made : x \in Contents
      BY <1>0 DEF CountsOK, Contents
    <2> QED BY <2>1, <2>2, <2>3, <2>4 DEF Kept, Spare, LetGo
  <1>20. ASSUME NEW c \in Clients, CallFails(c) PROVE Kept'
    <2>1. /\ UNCHANGED <<released, swept, misfiled, made>>
          /\ UNCHANGED <<orig, blob>> \/ Written(Partial)
      BY <1>20 DEF CallFails
    <2>2. /\ \A q \in Paths : orig[q] \in Contents => orig'[q] = orig[q]
          /\ \A j \in Ids : blob[j] \in Contents => blob'[j] = blob[j]
      BY <1>0, <2>1, Values DEF Written, Becomes, FilesOK
    <2>3. \A x \in 1..made : x \in Contents
      BY <1>0 DEF CountsOK, Contents
    <2> QED BY <2>1, <2>2, <2>3 DEF Kept, LetGo
  <1>21. ASSUME NEW c \in Clients, SetStatus(c) PROVE Kept'
    BY <1>0, Values, IdsAre, <1>21 DEF SetStatus, DbFails, Faults, At, StatusAfter,
       files, history, Handling, Live, Busy, Progress, Marked, Filed, Whole, Spared,
       Spare, LetGo, Kept, FilesOK, TablesOK, HistoryOK, CountsOK, Threat, Home,
       ScannersOK, ScannerState, ClientsOK, ClientState
  <1>22. ASSUME NEW c \in Clients, DeleteRow(c) PROVE Kept'
    BY <1>0, Values, IdsAre, <1>22 DEF DeleteRow, DbFails, Faults, IdleClient,
       files, history, Handling, Live, Busy, Progress, Marked, Filed, Whole, Spared,
       Spare, LetGo, Kept, FilesOK, TablesOK, HistoryOK, CountsOK, Threat, Home,
       ScannersOK, ScannerState, ClientsOK, ClientState
  <1>23. CASE Crash
    <2>1. /\ UNCHANGED <<released, swept, misfiled, made>>
          /\ UNCHANGED <<orig, blob>> \/ Written(Partial)
      BY <1>23 DEF Crash
    <2>2. /\ \A q \in Paths : orig[q] \in Contents => orig'[q] = orig[q]
          /\ \A j \in Ids : blob[j] \in Contents => blob'[j] = blob[j]
      BY <1>0, <2>1, Values DEF Written, Becomes, FilesOK
    <2>3. \A x \in 1..made : x \in Contents
      BY <1>0 DEF CountsOK, Contents
    <2> QED BY <2>1, <2>2, <2>3 DEF Kept, LetGo
  <1>24. CASE UNCHANGED vars
    BY <1>0, Values, IdsAre, <1>24 DEF vars, Handling, Live, Busy, Progress, Marked,
       Filed, Whole, Spared, Spare, LetGo, Kept, FilesOK, TablesOK, HistoryOK,
       CountsOK, Threat, Home, ScannersOK, ScannerState, ClientsOK, ClientState
  <1> QED
    BY <1>1, <1>2, <1>3, <1>4, <1>5, <1>6, <1>7, <1>8, <1>9, <1>10, <1>11, <1>12,
       <1>13, <1>14, <1>15, <1>16, <1>17, <1>18, <1>19, <1>20, <1>21, <1>22, <1>23,
       <1>24 DEF Next, ScannerStep, ClientStep

-----------------------------------------------------------------------------
(* The two tables and the blobs, as long as no statement fails and nothing *)
(* crashes.                                                                *)

StatusesFollow ==
    /\ \A s \in Scanners : Busy(s) =>
          status[scanner[s].id] = IF scanner[s].at = "row" THEN "quarantined"
                                  ELSE "detected"
    /\ \A i \in Ids : i = 0 \/ i > threats => status[i] = "none"

(* Until the move is done nothing is taken for a threat, then what is in   *)
(* its blob.                                                               *)
TakenFollows ==
    /\ \A s \in Scanners :
          /\ scanner[s].at \in {"put", "copy", "unlink"} => taken[scanner[s].id] = None
          /\ scanner[s].at \in {"chmod", "status", "row"} =>
                taken[scanner[s].id] = blob[scanner[s].id]
    /\ \A i \in Ids : i = 0 \/ i > threats => taken[i] = None

Restorable(r) ==
    blob[rows[r].threat] = taken[rows[r].threat] /\ status[rows[r].threat] = "quarantined"
Going(r) ==
    \E c \in Clients :
       /\ db = c /\ client[c].row = r
       /\ \/ client[c].at = "row" /\ status[rows[r].threat] # "quarantined"
          \/ client[c].at = "status" /\ status[rows[r].threat] = "quarantined"
RowsTell == \A r \in 1..MaxIds : IsRow(r) => Restorable(r) \/ Going(r)
RowsGo == \A c \in Clients : client[c].at = "row" => status[Threat(c)] # "quarantined"

RowsOnce ==
    \A r, q \in 1..MaxIds :
       IsRow(r) /\ IsRow(q) /\ rows[r].threat = rows[q].threat => r = q

QuarantinedHasRow ==
    \A i \in Ids : status[i] = "quarantined" =>
       \/ \E r \in 1..MaxIds : IsRow(r) /\ rows[r].threat = i
       \/ \E s \in Scanners : scanner[s].at = "row" /\ scanner[s].id = i

(* A step after which nothing has failed yet is one that does not fail.    *)
LEMMA StillCalm ==
    ASSUME TypeOK, Faulty, [Next]_vars, Undisturbed'
    PROVE  Undisturbed /\ shared = {} /\ used'["db"] = 0 /\ used'["crashes"] = 0
           /\ used["db"] = 0 /\ used["crashes"] = 0
  <1>0. CountsOK
    BY TypeParts DEF Typed
  <1>a. /\ used'["db"] = 0 /\ used'["crashes"] = 0
    BY DEF Undisturbed
  <1>1. ASSUME NEW p \in Paths, WriteFile(p)
         PROVE used["db"] = 0 /\ used["crashes"] = 0
    BY <1>0, <1>a, <1>1 DEF WriteFile, tables, CountsOK
  <1>2. ASSUME NEW p \in Paths, RemoveFile(p)
         PROVE used["db"] = 0 /\ used["crashes"] = 0
    BY <1>0, <1>a, <1>2 DEF RemoveFile, tables, CountsOK
  <1>3. ASSUME NEW s \in Scanners, NEW p \in Paths, Detect(s, p)
         PROVE used["db"] = 0 /\ used["crashes"] = 0
    BY <1>0, <1>a, <1>3 DEF Detect, IdleScanner, files, tables, history, CountsOK
  <1>4. ASSUME NEW s \in Scanners, InsertThreat(s)
         PROVE used["db"] = 0 /\ used["crashes"] = 0
    BY <1>0, <1>a, <1>4 DEF InsertThreat, DbFails, Faults, files, CountsOK
  <1>5. ASSUME NEW s \in Scanners, PutFails(s)
         PROVE used["db"] = 0 /\ used["crashes"] = 0
    BY <1>0, <1>a, <1>5 DEF PutFails, IoFails, Faults, GivesUp, IdleScanner, files,
       tables, history, CountsOK
  <1>6. ASSUME NEW s \in Scanners, Rename(s)
         PROVE used["db"] = 0 /\ used["crashes"] = 0
    BY <1>0, <1>a, <1>6 DEF Rename, Takes, Misfiles, Goes, tables, CountsOK
  <1>7. ASSUME NEW s \in Scanners, StartCopy(s)
         PROVE used["db"] = 0 /\ used["crashes"] = 0
    BY <1>0, <1>a, <1>7 DEF StartCopy, Misfiles, tables, CountsOK
  <1>8. ASSUME NEW s \in Scanners, EndCopy(s)
         PROVE used["db"] = 0 /\ used["crashes"] = 0
    BY <1>0, <1>a, <1>8 DEF EndCopy, Goes, tables, history, CountsOK
  <1>9. ASSUME NEW s \in Scanners, Unlink(s)
         PROVE used["db"] = 0 /\ used["crashes"] = 0
    BY <1>0, <1>a, <1>9 DEF Unlink, Takes, tables, CountsOK
  <1>10. ASSUME NEW s \in Scanners, UnlinkGone(s)
         PROVE used["db"] = 0 /\ used["crashes"] = 0
    BY <1>0, <1>a, <1>10 DEF UnlinkGone, GivesUp, IdleScanner, files, tables,
       history, CountsOK
  <1>11. ASSUME NEW s \in Scanners, Chmod(s)
         PROVE used["db"] = 0 /\ used["crashes"] = 0
    BY <1>0, <1>a, <1>11 DEF Chmod, Goes, tables, history, CountsOK
  <1>12. ASSUME NEW s \in Scanners, SetQuarantined(s)
         PROVE used["db"] = 0 /\ used["crashes"] = 0
    BY <1>0, <1>a, <1>12 DEF SetQuarantined, DbFails, Faults, Goes, files, history,
       CountsOK
  <1>13. ASSUME NEW s \in Scanners, InsertQuarantine(s)
         PROVE used["db"] = 0 /\ used["crashes"] = 0
    BY <1>0, <1>a, <1>13 DEF InsertQuarantine, DbFails, Faults, GivesUp,
       IdleScanner, files, history, CountsOK
  <1>14. ASSUME NEW c \in Clients, NEW op \in {"restore", "delete"},
               NEW r \in 1..MaxIds, Ask(c, op, r)
         PROVE used["db"] = 0 /\ used["crashes"] = 0
    BY <1>0, <1>a, <1>14 DEF Ask, MutexFree, IdleClient, files, tables, CountsOK
  <1>15. ASSUME NEW c \in Clients, MakeReadable(c)
         PROVE used["db"] = 0 /\ used["crashes"] = 0
    BY <1>0, <1>a, <1>15 DEF MakeReadable, At, tables, history, CountsOK
  <1>16. ASSUME NEW c \in Clients, StartCopyBack(c)
         PROVE used["db"] = 0 /\ used["crashes"] = 0
    BY <1>0, <1>a, <1>16 DEF StartCopyBack, Truncated, Threat, Home, tables,
       CountsOK
  <1>17. ASSUME NEW c \in Clients, EndCopyBack(c)
         PROVE used["db"] = 0 /\ used["crashes"] = 0
    BY <1>0, <1>a, <1>17 DEF EndCopyBack, Written, Becomes, tables, CountsOK
  <1>18. ASSUME NEW c \in Clients, RestoreMode(c)
         PROVE used["db"] = 0 /\ used["crashes"] = 0
    BY <1>0, <1>a, <1>18 DEF RestoreMode, At, files, tables, history, CountsOK
  <1>19. ASSUME NEW c \in Clients, RemoveBlob(c)
         PROVE used["db"] = 0 /\ used["crashes"] = 0
    BY <1>0, <1>a, <1>19 DEF RemoveBlob, At, Threat, tables, history, CountsOK
  <1>20. ASSUME NEW c \in Clients, CallFails(c)
         PROVE used["db"] = 0 /\ used["crashes"] = 0
    BY <1>0, <1>a, <1>20 DEF CallFails, IoFails, Faults, Written, Becomes,
       IdleClient, tables, CountsOK
  <1>21. ASSUME NEW c \in Clients, SetStatus(c)
         PROVE used["db"] = 0 /\ used["crashes"] = 0
    BY <1>0, <1>a, <1>21 DEF SetStatus, DbFails, Faults, At, StatusAfter, files,
       history, CountsOK
  <1>22. ASSUME NEW c \in Clients, DeleteRow(c)
         PROVE used["db"] = 0 /\ used["crashes"] = 0
    BY <1>0, <1>a, <1>22 DEF DeleteRow, DbFails, Faults, IdleClient, files, history,
       CountsOK
  <1>23. CASE Crash
    BY <1>0, <1>a, <1>23 DEF Crash, Faults, Written, Becomes, IdleScanner,
       IdleClient, CountsOK
  <1>24. CASE UNCHANGED vars
    BY <1>0, <1>a, <1>24 DEF vars, CountsOK, Undisturbed, Faulty
  <1>b. used["db"] = 0 /\ used["crashes"] = 0
    BY <1>1, <1>2, <1>3, <1>4, <1>5, <1>6, <1>7, <1>8, <1>9, <1>10, <1>11, <1>12,
       <1>13, <1>14, <1>15, <1>16, <1>17, <1>18, <1>19, <1>20, <1>21, <1>22, <1>23,
       <1>24 DEF Next, ScannerStep, ClientStep
  <1> QED BY <1>a, <1>b DEF Undisturbed, Faulty

(* A new threat has an id that nobody has and no row names.                *)
LEMMA NewThreat ==
    ASSUME TypeOK, Unused, shared = {}, used'["db"] = 0, NEW s \in Scanners,
           InsertThreat(s)
    PROVE  /\ threats + 1 \in Ids /\ threats \in Nat /\ threats' = threats + 1
           /\ status' = [status EXCEPT ![threats + 1] = "detected"]
           /\ \A t \in Scanners : t # s => scanner'[t] = scanner[t]
           /\ scanner'[s].at = "put" /\ scanner'[s].id = threats + 1
           /\ scanner[s].at = "insert"
           /\ \A t \in Scanners : Busy(t) => scanner[t].id # threats + 1
           /\ \A r \in 1..MaxIds : IsRow(r) => rows[r].threat # threats + 1
           /\ UNCHANGED <<blob, rows, shared, taken, db, client>>
  <1>0. FilesOK /\ TablesOK /\ ScannersOK /\ ClientsOK /\ CountsOK /\ HistoryOK
    BY TypeParts DEF Typed
  <1>1. ~DbFails
    BY <1>0 DEF DbFails, Faults, CountsOK
  <1>2. /\ threats < MaxIds /\ threats' = threats + 1 /\ last' = threats + 1
        /\ status' = [status EXCEPT ![threats + 1] = "detected"]
        /\ scanner[s].at = "insert" /\ UNCHANGED <<blob, rows, shared, taken, db, client>>
    BY <1>1 DEF InsertThreat, files
  <1>3. threats + 1 \in Ids /\ threats \in Nat
    BY <1>0, <1>2, IdsAre DEF TablesOK
  <1>4. /\ \A t \in Scanners : t # s => scanner'[t] = scanner[t]
        /\ scanner'[s].at = "put" /\ scanner'[s].id = threats + 1
    BY <1>0, <1>2 DEF InsertThreat, ScannersOK, ScannerState
  <1>5. Fresh(threats + 1)
    BY <1>3 DEF Fresh
  <1> QED BY <1>2, <1>3, <1>4, <1>5 DEF Unused

(* A new row is one that was not there, and names the scanner's threat.    *)
LEMMA NewRow ==
    ASSUME TypeOK, used'["db"] = 0, NEW s \in Scanners, InsertQuarantine(s)
    PROVE  /\ added + 1 \in 1..MaxIds /\ ~IsRow(added + 1) /\ rows'[added + 1] # NoRow
           /\ rows'[added + 1].threat = scanner[s].id
           /\ \A r \in 1..MaxIds : r # added + 1 => rows'[r] = rows[r]
           /\ \A t \in Scanners : t # s => scanner'[t] = scanner[t]
           /\ scanner'[s].at = "idle" /\ scanner[s].at = "row"
           /\ UNCHANGED <<blob, status, threats, taken, client>>
  <1>0. FilesOK /\ TablesOK /\ ScannersOK /\ ClientsOK /\ CountsOK /\ HistoryOK
    BY TypeParts DEF Typed
  <1>1. ~DbFails
    BY <1>0 DEF DbFails, Faults, CountsOK
  <1>2. /\ added < MaxIds
        /\ rows' = [rows EXCEPT ![added + 1] =
                       [threat |-> scanner[s].id, path |-> scanner[s].path]]
        /\ scanner[s].at = "row" /\ scanner' = [scanner EXCEPT ![s] = IdleScanner]
        /\ UNCHANGED <<blob, status, threats, taken, client>>
    BY <1>1 DEF InsertQuarantine, GivesUp, files, history
  <1>3. added + 1 \in 1..MaxIds /\ added \in Nat
    BY <1>0, <1>2, IdsAre DEF TablesOK
  <1>4. scanner[s].path # None
    BY <1>0, <1>2, Values DEF ScannersOK
  <1>5. /\ ~IsRow(added + 1) /\ rows'[added + 1] # NoRow
        /\ rows'[added + 1].threat = scanner[s].id
        /\ \A r \in 1..MaxIds : r # added + 1 => rows'[r] = rows[r]
    BY <1>0, <1>2, <1>3, <1>4 DEF TablesOK, IsRow, NoRow
  <1>6. /\ \A t \in Scanners : t # s => scanner'[t] = scanner[t]
        /\ scanner'[s].at = "idle"
    BY <1>0, <1>2 DEF ScannersOK, ScannerState, IdleScanner
  <1> QED BY <1>2, <1>3, <1>5, <1>6

(* The status of a threat follows its scanner.                             *)
LEMMA StatusesStep ==
    ASSUME TypeOK, Faulty, [Next]_vars, Undisturbed', Mutex, Rowed, OneOwner,
           Unused, StatusesFollow
    PROVE  StatusesFollow'
  <1>0. FilesOK /\ TablesOK /\ ScannersOK /\ ClientsOK /\ CountsOK /\ HistoryOK
    BY TypeParts DEF Typed
  <1>u. Undisturbed /\ shared = {} /\ used'["db"] = 0 /\ used'["crashes"] = 0
        /\ used["db"] = 0 /\ used["crashes"] = 0
    BY StillCalm
  <1>1. ASSUME NEW p \in Paths, WriteFile(p) PROVE StatusesFollow'
    BY <1>0, <1>u, Values, IdsAre, <1>1 DEF WriteFile, tables, OneOwner, Unused,
       Fresh, Busy, IsRow, NoRow, TablesOK, Mutex, Rowed, Live, Threat,
       StatusesFollow, ScannersOK, ScannerState, ClientsOK, ClientState
  <1>2. ASSUME NEW p \in Paths, RemoveFile(p) PROVE StatusesFollow'
    BY <1>0, <1>u, Values, IdsAre, <1>2 DEF RemoveFile, tables, OneOwner, Unused,
       Fresh, Busy, IsRow, NoRow, TablesOK, Mutex, Rowed, Live, Threat,
       StatusesFollow, ScannersOK, ScannerState, ClientsOK, ClientState
  <1>3. ASSUME NEW s \in Scanners, NEW p \in Paths, Detect(s, p) PROVE StatusesFollow'
    BY <1>0, <1>u, Values, IdsAre, <1>3 DEF Detect, IdleScanner, files, tables,
       history, OneOwner, Unused, Fresh, Busy, IsRow, NoRow, TablesOK, Mutex, Rowed,
       Live, Threat, StatusesFollow, ScannersOK, ScannerState, ClientsOK,
       ClientState
  <1>4. ASSUME NEW s \in Scanners, InsertThreat(s) PROVE StatusesFollow'
    <2> DEFINE i == threats + 1
    <2>1. /\ i \in Ids /\ threats \in Nat /\ threats' = i
          /\ status' = [status EXCEPT ![i] = "detected"]
          /\ \A t \in Scanners : t # s => scanner'[t] = scanner[t]
          /\ scanner'[s].at = "put" /\ scanner'[s].id = i
          /\ \A t \in Scanners : Busy(t) => scanner[t].id # i
      BY <1>u, <1>4, NewThreat
    <2>2. /\ status'[i] = "detected" /\ \A j \in Ids : j # i => status'[j] = status[j]
          /\ \A t \in Scanners : scanner[t].id \in Ids
      BY <1>0, <2>1 DEF TablesOK, ScannersOK, ScannerState
    <2>3. \A j \in Ids : j = 0 \/ j > threats' => j # i /\ (j = 0 \/ j > threats)
      BY <2>1, IdsAre
    <2> HIDE DEF i
    <2> QED BY <2>1, <2>2, <2>3 DEF StatusesFollow, Busy
  <1>5. ASSUME NEW s \in Scanners, PutFails(s) PROVE StatusesFollow'
    BY <1>0, <1>u, Values, IdsAre, <1>5 DEF PutFails, IoFails, Faults, GivesUp,
       IdleScanner, files, tables, history, OneOwner, Unused, Fresh, Busy, IsRow,
       NoRow, TablesOK, Mutex, Rowed, Live, Threat, StatusesFollow, ScannersOK,
       ScannerState, ClientsOK, ClientState
  <1>6. ASSUME NEW s \in Scanners, Rename(s) PROVE StatusesFollow'
    BY <1>0, <1>u, Values, IdsAre, <1>6 DEF Rename, Takes, Misfiles, Goes, tables,
       OneOwner, Unused, Fresh, Busy, IsRow, NoRow, TablesOK, Mutex, Rowed, Live,
       Threat, StatusesFollow, ScannersOK, ScannerState, ClientsOK, ClientState
  <1>7. ASSUME NEW s \in Scanners, StartCopy(s) PROVE StatusesFollow'
    <2>1. /\ UNCHANGED <<status, threats>>
          /\ \A t \in Scanners : /\ scanner'[t].id = scanner[t].id
                                 /\ scanner'[t].at \in {"idle", "insert"} <=>
                                       scanner[t].at \in {"idle", "insert"}
                                 /\ scanner'[t].at = "row" <=> scanner[t].at = "row"
      BY <1>0, <1>7 DEF StartCopy, tables, ScannersOK, ScannerState
    <2> QED BY <2>1 DEF StatusesFollow, Busy
  <1>8. ASSUME NEW s \in Scanners, EndCopy(s) PROVE StatusesFollow'
    BY <1>0, <1>u, Values, IdsAre, <1>8 DEF EndCopy, Goes, tables, history,
       OneOwner, Unused, Fresh, Busy, IsRow, NoRow, TablesOK, Mutex, Rowed, Live,
       Threat, StatusesFollow, ScannersOK, ScannerState, ClientsOK, ClientState
  <1>9. ASSUME NEW s \in Scanners, Unlink(s) PROVE StatusesFollow'
    <2>1. /\ UNCHANGED <<status, threats>>
          /\ \A t \in Scanners : /\ scanner'[t].id = scanner[t].id
                                 /\ scanner'[t].at \in {"idle", "insert"} <=>
                                       scanner[t].at \in {"idle", "insert"}
                                 /\ scanner'[t].at = "row" <=> scanner[t].at = "row"
      BY <1>0, <1>9 DEF Unlink, tables, ScannersOK, ScannerState
    <2> QED BY <2>1 DEF StatusesFollow, Busy
  <1>10. ASSUME NEW s \in Scanners, UnlinkGone(s) PROVE StatusesFollow'
    BY <1>0, <1>u, Values, IdsAre, <1>10 DEF UnlinkGone, GivesUp, IdleScanner,
       files, tables, history, OneOwner, Unused, Fresh, Busy, IsRow, NoRow,
       TablesOK, Mutex, Rowed, Live, Threat, StatusesFollow, ScannersOK,
       ScannerState, ClientsOK, ClientState
  <1>11. ASSUME NEW s \in Scanners, Chmod(s) PROVE StatusesFollow'
    BY <1>0, <1>u, Values, IdsAre, <1>11 DEF Chmod, Goes, tables, history, OneOwner,
       Unused, Fresh, Busy, IsRow, NoRow, TablesOK, Mutex, Rowed, Live, Threat,
       StatusesFollow, ScannersOK, ScannerState, ClientsOK, ClientState
  <1>12. ASSUME NEW s \in Scanners, SetQuarantined(s) PROVE StatusesFollow'
    <2> DEFINE i == scanner[s].id
    <2>1. ~DbFails
      BY <1>0, <1>u DEF DbFails, Faults, CountsOK
    <2>2. /\ status' = [status EXCEPT ![i] = "quarantined"] /\ i \in Ids
          /\ UNCHANGED threats /\ Busy(s)
          /\ \A t \in Scanners : t # s => scanner'[t] = scanner[t]
          /\ scanner'[s].at = "row" /\ scanner'[s].id = i
      BY <1>0, <2>1, <1>12 DEF SetQuarantined, Goes, Busy, ScannersOK, ScannerState
    <2>3. /\ status'[i] = "quarantined" /\ \A j \in Ids : j # i => status'[j] = status[j]
          /\ \A t \in Scanners : scanner[t].id \in Ids
      BY <1>0, <2>2 DEF TablesOK, ScannersOK, ScannerState
    <2>4. /\ \A t \in Scanners : Busy(t) /\ t # s => scanner[t].id # i
          /\ ~(i = 0 \/ i > threats)
      BY <1>u, <2>2 DEF OneOwner, Unused, Fresh
    <2> HIDE DEF i
    <2> QED BY <2>2, <2>3, <2>4 DEF StatusesFollow, Busy
  <1>13. ASSUME NEW s \in Scanners, InsertQuarantine(s) PROVE StatusesFollow'
    BY <1>0, <1>u, Values, IdsAre, <1>13 DEF InsertQuarantine, DbFails, Faults,
       GivesUp, IdleScanner, files, history, OneOwner, Unused, Fresh, Busy, IsRow,
       NoRow, TablesOK, Mutex, Rowed, Live, Threat, StatusesFollow, ScannersOK,
       ScannerState, ClientsOK, ClientState
  <1>14. ASSUME NEW c \in Clients, NEW op \in {"restore", "delete"},
               NEW r \in 1..MaxIds, Ask(c, op, r) PROVE StatusesFollow'
    BY <1>0, <1>u, Values, IdsAre, <1>14 DEF Ask, MutexFree, IdleClient, files,
       tables, OneOwner, Unused, Fresh, Busy, IsRow, NoRow, TablesOK, Mutex, Rowed,
       Live, Threat, StatusesFollow, ScannersOK, ScannerState, ClientsOK,
       ClientState
  <1>15. ASSUME NEW c \in Clients, MakeReadable(c) PROVE StatusesFollow'
    BY <1>0, <1>u, Values, IdsAre, <1>15 DEF MakeReadable, At, tables, history,
       OneOwner, Unused, Fresh, Busy, IsRow, NoRow, TablesOK, Mutex, Rowed, Live,
       Threat, StatusesFollow, ScannersOK, ScannerState, ClientsOK, ClientState
  <1>16. ASSUME NEW c \in Clients, StartCopyBack(c) PROVE StatusesFollow'
    BY <1>0, <1>u, Values, IdsAre, <1>16 DEF StartCopyBack, Truncated, Threat, Home,
       tables, OneOwner, Unused, Fresh, Busy, IsRow, NoRow, TablesOK, Mutex, Rowed,
       Live, Threat, StatusesFollow, ScannersOK, ScannerState, ClientsOK,
       ClientState
  <1>17. ASSUME NEW c \in Clients, EndCopyBack(c) PROVE StatusesFollow'
    BY <1>0, <1>u, Values, IdsAre, <1>17 DEF EndCopyBack, Written, Becomes, tables,
       OneOwner, Unused, Fresh, Busy, IsRow, NoRow, TablesOK, Mutex, Rowed, Live,
       Threat, StatusesFollow, ScannersOK, ScannerState, ClientsOK, ClientState
  <1>18. ASSUME NEW c \in Clients, RestoreMode(c) PROVE StatusesFollow'
    BY <1>0, <1>u, Values, IdsAre, <1>18 DEF RestoreMode, At, files, tables,
       history, OneOwner, Unused, Fresh, Busy, IsRow, NoRow, TablesOK, Mutex, Rowed,
       Live, Threat, StatusesFollow, ScannersOK, ScannerState, ClientsOK,
       ClientState
  <1>19. ASSUME NEW c \in Clients, RemoveBlob(c) PROVE StatusesFollow'
    BY <1>0, <1>u, Values, IdsAre, <1>19 DEF RemoveBlob, At, Threat, tables,
       history, OneOwner, Unused, Fresh, Busy, IsRow, NoRow, TablesOK, Mutex, Rowed,
       Live, Threat, StatusesFollow, ScannersOK, ScannerState, ClientsOK,
       ClientState
  <1>20. ASSUME NEW c \in Clients, CallFails(c) PROVE StatusesFollow'
    BY <1>0, <1>u, Values, IdsAre, <1>20 DEF CallFails, IoFails, Faults, Written,
       Becomes, IdleClient, tables, OneOwner, Unused, Fresh, Busy, IsRow, NoRow,
       TablesOK, Mutex, Rowed, Live, Threat, StatusesFollow, ScannersOK,
       ScannerState, ClientsOK, ClientState
  <1>21. ASSUME NEW c \in Clients, SetStatus(c) PROVE StatusesFollow'
    BY <1>0, <1>u, Values, IdsAre, <1>21 DEF SetStatus, DbFails, Faults, At,
       StatusAfter, files, history, OneOwner, Unused, Fresh, Busy, IsRow, NoRow,
       TablesOK, Mutex, Rowed, Live, Threat, StatusesFollow, ScannersOK,
       ScannerState, ClientsOK, ClientState
  <1>22. ASSUME NEW c \in Clients, DeleteRow(c) PROVE StatusesFollow'
    BY <1>0, <1>u, Values, IdsAre, <1>22 DEF DeleteRow, DbFails, Faults, IdleClient,
       files, history, OneOwner, Unused, Fresh, Busy, IsRow, NoRow, TablesOK, Mutex,
       Rowed, Live, Threat, StatusesFollow, ScannersOK, ScannerState, ClientsOK,
       ClientState
  <1>23. CASE Crash
    BY <1>0, <1>u, Values, IdsAre, <1>23 DEF Crash, Faults, Written, Becomes,
       IdleScanner, IdleClient, OneOwner, Unused, Fresh, Busy, IsRow, NoRow,
       TablesOK, Mutex, Rowed, Live, Threat, StatusesFollow, ScannersOK,
       ScannerState, ClientsOK, ClientState
  <1>24. CASE UNCHANGED vars
    BY <1>0, <1>u, Values, IdsAre, <1>24 DEF vars, OneOwner, Unused, Fresh, Busy,
       IsRow, NoRow, TablesOK, Mutex, Rowed, Live, Threat, StatusesFollow,
       ScannersOK, ScannerState, ClientsOK, ClientState
  <1> QED
    BY <1>1, <1>2, <1>3, <1>4, <1>5, <1>6, <1>7, <1>8, <1>9, <1>10, <1>11, <1>12,
       <1>13, <1>14, <1>15, <1>16, <1>17, <1>18, <1>19, <1>20, <1>21, <1>22, <1>23,
       <1>24 DEF Next, ScannerStep, ClientStep

(* What was taken follows the blob.                                        *)
LEMMA TakenStep ==
    ASSUME TypeOK, Faulty, [Next]_vars, Undisturbed', Mutex, Rowed, OneOwner,
           Unused, Progress, TakenFollows
    PROVE  TakenFollows'
  <1>0. FilesOK /\ TablesOK /\ ScannersOK /\ ClientsOK /\ CountsOK /\ HistoryOK
    BY TypeParts DEF Typed
  <1>u. Undisturbed /\ shared = {} /\ used'["db"] = 0 /\ used'["crashes"] = 0
        /\ used["db"] = 0 /\ used["crashes"] = 0
    BY StillCalm
  <1>1. ASSUME NEW p \in Paths, WriteFile(p) PROVE TakenFollows'
    BY <1>0, <1>u, Values, IdsAre, <1>1 DEF WriteFile, tables, OneOwner, Unused,
       Fresh, Busy, IsRow, NoRow, TablesOK, Mutex, Rowed, Live, Threat, Progress,
       TakenFollows, FilesOK, HistoryOK, ScannersOK, ScannerState, ClientsOK,
       ClientState
  <1>2. ASSUME NEW p \in Paths, RemoveFile(p) PROVE TakenFollows'
    BY <1>0, <1>u, Values, IdsAre, <1>2 DEF RemoveFile, tables, OneOwner, Unused,
       Fresh, Busy, IsRow, NoRow, TablesOK, Mutex, Rowed, Live, Threat, Progress,
       TakenFollows, FilesOK, HistoryOK, ScannersOK, ScannerState, ClientsOK,
       ClientState
  <1>3. ASSUME NEW s \in Scanners, NEW p \in Paths, Detect(s, p) PROVE TakenFollows'
    BY <1>0, <1>u, Values, IdsAre, <1>3 DEF Detect, IdleScanner, files, tables,
       history, OneOwner, Unused, Fresh, Busy, IsRow, NoRow, TablesOK, Mutex, Rowed,
       Live, Threat, Progress, TakenFollows, FilesOK, HistoryOK, ScannersOK,
       ScannerState, ClientsOK, ClientState
  <1>4. ASSUME NEW s \in Scanners, InsertThreat(s) PROVE TakenFollows'
    <2> DEFINE i == threats + 1
    <2>1. /\ i \in Ids /\ threats \in Nat /\ threats' = i /\ UNCHANGED <<blob, taken>>
          /\ \A t \in Scanners : t # s => scanner'[t] = scanner[t]
          /\ scanner'[s].at = "put" /\ scanner'[s].id = i
      BY <1>u, <1>4, NewThreat
    <2>2. taken[i] = None
      BY <2>1 DEF TakenFollows
    <2>3. \A j \in Ids : j = 0 \/ j > threats' => j = 0 \/ j > threats
      BY <2>1, IdsAre
    <2> HIDE DEF i
    <2> QED BY <2>1, <2>2, <2>3 DEF TakenFollows
  <1>5. ASSUME NEW s \in Scanners, PutFails(s) PROVE TakenFollows'
    BY <1>0, <1>u, Values, IdsAre, <1>5 DEF PutFails, IoFails, Faults, GivesUp,
       IdleScanner, files, tables, history, OneOwner, Unused, Fresh, Busy, IsRow,
       NoRow, TablesOK, Mutex, Rowed, Live, Threat, Progress, TakenFollows, FilesOK,
       HistoryOK, ScannersOK, ScannerState, ClientsOK, ClientState
  <1>6. ASSUME NEW s \in Scanners, Rename(s) PROVE TakenFollows'
    <2> DEFINE i == scanner[s].id
    <2>1. /\ blob' = [blob EXCEPT ![i] = orig[scanner[s].path]] /\ i \in Ids
          /\ taken' = [taken EXCEPT ![i] = IF taken[i] = None
                                           THEN orig[scanner[s].path] ELSE taken[i]]
          /\ UNCHANGED threats /\ Busy(s) /\ scanner[s].at = "put"
          /\ \A t \in Scanners : t # s => scanner'[t] = scanner[t]
          /\ scanner'[s].at = "chmod" /\ scanner'[s].id = i
      BY <1>0, <1>6 DEF Rename, Takes, Goes, tables, Busy, ScannersOK, ScannerState
    <2>2. /\ taken[i] = None /\ taken'[i] = blob'[i]
          /\ \A j \in Ids : j # i => taken'[j] = taken[j] /\ blob'[j] = blob[j]
          /\ \A t \in Scanners : scanner[t].id \in Ids
      BY <1>0, <2>1 DEF TakenFollows, FilesOK, HistoryOK, ScannersOK, ScannerState
    <2>3. /\ \A t \in Scanners : Busy(t) /\ t # s => scanner[t].id # i
          /\ ~(i = 0 \/ i > threats)
      BY <1>u, <2>1 DEF OneOwner, Unused, Fresh
    <2> HIDE DEF i
    <2> QED BY <2>1, <2>2, <2>3 DEF TakenFollows, Busy
  <1>7. ASSUME NEW s \in Scanners, StartCopy(s) PROVE TakenFollows'
    <2> DEFINE i == scanner[s].id
    <2>1. /\ blob' = [blob EXCEPT ![i] = Partial] /\ i \in Ids
          /\ UNCHANGED <<threats, taken>> /\ Busy(s) /\ scanner[s].at = "put" /\ scanner[s].id = i
          /\ \A t \in Scanners : t # s => scanner'[t] = scanner[t]
          /\ scanner'[s].at = "copy" /\ scanner'[s].id = i
      BY <1>0, <1>7 DEF StartCopy, tables, Busy, ScannersOK, ScannerState
    <2>2. /\ \A j \in Ids : j # i => blob'[j] = blob[j]
          /\ \A t \in Scanners : scanner[t].id \in Ids
      BY <1>0, <2>1 DEF FilesOK, ScannersOK, ScannerState
    <2>3. \A t \in Scanners : Busy(t) /\ t # s => scanner[t].id # i
      BY <1>u, <2>1 DEF OneOwner
    <2> HIDE DEF i
    <2> QED BY <2>1, <2>2, <2>3 DEF TakenFollows, Busy
  <1>8. ASSUME NEW s \in Scanners, EndCopy(s) PROVE TakenFollows'
    BY <1>0, <1>u, Values, IdsAre, <1>8 DEF EndCopy, Goes, tables, history,
       OneOwner, Unused, Fresh, Busy, IsRow, NoRow, TablesOK, Mutex, Rowed, Live,
       Threat, Progress, TakenFollows, FilesOK, HistoryOK, ScannersOK, ScannerState,
       ClientsOK, ClientState
  <1>9. ASSUME NEW s \in Scanners, Unlink(s) PROVE TakenFollows'
    BY <1>0, <1>u, Values, IdsAre, <1>9 DEF Unlink, Takes, tables, OneOwner, Unused,
       Fresh, Busy, IsRow, NoRow, TablesOK, Mutex, Rowed, Live, Threat, Progress,
       TakenFollows, FilesOK, HistoryOK, ScannersOK, ScannerState, ClientsOK,
       ClientState
  <1>10. ASSUME NEW s \in Scanners, UnlinkGone(s) PROVE TakenFollows'
    BY <1>0, <1>u, Values, IdsAre, <1>10 DEF UnlinkGone, GivesUp, IdleScanner,
       files, tables, history, OneOwner, Unused, Fresh, Busy, IsRow, NoRow,
       TablesOK, Mutex, Rowed, Live, Threat, Progress, TakenFollows, FilesOK,
       HistoryOK, ScannersOK, ScannerState, ClientsOK, ClientState
  <1>11. ASSUME NEW s \in Scanners, Chmod(s) PROVE TakenFollows'
    BY <1>0, <1>u, Values, IdsAre, <1>11 DEF Chmod, Goes, tables, history, OneOwner,
       Unused, Fresh, Busy, IsRow, NoRow, TablesOK, Mutex, Rowed, Live, Threat,
       Progress, TakenFollows, FilesOK, HistoryOK, ScannersOK, ScannerState,
       ClientsOK, ClientState
  <1>12. ASSUME NEW s \in Scanners, SetQuarantined(s) PROVE TakenFollows'
    BY <1>0, <1>u, Values, IdsAre, <1>12 DEF SetQuarantined, DbFails, Faults, Goes,
       files, history, OneOwner, Unused, Fresh, Busy, IsRow, NoRow, TablesOK, Mutex,
       Rowed, Live, Threat, Progress, TakenFollows, FilesOK, HistoryOK, ScannersOK,
       ScannerState, ClientsOK, ClientState
  <1>13. ASSUME NEW s \in Scanners, InsertQuarantine(s) PROVE TakenFollows'
    BY <1>0, <1>u, Values, IdsAre, <1>13 DEF InsertQuarantine, DbFails, Faults,
       GivesUp, IdleScanner, files, history, OneOwner, Unused, Fresh, Busy, IsRow,
       NoRow, TablesOK, Mutex, Rowed, Live, Threat, Progress, TakenFollows, FilesOK,
       HistoryOK, ScannersOK, ScannerState, ClientsOK, ClientState
  <1>14. ASSUME NEW c \in Clients, NEW op \in {"restore", "delete"},
               NEW r \in 1..MaxIds, Ask(c, op, r) PROVE TakenFollows'
    BY <1>0, <1>u, Values, IdsAre, <1>14 DEF Ask, MutexFree, IdleClient, files,
       tables, OneOwner, Unused, Fresh, Busy, IsRow, NoRow, TablesOK, Mutex, Rowed,
       Live, Threat, Progress, TakenFollows, FilesOK, HistoryOK, ScannersOK,
       ScannerState, ClientsOK, ClientState
  <1>15. ASSUME NEW c \in Clients, MakeReadable(c) PROVE TakenFollows'
    BY <1>0, <1>u, Values, IdsAre, <1>15 DEF MakeReadable, At, tables, history,
       OneOwner, Unused, Fresh, Busy, IsRow, NoRow, TablesOK, Mutex, Rowed, Live,
       Threat, Progress, TakenFollows, FilesOK, HistoryOK, ScannersOK, ScannerState,
       ClientsOK, ClientState
  <1>16. ASSUME NEW c \in Clients, StartCopyBack(c) PROVE TakenFollows'
    BY <1>0, <1>u, Values, IdsAre, <1>16 DEF StartCopyBack, Truncated, Threat, Home,
       tables, OneOwner, Unused, Fresh, Busy, IsRow, NoRow, TablesOK, Mutex, Rowed,
       Live, Threat, Progress, TakenFollows, FilesOK, HistoryOK, ScannersOK,
       ScannerState, ClientsOK, ClientState
  <1>17. ASSUME NEW c \in Clients, EndCopyBack(c) PROVE TakenFollows'
    BY <1>0, <1>u, Values, IdsAre, <1>17 DEF EndCopyBack, Written, Becomes, tables,
       OneOwner, Unused, Fresh, Busy, IsRow, NoRow, TablesOK, Mutex, Rowed, Live,
       Threat, Progress, TakenFollows, FilesOK, HistoryOK, ScannersOK, ScannerState,
       ClientsOK, ClientState
  <1>18. ASSUME NEW c \in Clients, RestoreMode(c) PROVE TakenFollows'
    BY <1>0, <1>u, Values, IdsAre, <1>18 DEF RestoreMode, At, files, tables,
       history, OneOwner, Unused, Fresh, Busy, IsRow, NoRow, TablesOK, Mutex, Rowed,
       Live, Threat, Progress, TakenFollows, FilesOK, HistoryOK, ScannersOK,
       ScannerState, ClientsOK, ClientState
  <1>19. ASSUME NEW c \in Clients, RemoveBlob(c) PROVE TakenFollows'
    <2> DEFINE k == Threat(c)
    <2>1. /\ blob' = [blob EXCEPT ![k] = None] /\ UNCHANGED <<threats, taken, scanner>>
          /\ Live(c) /\ client[c].row \in 1..MaxIds
      BY <1>0, <1>19 DEF RemoveBlob, tables, history, Live, ClientsOK
    <2>2. \A s \in Scanners : Busy(s) => scanner[s].id # k
      BY <1>u, <2>1 DEF Rowed, OneOwner, Threat
    <2>3. /\ \A j \in Ids : j # k => blob'[j] = blob[j]
          /\ \A s \in Scanners : scanner[s].id \in Ids
      BY <1>0, <2>1 DEF FilesOK, ScannersOK, ScannerState
    <2> HIDE DEF k
    <2> QED BY <2>1, <2>2, <2>3 DEF TakenFollows, Busy
  <1>20. ASSUME NEW c \in Clients, CallFails(c) PROVE TakenFollows'
    BY <1>0, <1>u, Values, IdsAre, <1>20 DEF CallFails, IoFails, Faults, Written,
       Becomes, IdleClient, tables, OneOwner, Unused, Fresh, Busy, IsRow, NoRow,
       TablesOK, Mutex, Rowed, Live, Threat, Progress, TakenFollows, FilesOK,
       HistoryOK, ScannersOK, ScannerState, ClientsOK, ClientState
  <1>21. ASSUME NEW c \in Clients, SetStatus(c) PROVE TakenFollows'
    BY <1>0, <1>u, Values, IdsAre, <1>21 DEF SetStatus, DbFails, Faults, At,
       StatusAfter, files, history, OneOwner, Unused, Fresh, Busy, IsRow, NoRow,
       TablesOK, Mutex, Rowed, Live, Threat, Progress, TakenFollows, FilesOK,
       HistoryOK, ScannersOK, ScannerState, ClientsOK, ClientState
  <1>22. ASSUME NEW c \in Clients, DeleteRow(c) PROVE TakenFollows'
    BY <1>0, <1>u, Values, IdsAre, <1>22 DEF DeleteRow, DbFails, Faults, IdleClient,
       files, history, OneOwner, Unused, Fresh, Busy, IsRow, NoRow, TablesOK, Mutex,
       Rowed, Live, Threat, Progress, TakenFollows, FilesOK, HistoryOK, ScannersOK,
       ScannerState, ClientsOK, ClientState
  <1>23. CASE Crash
    BY <1>0, <1>u, Values, IdsAre, <1>23 DEF Crash, Faults, Written, Becomes,
       IdleScanner, IdleClient, OneOwner, Unused, Fresh, Busy, IsRow, NoRow,
       TablesOK, Mutex, Rowed, Live, Threat, Progress, TakenFollows, FilesOK,
       HistoryOK, ScannersOK, ScannerState, ClientsOK, ClientState
  <1>24. CASE UNCHANGED vars
    BY <1>0, <1>u, Values, IdsAre, <1>24 DEF vars, OneOwner, Unused, Fresh, Busy,
       IsRow, NoRow, TablesOK, Mutex, Rowed, Live, Threat, Progress, TakenFollows,
       FilesOK, HistoryOK, ScannersOK, ScannerState, ClientsOK, ClientState
  <1> QED
    BY <1>1, <1>2, <1>3, <1>4, <1>5, <1>6, <1>7, <1>8, <1>9, <1>10, <1>11, <1>12,
       <1>13, <1>14, <1>15, <1>16, <1>17, <1>18, <1>19, <1>20, <1>21, <1>22, <1>23,
       <1>24 DEF Next, ScannerStep, ClientStep

(* A row stays restorable until its own connection removes it.             *)
LEMMA RowsTellStep ==
    ASSUME TypeOK, Faulty, [Next]_vars, Undisturbed', Mutex, Rowed, OneOwner,
           Unused, StatusesFollow, TakenFollows, RowsTell, RowsOnce
    PROVE  RowsTell'
  <1>0. FilesOK /\ TablesOK /\ ScannersOK /\ ClientsOK /\ CountsOK /\ HistoryOK
    BY TypeParts DEF Typed
  <1>u. Undisturbed /\ shared = {} /\ used'["db"] = 0 /\ used'["crashes"] = 0
        /\ used["db"] = 0 /\ used["crashes"] = 0
    BY StillCalm
  <1>1. ASSUME NEW p \in Paths, WriteFile(p) PROVE RowsTell'
    BY <1>0, <1>u, Values, IdsAre, <1>1 DEF WriteFile, tables, OneOwner, Unused,
       Fresh, Busy, IsRow, NoRow, TablesOK, Mutex, Rowed, Live, Threat,
       StatusesFollow, TakenFollows, RowsTell, RowsOnce, Restorable, Going, FilesOK,
       HistoryOK, ScannersOK, ScannerState, ClientsOK, ClientState
  <1>2. ASSUME NEW p \in Paths, RemoveFile(p) PROVE RowsTell'
    BY <1>0, <1>u, Values, IdsAre, <1>2 DEF RemoveFile, tables, OneOwner, Unused,
       Fresh, Busy, IsRow, NoRow, TablesOK, Mutex, Rowed, Live, Threat,
       StatusesFollow, TakenFollows, RowsTell, RowsOnce, Restorable, Going, FilesOK,
       HistoryOK, ScannersOK, ScannerState, ClientsOK, ClientState
  <1>3. ASSUME NEW s \in Scanners, NEW p \in Paths, Detect(s, p) PROVE RowsTell'
    BY <1>0, <1>u, Values, IdsAre, <1>3 DEF Detect, IdleScanner, files, tables,
       history, OneOwner, Unused, Fresh, Busy, IsRow, NoRow, TablesOK, Mutex, Rowed,
       Live, Threat, StatusesFollow, TakenFollows, RowsTell, RowsOnce, Restorable,
       Going, FilesOK, HistoryOK, ScannersOK, ScannerState, ClientsOK, ClientState
  <1>4. ASSUME NEW s \in Scanners, InsertThreat(s) PROVE RowsTell'
    BY <1>0, <1>u, Values, IdsAre, <1>4 DEF InsertThreat, DbFails, Faults, files,
       OneOwner, Unused, Fresh, Busy, IsRow, NoRow, TablesOK, Mutex, Rowed, Live,
       Threat, StatusesFollow, TakenFollows, RowsTell, RowsOnce, Restorable, Going,
       FilesOK, HistoryOK, ScannersOK, ScannerState, ClientsOK, ClientState
  <1>5. ASSUME NEW s \in Scanners, PutFails(s) PROVE RowsTell'
    BY <1>0, <1>u, Values, IdsAre, <1>5 DEF PutFails, IoFails, Faults, GivesUp,
       IdleScanner, files, tables, history, OneOwner, Unused, Fresh, Busy, IsRow,
       NoRow, TablesOK, Mutex, Rowed, Live, Threat, StatusesFollow, TakenFollows,
       RowsTell, RowsOnce, Restorable, Going, FilesOK, HistoryOK, ScannersOK,
       ScannerState, ClientsOK, ClientState
  <1>6. ASSUME NEW s \in Scanners, Rename(s) PROVE RowsTell'
    BY <1>0, <1>u, Values, IdsAre, <1>6 DEF Rename, Takes, Misfiles, Goes, tables,
       OneOwner, Unused, Fresh, Busy, IsRow, NoRow, TablesOK, Mutex, Rowed, Live,
       Threat, StatusesFollow, TakenFollows, RowsTell, RowsOnce, Restorable, Going,
       FilesOK, HistoryOK, ScannersOK, ScannerState, ClientsOK, ClientState
  <1>7. ASSUME NEW s \in Scanners, StartCopy(s) PROVE RowsTell'
    <2> DEFINE i == scanner[s].id
    <2>1. /\ blob' = [blob EXCEPT ![i] = blob'[i]] /\ i \in Ids /\ Busy(s)
          /\ UNCHANGED <<rows, status, taken, db>>
          /\ \A c \in Clients : client'[c].at = client[c].at
                                /\ client'[c].row = client[c].row
      BY <1>0, <1>7 DEF StartCopy, tables, history, Busy, ScannersOK, ScannerState,
                       ClientsOK, ClientState, FilesOK
    <2>2. \A r \in 1..MaxIds : IsRow(r) => rows[r].threat \in Ids /\ rows[r].threat # i
      BY <1>0, <1>u, <2>1 DEF OneOwner, IsRow, TablesOK
    <2>3. \A j \in Ids : j # i => blob'[j] = blob[j]
      BY <1>0, <2>1 DEF FilesOK
    <2> HIDE DEF i
    <2> QED BY <2>1, <2>2, <2>3 DEF RowsTell, IsRow, Restorable, Going
  <1>8. ASSUME NEW s \in Scanners, EndCopy(s) PROVE RowsTell'
    <2> DEFINE i == scanner[s].id
    <2>1. /\ blob' = [blob EXCEPT ![i] = blob'[i]] /\ i \in Ids /\ Busy(s)
          /\ UNCHANGED <<rows, status, taken, db>>
          /\ \A c \in Clients : client'[c].at = client[c].at
                                /\ client'[c].row = client[c].row
      BY <1>0, <1>8 DEF EndCopy, Goes, tables, history, Busy, ScannersOK, ScannerState,
                       ClientsOK, ClientState, FilesOK
    <2>2. \A r \in 1..MaxIds : IsRow(r) => rows[r].threat \in Ids /\ rows[r].threat # i
      BY <1>0, <1>u, <2>1 DEF OneOwner, IsRow, TablesOK
    <2>3. \A j \in Ids : j # i => blob'[j] = blob[j]
      BY <1>0, <2>1 DEF FilesOK
    <2> HIDE DEF i
    <2> QED BY <2>1, <2>2, <2>3 DEF RowsTell, IsRow, Restorable, Going
  <1>9. ASSUME NEW s \in Scanners, Unlink(s) PROVE RowsTell'
    BY <1>0, <1>u, Values, IdsAre, <1>9 DEF Unlink, Takes, tables, OneOwner, Unused,
       Fresh, Busy, IsRow, NoRow, TablesOK, Mutex, Rowed, Live, Threat,
       StatusesFollow, TakenFollows, RowsTell, RowsOnce, Restorable, Going, FilesOK,
       HistoryOK, ScannersOK, ScannerState, ClientsOK, ClientState
  <1>10. ASSUME NEW s \in Scanners, UnlinkGone(s) PROVE RowsTell'
    BY <1>0, <1>u, Values, IdsAre, <1>10 DEF UnlinkGone, GivesUp, IdleScanner,
       files, tables, history, OneOwner, Unused, Fresh, Busy, IsRow, NoRow,
       TablesOK, Mutex, Rowed, Live, Threat, StatusesFollow, TakenFollows, RowsTell,
       RowsOnce, Restorable, Going, FilesOK, HistoryOK, ScannersOK, ScannerState,
       ClientsOK, ClientState
  <1>11. ASSUME NEW s \in Scanners, Chmod(s) PROVE RowsTell'
    BY <1>0, <1>u, Values, IdsAre, <1>11 DEF Chmod, Goes, tables, history, OneOwner,
       Unused, Fresh, Busy, IsRow, NoRow, TablesOK, Mutex, Rowed, Live, Threat,
       StatusesFollow, TakenFollows, RowsTell, RowsOnce, Restorable, Going, FilesOK,
       HistoryOK, ScannersOK, ScannerState, ClientsOK, ClientState
  <1>12. ASSUME NEW s \in Scanners, SetQuarantined(s) PROVE RowsTell'
    BY <1>0, <1>u, Values, IdsAre, <1>12 DEF SetQuarantined, DbFails, Faults, Goes,
       files, history, OneOwner, Unused, Fresh, Busy, IsRow, NoRow, TablesOK, Mutex,
       Rowed, Live, Threat, StatusesFollow, TakenFollows, RowsTell, RowsOnce,
       Restorable, Going, FilesOK, HistoryOK, ScannersOK, ScannerState, ClientsOK,
       ClientState
  <1>13. ASSUME NEW s \in Scanners, InsertQuarantine(s) PROVE RowsTell'
    BY SMTT(30), <1>0, <1>u, Values, IdsAre, <1>13 DEF InsertQuarantine, DbFails,
       Faults, GivesUp, IdleScanner, files, history, OneOwner, Unused, Fresh, Busy,
       IsRow, NoRow, TablesOK, Mutex, Rowed, Live, Threat, StatusesFollow,
       TakenFollows, RowsTell, RowsOnce, Restorable, Going, FilesOK, HistoryOK,
       ScannersOK, ScannerState, ClientsOK, ClientState
  <1>14. ASSUME NEW c \in Clients, NEW op \in {"restore", "delete"},
               NEW r \in 1..MaxIds, Ask(c, op, r) PROVE RowsTell'
    BY <1>0, <1>u, Values, IdsAre, <1>14 DEF Ask, MutexFree, IdleClient, files,
       tables, OneOwner, Unused, Fresh, Busy, IsRow, NoRow, TablesOK, Mutex, Rowed,
       Live, Threat, StatusesFollow, TakenFollows, RowsTell, RowsOnce, Restorable,
       Going, FilesOK, HistoryOK, ScannersOK, ScannerState, ClientsOK, ClientState
  <1>15. ASSUME NEW c \in Clients, MakeReadable(c) PROVE RowsTell'
    BY <1>0, <1>u, Values, IdsAre, <1>15 DEF MakeReadable, At, tables, history,
       OneOwner, Unused, Fresh, Busy, IsRow, NoRow, TablesOK, Mutex, Rowed, Live,
       Threat, StatusesFollow, TakenFollows, RowsTell, RowsOnce, Restorable, Going,
       FilesOK, HistoryOK, ScannersOK, ScannerState, ClientsOK, ClientState
  <1>16. ASSUME NEW c \in Clients, StartCopyBack(c) PROVE RowsTell'
    BY <1>0, <1>u, Values, IdsAre, <1>16 DEF StartCopyBack, Truncated, Threat, Home,
       tables, OneOwner, Unused, Fresh, Busy, IsRow, NoRow, TablesOK, Mutex, Rowed,
       Live, Threat, StatusesFollow, TakenFollows, RowsTell, RowsOnce, Restorable,
       Going, FilesOK, HistoryOK, ScannersOK, ScannerState, ClientsOK, ClientState
  <1>17. ASSUME NEW c \in Clients, EndCopyBack(c) PROVE RowsTell'
    BY <1>0, <1>u, Values, IdsAre, <1>17 DEF EndCopyBack, Written, Becomes, tables,
       OneOwner, Unused, Fresh, Busy, IsRow, NoRow, TablesOK, Mutex, Rowed, Live,
       Threat, StatusesFollow, TakenFollows, RowsTell, RowsOnce, Restorable, Going,
       FilesOK, HistoryOK, ScannersOK, ScannerState, ClientsOK, ClientState
  <1>18. ASSUME NEW c \in Clients, RestoreMode(c) PROVE RowsTell'
    BY <1>0, <1>u, Values, IdsAre, <1>18 DEF RestoreMode, At, files, tables,
       history, OneOwner, Unused, Fresh, Busy, IsRow, NoRow, TablesOK, Mutex, Rowed,
       Live, Threat, StatusesFollow, TakenFollows, RowsTell, RowsOnce, Restorable,
       Going, FilesOK, HistoryOK, ScannersOK, ScannerState, ClientsOK, ClientState
  <1>19. ASSUME NEW c \in Clients, RemoveBlob(c) PROVE RowsTell'
    BY <1>0, <1>u, Values, IdsAre, <1>19 DEF RemoveBlob, At, Threat, tables,
       history, OneOwner, Unused, Fresh, Busy, IsRow, NoRow, TablesOK, Mutex, Rowed,
       Live, Threat, StatusesFollow, TakenFollows, RowsTell, RowsOnce, Restorable,
       Going, FilesOK, HistoryOK, ScannersOK, ScannerState, ClientsOK, ClientState
  <1>20. ASSUME NEW c \in Clients, CallFails(c) PROVE RowsTell'
    BY <1>0, <1>u, Values, IdsAre, <1>20 DEF CallFails, IoFails, Faults, Written,
       Becomes, IdleClient, tables, OneOwner, Unused, Fresh, Busy, IsRow, NoRow,
       TablesOK, Mutex, Rowed, Live, Threat, StatusesFollow, TakenFollows, RowsTell,
       RowsOnce, Restorable, Going, FilesOK, HistoryOK, ScannersOK, ScannerState,
       ClientsOK, ClientState
  <1>21. ASSUME NEW c \in Clients, SetStatus(c) PROVE RowsTell'
    <2> DEFINE k == Threat(c)
               x == client[c].row
    <2>1. /\ Live(c) /\ x \in 1..MaxIds /\ IsRow(x) /\ db = c /\ rows[x].threat = k
          /\ client[c].row = x
      BY <1>0, <1>21 DEF SetStatus, Live, Mutex, Rowed, ClientsOK, Threat
    <2>a. k \in Ids
      BY <1>0, <2>1, ClientKnows DEF Live
    <2>2. ~DbFails
      BY <1>0, <1>u DEF DbFails, Faults, CountsOK
    <2>3. \A r \in 1..MaxIds : IsRow(r) /\ r # x => rows[r].threat # k
      BY <2>1 DEF RowsOnce
    <2>4. \A d \in Clients : d # c => client'[d] = client[d] /\ ~Live(d)
      BY <1>0, <2>1, <1>21 DEF SetStatus, At, Mutex, ClientsOK
    <2>5. /\ client'[c].at = "row" /\ client'[c].row = x /\ UNCHANGED <<rows, db, blob, taken>>
          /\ status' = [status EXCEPT ![k] = StatusAfter(c)]
      BY <1>0, <2>2, <1>21 DEF SetStatus, At, files, history, ClientsOK, ClientState
    <2>6. /\ status'[k] # "quarantined" /\ \A j \in Ids : j # k => status'[j] = status[j]
          /\ \A r \in 1..MaxIds : IsRow(r) => rows[r].threat \in Ids
      BY <1>0, <2>5, <2>a DEF StatusAfter, TablesOK, IsRow
    <2> HIDE DEF k, x
    <2> QED
      BY <2>1, <2>3, <2>4, <2>5, <2>6 DEF RowsTell, IsRow, Restorable, Going, Live
  <1>22. ASSUME NEW c \in Clients, DeleteRow(c) PROVE RowsTell'
    <2> DEFINE k == Threat(c)
               x == client[c].row
    <2>1. /\ Live(c) /\ x \in 1..MaxIds /\ IsRow(x) /\ db = c /\ rows[x].threat = k
          /\ client[c].row = x
      BY <1>0, <1>22 DEF DeleteRow, Live, Mutex, Rowed, ClientsOK, Threat
    <2>a. k \in Ids
      BY <1>0, <2>1, ClientKnows DEF Live
    <2>2. ~DbFails
      BY <1>0, <1>u DEF DbFails, Faults, CountsOK
    <2>3. \A r \in 1..MaxIds : IsRow(r) /\ r # x => rows[r].threat # k
      BY <2>1 DEF RowsOnce
    <2>4. \A d \in Clients : d # c => client'[d] = client[d] /\ ~Live(d)
      BY <1>0, <2>1, <1>22 DEF DeleteRow, Mutex, ClientsOK
    <2>5. rows' = [rows EXCEPT ![x] = NoRow] /\ UNCHANGED <<status, blob, taken>>
      BY <2>2, <1>22 DEF DeleteRow, files, history
    <2>6. /\ rows'[x] = NoRow /\ \A r \in 1..MaxIds : r # x => rows'[r] = rows[r]
      BY <1>0, <2>1, <2>5 DEF TablesOK, IsRow
    <2> HIDE DEF k, x
    <2>7. \A r \in 1..MaxIds : IsRow(r) /\ r # x => Restorable(r)
      BY <2>1, <2>4 DEF RowsTell, Going, Live, Mutex
    <2> QED BY <2>5, <2>6, <2>7 DEF RowsTell, IsRow, Restorable
  <1>23. CASE Crash
    BY <1>0, <1>u, <1>23 DEF Crash, Faults, CountsOK
  <1>24. CASE UNCHANGED vars
    BY <1>0, <1>u, Values, IdsAre, <1>24 DEF vars, OneOwner, Unused, Fresh, Busy,
       IsRow, NoRow, TablesOK, Mutex, Rowed, Live, Threat, StatusesFollow,
       TakenFollows, RowsTell, RowsOnce, Restorable, Going, FilesOK, HistoryOK,
       ScannersOK, ScannerState, ClientsOK, ClientState
  <1> QED
    BY <1>1, <1>2, <1>3, <1>4, <1>5, <1>6, <1>7, <1>8, <1>9, <1>10, <1>11, <1>12,
       <1>13, <1>14, <1>15, <1>16, <1>17, <1>18, <1>19, <1>20, <1>21, <1>22, <1>23,
       <1>24 DEF Next, ScannerStep, ClientStep

(* A row goes after its threat no longer counts as quarantined.            *)
LEMMA RowsGoStep ==
    ASSUME TypeOK, Faulty, [Next]_vars, Undisturbed', Mutex, Rowed, Unused,
           RowsGo
    PROVE  RowsGo'
  <1>0. FilesOK /\ TablesOK /\ ScannersOK /\ ClientsOK /\ CountsOK /\ HistoryOK
    BY TypeParts DEF Typed
  <1>u. Undisturbed /\ shared = {} /\ used'["db"] = 0 /\ used'["crashes"] = 0
        /\ used["db"] = 0 /\ used["crashes"] = 0
    BY StillCalm
  <1>1. ASSUME NEW p \in Paths, WriteFile(p) PROVE RowsGo'
    BY <1>0, <1>u, Values, IdsAre, <1>1 DEF WriteFile, tables, OneOwner, Unused,
       Fresh, Busy, IsRow, NoRow, TablesOK, Mutex, Rowed, Live, Threat, RowsGo,
       StatusAfter, ScannersOK, ScannerState, ClientsOK, ClientState
  <1>2. ASSUME NEW p \in Paths, RemoveFile(p) PROVE RowsGo'
    BY <1>0, <1>u, Values, IdsAre, <1>2 DEF RemoveFile, tables, OneOwner, Unused,
       Fresh, Busy, IsRow, NoRow, TablesOK, Mutex, Rowed, Live, Threat, RowsGo,
       StatusAfter, ScannersOK, ScannerState, ClientsOK, ClientState
  <1>3. ASSUME NEW s \in Scanners, NEW p \in Paths, Detect(s, p) PROVE RowsGo'
    BY <1>0, <1>u, Values, IdsAre, <1>3 DEF Detect, IdleScanner, files, tables,
       history, OneOwner, Unused, Fresh, Busy, IsRow, NoRow, TablesOK, Mutex, Rowed,
       Live, Threat, RowsGo, StatusAfter, ScannersOK, ScannerState, ClientsOK,
       ClientState
  <1>4. ASSUME NEW s \in Scanners, InsertThreat(s) PROVE RowsGo'
    BY <1>0, <1>u, Values, IdsAre, <1>4 DEF InsertThreat, DbFails, Faults, files,
       OneOwner, Unused, Fresh, Busy, IsRow, NoRow, TablesOK, Mutex, Rowed, Live,
       Threat, RowsGo, StatusAfter, ScannersOK, ScannerState, ClientsOK, ClientState
  <1>5. ASSUME NEW s \in Scanners, PutFails(s) PROVE RowsGo'
    BY <1>0, <1>u, Values, IdsAre, <1>5 DEF PutFails, IoFails, Faults, GivesUp,
       IdleScanner, files, tables, history, OneOwner, Unused, Fresh, Busy, IsRow,
       NoRow, TablesOK, Mutex, Rowed, Live, Threat, RowsGo, StatusAfter, ScannersOK,
       ScannerState, ClientsOK, ClientState
  <1>6. ASSUME NEW s \in Scanners, Rename(s) PROVE RowsGo'
    BY <1>0, <1>u, Values, IdsAre, <1>6 DEF Rename, Takes, Misfiles, Goes, tables,
       OneOwner, Unused, Fresh, Busy, IsRow, NoRow, TablesOK, Mutex, Rowed, Live,
       Threat, RowsGo, StatusAfter, ScannersOK, ScannerState, ClientsOK, ClientState
  <1>7. ASSUME NEW s \in Scanners, StartCopy(s) PROVE RowsGo'
    BY <1>0, <1>u, Values, IdsAre, <1>7 DEF StartCopy, Misfiles, tables, OneOwner,
       Unused, Fresh, Busy, IsRow, NoRow, TablesOK, Mutex, Rowed, Live, Threat,
       RowsGo, StatusAfter, ScannersOK, ScannerState, ClientsOK, ClientState
  <1>8. ASSUME NEW s \in Scanners, EndCopy(s) PROVE RowsGo'
    BY <1>0, <1>u, Values, IdsAre, <1>8 DEF EndCopy, Goes, tables, history,
       OneOwner, Unused, Fresh, Busy, IsRow, NoRow, TablesOK, Mutex, Rowed, Live,
       Threat, RowsGo, StatusAfter, ScannersOK, ScannerState, ClientsOK, ClientState
  <1>9. ASSUME NEW s \in Scanners, Unlink(s) PROVE RowsGo'
    BY <1>0, <1>u, Values, IdsAre, <1>9 DEF Unlink, Takes, tables, OneOwner, Unused,
       Fresh, Busy, IsRow, NoRow, TablesOK, Mutex, Rowed, Live, Threat, RowsGo,
       StatusAfter, ScannersOK, ScannerState, ClientsOK, ClientState
  <1>10. ASSUME NEW s \in Scanners, UnlinkGone(s) PROVE RowsGo'
    BY <1>0, <1>u, Values, IdsAre, <1>10 DEF UnlinkGone, GivesUp, IdleScanner,
       files, tables, history, OneOwner, Unused, Fresh, Busy, IsRow, NoRow,
       TablesOK, Mutex, Rowed, Live, Threat, RowsGo, StatusAfter, ScannersOK,
       ScannerState, ClientsOK, ClientState
  <1>11. ASSUME NEW s \in Scanners, Chmod(s) PROVE RowsGo'
    BY <1>0, <1>u, Values, IdsAre, <1>11 DEF Chmod, Goes, tables, history, OneOwner,
       Unused, Fresh, Busy, IsRow, NoRow, TablesOK, Mutex, Rowed, Live, Threat,
       RowsGo, StatusAfter, ScannersOK, ScannerState, ClientsOK, ClientState
  <1>12. ASSUME NEW s \in Scanners, SetQuarantined(s) PROVE RowsGo'
    BY <1>0, <1>u, Values, IdsAre, <1>12 DEF SetQuarantined, DbFails, Faults, Goes,
       files, history, OneOwner, Unused, Fresh, Busy, IsRow, NoRow, TablesOK, Mutex,
       Rowed, Live, Threat, RowsGo, StatusAfter, ScannersOK, ScannerState,
       ClientsOK, ClientState
  <1>13. ASSUME NEW s \in Scanners, InsertQuarantine(s) PROVE RowsGo'
    BY SMTT(30), <1>0, <1>u, Values, IdsAre, <1>13 DEF InsertQuarantine, DbFails,
       Faults, GivesUp, IdleScanner, files, history, OneOwner, Unused, Fresh, Busy,
       IsRow, NoRow, TablesOK, Mutex, Rowed, Live, Threat, RowsGo, StatusAfter,
       ScannersOK, ScannerState, ClientsOK, ClientState
  <1>14. ASSUME NEW c \in Clients, NEW op \in {"restore", "delete"},
               NEW r \in 1..MaxIds, Ask(c, op, r) PROVE RowsGo'
    BY <1>0, <1>u, Values, IdsAre, <1>14 DEF Ask, MutexFree, IdleClient, files,
       tables, OneOwner, Unused, Fresh, Busy, IsRow, NoRow, TablesOK, Mutex, Rowed,
       Live, Threat, RowsGo, StatusAfter, ScannersOK, ScannerState, ClientsOK,
       ClientState
  <1>15. ASSUME NEW c \in Clients, MakeReadable(c) PROVE RowsGo'
    BY <1>0, <1>u, Values, IdsAre, <1>15 DEF MakeReadable, At, tables, history,
       OneOwner, Unused, Fresh, Busy, IsRow, NoRow, TablesOK, Mutex, Rowed, Live,
       Threat, RowsGo, StatusAfter, ScannersOK, ScannerState, ClientsOK, ClientState
  <1>16. ASSUME NEW c \in Clients, StartCopyBack(c) PROVE RowsGo'
    BY <1>0, <1>u, Values, IdsAre, <1>16 DEF StartCopyBack, Truncated, Threat, Home,
       tables, OneOwner, Unused, Fresh, Busy, IsRow, NoRow, TablesOK, Mutex, Rowed,
       Live, Threat, RowsGo, StatusAfter, ScannersOK, ScannerState, ClientsOK,
       ClientState
  <1>17. ASSUME NEW c \in Clients, EndCopyBack(c) PROVE RowsGo'
    BY <1>0, <1>u, Values, IdsAre, <1>17 DEF EndCopyBack, Written, Becomes, tables,
       OneOwner, Unused, Fresh, Busy, IsRow, NoRow, TablesOK, Mutex, Rowed, Live,
       Threat, RowsGo, StatusAfter, ScannersOK, ScannerState, ClientsOK, ClientState
  <1>18. ASSUME NEW c \in Clients, RestoreMode(c) PROVE RowsGo'
    BY <1>0, <1>u, Values, IdsAre, <1>18 DEF RestoreMode, At, files, tables,
       history, OneOwner, Unused, Fresh, Busy, IsRow, NoRow, TablesOK, Mutex, Rowed,
       Live, Threat, RowsGo, StatusAfter, ScannersOK, ScannerState, ClientsOK,
       ClientState
  <1>19. ASSUME NEW c \in Clients, RemoveBlob(c) PROVE RowsGo'
    BY <1>0, <1>u, Values, IdsAre, <1>19 DEF RemoveBlob, At, Threat, tables,
       history, OneOwner, Unused, Fresh, Busy, IsRow, NoRow, TablesOK, Mutex, Rowed,
       Live, Threat, RowsGo, StatusAfter, ScannersOK, ScannerState, ClientsOK,
       ClientState
  <1>20. ASSUME NEW c \in Clients, CallFails(c) PROVE RowsGo'
    BY <1>0, <1>u, Values, IdsAre, <1>20 DEF CallFails, IoFails, Faults, Written,
       Becomes, IdleClient, tables, OneOwner, Unused, Fresh, Busy, IsRow, NoRow,
       TablesOK, Mutex, Rowed, Live, Threat, RowsGo, StatusAfter, ScannersOK,
       ScannerState, ClientsOK, ClientState
  <1>21. ASSUME NEW c \in Clients, SetStatus(c) PROVE RowsGo'
    <2> DEFINE k == Threat(c)
               x == client[c].row
    <2>1. /\ Live(c) /\ x \in 1..MaxIds /\ IsRow(x) /\ db = c /\ rows[x].threat = k
          /\ client[c].row = x
      BY <1>0, <1>21 DEF SetStatus, Live, Mutex, Rowed, ClientsOK, Threat
    <2>a. k \in Ids
      BY <1>0, <2>1, ClientKnows DEF Live
    <2>2. ~DbFails
      BY <1>0, <1>u DEF DbFails, Faults, CountsOK
    <2>4. \A d \in Clients : d # c => client'[d] = client[d] /\ ~Live(d)
      BY <1>0, <2>1, <1>21 DEF SetStatus, At, Mutex, ClientsOK
    <2>5. status' = [status EXCEPT ![k] = StatusAfter(c)] /\ UNCHANGED <<rows, db>>
          /\ client'[c].at = "row" /\ client'[c].row = x
      BY <1>0, <2>2, <1>21 DEF SetStatus, At, files, history, ClientsOK, ClientState
    <2>6. status'[k] # "quarantined"
      BY <1>0, <2>5, <2>a DEF StatusAfter, TablesOK
    <2> HIDE DEF k, x
    <2> QED BY <2>1, <2>4, <2>5, <2>6 DEF RowsGo, Threat, Live
  <1>22. ASSUME NEW c \in Clients, DeleteRow(c) PROVE RowsGo'
    BY <1>0, <1>u, Values, IdsAre, <1>22 DEF DeleteRow, DbFails, Faults, IdleClient,
       files, history, OneOwner, Unused, Fresh, Busy, IsRow, NoRow, TablesOK, Mutex,
       Rowed, Live, Threat, RowsGo, StatusAfter, ScannersOK, ScannerState,
       ClientsOK, ClientState
  <1>23. CASE Crash
    BY <1>0, <1>u, Values, IdsAre, <1>23 DEF Crash, Faults, Written, Becomes,
       IdleScanner, IdleClient, OneOwner, Unused, Fresh, Busy, IsRow, NoRow,
       TablesOK, Mutex, Rowed, Live, Threat, RowsGo, StatusAfter, ScannersOK,
       ScannerState, ClientsOK, ClientState
  <1>24. CASE UNCHANGED vars
    BY <1>0, <1>u, Values, IdsAre, <1>24 DEF vars, OneOwner, Unused, Fresh, Busy,
       IsRow, NoRow, TablesOK, Mutex, Rowed, Live, Threat, RowsGo, StatusAfter,
       ScannersOK, ScannerState, ClientsOK, ClientState
  <1> QED
    BY <1>1, <1>2, <1>3, <1>4, <1>5, <1>6, <1>7, <1>8, <1>9, <1>10, <1>11, <1>12,
       <1>13, <1>14, <1>15, <1>16, <1>17, <1>18, <1>19, <1>20, <1>21, <1>22, <1>23,
       <1>24 DEF Next, ScannerStep, ClientStep

(* A threat gets one row.                                                  *)
LEMMA RowsOnceStep ==
    ASSUME TypeOK, Faulty, [Next]_vars, Undisturbed', OneOwner, RowsOnce
    PROVE  RowsOnce'
  <1>0. FilesOK /\ TablesOK /\ ScannersOK /\ ClientsOK /\ CountsOK /\ HistoryOK
    BY TypeParts DEF Typed
  <1>u. Undisturbed /\ shared = {} /\ used'["db"] = 0 /\ used'["crashes"] = 0
        /\ used["db"] = 0 /\ used["crashes"] = 0
    BY StillCalm
  <1>1. ASSUME NEW p \in Paths, WriteFile(p) PROVE RowsOnce'
    BY <1>0, <1>u, Values, IdsAre, <1>1 DEF WriteFile, tables, OneOwner, Busy,
       IsRow, NoRow, TablesOK, RowsOnce, ScannersOK, ScannerState
  <1>2. ASSUME NEW p \in Paths, RemoveFile(p) PROVE RowsOnce'
    BY <1>0, <1>u, Values, IdsAre, <1>2 DEF RemoveFile, tables, OneOwner, Busy,
       IsRow, NoRow, TablesOK, RowsOnce, ScannersOK, ScannerState
  <1>3. ASSUME NEW s \in Scanners, NEW p \in Paths, Detect(s, p) PROVE RowsOnce'
    BY <1>0, <1>u, Values, IdsAre, <1>3 DEF Detect, IdleScanner, files, tables,
       history, OneOwner, Busy, IsRow, NoRow, TablesOK, RowsOnce, ScannersOK,
       ScannerState
  <1>4. ASSUME NEW s \in Scanners, InsertThreat(s) PROVE RowsOnce'
    BY <1>0, <1>u, Values, IdsAre, <1>4 DEF InsertThreat, DbFails, Faults, files,
       OneOwner, Busy, IsRow, NoRow, TablesOK, RowsOnce, ScannersOK, ScannerState
  <1>5. ASSUME NEW s \in Scanners, PutFails(s) PROVE RowsOnce'
    BY <1>0, <1>u, Values, IdsAre, <1>5 DEF PutFails, IoFails, Faults, GivesUp,
       IdleScanner, files, tables, history, OneOwner, Busy, IsRow, NoRow, TablesOK,
       RowsOnce, ScannersOK, ScannerState
  <1>6. ASSUME NEW s \in Scanners, Rename(s) PROVE RowsOnce'
    BY <1>0, <1>u, Values, IdsAre, <1>6 DEF Rename, Takes, Misfiles, Goes, tables,
       OneOwner, Busy, IsRow, NoRow, TablesOK, RowsOnce, ScannersOK, ScannerState
  <1>7. ASSUME NEW s \in Scanners, StartCopy(s) PROVE RowsOnce'
    BY <1>0, <1>u, Values, IdsAre, <1>7 DEF StartCopy, Misfiles, tables, OneOwner,
       Busy, IsRow, NoRow, TablesOK, RowsOnce, ScannersOK, ScannerState
  <1>8. ASSUME NEW s \in Scanners, EndCopy(s) PROVE RowsOnce'
    BY <1>0, <1>u, Values, IdsAre, <1>8 DEF EndCopy, Goes, tables, history,
       OneOwner, Busy, IsRow, NoRow, TablesOK, RowsOnce, ScannersOK, ScannerState
  <1>9. ASSUME NEW s \in Scanners, Unlink(s) PROVE RowsOnce'
    BY <1>0, <1>u, Values, IdsAre, <1>9 DEF Unlink, Takes, tables, OneOwner, Busy,
       IsRow, NoRow, TablesOK, RowsOnce, ScannersOK, ScannerState
  <1>10. ASSUME NEW s \in Scanners, UnlinkGone(s) PROVE RowsOnce'
    BY <1>0, <1>u, Values, IdsAre, <1>10 DEF UnlinkGone, GivesUp, IdleScanner,
       files, tables, history, OneOwner, Busy, IsRow, NoRow, TablesOK, RowsOnce,
       ScannersOK, ScannerState
  <1>11. ASSUME NEW s \in Scanners, Chmod(s) PROVE RowsOnce'
    BY <1>0, <1>u, Values, IdsAre, <1>11 DEF Chmod, Goes, tables, history, OneOwner,
       Busy, IsRow, NoRow, TablesOK, RowsOnce, ScannersOK, ScannerState
  <1>12. ASSUME NEW s \in Scanners, SetQuarantined(s) PROVE RowsOnce'
    BY <1>0, <1>u, Values, IdsAre, <1>12 DEF SetQuarantined, DbFails, Faults, Goes,
       files, history, OneOwner, Busy, IsRow, NoRow, TablesOK, RowsOnce, ScannersOK,
       ScannerState
  <1>13. ASSUME NEW s \in Scanners, InsertQuarantine(s) PROVE RowsOnce'
    <2>1. /\ added + 1 \in 1..MaxIds /\ Busy(s)
          /\ rows'[added + 1].threat = scanner[s].id
          /\ \A r \in 1..MaxIds : r # added + 1 => rows'[r] = rows[r]
      BY <1>u, <1>13, NewRow DEF Busy
    <2>2. \A r \in 1..MaxIds : IsRow(r) => rows[r].threat # scanner[s].id
      BY <1>u, <2>1 DEF OneOwner
    <2> QED BY <2>1, <2>2 DEF RowsOnce, IsRow
  <1>14. ASSUME NEW c \in Clients, NEW op \in {"restore", "delete"},
               NEW r \in 1..MaxIds, Ask(c, op, r) PROVE RowsOnce'
    BY <1>0, <1>u, Values, IdsAre, <1>14 DEF Ask, MutexFree, IdleClient, files,
       tables, OneOwner, Busy, IsRow, NoRow, TablesOK, RowsOnce, ScannersOK,
       ScannerState
  <1>15. ASSUME NEW c \in Clients, MakeReadable(c) PROVE RowsOnce'
    BY <1>0, <1>u, Values, IdsAre, <1>15 DEF MakeReadable, At, tables, history,
       OneOwner, Busy, IsRow, NoRow, TablesOK, RowsOnce, ScannersOK, ScannerState
  <1>16. ASSUME NEW c \in Clients, StartCopyBack(c) PROVE RowsOnce'
    BY <1>0, <1>u, Values, IdsAre, <1>16 DEF StartCopyBack, Truncated, Threat, Home,
       tables, OneOwner, Busy, IsRow, NoRow, TablesOK, RowsOnce, ScannersOK,
       ScannerState
  <1>17. ASSUME NEW c \in Clients, EndCopyBack(c) PROVE RowsOnce'
    BY <1>0, <1>u, Values, IdsAre, <1>17 DEF EndCopyBack, Written, Becomes, tables,
       OneOwner, Busy, IsRow, NoRow, TablesOK, RowsOnce, ScannersOK, ScannerState
  <1>18. ASSUME NEW c \in Clients, RestoreMode(c) PROVE RowsOnce'
    BY <1>0, <1>u, Values, IdsAre, <1>18 DEF RestoreMode, At, files, tables,
       history, OneOwner, Busy, IsRow, NoRow, TablesOK, RowsOnce, ScannersOK,
       ScannerState
  <1>19. ASSUME NEW c \in Clients, RemoveBlob(c) PROVE RowsOnce'
    BY <1>0, <1>u, Values, IdsAre, <1>19 DEF RemoveBlob, At, Threat, tables,
       history, OneOwner, Busy, IsRow, NoRow, TablesOK, RowsOnce, ScannersOK,
       ScannerState
  <1>20. ASSUME NEW c \in Clients, CallFails(c) PROVE RowsOnce'
    BY <1>0, <1>u, Values, IdsAre, <1>20 DEF CallFails, IoFails, Faults, Written,
       Becomes, IdleClient, tables, OneOwner, Busy, IsRow, NoRow, TablesOK,
       RowsOnce, ScannersOK, ScannerState
  <1>21. ASSUME NEW c \in Clients, SetStatus(c) PROVE RowsOnce'
    BY <1>0, <1>u, Values, IdsAre, <1>21 DEF SetStatus, DbFails, Faults, At,
       StatusAfter, files, history, OneOwner, Busy, IsRow, NoRow, TablesOK,
       RowsOnce, ScannersOK, ScannerState
  <1>22. ASSUME NEW c \in Clients, DeleteRow(c) PROVE RowsOnce'
    BY SMTT(30), <1>0, <1>u, Values, IdsAre, <1>22 DEF DeleteRow, DbFails, Faults,
       IdleClient, files, history, OneOwner, Busy, IsRow, NoRow, TablesOK, RowsOnce,
       ScannersOK, ScannerState
  <1>23. CASE Crash
    BY <1>0, <1>u, Values, IdsAre, <1>23 DEF Crash, Faults, Written, Becomes,
       IdleScanner, IdleClient, OneOwner, Busy, IsRow, NoRow, TablesOK, RowsOnce,
       ScannersOK, ScannerState
  <1>24. CASE UNCHANGED vars
    BY <1>0, <1>u, Values, IdsAre, <1>24 DEF vars, OneOwner, Busy, IsRow, NoRow,
       TablesOK, RowsOnce, ScannersOK, ScannerState
  <1> QED
    BY <1>1, <1>2, <1>3, <1>4, <1>5, <1>6, <1>7, <1>8, <1>9, <1>10, <1>11, <1>12,
       <1>13, <1>14, <1>15, <1>16, <1>17, <1>18, <1>19, <1>20, <1>21, <1>22, <1>23,
       <1>24 DEF Next, ScannerStep, ClientStep

(* A threat that counts as quarantined keeps its row.                      *)
LEMMA HasRowStep ==
    ASSUME TypeOK, Faulty, [Next]_vars, Undisturbed', Mutex, Rowed, OneOwner,
           Unused, RowsTell, RowsOnce, RowsGo, QuarantinedHasRow
    PROVE  QuarantinedHasRow'
  <1>0. FilesOK /\ TablesOK /\ ScannersOK /\ ClientsOK /\ CountsOK /\ HistoryOK
    BY TypeParts DEF Typed
  <1>u. Undisturbed /\ shared = {} /\ used'["db"] = 0 /\ used'["crashes"] = 0
        /\ used["db"] = 0 /\ used["crashes"] = 0
    BY StillCalm
  <1>1. ASSUME NEW p \in Paths, WriteFile(p) PROVE QuarantinedHasRow'
    BY <1>0, <1>u, Values, IdsAre, <1>1 DEF WriteFile, tables, OneOwner, Unused,
       Fresh, Busy, IsRow, NoRow, TablesOK, Mutex, Rowed, Live, Threat, RowsTell,
       RowsOnce, Restorable, Going, QuarantinedHasRow, ScannersOK, ScannerState,
       ClientsOK, ClientState
  <1>2. ASSUME NEW p \in Paths, RemoveFile(p) PROVE QuarantinedHasRow'
    BY <1>0, <1>u, Values, IdsAre, <1>2 DEF RemoveFile, tables, OneOwner, Unused,
       Fresh, Busy, IsRow, NoRow, TablesOK, Mutex, Rowed, Live, Threat, RowsTell,
       RowsOnce, Restorable, Going, QuarantinedHasRow, ScannersOK, ScannerState,
       ClientsOK, ClientState
  <1>3. ASSUME NEW s \in Scanners, NEW p \in Paths, Detect(s, p) PROVE QuarantinedHasRow'
    BY <1>0, <1>u, Values, IdsAre, <1>3 DEF Detect, IdleScanner, files, tables,
       history, OneOwner, Unused, Fresh, Busy, IsRow, NoRow, TablesOK, Mutex, Rowed,
       Live, Threat, RowsTell, RowsOnce, Restorable, Going, QuarantinedHasRow,
       ScannersOK, ScannerState, ClientsOK, ClientState
  <1>4. ASSUME NEW s \in Scanners, InsertThreat(s) PROVE QuarantinedHasRow'
    <2> DEFINE i == threats + 1
    <2>1. /\ status' = [status EXCEPT ![i] = "detected"] /\ i \in Ids /\ UNCHANGED rows
          /\ \A t \in Scanners : t # s => scanner'[t] = scanner[t]
          /\ scanner[s].at = "insert"
      BY <1>u, <1>4, NewThreat
    <2>2. /\ status'[i] = "detected" /\ \A j \in Ids : j # i => status'[j] = status[j]
      BY <1>0, <2>1 DEF TablesOK
    <2> HIDE DEF i
    <2> QED BY <2>1, <2>2 DEF QuarantinedHasRow, IsRow
  <1>5. ASSUME NEW s \in Scanners, PutFails(s) PROVE QuarantinedHasRow'
    BY <1>0, <1>u, Values, IdsAre, <1>5 DEF PutFails, IoFails, Faults, GivesUp,
       IdleScanner, files, tables, history, OneOwner, Unused, Fresh, Busy, IsRow,
       NoRow, TablesOK, Mutex, Rowed, Live, Threat, RowsTell, RowsOnce, Restorable,
       Going, QuarantinedHasRow, ScannersOK, ScannerState, ClientsOK, ClientState
  <1>6. ASSUME NEW s \in Scanners, Rename(s) PROVE QuarantinedHasRow'
    BY <1>0, <1>u, Values, IdsAre, <1>6 DEF Rename, Takes, Misfiles, Goes, tables,
       OneOwner, Unused, Fresh, Busy, IsRow, NoRow, TablesOK, Mutex, Rowed, Live,
       Threat, RowsTell, RowsOnce, Restorable, Going, QuarantinedHasRow, ScannersOK,
       ScannerState, ClientsOK, ClientState
  <1>7. ASSUME NEW s \in Scanners, StartCopy(s) PROVE QuarantinedHasRow'
    BY ZenonT(60), <1>0, <1>u, Values, IdsAre, <1>7 DEF StartCopy, Misfiles, tables,
       OneOwner, Unused, Fresh, Busy, IsRow, NoRow, TablesOK, Mutex, Rowed, Live,
       Threat, RowsTell, RowsOnce, Restorable, Going, QuarantinedHasRow, ScannersOK,
       ScannerState, ClientsOK, ClientState
  <1>8. ASSUME NEW s \in Scanners, EndCopy(s) PROVE QuarantinedHasRow'
    BY <1>0, <1>u, Values, IdsAre, <1>8 DEF EndCopy, Goes, tables, history,
       OneOwner, Unused, Fresh, Busy, IsRow, NoRow, TablesOK, Mutex, Rowed, Live,
       Threat, RowsTell, RowsOnce, Restorable, Going, QuarantinedHasRow, ScannersOK,
       ScannerState, ClientsOK, ClientState
  <1>9. ASSUME NEW s \in Scanners, Unlink(s) PROVE QuarantinedHasRow'
    BY ZenonT(60), <1>0, <1>u, Values, IdsAre, <1>9 DEF Unlink, Takes, tables, OneOwner,
       Unused, Fresh, Busy, IsRow, NoRow, TablesOK, Mutex, Rowed, Live, Threat,
       RowsTell, RowsOnce, Restorable, Going, QuarantinedHasRow, ScannersOK,
       ScannerState, ClientsOK, ClientState
  <1>10. ASSUME NEW s \in Scanners, UnlinkGone(s) PROVE QuarantinedHasRow'
    BY <1>0, <1>u, Values, IdsAre, <1>10 DEF UnlinkGone, GivesUp, IdleScanner,
       files, tables, history, OneOwner, Unused, Fresh, Busy, IsRow, NoRow,
       TablesOK, Mutex, Rowed, Live, Threat, RowsTell, RowsOnce, Restorable, Going,
       QuarantinedHasRow, ScannersOK, ScannerState, ClientsOK, ClientState
  <1>11. ASSUME NEW s \in Scanners, Chmod(s) PROVE QuarantinedHasRow'
    BY SMTT(30), <1>0, <1>u, Values, IdsAre, <1>11 DEF Chmod, Goes, tables, history,
       OneOwner, Unused, Fresh, Busy, IsRow, NoRow, TablesOK, Mutex, Rowed, Live,
       Threat, RowsTell, RowsOnce, Restorable, Going, QuarantinedHasRow, ScannersOK,
       ScannerState, ClientsOK, ClientState
  <1>12. ASSUME NEW s \in Scanners, SetQuarantined(s) PROVE QuarantinedHasRow'
    <2> DEFINE i == scanner[s].id
    <2>1. ~DbFails
      BY <1>0, <1>u DEF DbFails, Faults, CountsOK
    <2>2. /\ status' = [status EXCEPT ![i] = "quarantined"] /\ i \in Ids
          /\ UNCHANGED rows /\ scanner[s].at = "status"
          /\ \A t \in Scanners : t # s => scanner'[t] = scanner[t]
          /\ scanner'[s].at = "row" /\ scanner'[s].id = i
      BY <1>0, <2>1, <1>12 DEF SetQuarantined, Goes, ScannersOK, ScannerState
    <2>3. \A j \in Ids : j # i => status'[j] = status[j]
      BY <1>0, <2>2 DEF TablesOK
    <2> HIDE DEF i
    <2> QED BY <2>2, <2>3 DEF QuarantinedHasRow, IsRow
  <1>13. ASSUME NEW s \in Scanners, InsertQuarantine(s) PROVE QuarantinedHasRow'
    <2>1. /\ added + 1 \in 1..MaxIds /\ ~IsRow(added + 1) /\ rows'[added + 1] # NoRow
          /\ rows'[added + 1].threat = scanner[s].id
          /\ \A r \in 1..MaxIds : r # added + 1 => rows'[r] = rows[r]
          /\ \A t \in Scanners : t # s => scanner'[t] = scanner[t]
          /\ UNCHANGED status
      BY <1>u, <1>13, NewRow
    <2> QED BY <2>1 DEF QuarantinedHasRow, IsRow
  <1>14. ASSUME NEW c \in Clients, NEW op \in {"restore", "delete"},
               NEW r \in 1..MaxIds, Ask(c, op, r) PROVE QuarantinedHasRow'
    BY <1>0, <1>u, Values, IdsAre, <1>14 DEF Ask, MutexFree, IdleClient, files,
       tables, OneOwner, Unused, Fresh, Busy, IsRow, NoRow, TablesOK, Mutex, Rowed,
       Live, Threat, RowsTell, RowsOnce, Restorable, Going, QuarantinedHasRow,
       ScannersOK, ScannerState, ClientsOK, ClientState
  <1>15. ASSUME NEW c \in Clients, MakeReadable(c) PROVE QuarantinedHasRow'
    BY <1>0, <1>u, Values, IdsAre, <1>15 DEF MakeReadable, At, tables, history,
       OneOwner, Unused, Fresh, Busy, IsRow, NoRow, TablesOK, Mutex, Rowed, Live,
       Threat, RowsTell, RowsOnce, Restorable, Going, QuarantinedHasRow, ScannersOK,
       ScannerState, ClientsOK, ClientState
  <1>16. ASSUME NEW c \in Clients, StartCopyBack(c) PROVE QuarantinedHasRow'
    <2>1. /\ UNCHANGED <<rows, status>>
          /\ \A s \in Scanners : scanner'[s].at = scanner[s].at
                                 /\ scanner'[s].id = scanner[s].id
      BY <1>0, <1>16 DEF StartCopyBack, Truncated, tables, ScannersOK, ScannerState
    <2> QED BY <2>1 DEF QuarantinedHasRow, IsRow
  <1>17. ASSUME NEW c \in Clients, EndCopyBack(c) PROVE QuarantinedHasRow'
    BY ZenonT(60), <1>0, <1>u, Values, IdsAre, <1>17 DEF EndCopyBack, Written, Becomes,
       tables, OneOwner, Unused, Fresh, Busy, IsRow, NoRow, TablesOK, Mutex, Rowed,
       Live, Threat, RowsTell, RowsOnce, Restorable, Going, QuarantinedHasRow,
       ScannersOK, ScannerState, ClientsOK, ClientState
  <1>18. ASSUME NEW c \in Clients, RestoreMode(c) PROVE QuarantinedHasRow'
    BY <1>18 DEF RestoreMode, files, tables, QuarantinedHasRow, IsRow
  <1>19. ASSUME NEW c \in Clients, RemoveBlob(c) PROVE QuarantinedHasRow'
    BY <1>0, <1>u, Values, IdsAre, <1>19 DEF RemoveBlob, At, Threat, tables,
       history, OneOwner, Unused, Fresh, Busy, IsRow, NoRow, TablesOK, Mutex, Rowed,
       Live, Threat, RowsTell, RowsOnce, Restorable, Going, QuarantinedHasRow,
       ScannersOK, ScannerState, ClientsOK, ClientState
  <1>20. ASSUME NEW c \in Clients, CallFails(c) PROVE QuarantinedHasRow'
    BY <1>0, <1>u, Values, IdsAre, <1>20 DEF CallFails, IoFails, Faults, Written,
       Becomes, IdleClient, tables, OneOwner, Unused, Fresh, Busy, IsRow, NoRow,
       TablesOK, Mutex, Rowed, Live, Threat, RowsTell, RowsOnce, Restorable, Going,
       QuarantinedHasRow, ScannersOK, ScannerState, ClientsOK, ClientState
  <1>21. ASSUME NEW c \in Clients, SetStatus(c) PROVE QuarantinedHasRow'
    BY SMTT(30), <1>0, <1>u, Values, IdsAre, <1>21 DEF SetStatus, DbFails, Faults, At,
       StatusAfter, files, history, OneOwner, Unused, Fresh, Busy, IsRow, NoRow,
       TablesOK, Mutex, Rowed, Live, Threat, RowsTell, RowsOnce, Restorable, Going,
       QuarantinedHasRow, ScannersOK, ScannerState, ClientsOK, ClientState
  <1>22. ASSUME NEW c \in Clients, DeleteRow(c) PROVE QuarantinedHasRow'
    <2> DEFINE k == Threat(c)
               x == client[c].row
    <2>1. /\ Live(c) /\ x \in 1..MaxIds /\ IsRow(x) /\ db = c /\ rows[x].threat = k
          /\ client[c].row = x
      BY <1>0, <1>22 DEF DeleteRow, Live, Mutex, Rowed, ClientsOK, Threat
    <2>a. k \in Ids
      BY <1>0, <2>1, ClientKnows DEF Live
    <2>2. ~DbFails
      BY <1>0, <1>u DEF DbFails, Faults, CountsOK
    <2>3. \A r \in 1..MaxIds : IsRow(r) /\ r # x => rows[r].threat # k
      BY <2>1 DEF RowsOnce
    <2>4. \A d \in Clients : d # c => client'[d] = client[d] /\ ~Live(d)
      BY <1>0, <2>1, <1>22 DEF DeleteRow, Mutex, ClientsOK
    <2>5. rows' = [rows EXCEPT ![x] = NoRow] /\ UNCHANGED <<status, scanner>>
      BY <2>2, <1>22 DEF DeleteRow, files, history
    <2>6. \A r \in 1..MaxIds : r # x => rows'[r] = rows[r]
      BY <1>0, <2>1, <2>5 DEF TablesOK
    <2>7. status[k] # "quarantined"
      BY <1>22 DEF DeleteRow, RowsGo
    <2> HIDE DEF k, x
    <2> QED BY <2>1, <2>5, <2>6, <2>7 DEF QuarantinedHasRow, IsRow
  <1>23. CASE Crash
    BY <1>0, <1>u, <1>23 DEF Crash, Faults, CountsOK
  <1>24. CASE UNCHANGED vars
    BY <1>24 DEF vars, QuarantinedHasRow, IsRow
  <1> QED
    BY <1>1, <1>2, <1>3, <1>4, <1>5, <1>6, <1>7, <1>8, <1>9, <1>10, <1>11, <1>12,
       <1>13, <1>14, <1>15, <1>16, <1>17, <1>18, <1>19, <1>20, <1>21, <1>22, <1>23,
       <1>24 DEF Next, ScannerStep, ClientStep

-----------------------------------------------------------------------------
(* The theorems.                                                           *)

StoreInv ==
    /\ TypeOK /\ Mutex /\ Rowed /\ Handling /\ OneOwner /\ Unused /\ Progress
    /\ Marked /\ Faulty /\ Reading /\ Spared /\ Kept

RowsInv ==
    Undisturbed =>
       /\ StatusesFollow /\ TakenFollows /\ RowsTell /\ RowsOnce /\ RowsGo
       /\ QuarantinedHasRow

(* Nothing is in the vault at the start, and no row is in the tables.      *)
LEMMA StoreInit == Init => StoreInv /\ RowsInv
  <1> SUFFICES ASSUME Init
               PROVE  StoreInv /\ RowsInv
    OBVIOUS
  <1>1. TypeOK
    BY TypeInit
  <1>2. FilesOK /\ TablesOK /\ ScannersOK /\ ClientsOK /\ CountsOK /\ HistoryOK
    BY <1>1, TypeParts DEF Typed
  <1>3. /\ \A s \in Scanners : scanner[s] = IdleScanner
        /\ \A c \in Clients : client[c] = IdleClient
        /\ \A r \in 1..MaxIds : ~IsRow(r)
        /\ \A i \in Ids : blob[i] = None /\ taken[i] = None /\ status[i] = "none"
        /\ made = 0 /\ shared = {} /\ misfiled = {}
    BY DEF Init, IsRow
  <1>4. /\ \A s \in Scanners : scanner[s].at = "idle" /\ scanner[s].content = None
        /\ \A c \in Clients : client[c].at = "idle"
    BY <1>3 DEF IdleScanner, IdleClient
  <1>5. Mutex /\ Rowed /\ Handling /\ OneOwner /\ Unused /\ Progress /\ Marked /\ Faulty
    BY <1>2, <1>3, <1>4, Values DEF Mutex, Rowed, Handling, OneOwner, Unused, Progress,
       Marked, Faulty, Live, Busy, Fresh
  <1>6. Reading /\ Spared /\ Kept
    BY <1>3, <1>4 DEF Reading, Spared, Kept
  <1>7. RowsInv
    BY <1>2, <1>3, <1>4 DEF RowsInv, StatusesFollow, TakenFollows, RowsTell, RowsOnce,
       RowsGo, QuarantinedHasRow, Busy
  <1> QED BY <1>1, <1>5, <1>6, <1>7 DEF StoreInv

(* Every step keeps the invariant of the store.                            *)
LEMMA StoreStep == StoreInv /\ [Next]_vars => StoreInv'
  BY TypeStep, MutexStep, RowedStep, HandlingStep, OneOwnerStep, UnusedStep,
     ProgressStep, MarkedStep, FaultyStep, ReadingStep, SparedStep, KeptStep
     DEF StoreInv

(* Every step keeps the rows and the blobs in agreement.                   *)
LEMMA RowsStep == StoreInv /\ RowsInv /\ [Next]_vars => RowsInv'
  <1> SUFFICES ASSUME StoreInv, RowsInv, [Next]_vars, Undisturbed'
               PROVE  /\ StatusesFollow' /\ TakenFollows' /\ RowsTell' /\ RowsOnce'
                      /\ RowsGo' /\ QuarantinedHasRow'
    BY DEF RowsInv
  <1>1. /\ TypeOK /\ Mutex /\ Rowed /\ OneOwner /\ Unused /\ Progress /\ Faulty
    BY DEF StoreInv
  <1>2. Undisturbed
    BY <1>1, StillCalm
  <1>3. /\ StatusesFollow /\ TakenFollows /\ RowsTell /\ RowsOnce /\ RowsGo
        /\ QuarantinedHasRow
    BY <1>2 DEF RowsInv
  <1> QED BY <1>1, <1>3, StatusesStep, TakenStep, RowsTellStep, RowsOnceStep, RowsGoStep,
             HasRowStep

(* The types of the tables, the files and the threads, whatever fails.     *)
THEOREM TypeCorrect == Spec => []TypeOK
  BY TypeInit, TypeStep, PTL DEF Spec

(* The invariant of the store: who owns an id, what is in its blob, and    *)
(* that a content leaves only after it was let go.                         *)
THEOREM StoreIsSound == Spec => [](StoreInv /\ RowsInv)
  BY StoreInit, StoreStep, RowsStep, PTL DEF Spec

(* What put, restore and delete of quarantine.rs promise whatever crashes  *)
(* and fails between their calls, for any files, threads and failures: the *)
(* only copy of a content is never destroyed, but for a file that took the *)
(* path of one being copied and for ids that insert_threat returned twice. *)
THEOREM NothingLost == Spec => []NoContentLost
  <1>1. StoreInv => NoContentLost
    <2> SUFFICES ASSUME StoreInv, NEW x \in 1..made
                 PROVE  \/ Somewhere(x)
                        \/ x \in released \cup swept
                        \/ used["db"] > 0 /\ x \in misfiled
      BY DEF NoContentLost
    <2>1. TypeOK /\ Kept /\ Faulty
      BY DEF StoreInv
    <2>2. used["db"] \in Nat
      BY <2>1, TypeParts DEF Typed, CountsOK
    <2> QED BY <2>1, <2>2 DEF Kept, Faulty, LetGo, Somewhere, Blobs
  <1> QED BY <1>1, StoreIsSound, PTL

(* Unless a statement fails or the daemon is killed, the quarantine table, *)
(* threats.status and the blobs agree: every row can be restored, and a    *)
(* threat counts as quarantined exactly if a row names it (db.rs,          *)
(* server.rs), whatever scanners and connections do at once.               *)
THEOREM TablesAgree == Spec => []RowsAgree
  <1>1. StoreInv /\ RowsInv => RowHasBlob
    <2> SUFFICES ASSUME StoreInv, RowsInv, Undisturbed, NEW r \in 1..MaxIds, IsRow(r)
                 PROVE  \/ blob[rows[r].threat] = taken[rows[r].threat]
                        \/ \E c \in Clients :
                              db = c /\ client[c].row = r /\ client[c].at \in {"status", "row"}
      BY DEF RowHasBlob, IsRow
    <2>1. Restorable(r) \/ Going(r)
      BY DEF RowsInv, RowsTell
    <2> QED BY <2>1 DEF Restorable, Going
  <1>2. StoreInv /\ RowsInv => StatusMatchesRow
    <2> SUFFICES ASSUME StoreInv, RowsInv, Undisturbed, db = Nobody
                 PROVE  {i \in Ids : status[i] = "quarantined"} =
                        {rows[r].threat : r \in {x \in 1..MaxIds : rows[x] # NoRow}}
      BY DEF StatusMatchesRow
    <2>1. TypeOK /\ Mutex
      BY DEF StoreInv
    <2>2. RowsTell /\ QuarantinedHasRow
      BY DEF RowsInv
    <2>3. /\ \A s \in Scanners : scanner[s].at # "row"
          /\ \A c \in Clients : db # c
      BY <2>1 DEF Mutex
    <2>4. \A r \in 1..MaxIds : IsRow(r) => rows[r].threat \in Ids
      BY <2>1, TypeParts DEF Typed, TablesOK, IsRow
    <2>5. \A r \in 1..MaxIds : IsRow(r) => status[rows[r].threat] = "quarantined"
      BY <2>2, <2>3 DEF RowsTell, Restorable, Going
    <2>6. \A i \in Ids : status[i] = "quarantined" =>
             \E r \in 1..MaxIds : IsRow(r) /\ rows[r].threat = i
      BY <2>2, <2>3 DEF QuarantinedHasRow
    <2> QED BY <2>4, <2>5, <2>6 DEF IsRow
  <1>3. StoreInv => TypeOK
    BY DEF StoreInv
  <1> QED BY <1>1, <1>2, <1>3, StoreIsSound, PTL DEF RowsAgree
=============================================================================
