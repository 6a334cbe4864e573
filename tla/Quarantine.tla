----------------------------- MODULE Quarantine -----------------------------
(***************************************************************************)
(* The quarantine store (quarantine.rs) with the rows of `threats` and     *)
(* `quarantine` (db.rs), as the scanners (`handle_detection` of            *)
(* realtime.rs, `run_scan` of scanner.rs) and the connections that restore *)
(* and delete (`dispatch` of server.rs) use them.                          *)
(*                                                                         *)
(* One action is one call to the file system or one statement of the       *)
(* database, so that a crash, a failing call or another thread can come    *)
(* between any two of them.  A connection holds the mutex of the database  *)
(* from its first statement to its last; a scanner takes it per use.       *)
(*                                                                         *)
(* Every file is infected, and auto-quarantine is on.  A content is a      *)
(* number, given in the order of creation.                                 *)
(***************************************************************************)
EXTENDS Integers, FiniteSets

CONSTANTS
    Paths,          \* the paths of infected files
    Scanners,       \* threads that quarantine
    Clients,        \* connections that restore and delete
    Nobody,         \* the database mutex is free
    CrossDevice,    \* the paths on another file system than the quarantine
    Rewrites,       \* the paths that others also write over or delete
    MaxFiles,       \* bound: contents created
    MaxIds,         \* bound: rows of each table
    MaxFaults       \* bound: failing calls, failing statements and crashes

ASSUME PathAssumption ==
    CrossDevice \subseteq Paths /\ Rewrites \subseteq Paths /\ 0 \notin Paths
ASSUME ThreadAssumption ==
    Nobody \notin Scanners \cup Clients /\ Scanners \cap Clients = {}
ASSUME BoundAssumption ==
    {MaxFiles, MaxIds, MaxFaults} \subseteq Nat

None == 0
Partial == -1    \* an unfinished copy
Copying == -2    \* the file that a restore is writing, wherever it is moved
Contents == 1..MaxFiles
Ids == 0..MaxIds

VARIABLES
    orig,       \* the content at each path
    blob,       \* the content of <id>.quar
    open,       \* the blobs whose mode is not 000
    status,     \* threats.status of each threat
    rows,       \* the quarantine table: row id to threat and path
    threats,    \* threats inserted so far (AUTOINCREMENT)
    added,      \* quarantine rows inserted so far (AUTOINCREMENT)
    last,       \* last_insert_rowid of the connection
    db,         \* who holds the mutex of the database
    scanner,    \* the scanners: control point, path, threat id, content
    client,     \* the connections: control point, operation, row id, content
    made,       \* contents created so far
    used,       \* failures and crashes so far
    released,   \* history: contents that need not be kept
    taken,      \* history: the content first moved away for a threat
    swept,      \* history: contents unlinked in place of a copied one
    shared,     \* history: ids that insert_threat returned again
    misfiled    \* history: contents put under them

files == <<orig, blob, open>>
tables == <<status, rows, threats, added, last>>
history == <<released, taken, swept, shared, misfiled>>
vars == <<orig, blob, open, status, rows, threats, added, last, db, scanner,
          client, made, used, released, taken, swept, shared, misfiled>>

NoRow == [threat |-> 0, path |-> None]
Whole(c) == {c} \cap Contents
IdleScanner == [at |-> "idle", path |-> None, id |-> 0, content |-> None]
IdleClient == [at |-> "idle", op |-> "none", row |-> 0, content |-> None]

Init ==
    /\ orig = [p \in Paths |-> None]
    /\ blob = [i \in Ids |-> None]
    /\ open = {}
    /\ status = [i \in Ids |-> "none"]
    /\ rows = [r \in 1..MaxIds |-> NoRow]
    /\ threats = 0
    /\ added = 0
    /\ last = 0
    /\ db = Nobody
    /\ scanner = [s \in Scanners |-> IdleScanner]
    /\ client = [c \in Clients |-> IdleClient]
    /\ made = 0
    /\ used = [k \in {"io", "db", "crashes"} |-> 0]
    /\ released = {}
    /\ taken = [i \in Ids |-> None]
    /\ swept = {}
    /\ shared = {}
    /\ misfiled = {}

-----------------------------------------------------------------------------
(* Other processes write infected files.                                   *)

WriteFile(p) ==
    /\ made < MaxFiles
    /\ orig[p] = None \/ p \in Rewrites
    /\ made' = made + 1
    /\ orig' = [orig EXCEPT ![p] = made + 1]
    /\ released' = released \cup Whole(orig[p])
    /\ UNCHANGED <<blob, open, tables, db, scanner, client, used, taken, swept, shared, misfiled>>

RemoveFile(p) ==
    /\ p \in Rewrites /\ orig[p] # None
    /\ orig' = [orig EXCEPT ![p] = None]
    /\ released' = released \cup Whole(orig[p])
    /\ UNCHANGED <<blob, open, tables, db, scanner, client, made, used, taken, swept, shared, misfiled>>

Faults(kind) ==
    /\ used.io + used.db + used.crashes < MaxFaults
    /\ used' = [used EXCEPT ![kind] = @ + 1]
IoFails == Faults("io")
DbFails == Faults("db")

-----------------------------------------------------------------------------
(* A scanner: the threat row, the move (`put`), the quarantine row.        *)

Goes(s, at) == scanner' = [scanner EXCEPT ![s].at = at]
GivesUp(s) == scanner' = [scanner EXCEPT ![s] = IdleScanner]

Detect(s, p) ==
    /\ scanner[s].at = "idle"
    /\ orig[p] # None
    /\ scanner' = [scanner EXCEPT ![s] = [IdleScanner EXCEPT !.at = "insert",
                                                             !.path = p]]
    /\ UNCHANGED <<files, tables, db, client, made, used, history>>

(* What is in <i>.quar or on its way there.                                *)
Filed(i) ==
    Contents \cap ({blob[i]} \cup
        {scanner[s].content : s \in {x \in Scanners : scanner[x].id = i}})

(* insert_threat: a failing INSERT is not noticed, the id is the one of    *)
(* the last INSERT that succeeded.                                         *)
InsertThreat(s) ==
    /\ scanner[s].at = "insert"
    /\ db = Nobody
    /\ \/ /\ threats < MaxIds
          /\ threats' = threats + 1
          /\ last' = threats + 1
          /\ status' = [status EXCEPT ![threats + 1] = "detected"]
          /\ UNCHANGED <<used, shared, misfiled>>
       \/ /\ DbFails
          /\ shared' = shared \cup {last}
          /\ misfiled' = misfiled \cup Filed(last)
          /\ UNCHANGED <<threats, last, status>>
    /\ scanner' = [scanner EXCEPT ![s].at = "put", ![s].id = last']
    /\ UNCHANGED <<files, rows, added, db, client, made, released, taken, swept>>

Takes(i, c) ==
    /\ taken' = [taken EXCEPT ![i] = IF @ = None THEN c ELSE @]
    /\ released' = released \ {c}

Misfiles(i, c) ==
    misfiled' = IF i \in shared THEN misfiled \cup Filed(i) \cup Whole(c) ELSE misfiled

(* put: the file is gone, or its rename or chmod or copy fails.            *)
PutFails(s) ==
    /\ scanner[s].at \in {"put", "copy", "unlink", "chmod"}
    /\ \/ scanner[s].at = "put" /\ orig[scanner[s].path] = None /\ UNCHANGED used
       \/ IoFails
    /\ GivesUp(s)
    /\ UNCHANGED <<files, tables, db, client, made, history>>

Rename(s) ==
    /\ scanner[s].at = "put"
    /\ LET p == scanner[s].path
           i == scanner[s].id
       IN /\ orig[p] # None /\ p \notin CrossDevice
          /\ blob' = [blob EXCEPT ![i] = orig[p]]
          /\ open' = open \cup {i}
          /\ orig' = [orig EXCEPT ![p] = None]
          /\ Takes(i, orig[p])
          /\ Misfiles(i, orig[p])
    /\ Goes(s, "chmod")
    /\ UNCHANGED <<tables, db, client, made, used, swept, shared>>

UnlinksFirst(s) ==
    /\ scanner[s].at = "put"
    /\ LET p == scanner[s].path
           i == scanner[s].id
       IN /\ orig[p] # None /\ p \in CrossDevice
          /\ blob' = [blob EXCEPT ![i] = Partial]
          /\ open' = open \cup {i}
          /\ scanner' = [scanner EXCEPT ![s].at = "copy", ![s].content = orig[p]]
          /\ orig' = [orig EXCEPT ![p] = None]
    /\ UNCHANGED <<tables, db, client, made, used, history>>

(* EXDEV: the blob is created, filled, and then the path is unlinked,      *)
(* whatever it names by then.  Under a stale id the blob may be one that a *)
(* restore is reading.                                                     *)
StartCopy(s) ==
    /\ scanner[s].at = "put"
    /\ LET p == scanner[s].path
           i == scanner[s].id
       IN /\ orig[p] # None /\ p \in CrossDevice
          /\ blob' = [blob EXCEPT ![i] = Partial]
          /\ open' = open \cup {i}
          /\ scanner' = [scanner EXCEPT ![s].at = "copy", 
                         ![s].content = IF orig[p] = Copying THEN Partial ELSE orig[p]]
          /\ client' = [k \in Clients |->
                IF client[k].at = "copying" /\ rows[client[k].row].threat = i
                THEN [client[k] EXCEPT !.content = Partial] ELSE client[k]]
          /\ Misfiles(i, orig[p])
    /\ UNCHANGED <<orig, tables, db, made, used, released, taken, swept, shared>>

EndCopy(s) ==
    /\ scanner[s].at = "copy"
    /\ blob' = [blob EXCEPT ![scanner[s].id] = scanner[s].content]
    /\ Goes(s, "unlink")
    /\ UNCHANGED <<orig, open, tables, db, client, made, used, history>>

Unlink(s) ==
    /\ scanner[s].at = "unlink"
    /\ LET p == scanner[s].path
           c == scanner[s].content
       IN /\ orig[p] # None
          /\ orig' = [orig EXCEPT ![p] = None]
          /\ Takes(scanner[s].id, c)
          /\ swept' = swept \cup (Whole(orig[p]) \ {c})
    /\ scanner' = [scanner EXCEPT ![s].at = "chmod", ![s].content = None]
    /\ UNCHANGED <<blob, open, tables, db, client, made, used, shared, misfiled>>

UnlinkGone(s) ==
    /\ scanner[s].at = "unlink"
    /\ orig[scanner[s].path] = None
    /\ GivesUp(s)
    /\ UNCHANGED <<files, tables, db, client, made, used, history>>

Chmod(s) ==
    /\ scanner[s].at = "chmod"
    /\ open' = open \ {scanner[s].id}
    /\ Goes(s, "status")
    /\ UNCHANGED <<orig, blob, tables, db, client, made, used, history>>

(* The two statements after a successful put, under one lock.              *)
SetQuarantined(s) ==
    /\ scanner[s].at = "status"
    /\ db = Nobody
    /\ db' = s
    /\ \/ status' = [status EXCEPT ![scanner[s].id] = "quarantined"] /\ UNCHANGED used
       \/ DbFails /\ UNCHANGED status
    /\ Goes(s, "row")
    /\ UNCHANGED <<files, rows, threats, added, last, client, made, history>>

InsertQuarantine(s) ==
    /\ scanner[s].at = "row"
    /\ db' = Nobody
    /\ \/ /\ added < MaxIds
          /\ added' = added + 1
          /\ last' = added + 1
          /\ rows' = [rows EXCEPT ![added + 1] =
                [threat |-> scanner[s].id, path |-> scanner[s].path]]
          /\ UNCHANGED used
       \/ DbFails /\ UNCHANGED <<added, last, rows>>
    /\ GivesUp(s)
    /\ UNCHANGED <<files, status, threats, client, made, history>>

-----------------------------------------------------------------------------
(* A connection: QUARANTINE_RESTORE and QUARANTINE_DELETE.                 *)

Threat(c) == rows[client[c].row].threat
Home(c) == rows[client[c].row].path
At(c, at) == client' = [client EXCEPT ![c].at = at]

(* What became of the file that is being written.                          *)
Becomes(f, c) == [x \in DOMAIN f |-> IF f[x] = Copying THEN c ELSE f[x]]
Written(c) ==
    /\ orig' = Becomes(orig, c)
    /\ blob' = Becomes(blob, c)
    /\ taken' = Becomes(taken, c)
Blobs == {blob[i] : i \in Ids}

AnyTime == TRUE
MutexFree == db = Nobody

(* Take the mutex and look the row up.                                     *)
Ask(c, op, r) ==
    /\ client[c].at = "idle"
    /\ MutexFree
    /\ rows[r] # NoRow
    /\ db' = c
    /\ client' = [client EXCEPT ![c] =
          [IdleClient EXCEPT !.at = IF op = "restore" THEN "readable" ELSE "remove",
                             !.op = op, !.row = r]]
    /\ released' = IF op = "delete" THEN released \cup Whole(blob[rows[r].threat])
                   ELSE released
    /\ UNCHANGED <<files, tables, scanner, made, used, taken, swept, shared, misfiled>>

(* chmod 0400; it fails if there is no blob.                               *)
MakeReadable(c) ==
    /\ client[c].at = "readable"
    /\ blob[Threat(c)] # None
    /\ open' = open \cup {Threat(c)}
    /\ At(c, "copy")
    /\ UNCHANGED <<orig, blob, tables, db, scanner, made, used, history>>

(* A scanner that is copying from a path sees the file cut short.          *)
Truncated(p) ==
    scanner' = [s \in Scanners |->
       IF scanner[s].at = "copy" /\ scanner[s].path = p
       THEN [scanner[s] EXCEPT !.content = Partial] ELSE scanner[s]]

MovesBack(c) ==
    /\ client[c].at = "copy"
    /\ blob[Threat(c)] # None
    /\ orig' = [orig EXCEPT ![Home(c)] = Copying]
    /\ blob' = [blob EXCEPT ![Threat(c)] = None]
    /\ released' = released \cup Whole(orig[Home(c)])
    /\ client' = [client EXCEPT ![c].at = "copying", ![c].content = blob[Threat(c)]]
    /\ Truncated(Home(c))
    /\ UNCHANGED <<open, tables, db, made, used, taken, swept, shared, misfiled>>

(* The copy back truncates what is at the path.                            *)
StartCopyBack(c) ==
    /\ client[c].at = "copy"
    /\ blob[Threat(c)] # None
    /\ orig' = [orig EXCEPT ![Home(c)] = Copying]
    /\ released' = released \cup Whole(orig[Home(c)])
    /\ client' = [client EXCEPT ![c].at = "copying", ![c].content = blob[Threat(c)]]
    /\ Truncated(Home(c))
    /\ UNCHANGED <<blob, open, tables, db, made, used, taken, swept, shared, misfiled>>

(* The file being written may have been moved into the vault meanwhile.    *)
EndCopyBack(c) ==
    /\ client[c].at = "copying"
    /\ Written(client[c].content)
    /\ released' = IF Copying \in Blobs THEN released
                   ELSE released \cup Whole(client[c].content)
    /\ misfiled' = IF \E i \in shared : blob[i] = Copying
                   THEN misfiled \cup Whole(client[c].content) ELSE misfiled
    /\ client' = [client EXCEPT ![c].at = "chmod", ![c].content = None]
    /\ UNCHANGED <<open, tables, db, scanner, made, used, swept, shared>>

RestoreMode(c) ==
    /\ client[c].at = "chmod"
    /\ orig[Home(c)] # None
    /\ At(c, "remove")
    /\ UNCHANGED <<files, tables, db, scanner, made, used, history>>

RemoveBlob(c) ==
    /\ client[c].at = "remove"
    /\ blob[Threat(c)] # None
    /\ blob' = [blob EXCEPT ![Threat(c)] = None]
    /\ open' = open \ {Threat(c)}
    /\ At(c, "status")
    /\ UNCHANGED <<orig, tables, db, scanner, made, used, history>>

(* The call ends with an error; the row stays.                             *)
CallFails(c) ==
    /\ client[c].at \in {"readable", "copy", "copying", "chmod", "remove"}
    /\ \/ /\ \/ client[c].at \in {"readable", "copy", "remove"} /\ blob[Threat(c)] = None
             \/ client[c].at = "chmod" /\ orig[Home(c)] = None
          /\ UNCHANGED used
       \/ IoFails
    /\ db' = Nobody
    /\ client' = [client EXCEPT ![c] = IdleClient]
    /\ IF client[c].at = "copying" THEN Written(Partial)
       ELSE UNCHANGED <<orig, blob, taken>>
    /\ UNCHANGED <<open, tables, scanner, made, released, swept, shared, misfiled>>

StatusAfter(c) == IF client[c].op = "restore" THEN "restored" ELSE "deleted"

SetStatus(c) ==
    /\ client[c].at = "status"
    /\ \/ status' = [status EXCEPT ![Threat(c)] = StatusAfter(c)] /\ UNCHANGED used
       \/ DbFails /\ UNCHANGED status
    /\ At(c, "row")
    /\ UNCHANGED <<files, rows, threats, added, last, db, scanner, made, history>>

DeleteRow(c) ==
    /\ client[c].at = "row"
    /\ \/ rows' = [rows EXCEPT ![client[c].row] = NoRow] /\ UNCHANGED used
       \/ DbFails /\ UNCHANGED rows
    /\ db' = Nobody
    /\ client' = [client EXCEPT ![c] = IdleClient]
    /\ UNCHANGED <<files, status, threats, added, last, scanner, made, history>>

-----------------------------------------------------------------------------
(* The daemon is killed; files and committed rows stay.                    *)
Crash ==
    /\ Faults("crashes")
    /\ last' = 0
    /\ db' = Nobody
    /\ scanner' = [s \in Scanners |-> IdleScanner]
    /\ client' = [c \in Clients |-> IdleClient]
    /\ Written(Partial)
    /\ UNCHANGED <<open, status, rows, threats, added, made, released, swept, shared, misfiled>>

ScannerStep(s) ==
    \/ \E p \in Paths : Detect(s, p)
    \/ InsertThreat(s)
    \/ PutFails(s)
    \/ Rename(s)
    \/ StartCopy(s)
    \/ EndCopy(s)
    \/ Unlink(s)
    \/ UnlinkGone(s)
    \/ Chmod(s)
    \/ SetQuarantined(s)
    \/ InsertQuarantine(s)

ClientStep(c) ==
    \/ \E op \in {"restore", "delete"}, r \in 1..MaxIds : Ask(c, op, r)
    \/ MakeReadable(c)
    \/ StartCopyBack(c)
    \/ EndCopyBack(c)
    \/ RestoreMode(c)
    \/ RemoveBlob(c)
    \/ CallFails(c)
    \/ SetStatus(c)
    \/ DeleteRow(c)

Next ==
    \/ \E p \in Paths : WriteFile(p) \/ RemoveFile(p)
    \/ \E s \in Scanners : ScannerStep(s)
    \/ \E c \in Clients : ClientStep(c)
    \/ Crash

Spec == Init /\ [][Next]_vars

-----------------------------------------------------------------------------
(* Properties.                                                             *)

(* Each variable stays in its set: the types of the files' contents, of    *)
(* the rows of db.rs and of the progress of the threads.                   *)
Stored == {Copying, Partial, None} \cup Contents
ScannerState ==
    [at : {"idle", "insert", "put", "copy", "unlink", "chmod", "status", "row"},
     path : Paths \cup {None}, id : Ids, content : Stored]
ClientState ==
    [at : {"idle", "readable", "copy", "copying", "chmod", "remove", "status", "row"},
     op : {"none", "restore", "delete"}, row : Ids, content : Stored]

TypeOK ==
    /\ orig \in [Paths -> Stored]
    /\ blob \in [Ids -> Stored]
    /\ open \subseteq Ids
    /\ status \in [Ids -> {"none", "detected", "quarantined", "restored", "deleted"}]
    /\ rows \in [1..MaxIds -> {NoRow} \cup [threat : Ids, path : Paths]]
    /\ \A r \in 1..MaxIds : rows[r] # NoRow => r <= added
    /\ {threats, added, last} \subseteq Ids
    /\ db \in {Nobody} \cup Scanners \cup Clients
    /\ scanner \in [Scanners -> ScannerState]
    /\ \A s \in Scanners : scanner[s].at # "idle" => scanner[s].path \in Paths
    /\ client \in [Clients -> ClientState]
    /\ \A c \in Clients : client[c].at # "idle" => client[c].row \in 1..MaxIds
    /\ made \in 0..MaxFiles
    /\ released \cup swept \cup misfiled \subseteq Contents /\ shared \subseteq Ids
    /\ taken \in [Ids -> Stored]
    /\ used \in [{"io", "db", "crashes"} -> Nat]

Somewhere(c) == c \in {orig[p] : p \in Paths} \cup Blobs

(* The content of a file is at its path or in the vault, whole, until its  *)
(* owner lets it go; a crash or a failing call between two steps of `put`  *)
(* or `restore` (quarantine.rs) never destroys the only copy.  There are   *)
(* two exceptions: a file that took the path of one being copied to        *)
(* another file system, which `move_file` unlinks in the old one's place,  *)
(* and contents under an id that insert_threat (db.rs) returned a second   *)
(* time because its INSERT failed.                                         *)
NoContentLost ==
    \A c \in 1..made :
       \/ Somewhere(c)
       \/ c \in released \cup swept
       \/ used.db > 0 /\ c \in misfiled

Undisturbed == used.crashes = 0 /\ used.db = 0

(* A row of `quarantine` can be restored: the blob it names is there and   *)
(* holds what was at the path, except while the connection that removed    *)
(* the blob is about to remove the row.                                    *)
RowHasBlob ==
    Undisturbed =>
       \A r \in 1..MaxIds :
          rows[r] # NoRow =>
             \/ blob[rows[r].threat] = taken[rows[r].threat]
             \/ \E c \in Clients :
                   db = c /\ client[c].row = r /\ client[c].at \in {"status", "row"}

(* With the mutex free, a threat counts as quarantined exactly if there is *)
(* a row to restore it from: the client's two lists agree.                 *)
StatusMatchesRow ==
    Undisturbed /\ db = Nobody =>
       {i \in Ids : status[i] = "quarantined"} =
       {rows[r].threat : r \in {x \in 1..MaxIds : rows[x] # NoRow}}

(* RowsAgree: the two tables and the directory of blobs tell one story,    *)
(* while two connections restore and delete the same row and a file that   *)
(* was restored is detected again (server.rs, quarantine.rs, db.rs).       *)
RowsAgree == TypeOK /\ RowHasBlob /\ StatusMatchesRow

(* The store implements the vault.  A copy on its way into the vault is    *)
(* there already.                                                          *)
AtPath == {orig[p] : p \in Paths}
InVault == Blobs \cup {scanner[s].content : s \in {x \in Scanners : scanner[x].at = "copy"}}
Place(c) ==
    IF c > made THEN "nowhere"
    ELSE IF c \in AtPath THEN "path"
    ELSE IF c \in InVault THEN "vault" ELSE "gone"

V == INSTANCE Vault WITH
        place <- [c \in Contents |-> Place(c)],
        released <- released \cup swept

(* Whatever crashes and fails, each content goes into the vault and comes  *)
(* back in one step and is gone only after it was let go: put, restore and *)
(* delete of quarantine.rs with the calls of server.rs around them.  Two   *)
(* contents that share an id after a failing INSERT end the promise.       *)
KeepsVault == V!Init /\ [][shared' = {} => V!Next]_(V!places)
=============================================================================
