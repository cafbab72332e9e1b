--------------------------- MODULE Restore_proofs ---------------------------
(***************************************************************************)
(* Theorems about Restore: types; that a restore leaves no preview of a    *)
(* deletion that could be confirmed in the restored database; and about    *)
(* its recovery: after one failure the old database is there, an operation *)
(* that reports failure has put it back, and what is written afterwards is *)
(* written to it.                                                          *)
(***************************************************************************)
EXTENDS Restore, TLAPS

-------------------------------------------------------------------------------
(* Types *)

\* The step after reopenDatabase is known when it begins.
Returns == at \in {"reopen", "rebind"} => after # "none"

TypeInv == TypeOK /\ Returns

USE DEF NoFile, Files, Handles, NoPreview, Preview

\* Renaming and removing give a map of names to files again.
LEMMA PathType ==
  ASSUME NEW p \in [Names -> Files \cup {NoFile}], path \in [Names -> Files \cup {NoFile}]
  PROVE  /\ Renamed("db", "aside") \in [Names -> Files \cup {NoFile}]
         /\ Renamed("aside", "db") \in [Names -> Files \cup {NoFile}]
         /\ Renamed("temp", "db") \in [Names -> Files \cup {NoFile}]
         /\ Removed({"db"}) \in [Names -> Files \cup {NoFile}]
  BY DEF Renamed, Removed, Names

\* Continue keeps the type of path, and its step is the next one.
LEMMA ContinueType ==
  ASSUME NEW step, NEW p \in [Names -> Files \cup {NoFile}], Continue(step, p)
  PROVE  at' = step /\ path' \in [Names -> Files \cup {NoFile}]
  BY DEF Continue

\* A written file has a name and the contents given to it.
LEMMA WriteFileType ==
  ASSUME NEW n \in Names, NEW r \in Rows, FilesType, WriteFile(n, r)
  PROVE  /\ path' \in [Names -> Files \cup {NoFile}]
         /\ rows' \in [Files -> Rows]
         /\ created' \in Files
  BY FilesAssumption DEF WriteFile, FilesType

\* A counted call keeps the count within its bound.
LEMMA CallType ==
  ASSUME NEW ok, Call(ok), faults \in 0..MaxFaults
  PROVE  faults' \in 0..MaxFaults /\ ok \in BOOLEAN
  BY RestoreAssumption DEF Call

\* Rebinding keeps the types of the previews and the requests.
LEMMA RebindType ==
  ASSUME RebindDB, CleanupType, handle \in Handles
  PROVE  CleanupType'
  BY DEF RebindDB, CleanupType

-------------------------------------------------------------------------------

\* The initial states have the types.
LEMMA InitType == Init => TypeInv
<1> SUFFICES ASSUME Init PROVE TypeInv OBVIOUS
<1>1. 1 \in Files /\ 0 \in Handles /\ 0 \in 0..MaxFaults
  BY FilesAssumption, RestoreAssumption
<1>2. rows \in [Files -> Rows]
  <2>1. Empty \in Rows BY DEF Empty, Rows, Status
  <2>. QED BY <2>1 DEF Init, FilesInit
<1>3. FilesType BY <1>1, <1>2 DEF Init, FilesInit, FilesType
<1>4. CleanupType BY <1>1 DEF Init, CleanupInit, CleanupType
<1>. QED BY <1>1, <1>3, <1>4 DEF Init, TypeInv, TypeOK, Returns

\* The requests keep the types.
LEMMA RequestType ==
  ASSUME TypeInv, NEW r \in Requests, Request(r), UNCHANGED opVars
  PROVE  TypeInv'
<1>. USE DEF TypeInv, TypeOK, FilesType, CleanupType, Returns, fileVars, handleVars, opVars
<1>0. NoPreview \in Preview /\ held[r] \in Preview
  OBVIOUS
<1>1. CASE LoadCandidates(r)
  <2>1. PICK f \in Reach(cleanup) : \E S \in Candidates(f) :
          Connect(cleanup, f) /\ (IF S = {} THEN Leave(r) ELSE Go(r, "read", [items |-> S, file |-> f]))
    BY <1>1 DEF LoadCandidates
  <2>2. PICK S \in Candidates(f) :
          Connect(cleanup, f) /\ (IF S = {} THEN Leave(r) ELSE Go(r, "read", [items |-> S, file |-> f]))
    BY <2>1
  <2>3. f \in Files
    BY DEF Reach, Names
  <2>4. S \subseteq Accounts
    BY DEF Candidates, Eligible
  <2>5. pool' \in [Handles -> SUBSET Files]
    BY <2>2, <2>3 DEF Connect
  <2>6. /\ pc' \in [Requests -> {"idle", "read", "claimed", "checked", "over"}]
        /\ held' \in [Requests -> Preview]
    <3>1. [items |-> S, file |-> f] \in Preview BY <2>3, <2>4
    <3>2. CASE S = {} BY <1>0, <2>2, <3>2 DEF Leave, Go
    <3>3. CASE S # {} BY <2>2, <3>1, <3>3 DEF Go
    <3>. QED BY <3>2, <3>3
  <2>. QED BY <1>1, <2>5, <2>6 DEF LoadCandidates
<1>2. CASE \E p \in Previews : Claim(r, p)
  BY <1>2 DEF Claim, Go
<1>3. CASE Put(r)
  BY <1>3 DEF Put, Leave, Go
<1>4. CASE Recheck(r)
  <2>1. PICK f \in Reach(cleanup) :
          /\ Connect(cleanup, f)
          /\ IF AllEligible(f, held[r].items)
             THEN /\ on' = [on EXCEPT ![r] = f]
                  /\ clean' = [clean EXCEPT ![r] = TRUE]
                  /\ Go(r, "checked", held[r])
             ELSE Leave(r) /\ UNCHANGED <<on, clean>>
    BY <1>4 DEF Recheck
  <2>2. f \in Files
    BY DEF Reach, Names
  <2>3. pool' \in [Handles -> SUBSET Files]
    BY <2>1, <2>2 DEF Connect
  <2>4. /\ pc' \in [Requests -> {"idle", "read", "claimed", "checked", "over"}]
        /\ held' \in [Requests -> Preview]
    <3>1. CASE AllEligible(f, held[r].items) BY <1>0, <2>1, <3>1 DEF Go
    <3>2. CASE ~AllEligible(f, held[r].items) BY <1>0, <2>1, <3>2 DEF Leave, Go
    <3>. QED BY <3>1, <3>2
  <2>5. on' \in [Requests -> Files \cup {NoFile}] /\ clean' \in [Requests -> BOOLEAN]
    BY <2>1, <2>2
  <2>. QED BY <1>4, <2>3, <2>4, <2>5 DEF Recheck
<1>5. CASE Delete(r)
  <2>1. rows' \in [Files -> Rows] /\ clean' \in [Requests -> BOOLEAN]
    <3>1. ASSUME NEW f \in Files
          PROVE  [a \in Accounts |-> IF a \in Deleted(r) THEN "gone" ELSE rows[f][a]] \in Rows
      BY DEF Rows, Status
    <3>2. Overtaken(on[r]) \in [Requests -> BOOLEAN] BY DEF Overtaken
    <3>3. CASE clean[r] /\ AllEligible(on[r], held[r].items)
      <4> DEFINE left == [a \in Accounts |-> IF a \in Deleted(r) THEN "gone" ELSE rows[on[r]][a]]
      <4>1. rows' = [rows EXCEPT ![on[r]] = left] BY <1>5, <3>3 DEF Delete
      <4>2. on[r] \in Files => left \in Rows BY <3>1
      <4>3. rows \in [Files -> Rows] OBVIOUS
      <4> HIDE DEF left
      <4>4. rows' \in [Files -> Rows] BY <4>1, <4>2, <4>3
      <4>. QED BY <1>5, <3>2, <3>3, <4>4 DEF Delete
    <3>4. CASE ~(clean[r] /\ AllEligible(on[r], held[r].items))
      BY <1>5, <3>4 DEF Delete
    <3>. QED BY <3>3, <3>4
  <2>. QED BY <1>5, <2>1 DEF Delete, Leave, Go
<1>6. CASE Fail(r)
  BY <1>6 DEF Fail, Leave, Go
<1>. QED BY <1>1, <1>2, <1>3, <1>4, <1>5, <1>6 DEF Request, Advance

\* Every step keeps the types.
LEMMA TypeNext ==
  ASSUME TypeInv, [Next]_vars
  PROVE  TypeInv'
<1>. USE DEF TypeInv, TypeOK, FilesType, CleanupType, Returns, Running, Ended,
             fileVars, handleVars, cleanupVars, opVars
<1>0. "db" \in Names /\ "temp" \in Names BY DEF Names
<1>1. ASSUME NEW r \in Images, BeginRestore(r) PROVE TypeInv'
  BY <1>0, <1>1, WriteFileType, RestoreAssumption DEF BeginRestore
<1>2. CASE BeginImport
  BY <1>2 DEF BeginImport
<1>3. ASSUME NEW ok \in BOOLEAN, Close(ok) PROVE TypeInv'
  BY <1>3, CallType, ContinueType DEF Close
<1>4. ASSUME NEW ok \in BOOLEAN, MoveOld(ok) PROVE TypeInv'
  BY <1>4, CallType, ContinueType, PathType DEF MoveOld
<1>5. ASSUME NEW ok \in BOOLEAN, MoveNew(ok) PROVE TypeInv'
  BY <1>5, CallType, ContinueType, PathType DEF MoveNew
<1>6. ASSUME NEW ok \in BOOLEAN, MoveBack(ok) PROVE TypeInv'
  BY <1>6, CallType, ContinueType, PathType DEF MoveBack, Returned
<1>7. ASSUME NEW ok \in BOOLEAN, Migrate(ok) PROVE TypeInv'
  BY <1>0, <1>7, CallType, ContinueType DEF Migrate, Connect
<1>8. ASSUME NEW ok \in BOOLEAN, Undo(ok) PROVE TypeInv'
  BY <1>8, CallType, ContinueType, PathType DEF Undo
<1>9. ASSUME NEW ok \in BOOLEAN, Reopen(ok) PROVE TypeInv'
  <2>1. CASE ok
    <3>1. handle' \in Handles /\ open' \in SUBSET Handles
      <4>1. handle < MaxHandle /\ handle' = handle + 1 /\ open' = open \cup {handle'}
        BY <1>9, <2>1 DEF Reopen, OpenAppDB
      <4>2. handle' \in Handles
        BY <4>1, FilesAssumption
      <4>. QED BY <4>1, <4>2
    <3>2. at' = "rebind" /\ after' # "none" /\ UNCHANGED path
      BY <1>9, <2>1 DEF Reopen
    <3>. QED BY <1>9, <3>1, <3>2, CallType DEF Reopen
  <2>2. CASE ~ok
    BY <1>9, <2>2, CallType, ContinueType DEF Reopen, AfterRefusal
  <2>. QED BY <2>1, <2>2
<1>10. ASSUME NEW ok \in BOOLEAN, NEW r \in Images, WriteImage(ok, r) PROVE TypeInv'
  <2>1. Empty \in Rows BY DEF Empty, Rows, Status
  <2>. QED BY <1>0, <1>10, <2>1, CallType, WriteFileType, RestoreAssumption DEF WriteImage
<1>11. CASE RemoveOld
  BY <1>11, ContinueType DEF RemoveOld
<1>12. CASE Rebind
  <2>1. CleanupType' BY <1>12, RebindType DEF Rebind
  <2>. QED BY <1>12, <2>1, ContinueType DEF Rebind
<1>13. ASSUME NEW r \in Requests, Request(r), UNCHANGED opVars PROVE TypeInv'
  BY <1>13, RequestType
<1>14. ASSUME NEW p \in Previews, Expire(p), UNCHANGED opVars PROVE TypeInv'
  BY <1>14 DEF Expire
<1>15. ASSUME NEW h \in Handles, NEW a \in Accounts, NEW s \in Status, Write(h, a, s)
       PROVE TypeInv'
  <2>1. PICK f \in Reach(h) : /\ rows' = [rows EXCEPT ![f][a] = s]
                              /\ Connect(h, f) /\ clean' = Overtaken(f)
    BY <1>15 DEF Write
  <2>2. f \in Files BY <1>0 DEF Reach
  <2>3. rows' \in [Files -> Rows] BY <2>1, <2>2 DEF Rows
  <2>4. pool' \in [Handles -> SUBSET Files] BY <2>1, <2>2 DEF Connect
  <2>5. clean' \in [Requests -> BOOLEAN] BY <2>1 DEF Overtaken
  <2>. QED BY <1>15, <2>3, <2>4, <2>5 DEF Write
<1>16. CASE Missing
  <2>1. Empty \in Rows BY DEF Empty, Rows, Status
  <2>. QED BY <1>0, <1>16, <2>1, WriteFileType DEF Missing, CreateMissing
<1>17. CASE Crash
  BY <1>17, CallType DEF Crash
<1>18. CASE Restart
  BY <1>18, FilesAssumption DEF Restart, OpenAppDB
<1>19. CASE UNCHANGED vars
  BY <1>19 DEF vars
<1>. QED
  BY <1>1, <1>2, <1>3, <1>4, <1>5, <1>6, <1>7, <1>8, <1>9, <1>10, <1>11, <1>12, <1>13,
     <1>14, <1>15, <1>16, <1>17, <1>18, <1>19 DEF Next, OpStep

\* Restore is well typed, so that every operation knows its next step and every
\* confirmation the file of its transaction.
THEOREM TypeCorrect == Spec => []TypeOK
<1>1. Spec => []TypeInv
  BY InitType, TypeNext, PTL DEF Spec
<1>2. TypeInv => TypeOK
  BY DEF TypeInv
<1>. QED BY <1>1, <1>2, PTL
-------------------------------------------------------------------------------
(* A preview stays with its data *)

\* An operation is running or over exactly when one was asked for.
Asked == at = "idle" <=> kind = "none"

\* Unless an import has begun, at most the handle of App is open, none while files are
\* moved; the new one stays open, and until RebindDB cleanup has an older, closed one.
Stage ==
  /\ at \notin {"write", "clean"} /\ after # "clean"
  /\ open \subseteq {handle} /\ cleanup <= handle
  /\ at \in {"moveOld", "moveNew", "moveBack", "reopen", "dead"} => open = {}
  /\ at = "rebind" => cleanup < handle
  /\ at \in {"rebind", "migrate"} => handle \in open

\* Connections are on the database, and a closed handle has none.
PoolsOnDatabase ==
  \A h \in Handles : pool[h] \subseteq (IF h \in open THEN {path["db"]} ELSE {})

\* What cleanup could confirm through an open handle was read from the database.
PreviewsOnDatabase ==
  /\ \A p \in Stored : store[p].file # NoFile /\ (cleanup \in open => store[p].file = path["db"])
  /\ \A r \in Readers : held[r].file # NoFile /\ (cleanup \in open => held[r].file = path["db"])

\* A transaction is on the file its preview was read from.
OnItsFile == \A r \in Requests : pc[r] = "checked" => on[r] = held[r].file

\* Nothing of the program is left when it has crashed.
AfterCrash == at = "dead" => open = {} /\ Stored = {} /\ Readers = {}

DataInv ==
  Asked /\ (kind # "import" => Stage /\ PoolsOnDatabase /\ PreviewsOnDatabase /\ OnItsFile)

\* Nothing is held when the program starts.
LEMMA DataInit == Init => DataInv
<1> SUFFICES ASSUME Init PROVE DataInv OBVIOUS
<1>1. Stored = {} /\ Readers = {}
  BY DEF Init, CleanupInit, Stored, Readers
<1>. QED
  BY <1>1 DEF Init, FilesInit, CleanupInit, DataInv, Asked, Stage, PoolsOnDatabase,
              PreviewsOnDatabase, OnItsFile

\* A step that leaves the requests, the previews, the handles and the name of the
\* database alone keeps everything but the stage.
LEMMA SameConnections ==
  ASSUME PoolsOnDatabase, PreviewsOnDatabase, OnItsFile,
         path'["db"] = path["db"], UNCHANGED <<open, pool, cleanup, store, pc, held, on>>
  PROVE  PoolsOnDatabase' /\ PreviewsOnDatabase' /\ OnItsFile'
  BY DEF PoolsOnDatabase, PreviewsOnDatabase, OnItsFile, Stored, Readers

\* So does one that moves files while no handle is open.
LEMMA NoConnections ==
  ASSUME PreviewsOnDatabase, OnItsFile, \A h \in Handles : pool'[h] = {}, open' = {},
         UNCHANGED <<cleanup, store, pc, held, on>>
  PROVE  PoolsOnDatabase' /\ PreviewsOnDatabase' /\ OnItsFile'
  BY DEF PoolsOnDatabase, PreviewsOnDatabase, OnItsFile, Stored, Readers

\* A handle that is open reaches the database and nothing else.
LEMMA ReachIsDatabase ==
  ASSUME TypeInv, PoolsOnDatabase, NEW h \in Handles, NEW f \in Reach(h)
  PROVE  h \in open /\ f = path["db"] /\ f \in Files
  BY DEF TypeInv, TypeOK, FilesType, PoolsOnDatabase, Reach, Names

\* A new connection is one to the database.
LEMMA ConnectIsDatabase ==
  ASSUME TypeInv, PoolsOnDatabase, NEW h \in open, Connect(h, path["db"]),
         UNCHANGED <<open, path>>
  PROVE  PoolsOnDatabase'
  BY DEF TypeInv, TypeOK, FilesType, PoolsOnDatabase, Connect

\* The requests keep to the database.
LEMMA RequestData ==
  ASSUME TypeInv, DataInv, kind # "import", NEW r \in Requests, Request(r), UNCHANGED opVars
  PROVE  DataInv'
<1>. USE DEF opVars, fileVars, handleVars
<1>0. Asked /\ Stage /\ PoolsOnDatabase /\ PreviewsOnDatabase /\ OnItsFile
  BY DEF DataInv
<1>1. CASE LoadCandidates(r)
  <2>1. PICK f \in Reach(cleanup) : \E S \in Candidates(f) :
          Connect(cleanup, f) /\ (IF S = {} THEN Leave(r) ELSE Go(r, "read", [items |-> S, file |-> f]))
    BY <1>1 DEF LoadCandidates
  <2>2. cleanup \in open /\ f = path["db"] /\ f \in Files
    BY <1>0, <2>1, ReachIsDatabase DEF TypeInv, TypeOK, CleanupType
  <2>3. PoolsOnDatabase'
    BY <1>0, <1>1, <2>1, <2>2, ConnectIsDatabase DEF LoadCandidates
  <2>4. PreviewsOnDatabase'
    BY <1>0, <1>1, <2>1, <2>2
       DEF LoadCandidates, Leave, Go, PreviewsOnDatabase, Stored, Readers, TypeInv, TypeOK, CleanupType
  <2>5. OnItsFile'
    BY <1>0, <1>1, <2>1 DEF LoadCandidates, Leave, Go, OnItsFile, TypeInv, TypeOK, CleanupType
  <2>. QED BY <1>0, <1>1, <2>3, <2>4, <2>5 DEF LoadCandidates, DataInv, Asked, Stage
<1>2. ASSUME NEW p \in Previews, Claim(r, p) PROVE DataInv'
  <2>1. PreviewsOnDatabase'
    BY <1>0, <1>2 DEF Claim, Go, PreviewsOnDatabase, Stored, Readers, TypeInv, TypeOK, CleanupType
  <2>2. OnItsFile'
    BY <1>0, <1>2 DEF Claim, Go, OnItsFile, TypeInv, TypeOK, CleanupType
  <2>. QED BY <1>0, <1>2, <2>1, <2>2 DEF Claim, DataInv, Asked, Stage, PoolsOnDatabase
<1>3. CASE Put(r)
  <2>1. held[r].file # NoFile /\ (cleanup \in open => held[r].file = path["db"])
    BY <1>0, <1>3 DEF Put, PreviewsOnDatabase, Readers
  <2>2. PreviewsOnDatabase'
    BY <1>0, <1>3, <2>1
       DEF Put, Leave, Go, PreviewsOnDatabase, Stored, Readers, TypeInv, TypeOK, CleanupType
  <2>3. OnItsFile'
    BY <1>0, <1>3 DEF Put, Leave, Go, OnItsFile, TypeInv, TypeOK, CleanupType
  <2>. QED BY <1>0, <1>3, <2>2, <2>3 DEF Put, DataInv, Asked, Stage, PoolsOnDatabase
<1>4. CASE Recheck(r)
  <2>1. PICK f \in Reach(cleanup) :
          /\ Connect(cleanup, f)
          /\ IF AllEligible(f, held[r].items)
             THEN /\ on' = [on EXCEPT ![r] = f]
                  /\ clean' = [clean EXCEPT ![r] = TRUE]
                  /\ Go(r, "checked", held[r])
             ELSE Leave(r) /\ UNCHANGED <<on, clean>>
    BY <1>4 DEF Recheck
  <2>2. cleanup \in open /\ f = path["db"] /\ f \in Files
    BY <1>0, <2>1, ReachIsDatabase DEF TypeInv, TypeOK, CleanupType
  <2>3. held[r].file = f
    BY <1>0, <1>4, <2>2 DEF Recheck, PreviewsOnDatabase, Readers
  <2>4. PoolsOnDatabase'
    BY <1>0, <1>4, <2>1, <2>2, ConnectIsDatabase DEF Recheck
  <2>5. PreviewsOnDatabase'
    BY <1>0, <1>4, <2>1
       DEF Recheck, Leave, Go, PreviewsOnDatabase, Stored, Readers, TypeInv, TypeOK, CleanupType
  <2>6. OnItsFile'
    BY <1>0, <1>4, <2>1, <2>3 DEF Recheck, Leave, Go, OnItsFile, TypeInv, TypeOK, CleanupType
  <2>. QED BY <1>0, <1>4, <2>4, <2>5, <2>6 DEF Recheck, DataInv, Asked, Stage
<1>5. CASE Delete(r) \/ Fail(r)
  <2>1. PreviewsOnDatabase'
    BY <1>0, <1>5
       DEF Delete, Fail, Leave, Go, PreviewsOnDatabase, Stored, Readers, TypeInv, TypeOK, CleanupType
  <2>2. OnItsFile'
    BY <1>0, <1>5 DEF Delete, Fail, Leave, Go, OnItsFile, TypeInv, TypeOK, CleanupType
  <2>. QED BY <1>0, <1>5, <2>1, <2>2 DEF Delete, Fail, DataInv, Asked, Stage, PoolsOnDatabase
<1>. QED BY <1>1, <1>2, <1>3, <1>4, <1>5 DEF Request, Advance

\* Nothing of the program outlives a crash.
LEMMA CrashNext ==
  ASSUME TypeInv, AfterCrash, [Next]_vars
  PROVE  AfterCrash'
<1>. USE DEF opVars, fileVars, handleVars, cleanupVars
<1>1. CASE OpStep \/ BeginImport \/ Restart \/ \E r \in Images : BeginRestore(r)
  <2>1. at' # "dead"
    BY <1>1 DEF OpStep, BeginRestore, BeginImport, Close, MoveOld, MoveNew, MoveBack, Returned,
                Migrate, Undo, WriteImage, RemoveOld, Reopen, AfterRefusal, Rebind, Continue,
                Restart, TypeInv, TypeOK
  <2>. QED BY <2>1 DEF AfterCrash
<1>2. CASE Crash
  BY <1>2 DEF Crash, AfterCrash, Stored, Readers
<1>3. ASSUME NEW r \in Requests, Request(r), UNCHANGED opVars PROVE AfterCrash'
  <2>1. at = "dead" => FALSE
    BY <1>3 DEF AfterCrash, Request, Advance, LoadCandidates, Reach, Claim, Put, Recheck, Delete,
                Fail, Readers
  <2>. QED BY <1>3, <2>1 DEF AfterCrash
<1>4. ASSUME NEW p \in Previews, Expire(p), UNCHANGED opVars PROVE AfterCrash'
  BY <1>4 DEF Expire, AfterCrash
<1>5. ASSUME NEW h \in Handles, NEW a \in Accounts, NEW s \in Status, Write(h, a, s)
      PROVE  AfterCrash'
  BY <1>5 DEF Write, AfterCrash, Stored, Readers
<1>6. CASE Missing \/ UNCHANGED vars
  BY <1>6 DEF Missing, vars, AfterCrash, Stored, Readers
<1>. QED BY <1>1, <1>2, <1>3, <1>4, <1>5, <1>6 DEF Next

\* Every step keeps what is held on the database.
LEMMA DataNext ==
  ASSUME TypeInv, DataInv, AfterCrash, [Next]_vars
  PROVE  DataInv'
<1>. USE DEF opVars, fileVars, handleVars, cleanupVars
<1>1. CASE kind' = "import"
  <2>1. Asked'
    <3>1. CASE kind = "import"
      <4>1. at # "idle" BY <3>1 DEF DataInv, Asked
      <4>2. at' # "idle"
        BY <4>1 DEF Next, OpStep, vars, BeginRestore, BeginImport, Close, MoveOld, MoveNew,
                    MoveBack, Returned, Migrate, Undo, WriteImage, RemoveOld, Reopen, AfterRefusal,
                    Rebind, Continue, Write, Missing, Crash, Restart, TypeInv, TypeOK
      <4>. QED BY <1>1, <4>2 DEF Asked
    <3>2. CASE kind # "import"
      <4>1. at' = "moveOld"
        BY <1>1, <3>2
           DEF Next, OpStep, vars, BeginRestore, BeginImport, Close, MoveOld, MoveNew, MoveBack,
               Migrate, Undo, WriteImage, RemoveOld, Reopen, Rebind, Write, Missing, Crash, Restart
      <4>. QED BY <1>1, <4>1 DEF Asked
    <3>. QED BY <3>1, <3>2
  <2>. QED BY <1>1, <2>1 DEF DataInv
<1>2. CASE kind' # "import"
  <2>0. kind # "import" /\ Asked /\ Stage /\ PoolsOnDatabase /\ PreviewsOnDatabase /\ OnItsFile
    <3>1. kind # "import"
      BY <1>2 DEF DataInv, Asked, Next, OpStep, vars, BeginRestore, BeginImport, Close, MoveOld,
                  MoveNew, MoveBack, Migrate, Undo, WriteImage, RemoveOld, Reopen, Rebind, Write,
                  Missing, Crash, Restart
    <3>. QED BY <3>1 DEF DataInv
  <2>t. handle \in Handles /\ cleanup \in Handles /\ open \subseteq Handles
        /\ after \in {"none", "migrate", "clean", "failed"}
        /\ kind \in {"none", "restore", "import"}
    BY RestoreAssumption DEF TypeInv, TypeOK, FilesType, CleanupType
  <2>1. ASSUME NEW r \in Images, BeginRestore(r) PROVE DataInv'
    <3>1. path'["db"] = path["db"]
      BY <2>1 DEF BeginRestore, WriteFile, TypeInv, TypeOK, FilesType, Names
    <3>. QED BY <2>0, <2>1, <3>1, SameConnections DEF BeginRestore, DataInv, Asked, Stage
  <2>3. ASSUME NEW ok \in BOOLEAN, Close(ok) PROVE DataInv'
    <3>1. open' = {} /\ \A h \in Handles : pool'[h] = {}
      BY <2>0, <2>3 DEF Close, Stage, PoolsOnDatabase, TypeInv, TypeOK, FilesType
    <3>. QED BY <2>0, <2>3, <3>1, NoConnections DEF Close, Continue, DataInv, Asked, Stage
  <2>c. ASSUME open = {} PROVE \A h \in Handles : pool[h] = {}
    BY <2>0, <2>c DEF PoolsOnDatabase
  <2>4. ASSUME NEW ok \in BOOLEAN, MoveOld(ok) PROVE DataInv'
    <3>1. open = {} /\ kind = "restore"
      BY <2>0, <2>t, <2>4 DEF MoveOld, Stage, Asked
    <3>. QED BY <2>0, <2>4, <2>c, <3>1, NoConnections DEF MoveOld, Continue, DataInv, Asked, Stage
  <2>5. ASSUME NEW ok \in BOOLEAN, MoveNew(ok) PROVE DataInv'
    <3>1. open = {}
      BY <2>0, <2>5 DEF MoveNew, Stage
    <3>. QED BY <2>0, <2>5, <2>c, <3>1, NoConnections DEF MoveNew, Continue, DataInv, Asked, Stage
  <2>6. ASSUME NEW ok \in BOOLEAN, MoveBack(ok) PROVE DataInv'
    <3>1. open = {} /\ kind = "restore"
      BY <2>0, <2>t, <2>6 DEF MoveBack, Stage, Asked
    <3>. QED BY <2>0, <2>6, <2>c, <3>1, NoConnections
             DEF MoveBack, Returned, Continue, DataInv, Asked, Stage
  <2>7. ASSUME NEW ok \in BOOLEAN, Migrate(ok) PROVE DataInv'
    <3>1. path'["db"] = path["db"]
      BY <2>7 DEF Migrate, Continue, Leftovers, TypeInv, TypeOK, FilesType, Names
    <3>2. PoolsOnDatabase'
      <4>1. pool' = [pool EXCEPT ![handle] = @ \cup {path["db"]}] /\ open' = open
        BY <2>7 DEF Migrate, Connect
      <4>2. handle \in open
        BY <2>0, <2>7 DEF Migrate, Stage
      <4>. QED BY <2>0, <3>1, <4>1, <4>2 DEF PoolsOnDatabase, TypeInv, TypeOK, FilesType
    <3>3. PreviewsOnDatabase' /\ OnItsFile'
      BY <2>0, <2>7, <3>1 DEF Migrate, PreviewsOnDatabase, OnItsFile, Stored, Readers
    <3>. QED BY <2>0, <2>7, <3>2, <3>3 DEF Migrate, Continue, DataInv, Asked, Stage
  <2>8. ASSUME NEW ok \in BOOLEAN, Undo(ok) PROVE DataInv'
    <3>1. open' = {} /\ \A h \in Handles : pool'[h] = {}
      BY <2>0, <2>8 DEF Undo, Stage, PoolsOnDatabase, TypeInv, TypeOK, FilesType
    <3>. QED BY <2>0, <2>8, <3>1, NoConnections DEF Undo, Continue, DataInv, Asked, Stage
  <2>9. ASSUME NEW ok \in BOOLEAN, Reopen(ok) PROVE DataInv'
    <3>1. open = {} /\ \A h \in Handles : pool[h] = {}
      BY <2>0, <2>9, <2>c DEF Reopen, Stage
    <3>2. CASE ok
      <4>1. handle' = handle + 1 /\ open' = {handle'} /\ cleanup' < handle' /\ cleanup' \notin open'
        BY <2>0, <2>t, <2>9, <3>1, <3>2, FilesAssumption DEF Reopen, OpenAppDB, Stage
      <4>2. PoolsOnDatabase' /\ PreviewsOnDatabase' /\ OnItsFile'
        BY <2>0, <2>9, <3>1, <4>1
           DEF Reopen, PoolsOnDatabase, PreviewsOnDatabase, OnItsFile, Stored, Readers
      <4>3. Stage' /\ Asked'
        BY <2>0, <2>t, <2>9, <3>2, <4>1 DEF Reopen, Stage, Asked
      <4>. QED BY <4>2, <4>3 DEF DataInv
    <3>3. CASE ~ok
      <4>1. UNCHANGED <<open, pool, handle, cleanup, store, pc, held, on, kind, after>>
        BY <2>9, <3>3 DEF Reopen
      <4>2. PoolsOnDatabase' /\ PreviewsOnDatabase' /\ OnItsFile'
        BY <2>0, <3>1, <4>1, NoConnections
      <4>3. at' \in {"undo", "failed"}
        BY <2>0, <2>9, <3>3 DEF Reopen, AfterRefusal, Continue, Stage
      <4>4. Stage' /\ Asked'
        BY <2>0, <2>9, <4>1, <4>3 DEF Reopen, Stage, Asked
      <4>. QED BY <4>2, <4>4 DEF DataInv
    <3>. QED BY <3>2, <3>3
  <2>10. ASSUME NEW ok \in BOOLEAN, NEW r \in Images, WriteImage(ok, r) PROVE DataInv'
    BY <2>0, <2>10 DEF WriteImage, Stage
  <2>11. CASE RemoveOld
    BY <2>0, <2>11 DEF RemoveOld, Stage
  <2>12. CASE Rebind
    <3>1. path'["db"] = path["db"]
      BY <2>0, <2>12 DEF Rebind, Continue, Leftovers, TypeInv, TypeOK, FilesType, Names
    <3>2. Stored' = {} /\ Readers' = {}
      BY <2>12 DEF Rebind, RebindDB, Stored, Readers
    <3>3. OnItsFile'
      BY <2>0, <2>12 DEF Rebind, RebindDB, OnItsFile
    <3>4. PoolsOnDatabase' /\ PreviewsOnDatabase'
      BY <2>0, <2>12, <3>1, <3>2 DEF Rebind, PoolsOnDatabase, PreviewsOnDatabase
    <3>5. at' = after /\ after \in {"migrate", "failed"}
      BY <2>0, <2>t, <2>12 DEF Rebind, Continue, Stage, TypeInv, Returns
    <3>6. Stage' /\ Asked'
      BY <2>0, <2>t, <2>12, <3>5 DEF Rebind, RebindDB, Stage, Asked
    <3>. QED BY <3>3, <3>4, <3>6 DEF DataInv
  <2>13. ASSUME NEW r \in Requests, Request(r), UNCHANGED opVars PROVE DataInv'
    BY <2>0, <2>13, RequestData
  <2>14. ASSUME NEW p \in Previews, Expire(p), UNCHANGED opVars PROVE DataInv'
    <3>1. PreviewsOnDatabase'
      BY <2>0, <2>14 DEF Expire, PreviewsOnDatabase, Stored, Readers, TypeInv, TypeOK, CleanupType
    <3>. QED BY <2>0, <2>14, <3>1 DEF Expire, DataInv, Asked, Stage, PoolsOnDatabase, OnItsFile
  <2>15. ASSUME NEW h \in Handles, NEW a \in Accounts, NEW s \in Status, Write(h, a, s)
         PROVE DataInv'
    <3>1. PICK f \in Reach(h) : Connect(h, f)
      BY <2>15 DEF Write
    <3>2. h \in open /\ f = path["db"]
      BY <2>0, ReachIsDatabase
    <3>3. PoolsOnDatabase'
      BY <2>0, <2>15, <3>1, <3>2, ConnectIsDatabase DEF Write
    <3>4. PreviewsOnDatabase' /\ OnItsFile'
      BY <2>0, <2>15 DEF Write, PreviewsOnDatabase, OnItsFile, Stored, Readers
    <3>. QED BY <2>0, <2>15, <3>3, <3>4 DEF Write, DataInv, Asked, Stage
  <2>16. CASE Missing
    <3>1. path["db"] = NoFile
      BY <2>16 DEF Missing, CreateMissing
    <3>2. \A h \in Handles : pool[h] = {}
      BY <2>0, <3>1 DEF PoolsOnDatabase, TypeInv, TypeOK, FilesType
    <3>3. PoolsOnDatabase'
      BY <2>16, <3>2 DEF Missing, PoolsOnDatabase
    <3>4. cleanup \in open => Stored = {} /\ Readers = {}
      BY <2>0, <3>1 DEF PreviewsOnDatabase
    <3>5. PreviewsOnDatabase' /\ OnItsFile'
      BY <2>0, <2>16, <3>4 DEF Missing, PreviewsOnDatabase, OnItsFile, Stored, Readers
    <3>. QED BY <2>0, <2>16, <3>3, <3>5 DEF Missing, DataInv, Asked, Stage
  <2>17. CASE Crash
    <3>1. Stored' = {} /\ Readers' = {} /\ OnItsFile'
      BY <2>17 DEF Crash, Stored, Readers, OnItsFile
    <3>2. PoolsOnDatabase' /\ PreviewsOnDatabase'
      BY <2>17, <3>1 DEF Crash, PoolsOnDatabase, PreviewsOnDatabase
    <3>3. Stage' /\ Asked'
      BY <2>0, <2>17 DEF Crash, Stage, Asked, Running
    <3>. QED BY <3>1, <3>2, <3>3 DEF DataInv
  <2>18. CASE Restart
    <3>1. open = {} /\ \A h \in Handles : pool[h] = {}
      BY <2>0, <2>18, <2>c DEF Restart, Stage
    <3>2. PoolsOnDatabase'
      BY <2>18, <3>1 DEF Restart, PoolsOnDatabase
    <3>3. Stored' = {} /\ Readers' = {}
      BY <2>18 DEF Restart, AfterCrash, Stored, Readers
    <3>4. PreviewsOnDatabase' /\ OnItsFile'
      BY <2>0, <2>18, <3>3 DEF Restart, PreviewsOnDatabase, OnItsFile
    <3>5. cleanup' = handle' /\ open' = {handle'} /\ handle' \in Nat
      BY <2>t, <2>18, <3>1, FilesAssumption DEF Restart, OpenAppDB
    <3>6. Stage' /\ Asked'
      BY <2>0, <2>18, <3>5 DEF Restart, Stage, Asked
    <3>. QED BY <3>2, <3>4, <3>6 DEF DataInv
  <2>19. CASE UNCHANGED vars
    BY <2>0, <2>19, SameConnections DEF vars, DataInv, Asked, Stage
  <2>. QED
    BY <1>2, <2>1, <2>3, <2>4, <2>5, <2>6, <2>7, <2>8, <2>9, <2>10, <2>11, <2>12, <2>13, <2>14,
       <2>15, <2>16, <2>17, <2>18, <2>19 DEF Next, OpStep, BeginImport
<1>. QED BY <1>1, <1>2

\* Whatever the user asks for but an import, and whatever fails, the transaction of a
\* confirmation is on the file its preview was read from: RebindDB has forgotten the
\* previews of the replaced database and waited for those that were being confirmed.
THEOREM TokensStay == Spec => []TokenStaysInDataSet
<1>1. Init => TypeInv /\ DataInv /\ AfterCrash
  BY InitType, DataInit DEF Init, AfterCrash
<1>2. TypeInv /\ DataInv /\ AfterCrash /\ [Next]_vars => (TypeInv /\ DataInv /\ AfterCrash)'
  BY TypeNext, DataNext, CrashNext
<1>3. DataInv => TokenStaysInDataSet
  BY DEF DataInv, OnItsFile, TokenStaysInDataSet
<1>. QED BY <1>1, <1>2, <1>3, PTL DEF Spec
-------------------------------------------------------------------------------
(* A deletion is what its preview showed *)

\* What DeletedAsPreviewed says of a step.
AsPreviewed(r, f) ==
  pc[r] = "checked" /\ on[r] = f /\ pc'[r] = "over" /\ rows'[f] # rows[f] =>
    /\ \A a \in held[r].items : rows[f][a] = "unsupported" /\ rows'[f][a] = "gone"
    /\ \A a \in Accounts \ held[r].items : rows'[f][a] = rows[f][a]

\* The step of a request that is not the end of r leaves r where it is.
LEMMA OnlyItsDelete ==
  ASSUME TypeInv, NEW r \in Requests, NEW f \in Files, [Next]_vars,
         pc[r] = "checked", pc'[r] = "over", rows'[f] # rows[f]
  PROVE  Delete(r)
<1>. USE DEF opVars, fileVars, handleVars, cleanupVars
<1>1. ASSUME NEW q \in Requests, Request(q), UNCHANGED opVars PROVE Delete(r)
  <2>1. q = r
    BY <1>1 DEF Request, Advance, LoadCandidates, Claim, Put, Recheck, Delete, Fail, Leave, Go,
                TypeInv, TypeOK, CleanupType
  <2>2. ~(LoadCandidates(q) \/ Put(q) \/ Recheck(q) \/ Fail(q) \/ \E p \in Previews : Claim(q, p))
    BY <1>1 DEF LoadCandidates, Claim, Put, Recheck, Fail
  <2>. QED BY <1>1, <2>1, <2>2 DEF Request, Advance
<1>2. ASSUME OpStep \/ BeginImport \/ Restart \/ (\E q \in Images : BeginRestore(q))
             \/ (\E p \in Previews : Expire(p)) \/ Missing \/ UNCHANGED vars
             \/ (\E h \in Handles, a \in Accounts, s \in Status : Write(h, a, s))
      PROVE  pc'[r] = pc[r]
  BY <1>2 DEF OpStep, BeginImport, Restart, BeginRestore, Expire, Missing, vars, Write, Close,
              MoveOld, MoveNew, MoveBack, Migrate, Undo, WriteImage, RemoveOld, Reopen, Rebind,
              RebindDB
<1>3. CASE Crash
  BY <1>3 DEF Crash
<1>. QED BY <1>1, <1>2, <1>3 DEF Next

\* The DELETE and its commit take away all accounts of the preview, which are still
\* unsupported, and no other.
LEMMA DeleteAsPreviewed ==
  ASSUME TypeInv, NEW r \in Requests, NEW f \in Files, Delete(r), on[r] = f, rows'[f] # rows[f]
  PROVE  /\ \A a \in held[r].items : rows[f][a] = "unsupported" /\ rows'[f][a] = "gone"
         /\ \A a \in Accounts \ held[r].items : rows'[f][a] = rows[f][a]
<1>1. held[r].items \subseteq Accounts /\ rows \in [Files -> Rows]
  BY DEF TypeInv, TypeOK, FilesType, CleanupType
<1>2. AllEligible(f, held[r].items)
  BY DEF Delete, fileVars
<1>3. rows' = [rows EXCEPT ![f] = [a \in Accounts |-> IF a \in Deleted(r) THEN "gone" ELSE @[a]]]
  BY DEF Delete
<1>4. Deleted(r) = held[r].items
  BY <1>2 DEF Deleted, AllEligible
<1>5. rows'[f] = [a \in Accounts |-> IF a \in held[r].items THEN "gone" ELSE rows[f][a]]
  BY <1>1, <1>3, <1>4
<1>6. \A a \in held[r].items : rows[f][a] = "unsupported"
  BY <1>2 DEF AllEligible, Eligible
<1>. QED BY <1>1, <1>5, <1>6

\* Whatever else is written to the database between its steps, a confirmation deletes
\* the accounts of its preview, all of them and while they are unsupported, or nothing:
\* the recheck in the transaction, the count of the DELETE and its rollback.
THEOREM DeletionsArePreviewed == Spec => DeletedAsPreviewed
<1>1. ASSUME TypeInv, [Next]_vars PROVE \A r \in Requests, f \in Files : AsPreviewed(r, f)
  BY <1>1, OnlyItsDelete, DeleteAsPreviewed DEF AsPreviewed
<1>2. Spec => []TypeInv
  BY InitType, TypeNext, PTL DEF Spec
<1>3. TypeInv /\ [Next]_vars =>
        [\A r \in Requests, f \in Files : AsPreviewed(r, f)]_vars
  BY <1>1
<1>. QED BY <1>2, <1>3, PTL DEF Spec, DeletedAsPreviewed, AsPreviewed

-------------------------------------------------------------------------------
(* Where the old database is *)

OldInPlace == path["db"] = OldFile
OldAside == path["aside"] = OldFile

\* What an operation does in a step depends on what was asked for, and what it undoes
\* on a failure before it.
Course ==
  /\ at \in {"close", "moveNew", "migrate", "undo"} \/ after = "migrate" => kind = "restore"
  /\ at \in {"moveBack", "undo"} \/ (at \in {"reopen", "rebind"} /\ after = "failed")
       => faults > 0
  /\ at \in {"idle", "rebind"} \/ (kind = "import" /\ at # "dead") => handle \in open

\* With one failure at most, the old database has its name until it is set aside, is
\* aside until it is put back, and an operation that fails has put it back.
OldKept ==
  faults <= 1 =>
    /\ at \in {"idle", "close", "moveOld"} => OldInPlace
    /\ at \in {"moveNew", "write", "moveBack", "migrate", "undo", "clean"} => OldAside
    /\ at \in {"reopen", "rebind"} => IF after = "failed" THEN OldInPlace ELSE OldAside
    /\ at = "failed" => OldInPlace /\ (broken \/ handle \in open)
    /\ at \in {"dead", "restarted"} => OldInPlace \/ OldAside
HIDE DEF NoFile, Files, Handles, NoPreview, Preview
USE DEF OldFile
RecoveryInv == Course /\ OldKept

USE DEF OldFile

LEMMA RecoveryInit == Init => RecoveryInv
BY FilesAssumption
DEF Init, FilesInit, CleanupInit, RecoveryInv, Course, OldKept, OldInPlace, OldAside, Names

\* What becomes of a file that is renamed, and of one that is not.
LEMMA RenamedFiles ==
  ASSUME path \in [Names -> Files \cup {NoFile}]
  PROVE  /\ Renamed("db", "aside")["aside"] = path["db"]
         /\ Renamed("aside", "db")["db"] = path["aside"]
         /\ Renamed("temp", "db")["aside"] = path["aside"]
BY DEF Renamed, Names

\* An operation that goes on keeps the files; one that ends keeps the database.
LEMMA ContinuePath ==
  ASSUME NEW step, NEW p \in [Names -> Files \cup {NoFile}], Continue(step, p)
  PROVE  /\ at' = step /\ path'["db"] = p["db"]
         /\ step \notin Ended => path'["aside"] = p["aside"]
BY DEF Continue, Leftovers, Names

\* A failure is counted.
LEMMA CallCounts ==
  ASSUME TypeInv, NEW ok \in BOOLEAN, Call(ok)
  PROVE  /\ ok => faults' = faults
         /\ ~ok => faults' = faults + 1
         /\ faults \in Nat /\ faults' \in Nat
BY RestoreAssumption DEF Call, TypeInv, TypeOK

\* Every step of an operation keeps the old database.
LEMMA RecoveryOp ==
  ASSUME TypeInv, DataInv, RecoveryInv, OpStep
  PROVE  RecoveryInv'
<1>. USE DEF RecoveryInv, Course, OldKept, OldInPlace, OldAside, handleVars, opVars
<1>p. path \in [Names -> Files \cup {NoFile}] /\ faults \in Nat
  BY RestoreAssumption DEF TypeInv, TypeOK, FilesType
<1>t. after \in {"none", "migrate", "clean", "failed"} /\ (at \in {"reopen", "rebind"} => after # "none")
  BY DEF TypeInv, TypeOK, Returns
<1>e. "failed" \in Ended /\ "done" \in Ended
      /\ \A step \in {"moveOld", "moveNew", "write", "moveBack", "reopen", "rebind", "migrate",
                      "undo", "clean"} : step \notin Ended
  BY DEF Ended
<1>1. ASSUME NEW ok \in BOOLEAN, Close(ok) PROVE RecoveryInv'
  <2>1. at = "close" /\ kind = "restore" /\ UNCHANGED <<handle, kind, after>> /\ Call(ok)
        /\ (~ok => broken') /\ Continue(IF ok THEN "moveOld" ELSE "failed", path)
    BY <1>1 DEF Close
  <2>2. at' = (IF ok THEN "moveOld" ELSE "failed") /\ path'["db"] = path["db"]
    BY <1>p, <2>1, ContinuePath
  <2>3. CASE ok BY <1>p, <2>1, <2>2, <2>3, CallCounts
  <2>4. CASE ~ok BY <1>p, <2>1, <2>2, <2>4, CallCounts
  <2>. QED BY <2>3, <2>4
<1>2. ASSUME NEW ok \in BOOLEAN, MoveOld(ok) PROVE RecoveryInv'
  <2>0. at = "moveOld" /\ Call(ok) /\ UNCHANGED <<handle, open, kind>>
    BY <1>2 DEF MoveOld
  <2>1. CASE ok
    <3>1. PICK step \in {"moveNew", "write"} :
            Continue(step, Renamed("db", "aside")) /\ (after' = "none" \/ after' = after)
            /\ (step = "moveNew" => kind = "restore")
      BY <1>2, <2>1 DEF MoveOld
    <3>2. at' = step /\ path'["aside"] = path["db"]
      BY <1>p, <1>e, <3>1, PathType, RenamedFiles, ContinuePath
    <3>. QED BY <2>0, <2>1, <3>1, <3>2, CallCounts
  <2>2. CASE ~ok
    <3>1. PICK step \in {"reopen", "failed"} :
            Continue(step, path) /\ (IF step = "reopen" THEN after' = "failed" ELSE after' = after)
            /\ (step = "failed" => kind # "restore")
      BY <1>2, <2>2 DEF MoveOld
    <3>2. at' = step /\ path'["db"] = path["db"]
      BY <1>p, <3>1, ContinuePath
    <3>3. kind \in {"import", "restore"}
      BY <2>0, RestoreAssumption DEF TypeInv, TypeOK, DataInv, Asked
    <3>. QED BY <1>p, <2>0, <2>2, <3>1, <3>2, <3>3, CallCounts
  <2>. QED BY <2>1, <2>2
<1>3. ASSUME NEW ok \in BOOLEAN, MoveNew(ok) PROVE RecoveryInv'
  BY <1>3, <1>p, <1>e, CallCounts, ContinuePath, PathType, RenamedFiles DEF MoveNew
<1>4. ASSUME NEW ok \in BOOLEAN, MoveBack(ok) PROVE RecoveryInv'
  <2>0. at = "moveBack" /\ Call(ok) /\ UNCHANGED <<handle, open, kind>> /\ faults > 0
    BY <1>4 DEF MoveBack
  <2>1. CASE kind = "restore" \/ (after = "clean" /\ ok)
    <3>1. at' = "reopen" /\ after' = "failed"
      BY <1>4, <2>1, <1>p, PathType, ContinuePath DEF MoveBack, Returned
    <3>2. ok => path'["db"] = path["aside"]
      BY <1>4, <2>1, <1>p, PathType, ContinuePath, RenamedFiles DEF MoveBack, Returned
    <3>. QED BY <1>p, <2>0, <3>1, <3>2, CallCounts
  <2>2. CASE ~(kind = "restore" \/ (after = "clean" /\ ok))
    <3>1. at' = "failed" /\ after' = after
      BY <1>4, <2>2, <1>p, PathType, ContinuePath DEF MoveBack
    <3>2. ok => path'["db"] = path["aside"]
      BY <1>4, <2>2, <1>p, PathType, ContinuePath, RenamedFiles DEF MoveBack
    <3>3. kind = "import"
      BY <2>0, <2>2, RestoreAssumption DEF TypeInv, TypeOK, DataInv, Asked
    <3>. QED BY <1>p, <2>0, <3>1, <3>2, <3>3, CallCounts
  <2>. QED BY <2>1, <2>2
<1>5. ASSUME NEW ok \in BOOLEAN, Migrate(ok) PROVE RecoveryInv'
  BY <1>5, <1>p, <1>e, CallCounts, ContinuePath DEF Migrate
<1>6. ASSUME NEW ok \in BOOLEAN, Undo(ok) PROVE RecoveryInv'
  BY <1>6, <1>p, <1>e, CallCounts, ContinuePath, PathType, RenamedFiles DEF Undo
<1>7. ASSUME NEW ok \in BOOLEAN, Reopen(ok) PROVE RecoveryInv'
  <2>1. CASE ok
    BY <1>7, <2>1, <1>t, CallCounts DEF Reopen, OpenAppDB
  <2>2. CASE ~ok
    BY <1>7, <2>2, <1>p, <1>t, <1>e, CallCounts, ContinuePath DEF Reopen, AfterRefusal
  <2>. QED BY <2>1, <2>2
<1>8. ASSUME NEW ok \in BOOLEAN, NEW r \in Images, WriteImage(ok, r) PROVE RecoveryInv'
  <2>1. path'["aside"] = path["aside"]
    BY <1>8, <1>p DEF WriteImage, WriteFile, Names
  <2>. QED BY <1>8, <2>1, CallCounts DEF WriteImage
<1>9. CASE RemoveOld
  BY <1>9, <1>p, ContinuePath DEF RemoveOld
<1>10. CASE Rebind
  BY <1>10, <1>p, <1>t, <1>e, ContinuePath DEF Rebind
<1>. QED BY <1>1, <1>2, <1>3, <1>4, <1>5, <1>6, <1>7, <1>8, <1>9, <1>10 DEF OpStep

\* So does every other step of the program.
LEMMA RecoveryNext ==
  ASSUME TypeInv, DataInv, RecoveryInv, [Next]_vars
  PROVE  RecoveryInv'
<1>. USE DEF RecoveryInv, Course, OldKept, OldInPlace, OldAside, opVars
<1>p. path \in [Names -> Files \cup {NoFile}] /\ faults \in Nat
  BY RestoreAssumption DEF TypeInv, TypeOK, FilesType
<1>1. ASSUME NEW r \in Images, BeginRestore(r) PROVE RecoveryInv'
  <2>1. path'["db"] = path["db"]
    BY <1>1, <1>p DEF BeginRestore, WriteFile, Names
  <2>. QED BY <1>1, <2>1 DEF BeginRestore, handleVars
<1>2. CASE BeginImport
  BY <1>2 DEF BeginImport, fileVars, handleVars, DataInv, Asked
<1>3. CASE OpStep
  BY <1>3, RecoveryOp
<1>4. ASSUME UNCHANGED <<path, handle, open, opVars>> PROVE RecoveryInv'
  BY <1>4
<1>5. ASSUME NEW r \in Requests, Request(r), UNCHANGED opVars PROVE RecoveryInv'
  <2>1. UNCHANGED <<path, handle, open>>
    BY <1>5 DEF Request, Advance, LoadCandidates, Claim, Put, Recheck, Delete, Fail, fileVars,
                handleVars
  <2>. QED BY <1>4, <1>5, <2>1
<1>6. ASSUME NEW p \in Previews, Expire(p), UNCHANGED opVars PROVE RecoveryInv'
  BY <1>4, <1>6 DEF Expire, fileVars, handleVars
<1>7. ASSUME NEW h \in Handles, NEW a \in Accounts, NEW s \in Status, Write(h, a, s)
      PROVE  RecoveryInv'
  BY <1>4, <1>7 DEF Write
<1>8. CASE Missing
  <2>1. path["db"] = NoFile /\ path'["aside"] = path["aside"]
    BY <1>8, <1>p DEF Missing, CreateMissing, WriteFile, Names
  <2>2. ~OldInPlace BY <2>1 DEF NoFile
  <2>3. UNCHANGED <<handle, open, opVars>> BY <1>8 DEF Missing, handleVars
  <2>. QED BY <2>1, <2>2, <2>3
<1>9. CASE Crash
  <2>1. faults' = faults + 1 /\ at' = "dead" /\ UNCHANGED <<path, kind, after>>
    BY <1>9 DEF Crash, Call, fileVars
  <2>2. at \in Running BY <1>9 DEF Crash
  <2>. QED BY <1>p, <2>1, <2>2 DEF Running
<1>10. CASE Restart
  BY <1>10 DEF Restart, OpenAppDB, fileVars
<1>11. CASE UNCHANGED vars
  BY <1>4, <1>11 DEF vars, fileVars, handleVars
<1>. QED
  BY <1>1, <1>2, <1>3, <1>5, <1>6, <1>7, <1>8, <1>9, <1>10, <1>11 DEF Next
-------------------------------------------------------------------------------
(* Whom the transactions of requests belong to *)

\* Unless an import has begun, cleanup has an open handle before and after a restore,
\* and a transaction that goes on then is on the database.
Settled ==
  kind # "import" /\ faults <= 1 =>
    /\ at \in {"idle", "close", "migrate"} => cleanup \in open
    /\ at \notin Running => \A r \in Requests : pc[r] = "checked" => on[r] = path["db"]

\* Before a restore there is no file of an earlier one.
NoTemp == at = "idle" => path["temp"] = NoFile

SettledInv == Settled /\ NoTemp

LEMMA SettledInit == Init => SettledInv
BY DEF Init, FilesInit, CleanupInit, SettledInv, Settled, NoTemp, Names

\* Once a step has stopped the requests there is no transaction.
LEMMA NoReaders ==
  ASSUME Readers' = {}
  PROVE  \A r \in Requests : pc'[r] # "checked"
BY DEF Readers

\* The steps of an operation.
LEMMA SettledOp ==
  ASSUME TypeInv, DataInv, RecoveryInv, SettledInv, OpStep
  PROVE  SettledInv'
<1>. USE DEF SettledInv, Settled, NoTemp, Running, Ended
<1>p. path \in [Names -> Files \cup {NoFile}] /\ faults \in Nat
  BY RestoreAssumption DEF TypeInv, TypeOK, FilesType
<1>1. ASSUME NEW ok \in BOOLEAN, Close(ok) PROVE SettledInv'
  <2>1. /\ at = "close" /\ kind' = kind /\ Call(ok) /\ UNCHANGED <<store, pc, held, on, cleanup>>
        /\ Continue(IF ok THEN "moveOld" ELSE "failed", path)
    BY <1>1 DEF Close, cleanupVars
  <2>2. at' = (IF ok THEN "moveOld" ELSE "failed") /\ path'["db"] = path["db"]
    BY <1>p, <2>1, ContinuePath
  <2>3. ASSUME NEW r \in Requests, kind # "import", faults <= 1, pc[r] = "checked"
        PROVE  on[r] = path["db"]
    <3>1. cleanup \in open BY <2>1, <2>3
    <3>2. on[r] = held[r].file /\ r \in Readers BY <2>3 DEF DataInv, OnItsFile, Readers
    <3>. QED BY <2>3, <3>1, <3>2 DEF DataInv, PreviewsOnDatabase
  <2>. QED BY <1>p, <2>1, <2>2, <2>3, CallCounts
<1>2. ASSUME NEW ok \in BOOLEAN, MoveOld(ok) \/ MoveNew(ok) \/ MoveBack(ok) PROVE SettledInv'
  <2>1. kind' = kind /\ (kind = "restore" => at' \in {"moveNew", "moveBack", "reopen"}) /\ at' # "idle"
    BY <1>2 DEF MoveOld, MoveNew, MoveBack, Returned, Continue
  <2>2. at # "idle" => kind \in {"restore", "import"}
    BY RestoreAssumption DEF TypeInv, TypeOK, DataInv, Asked
  <2>. QED BY <1>2, <2>1, <2>2 DEF MoveOld, MoveNew, MoveBack
<1>3. ASSUME NEW ok \in BOOLEAN, Migrate(ok) PROVE SettledInv'
  <2>1. at = "migrate" /\ UNCHANGED <<kind, open, store, pc, held, on, cleanup>> /\ Call(ok)
        /\ Continue(IF ok THEN "done" ELSE "undo", path)
    BY <1>3 DEF Migrate, cleanupVars
  <2>2. at' = (IF ok THEN "done" ELSE "undo") /\ path'["db"] = path["db"]
    BY <1>p, <2>1, ContinuePath
  <2>3. ASSUME NEW r \in Requests, kind # "import", faults <= 1, pc[r] = "checked"
        PROVE  on[r] = path["db"]
    <3>1. cleanup \in open BY <2>1, <2>3
    <3>2. on[r] = held[r].file /\ r \in Readers BY <2>3 DEF DataInv, OnItsFile, Readers
    <3>. QED BY <2>3, <3>1, <3>2 DEF DataInv, PreviewsOnDatabase
  <2>. QED BY <1>p, <2>1, <2>2, <2>3, CallCounts
<1>4. ASSUME NEW ok \in BOOLEAN, Undo(ok) PROVE SettledInv'
  BY <1>4 DEF Undo, Continue
<1>5. ASSUME NEW ok \in BOOLEAN, Reopen(ok) PROVE SettledInv'
  <2>1. CASE ok BY <1>5, <2>1 DEF Reopen
  <2>2. CASE ~ok
    <3>1. at = "reopen" /\ Call(ok) /\ kind' = kind /\ at' = AfterRefusal /\ after' = after
      BY <1>5, <2>2 DEF Reopen, Continue
    <3>2. CASE after = "failed"
      BY <1>p, <2>2, <3>1, <3>2, CallCounts DEF RecoveryInv, Course, AfterRefusal
    <3>3. CASE after # "failed"
      <4>1. at' \in {"undo", "moveBack"}
        BY <3>1, <3>3 DEF AfterRefusal, TypeInv, TypeOK, Returns
      <4>. QED BY <4>1
    <3>. QED BY <3>2, <3>3
  <2>. QED BY <2>1, <2>2
<1>6. ASSUME NEW ok \in BOOLEAN, NEW r \in Images, WriteImage(ok, r) PROVE SettledInv'
  BY <1>6 DEF WriteImage
<1>7. CASE RemoveOld
  BY <1>7 DEF RemoveOld, Continue, DataInv, Stage
<1>8. CASE Rebind
  <2>1. at = "rebind" /\ at' = after /\ UNCHANGED <<kind, open, handle>>
        /\ cleanup' = handle /\ Readers' = {}
    BY <1>8 DEF Rebind, RebindDB, Continue, handleVars, Readers
  <2>2. handle \in open /\ after # "idle"
    BY <2>1 DEF RecoveryInv, Course, TypeInv, TypeOK
  <2>. QED BY <2>1, <2>2, NoReaders
<1>. QED BY <1>1, <1>2, <1>3, <1>4, <1>5, <1>6, <1>7, <1>8 DEF OpStep

\* The requests and everything else.
LEMMA SettledNext ==
  ASSUME TypeInv, DataInv, RecoveryInv, AfterCrash, SettledInv, [Next]_vars
  PROVE  SettledInv'
<1>. USE DEF SettledInv, Settled, NoTemp, Running, opVars
<1>p. path \in [Names -> Files \cup {NoFile}] /\ faults \in Nat
  BY RestoreAssumption DEF TypeInv, TypeOK, FilesType
<1>1. ASSUME NEW r \in Images, BeginRestore(r) PROVE SettledInv'
  <2>1. at = "idle" /\ at' = "close" /\ UNCHANGED <<open, cleanup, faults>> /\ kind # "import"
    BY <1>1 DEF BeginRestore, handleVars, cleanupVars, DataInv, Asked
  <2>. QED BY <2>1
<1>2. CASE BeginImport BY <1>2 DEF BeginImport
<1>3. CASE OpStep BY <1>3, SettledOp
<1>4. ASSUME NEW r \in Requests, Request(r), UNCHANGED opVars PROVE SettledInv'
  <2>1. UNCHANGED <<path, open, cleanup>>
    BY <1>4 DEF Request, Advance, LoadCandidates, Claim, Put, Recheck, Delete, Fail, fileVars,
                handleVars
  <2>2. ASSUME NEW q \in Requests, pc'[q] = "checked", kind # "import",
               pc[q] = "checked" => on[q] = path["db"]
        PROVE  on'[q] = path["db"]
    <3>1. CASE Recheck(r)
      <4>1. PICK f \in Reach(cleanup) :
              IF AllEligible(f, held[r].items)
              THEN on' = [on EXCEPT ![r] = f] /\ Go(r, "checked", held[r])
              ELSE Leave(r) /\ on' = on
        BY <3>1 DEF Recheck
      <4>2. f = path["db"]
        BY <2>2, ReachIsDatabase DEF DataInv, TypeInv, TypeOK, CleanupType
      <4>. QED BY <2>2, <4>1, <4>2 DEF Go, Leave, TypeInv, TypeOK, CleanupType
    <3>2. CASE ~Recheck(r)
      BY <1>4, <2>2, <3>2
      DEF Request, Advance, LoadCandidates, Claim, Put, Delete, Fail, Go, Leave, TypeInv, TypeOK,
          CleanupType
    <3>. QED BY <3>1, <3>2
  <2>. QED BY <1>4, <2>1, <2>2
<1>5. ASSUME UNCHANGED <<path, open, cleanup, pc, on, opVars>> PROVE SettledInv'
  BY <1>5
<1>6. ASSUME NEW p \in Previews, Expire(p), UNCHANGED opVars PROVE SettledInv'
  BY <1>5, <1>6 DEF Expire, fileVars, handleVars
<1>7. ASSUME NEW h \in Handles, NEW a \in Accounts, NEW s \in Status, Write(h, a, s)
      PROVE  SettledInv'
  BY <1>5, <1>7 DEF Write
<1>8. CASE Missing
  <2>1. path["db"] = NoFile /\ path'["temp"] = path["temp"]
        /\ UNCHANGED <<open, cleanup, pc, on, opVars>>
    BY <1>8, <1>p DEF Missing, CreateMissing, WriteFile, Names, handleVars, cleanupVars
  <2>2. ASSUME NEW r \in Requests, kind # "import", pc[r] = "checked" PROVE on[r] # NoFile
    BY <2>2 DEF DataInv, PreviewsOnDatabase, OnItsFile, Readers
  <2>. QED BY <2>1, <2>2
<1>9. CASE Crash
  BY <1>9 DEF Crash
<1>10. CASE Restart
  <2>1. \A r \in Requests : pc'[r] # "checked"
    BY <1>10 DEF Restart, AfterCrash, Readers
  <2>. QED BY <1>10, <2>1 DEF Restart
<1>11. CASE UNCHANGED vars
  BY <1>5, <1>11 DEF vars, fileVars, handleVars, cleanupVars
<1>. QED
  BY <1>1, <1>2, <1>3, <1>4, <1>6, <1>7, <1>8, <1>9, <1>10, <1>11 DEF Next
-------------------------------------------------------------------------------
(* Theorems *)

AllInv == TypeInv /\ DataInv /\ AfterCrash /\ RecoveryInv /\ SettledInv

LEMMA AlwaysInv == Spec => []AllInv
<1>1. Init => AllInv
  BY InitType, DataInit, RecoveryInit, SettledInit DEF Init, AfterCrash, AllInv
<1>2. AllInv /\ [Next]_vars => AllInv'
  BY TypeNext, DataNext, CrashNext, RecoveryNext, SettledNext DEF AllInv
<1>. QED BY <1>1, <1>2, PTL DEF Spec

\* With one failure at most, a crash included, the database that was there when the
\* operation began has a name until the operation has succeeded.
THEOREM OldSurvives == Spec => []OldDatabaseSurvives
<1>1. ASSUME TypeInv, RecoveryInv PROVE OldDatabaseSurvives
  <2>1. "db" \in Names /\ "aside" \in Names BY DEF Names
  <2>. QED
    BY <1>1, <2>1 DEF OldDatabaseSurvives, RecoveryInv, OldKept, OldInPlace, OldAside, TypeInv,
                      TypeOK, Running, Ended
<1>2. AllInv => OldDatabaseSurvives BY <1>1 DEF AllInv
<1>. QED BY <1>2, AlwaysInv, PTL

\* With one failure at most, an operation that fails has put the database it found back
\* under its name, and left App with an open handle whose connections are on it.
THEOREM FailuresAreUndone == Spec => []FailureIsUndone
<1>1. ASSUME TypeInv, DataInv, RecoveryInv PROVE FailureIsUndone
  <2>1. kind = "restore" => pool[handle] \subseteq {path["db"]}
    BY <1>1 DEF DataInv, PoolsOnDatabase, TypeInv, TypeOK, FilesType
  <2>. QED BY <1>1, <2>1 DEF FailureIsUndone, RecoveryInv, OldKept, OldInPlace
<1>2. AllInv => FailureIsUndone BY <1>1 DEF AllInv
<1>. QED BY <1>2, AlwaysInv, PTL

\* Once a restore is over, with one failure at most, every statement that commits writes
\* to the database the program has: no holder of the old handle reaches a file, and no
\* transaction from before the restore is left.
THEOREM WritesAreKept == Spec => WritesReachDatabase
<1>. DEFINE Kept == kind # "import" /\ faults <= 1 /\ at \notin Running =>
              \A f \in 1..created : rows'[f] # rows[f] => f = path'["db"]
<1>1. ASSUME AllInv, Next PROVE Kept
  <2>. SUFFICES ASSUME kind # "import", faults <= 1, at \notin Running,
                       NEW f \in 1..created, rows'[f] # rows[f]
                PROVE  f = path'["db"]
    OBVIOUS
  <2>i. TypeInv /\ DataInv /\ AfterCrash /\ SettledInv BY <1>1 DEF AllInv
  <2>t. rows \in [Files -> Rows] /\ created \in Nat /\ f \in Files
    BY <2>i, FilesAssumption DEF TypeInv, TypeOK, FilesType, Files
  <2>n. ASSUME NEW n \in Names, NEW r, WriteFile(n, r), path[n] = NoFile PROVE FALSE
    BY <2>t, <2>n DEF WriteFile
  <2>1. ASSUME NEW r \in Images, BeginRestore(r) PROVE FALSE
    BY <2>i, <2>1, <2>n DEF BeginRestore, SettledInv, NoTemp, Names
  <2>2. CASE Missing
    BY <2>2, <2>n DEF Missing, CreateMissing, Names
  <2>3. ASSUME NEW r \in Requests, Request(r), UNCHANGED opVars PROVE f = path'["db"]
    <3>1. Delete(r)
      BY <2>3 DEF Request, Advance, LoadCandidates, Claim, Put, Recheck, Fail, fileVars
    <3>2. f = on[r] /\ path' = path
      BY <2>t, <3>1 DEF Delete
    <3>. QED BY <2>i, <3>1, <3>2 DEF Delete, SettledInv, Settled
  <2>4. ASSUME NEW h \in Handles, NEW a \in Accounts, NEW s \in Status, Write(h, a, s)
        PROVE  f = path'["db"]
    <3>1. PICK g \in Reach(h) : rows' = [rows EXCEPT ![g][a] = s] /\ path' = path
      BY <2>4 DEF Write
    <3>2. g = path["db"] BY <2>i, ReachIsDatabase DEF DataInv
    <3>. QED BY <2>t, <3>1, <3>2
  <2>5. CASE OpStep
    BY <2>5 DEF OpStep, Close, MoveOld, MoveNew, MoveBack, Migrate, Undo, Reopen, WriteImage,
                RemoveOld, Rebind, Running
  <2>6. CASE BeginImport \/ Crash \/ Restart
    BY <2>6 DEF BeginImport, Crash, Restart, fileVars
  <2>7. ASSUME NEW p \in Previews, Expire(p) PROVE FALSE
    BY <2>7 DEF Expire, fileVars
  <2>. QED BY <1>1, <2>1, <2>2, <2>3, <2>4, <2>5, <2>6, <2>7 DEF Next
<1>2. AllInv /\ [Next]_vars => [Kept]_vars BY <1>1
<1>. QED BY <1>2, AlwaysInv, PTL DEF Spec, WritesReachDatabase
=============================================================================
