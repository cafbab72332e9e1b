------------------------------- MODULE Restore -------------------------------
(***************************************************************************)
(* The database is replaced while the program uses it: by a backup         *)
(* (restoreFromBackup, under App.mu) or by an encrypted export             *)
(* (RestoreEncryptedExport, under no lock).  Each moves files, opens a new *)
(* handle and rebinds holders; every step may fail, and the rollback too.  *)
(* Requests go on meanwhile: cleanups (AccountCleanup) and other writers.  *)
(***************************************************************************)
EXTENDS AccountCleanup

CONSTANTS
  Images,        \* what the backup or the export may hold
  Kinds,         \* what the user asks for: "restore", "import"
  MaxFaults      \* failures of the system, a crash included

ASSUME RestoreAssumption ==
  Images \subseteq Rows /\ Kinds \subseteq {"restore", "import"} /\ MaxFaults \in Nat

VARIABLES
  kind,          \* the operation that was asked for
  at,            \* its next step, or how it ended
  after,         \* the step that follows reopenDatabase
  broken,        \* the handle's Close failed and nothing was reopened
  faults         \* failures so far

opVars == <<kind, at, after, broken, faults>>
vars == <<fileVars, handleVars, cleanupVars, opVars>>

Running == {"close", "moveOld", "moveNew", "write", "moveBack",
            "reopen", "rebind", "migrate", "undo", "clean"}
Ended == {"done", "failed"}

TypeOK ==
  /\ FilesType /\ CleanupType
  /\ kind \in Kinds \cup {"none"}
  /\ at \in Running \cup Ended \cup {"idle", "dead", "restarted"}
  /\ after \in {"none", "migrate", "clean", "failed"}
  /\ broken \in BOOLEAN
  /\ faults \in 0..MaxFaults

Init ==
  /\ FilesInit /\ CleanupInit
  /\ kind = "none" /\ at = "idle" /\ after = "none"
  /\ broken = FALSE
  /\ faults = 0

\* A call of the system succeeds or fails.
Call(ok) ==
  /\ ok \in BOOLEAN
  /\ IF ok THEN UNCHANGED faults ELSE faults < MaxFaults /\ faults' = faults + 1

\* Names a finished operation removes: those restoreFromBackup deferred, and what
\* RestoreEncryptedExport removes when it has succeeded.
Leftovers(end) ==
  IF kind = "restore" THEN {"temp", "aside"}
  ELSE IF end = "done" THEN {"aside"} ELSE {}

\* The operation goes to a step, or ends and removes its leftovers from p.
Continue(step, p) ==
  /\ at' = step
  /\ path' = [n \in Names |->
                IF step \in Ended /\ n \in Leftovers(step) THEN NoFile ELSE p[n]]

-------------------------------------------------------------------------------
(* Restore from a backup *)

\* The backup is valid and copied to a file of its own, after a snapshot of the
\* present database was stored in backups; a failure leaves everything as it was.
BeginRestore(r) ==
  /\ at = "idle" /\ "restore" \in Kinds
  /\ WriteFile("temp", r)
  /\ kind' = "restore" /\ at' = "close"
  /\ UNCHANGED <<handleVars, cleanupVars, after, broken, faults>>

\* db.Close: transactions that run go on.  If it fails nothing is reopened.
Close(ok) ==
  /\ at = "close" /\ Call(ok)
  /\ open' = open \ {handle}
  /\ pool' = [pool EXCEPT ![handle] = {}]
  /\ broken' = ~ok
  /\ Continue(IF ok THEN "moveOld" ELSE "failed", path)
  /\ UNCHANGED <<rows, created, handle, kept, cleanupVars, kind, after>>

\* os.Rename(dbPath, currentPath), or os.Rename(currentDBPath, backupPath).
MoveOld(ok) ==
  /\ at = "moveOld" /\ Call(ok)
  /\ IF kind = "restore"
     THEN /\ Continue(IF ok THEN "moveNew" ELSE "reopen", IF ok THEN Renamed("db", "aside") ELSE path)
          /\ after' = IF ok THEN "none" ELSE "failed"
     ELSE /\ Continue(IF ok THEN "write" ELSE "failed", IF ok THEN Renamed("db", "aside") ELSE path)
          /\ UNCHANGED after
  /\ UNCHANGED <<rows, created, handleVars, cleanupVars, kind, broken>>

\* os.Rename(tempPath, dbPath).
MoveNew(ok) ==
  /\ at = "moveNew" /\ Call(ok)
  /\ IF ok
     THEN Continue("reopen", Renamed("temp", "db")) /\ after' = "migrate"
     ELSE Continue("moveBack", path) /\ UNCHANGED after
  /\ UNCHANGED <<rows, created, handleVars, cleanupVars, kind, broken>>

\* Mutant: only the handle is opened again.
Returned_NoRename(ok) == Continue("reopen", path) /\ after' = "failed"

\* What was set aside gets its name back, and the program a handle on it.
Returned(ok) ==
  /\ Continue("reopen", IF ok THEN Renamed("aside", "db") ELSE path)
  /\ after' = "failed"

\* The previous database is renamed back: after a failed MoveNew with a new handle in
\* any case, in an import only if the rename succeeded and there is one to replace.
MoveBack(ok) ==
  /\ at = "moveBack" /\ Call(ok)
  /\ IF kind = "restore" \/ (after = "clean" /\ ok)
     THEN Returned(ok)
     ELSE /\ Continue("failed", IF ok THEN Renamed("aside", "db") ELSE path)
          /\ UNCHANGED after
  /\ UNCHANGED <<rows, created, handleVars, cleanupVars, kind, broken>>

\* migrate and ensureDefaultSettings, through the new handle.
Migrate(ok) ==
  /\ at = "migrate" /\ Call(ok)
  /\ path["db"] # NoFile
  /\ Connect(handle, path["db"])
  /\ Continue(IF ok THEN "done" ELSE "undo", path)
  /\ UNCHANGED <<rows, created, handle, kept, open, cleanupVars, kind, after, broken>>

\* rollbackRestore.
Undo(ok) ==
  /\ at = "undo" /\ Call(ok)
  /\ open' = open \ {handle}
  /\ pool' = [pool EXCEPT ![handle] = {}]
  /\ Continue("reopen", IF ok THEN Renamed("aside", "db") ELSE Removed({"db"}))
  /\ after' = "failed"
  /\ UNCHANGED <<rows, created, handle, kept, cleanupVars, kind, broken>>

-------------------------------------------------------------------------------
(* Encrypted import *)

\* The export is decrypted and unpacked in memory.
BeginImport ==
  /\ at = "idle" /\ "import" \in Kinds
  /\ kind' = "import" /\ at' = "moveOld"
  /\ UNCHANGED <<fileVars, handleVars, cleanupVars, after, broken, faults>>

\* os.WriteFile of the image, or of a part of it.
WriteImage(ok, r) ==
  /\ at = "write" /\ Call(ok)
  /\ WriteFile("db", IF ok THEN r ELSE Empty)
  /\ at' = IF ok THEN "reopen" ELSE "moveBack"
  /\ after' = IF ok THEN "clean" ELSE "none"
  /\ UNCHANGED <<handleVars, cleanupVars, kind, broken>>

\* The previous database is removed; the settings and their reload do not count.
RemoveOld ==
  /\ at = "clean"
  /\ Continue("done", path)
  /\ UNCHANGED <<rows, created, handleVars, cleanupVars, kind, after, broken, faults>>

-------------------------------------------------------------------------------
(* reopenDatabase *)

\* Mutant: the error is returned without a rollback.
AfterRefusal_Return == "failed"

\* The step after a reopening that failed.
AfterRefusal ==
  CASE after = "migrate" -> "undo"
    [] after = "clean"   -> "moveBack"
    [] OTHER             -> "failed"

\* The new handle, for App, the repositories and the hub; the old one is not closed.
Reopen(ok) ==
  /\ at = "reopen" /\ Call(ok)
  /\ IF ok
     THEN OpenAppDB /\ at' = "rebind" /\ UNCHANGED path
     ELSE Continue(AfterRefusal, path) /\ UNCHANGED <<handle, open>>
  /\ UNCHANGED <<rows, created, kept, pool, cleanupVars, kind, after, broken>>

Rebind ==
  /\ at = "rebind"
  /\ RebindDB
  /\ Continue(after, path)
  /\ UNCHANGED <<rows, created, handleVars, kind, after, broken, faults>>

-------------------------------------------------------------------------------
(* The rest of the program *)

\* A check-in, an import of accounts, an edit: a statement of its own, through the
\* handle of App or the one its service was built with.
Write(h, a, s) ==
  /\ h \in {handle, kept}
  /\ \E f \in Reach(h) :
       /\ rows[f][a] # s
       /\ rows' = [rows EXCEPT ![f][a] = s]
       /\ Connect(h, f)
       /\ clean' = Overtaken(f)
  /\ UNCHANGED <<path, created, handle, kept, open, cleanup, store, issued, pc, held, on, opVars>>

Missing ==
  /\ CreateMissing
  /\ UNCHANGED <<handleVars, cleanupVars, opVars>>

\* The process ends.
Crash ==
  /\ at \in Running
  /\ Call(FALSE)
  /\ at' = "dead"
  /\ open' = {} /\ pool' = [h \in Handles |-> {}]
  /\ store' = [p \in Previews |-> NoPreview]
  /\ pc' = [r \in Requests |-> "over"]
  /\ held' = [r \in Requests |-> NoPreview]
  /\ on' = [r \in Requests |-> NoFile]
  /\ clean' = [r \in Requests |-> FALSE]
  /\ UNCHANGED <<fileVars, handle, kept, cleanup, issued, kind, after, broken>>

\* NewApp: everybody is built with one handle, on whatever the name stands for.
Restart ==
  /\ at = "dead"
  /\ OpenAppDB
  /\ kept' = handle' /\ cleanup' = handle'
  /\ at' = "restarted"
  /\ UNCHANGED <<fileVars, pool, store, issued, pc, held, on, clean, kind, after, broken, faults>>

-------------------------------------------------------------------------------

OpStep ==
  \/ \E ok \in BOOLEAN : \/ Close(ok) \/ MoveOld(ok) \/ MoveNew(ok) \/ MoveBack(ok)
                         \/ Migrate(ok) \/ Undo(ok) \/ Reopen(ok)
  \/ \E ok \in BOOLEAN, r \in Images : WriteImage(ok, r)
  \/ RemoveOld \/ Rebind

Request(r) ==
  \/ LoadCandidates(r)
  \/ \E p \in Previews : Claim(r, p)
  \/ Advance(r)

Next ==
  \/ \E r \in Images : BeginRestore(r)
  \/ BeginImport
  \/ OpStep
  \/ \E r \in Requests : Request(r) /\ UNCHANGED opVars
  \/ \E p \in Previews : Expire(p) /\ UNCHANGED opVars
  \/ \E h \in Handles, a \in Accounts, s \in Status : Write(h, a, s)
  \/ Missing
  \/ Crash
  \/ Restart

Spec == Init /\ [][Next]_vars

\* Go runs the goroutines of the operation and of the requests that hold dbMu; every
\* statement has a busy timeout, and nothing waits for the user.
FairSpec ==
  /\ Spec
  /\ WF_vars(OpStep)
  /\ \A r \in Requests : WF_vars(Advance(r) /\ UNCHANGED opVars)

-------------------------------------------------------------------------------
(* Properties *)

\* A confirmation deletes all accounts of its preview or none, only while each of them
\* is still unsupported, and nothing else, whatever is written between its steps.
DeletedAsPreviewed ==
  [][\A r \in Requests, f \in Files :
       pc[r] = "checked" /\ on[r] = f /\ pc'[r] = "over" /\ rows'[f] # rows[f] =>
         /\ \A a \in held[r].items : rows[f][a] = "unsupported" /\ rows'[f][a] = "gone"
         /\ \A a \in Accounts \ held[r].items : rows'[f][a] = rows[f][a]]_vars

\* A preview is confirmed in the data set it was read from: a restore leaves none
\* that could reach the restored one.
TokenStaysInDataSet ==
  kind # "import" =>
    \A r \in Requests : pc[r] = "checked" => on[r] = held[r].file

\* Once a restore has ended, whatever its end, what a statement commits is in the file
\* that has the name of the database: the holders of the old handle get an error, the
\* others have the new one, and no transaction from before is left.
WritesReachDatabase ==
  [][kind # "import" /\ faults <= 1 /\ at \notin Running =>
       \A f \in 1..created : rows'[f] # rows[f] => f = path'["db"]]_vars

\* The file that was the database when the operation began.
OldFile == 1

\* With one failure at most, an operation that reports failure leaves the database it
\* found under its name, App with an open handle, and no connection of it elsewhere.
FailureIsUndone ==
  at = "failed" /\ faults <= 1 =>
    /\ path["db"] = OldFile
    /\ broken \/ handle \in open
    /\ kind = "restore" => pool[handle] \subseteq {OldFile}

\* With one failure at most, the end of the process included, the old database is on
\* disk under some name until the operation has succeeded.
OldDatabaseSurvives ==
  faults <= 1 /\ at # "done" => \E n \in Names : path[n] = OldFile

\* An operation that has begun ends: it waits for the requests that hold dbMu, and
\* none of them waits for it.
OperationEnds == at \in Running ~> at \notin Running
=============================================================================
