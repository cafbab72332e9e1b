----------------------------- MODULE Boot_proofs -----------------------------
(***************************************************************************)
(* Theorems about Boot, for any number of processes and starts, any        *)
(* databases a start may find, and crashes at any step: who serves; what   *)
(* starts do to the database (they lose nothing, and the search table of a *)
(* program that serves is complete); and about single starts: one that     *)
(* runs alone is not hurt by the starts that died before it, and the page  *)
(* of a program that serves may call it at its port.                       *)
(***************************************************************************)
EXTENDS Boot, TLAPS

-------------------------------------------------------------------------------
(* How steps change the processes *)

Fields == {"pc", "run", "key", "n", "existed", "alone", "why", "bind", "port", "token"}

\* Every process is a record with the fields of Off, and the database one with a secret.
Shape ==
  /\ starts \in Nat
  /\ "secret" \in DOMAIN db
  /\ DOMAIN proc = Procs
  /\ \A p \in Procs : DOMAIN proc[p] = Fields /\ proc[p].run \in Nat

\* The other processes keep their step, their key and their number.
OthersStay(p) ==
  \A q \in Procs \ {p} :
    proc'[q].pc = proc[q].pc /\ proc'[q].key = proc[q].key /\ proc'[q].run = proc[q].run

LEMMA OffShape == DOMAIN Off = Fields /\ Off.pc = "off" /\ Off.run \in Nat /\ Off.key = NoKey
BY DEF Off, Fields

LEMMA ProcChanges ==
  ASSUME Shape, NEW p \in Procs, NEW r, DOMAIN r = Fields, r.run \in Nat,
         proc' = [proc EXCEPT ![p] = r], starts' = starts, "secret" \in DOMAIN db'
  PROVE  Shape' /\ OthersStay(p) /\ proc'[p] = r
BY DEF Shape, OthersStay

LEMMA GoMoves ==
  ASSUME Shape, NEW p \in Procs, NEW step, Go(p, step), starts' = starts,
         "secret" \in DOMAIN db'
  PROVE  /\ Shape' /\ OthersStay(p)
         /\ proc'[p].pc = step /\ proc'[p].key = proc[p].key
<1> DEFINE r == [proc[p] EXCEPT !.pc = step]
<1>1. DOMAIN r = Fields /\ r.run \in Nat /\ r.pc = step /\ r.key = proc[p].key
  BY DEF Shape, Fields
<1>2. proc' = [proc EXCEPT ![p] = r] BY DEF Go
<1> HIDE DEF r
<1> QED BY <1>1, <1>2, ProcChanges

LEMMA FailMoves ==
  ASSUME Shape, NEW p \in Procs, NEW why, Fail(p, why), starts' = starts,
         "secret" \in DOMAIN db'
  PROVE  /\ Shape' /\ OthersStay(p) /\ proc'[p].pc = "failed"
         /\ lock' = IF lock = p THEN NoProc ELSE lock
<1> DEFINE r == [Off EXCEPT !.pc = "failed", !.why = why, !.alone = proc[p].alone]
<1>1. DOMAIN r = Fields /\ r.run \in Nat /\ r.pc = "failed" BY OffShape DEF Fields
<1>2. proc' = [proc EXCEPT ![p] = r] BY DEF Fail
<1> HIDE DEF r
<1> QED BY <1>1, <1>2, ProcChanges DEF Fail

-------------------------------------------------------------------------------
(* The invariant *)

\* The steps of a process that has, or is just about to give back, the lock.
Holding == {"token", "listen", "serve", "drain", "closing", "unlock"}

LockHeld == \A p \in Procs : proc[p].pc \in Holding => lock = p

Making(step) == step \in {"create", "write", "secure"}

\* The steps behind NewKey.
Past(step) == step \notin {"off", "failed", "key", "create", "write", "secure"}

\* Unless two starts met: one process makes the key, the file is missing until it does,
\* empty while it does and its own until it is secured, whoever is past has read the file
\* that is there or found an empty one, and no credential is stored under a key that is
\* not on disk.
OneMaker == \A p, q \in Procs : Making(proc[p].pc) /\ Making(proc[q].pc) => p = q

FileWhileMaking ==
  \A p \in Procs : /\ proc[p].pc = "create" => keyFile = NoKey
                   /\ proc[p].pc = "write" => keyFile = EmptyKey
                   /\ proc[p].pc = "secure" => keyFile = proc[p].run

KeyWasRead ==
  \A p \in Procs :
    Past(proc[p].pc) => proc[p].key # NoKey /\ proc[p].key \in {keyFile, EmptyKey}

SecretHasKey ==
  /\ db.secret \in {NoSecret, keyFile}
  /\ keyFile \in {NoKey, EmptyKey} => db.secret = NoSecret

KeyInv == keyRace \/ (OneMaker /\ FileWhileMaking /\ KeyWasRead /\ SecretHasKey)

Inv == Shape /\ LockHeld /\ KeyInv

-------------------------------------------------------------------------------
(* The two kinds of steps that leave the key alone *)

\* On within NewApp and main, or the end of the process.
Walks(p) == Past(proc[p].pc) /\ Past(proc'[p].pc) /\ proc'[p].key = proc[p].key

Ends(p) == proc'[p].pc \in {"off", "failed"} /\ lock' = IF lock = p THEN NoProc ELSE lock

KeyAlone == keyFile' = keyFile /\ keyRace' = keyRace /\ db'.secret = db.secret

LEMMA KeyInvKept ==
  ASSUME KeyInv, NEW p \in Procs, OthersStay(p), KeyAlone,
         Walks(p) \/ proc'[p].pc \in {"off", "failed", "key"}
  PROVE  KeyInv'
<1>1. CASE keyRace BY <1>1 DEF KeyInv, KeyAlone
<1>2. CASE ~keyRace
  <2>1. OneMaker' BY <1>2 DEF KeyInv, OneMaker, OthersStay, Walks, Making, Past
  <2>2. FileWhileMaking'
    BY <1>2 DEF KeyInv, FileWhileMaking, OthersStay, Walks, Past, KeyAlone
  <2>3. KeyWasRead' BY <1>2 DEF KeyInv, KeyWasRead, OthersStay, Walks, Past, KeyAlone
  <2>4. SecretHasKey' BY <1>2 DEF KeyInv, SecretHasKey, KeyAlone
  <2> QED BY <2>1, <2>2, <2>3, <2>4 DEF KeyInv
<1> QED BY <1>1, <1>2

LEMMA LockKept ==
  ASSUME LockHeld, NEW p \in Procs, OthersStay(p), lock' = lock,
         proc'[p].pc \in Holding => proc[p].pc \in Holding
  PROVE  LockHeld'
BY DEF LockHeld, OthersStay

LEMMA LockGivenBack ==
  ASSUME LockHeld, NEW p \in Procs, OthersStay(p), proc'[p].pc \notin Holding,
         lock' = IF lock = p THEN NoProc ELSE lock
  PROVE  LockHeld'
BY DEF LockHeld, OthersStay

\* What every step of NewApp behind the key does.
Migrates(p) ==
  /\ Shape' /\ OthersStay(p) /\ KeyAlone
  /\ Ends(p) \/ (Walks(p) /\ lock' = lock /\ proc'[p].pc \notin Holding)

\* None of the statements of the migrations touches a stored credential.
LEMMA SecretStays ==
  ASSUME NEW d, "secret" \in DOMAIN d
  PROVE  \A e \in {BaseTables(d), RelaxSchedules(d), ScrubSites(d), ScrubLogs(d), Rebuilt(d),
                   SetPhase(d), SearchTable(d), SearchTriggers(d), SearchRebuild(d),
                   DefaultSettings(d), GlobalSchedule(d)} :
           "secret" \in DOMAIN e /\ e.secret = d.secret
<1> DEFINE Same(e) == "secret" \in DOMAIN e /\ e.secret = d.secret
<1>1. Same(BaseTables(d)) /\ Same(RelaxSchedules(d)) BY DEF BaseTables, RelaxSchedules
<1>2. Same(ScrubSites(d)) /\ Same(ScrubLogs(d)) BY DEF ScrubSites, ScrubLogs
<1>3. Same(Rebuilt(d))
  BY DEF Rebuilt, MakeSearch, RebuildLogs, RebuildAccounts, DropSearch
<1>4. Same(SetPhase(d)) /\ Same(SearchTable(d)) /\ Same(SearchTriggers(d))
  BY DEF SetPhase, SearchTable, SearchTriggers
<1>5. Same(SearchRebuild(d)) /\ Same(DefaultSettings(d)) /\ Same(GlobalSchedule(d))
  BY DEF SearchRebuild, DefaultSettings, GlobalSchedule
<1> QED BY <1>1, <1>2, <1>3, <1>4, <1>5

LEMMA RunMigrates ==
  ASSUME Shape, NEW p \in Procs, NEW pc, NEW next, NEW d, Run(p, pc, next, d),
         "secret" \in DOMAIN d, d.secret = db.secret,
         Past(pc), Past(next), next \notin Holding
  PROVE  Migrates(p)
<1>1. starts' = starts /\ "secret" \in DOMAIN db' BY DEF Run
<1>2. Go(p, next) /\ proc[p].pc = pc BY DEF Run, At
<1> QED BY <1>1, <1>2, GoMoves DEF Migrates, Walks, KeyAlone, Run

LEMMA FailMigrates ==
  ASSUME Shape, NEW p \in Procs, NEW why, Fail(p, why),
         UNCHANGED <<db, keyFile, starts, busy, keyRace>>
  PROVE  Migrates(p)
<1>1. starts' = starts /\ "secret" \in DOMAIN db' BY DEF Shape
<1> QED BY <1>1, FailMoves DEF Migrates, Ends, KeyAlone

\* A step that also writes other fields of the process.
LEMMA RecordMigrates ==
  ASSUME Shape, NEW p \in Procs, NEW r, DOMAIN r = Fields, r.run \in Nat, r.key = proc[p].key,
         proc' = [proc EXCEPT ![p] = r], "secret" \in DOMAIN db', db'.secret = db.secret,
         UNCHANGED <<keyFile, lock, starts, keyRace>>,
         Past(proc[p].pc), Past(r.pc), r.pc \notin Holding
  PROVE  Migrates(p)
<1>1. Shape' /\ OthersStay(p) /\ proc'[p] = r BY ProcChanges
<1> QED BY <1>1 DEF Migrates, Walks, KeyAlone

LEMMA MigrateMoves == ASSUME Shape, NEW p \in Procs, Migrate(p) PROVE Migrates(p)
<1> USE DEF Past, Holding
<1>0. "secret" \in DOMAIN db /\ DOMAIN proc[p] = Fields /\ proc[p].run \in Nat
  BY DEF Shape
<1>1. CASE CreateTables(p)
  <2> DEFINE r == [proc[p] EXCEPT !.pc = "column", !.n = 1]
  <2>a. DOMAIN r = Fields /\ r.run \in Nat /\ r.pc = "column" /\ r.key = proc[p].key
    BY <1>0 DEF Fields
  <2>1. proc' = [proc EXCEPT ![p] = r] BY <1>1 DEF CreateTables
  <2>2. "secret" \in DOMAIN db' /\ db'.secret = db.secret
    BY <1>0, <1>1, SecretStays DEF CreateTables
  <2> HIDE DEF r
  <2> QED BY <1>1, <2>a, <2>1, <2>2, RecordMigrates DEF CreateTables, At
<1>2. CASE EnsureColumn(p)
  <2>1. CASE proc[p].n > Len(Columns)
    <3> DEFINE r == [proc[p] EXCEPT !.pc = "schedules", !.n = 0]
    <3>a. DOMAIN r = Fields /\ r.run \in Nat /\ r.pc = "schedules" /\ r.key = proc[p].key
      BY <1>0 DEF Fields
    <3>1. proc' = [proc EXCEPT ![p] = r] BY <1>2, <2>1 DEF EnsureColumn
    <3> HIDE DEF r
    <3> QED BY <1>0, <1>2, <3>a, <3>1, RecordMigrates DEF EnsureColumn, At
  <2>2. CASE ~(proc[p].n > Len(Columns)) /\ HasColumn(db, proc[p].n)
    <3>0. proc' = [proc EXCEPT ![p].n = proc[p].n + 1] BY <1>2, <2>2 DEF EnsureColumn
    <3> DEFINE r == [proc[p] EXCEPT !.n = proc[p].n + 1]
    <3>1. DOMAIN r = Fields /\ r.run \in Nat /\ r.pc = "column" /\ r.key = proc[p].key
      BY <1>0, <1>2 DEF Fields, EnsureColumn, At
    <3>2. proc' = [proc EXCEPT ![p] = r] BY <3>0
    <3> HIDE DEF r
    <3> QED BY <1>0, <1>2, <3>1, <3>2, RecordMigrates DEF EnsureColumn, At
  <2>3. CASE ~(proc[p].n > Len(Columns)) /\ ~HasColumn(db, proc[p].n)
    <3>1. Run(p, "column", "alter", db) BY <1>2, <2>3 DEF EnsureColumn, Run
    <3> QED BY <1>0, <3>1, RunMigrates
  <2> QED BY <2>1, <2>2, <2>3
<1>3. CASE AlterTable(p)
  <2> DEFINE r == [proc[p] EXCEPT !.pc = "column", !.n = proc[p].n + 1]
  <2>a. DOMAIN r = Fields /\ r.run \in Nat /\ r.pc = "column" /\ r.key = proc[p].key
    BY <1>0 DEF Fields
  <2>1. proc' = [proc EXCEPT ![p] = r] BY <1>3 DEF AlterTable
  <2>2. "secret" \in DOMAIN db' /\ db'.secret = db.secret
    BY <1>0, <1>3 DEF AlterTable, AddColumn
  <2> HIDE DEF r
  <2> QED BY <1>3, <2>a, <2>1, <2>2, RecordMigrates DEF AlterTable, At
<1>4. CASE DuplicateColumn(p) BY <1>4, FailMigrates DEF DuplicateColumn
<1>5. CASE Schedules(p) BY <1>0, <1>5, RunMigrates DEF Schedules
<1>6. CASE Relax(p) BY <1>0, <1>6, SecretStays, RunMigrates DEF Relax
<1>7. CASE ForeignKeys(p) BY <1>0, <1>7, RunMigrates DEF ForeignKeys
<1>8. CASE ScrubSiteRows(p) BY <1>0, <1>8, SecretStays, RunMigrates DEF ScrubSiteRows
<1>9. CASE ScrubAccountRows(p) BY <1>0, <1>9, SecretStays, RunMigrates DEF ScrubAccountRows
<1>10. CASE AssertNoBlocking(p)
  <2>1. CASE Blocking(db) = {}
    <3>1. Run(p, "assert", "rebuild", db) BY <1>10, <2>1 DEF AssertNoBlocking, Run
    <3> QED BY <1>0, <3>1, RunMigrates
  <2> QED BY <1>10, <2>1, FailMigrates DEF AssertNoBlocking
<1>11. CASE Rebuild(p) BY <1>0, <1>11, SecretStays, RunMigrates DEF Rebuild
<1>12. CASE CheckKeys(p)
  <2>1. CASE Orphans(db) = {}
    <3>1. Run(p, "check", "phase", db) BY <1>12, <2>1 DEF CheckKeys, Run
    <3> QED BY <1>0, <3>1, RunMigrates
  <2> QED BY <1>12, <2>1, FailMigrates DEF CheckKeys
<1>13. CASE RecordPhase(p) BY <1>0, <1>13, SecretStays, RunMigrates DEF RecordPhase
<1>14. CASE SeeSearch(p)
  <2> DEFINE r == [proc[p] EXCEPT !.pc = "table", !.existed = db.fts # "none"]
  <2>a. DOMAIN r = Fields /\ r.run \in Nat /\ r.pc = "table" /\ r.key = proc[p].key
    BY <1>0 DEF Fields
  <2>1. proc' = [proc EXCEPT ![p] = r] BY <1>14 DEF SeeSearch
  <2> HIDE DEF r
  <2> QED BY <1>0, <1>14, <2>a, <2>1, RecordMigrates DEF SeeSearch, At
<1>15. CASE CreateSearch(p) BY <1>0, <1>15, SecretStays, RunMigrates DEF CreateSearch
<1>16. CASE CreateTriggers(p)
  <2> DEFINE next == IF proc[p].existed THEN "settings" ELSE "fill"
  <2> DEFINE r == [proc[p] EXCEPT !.pc = next, !.existed = FALSE]
  <2>a. DOMAIN r = Fields /\ r.run \in Nat /\ r.pc = next /\ r.key = proc[p].key
    BY <1>0 DEF Fields
  <2>1. proc' = [proc EXCEPT ![p] = r] BY <1>16 DEF CreateTriggers
  <2>2. "secret" \in DOMAIN db' /\ db'.secret = db.secret
    BY <1>0, <1>16, SecretStays DEF CreateTriggers
  <2>3. Past(next) /\ next \notin Holding OBVIOUS
  <2> HIDE DEF r, next
  <2> QED BY <1>16, <2>a, <2>1, <2>2, <2>3, RecordMigrates DEF CreateTriggers, At
<1>17. CASE FillSearch(p) BY <1>0, <1>17, SecretStays, RunMigrates DEF FillSearch
<1>18. CASE Defaults(p) BY <1>0, <1>18, SecretStays, RunMigrates DEF Defaults
<1>19. CASE Globals(p) BY <1>0, <1>19, SecretStays, RunMigrates DEF Globals
<1> QED
  BY <1>1, <1>2, <1>3, <1>4, <1>5, <1>6, <1>7, <1>8, <1>9, <1>10, <1>11, <1>12, <1>13,
     <1>14, <1>15, <1>16, <1>17, <1>18, <1>19 DEF Migrate

-------------------------------------------------------------------------------
(* Every step keeps the invariant *)

LEMMA MigrateKeeps == ASSUME Inv, NEW p \in Procs, Migrate(p) PROVE Inv'
<1>1. Migrates(p) BY MigrateMoves DEF Inv
<1>2. KeyInv' BY <1>1, KeyInvKept DEF Inv, Migrates, Ends
<1>3. LockHeld'
  <2>1. CASE Ends(p) BY <1>1, <2>1, LockGivenBack DEF Inv, Migrates, Ends, Holding
  <2>2. CASE Walks(p) /\ lock' = lock /\ proc'[p].pc \notin Holding
    BY <1>1, <2>2, LockKept DEF Inv, Migrates
  <2> QED BY <1>1, <2>1, <2>2 DEF Migrates
<1> QED BY <1>1, <1>2, <1>3 DEF Inv, Migrates

\* A process that ends, in whatever way.
LEMMA EndKeeps ==
  ASSUME Inv, NEW p \in Procs, Shape', OthersStay(p), Ends(p), KeyAlone
  PROVE  Inv'
<1>1. KeyInv' BY KeyInvKept DEF Inv, Ends
<1>2. LockHeld' BY LockGivenBack DEF Inv, Ends, Holding
<1> QED BY <1>1, <1>2 DEF Inv

LEMMA StartKeeps == ASSUME Inv, NEW p \in Procs, Start(p) PROVE Inv'
<1> DEFINE others == {q \in Procs \ {p} : Live(q)}
           fresh  == [Off EXCEPT !.pc = "key", !.run = starts + 1, !.alone = others = {}]
           Other(q) == [proc[q] EXCEPT !.alone = proc[q].alone /\ q \notin others]
<1>1. proc' = [q \in Procs |-> IF q = p THEN fresh ELSE Other(q)] BY DEF Start
<1>2. DOMAIN fresh = Fields /\ fresh.run \in Nat /\ fresh.pc = "key"
  BY OffShape DEF Inv, Shape, Fields
<1>3. \A q \in Procs : /\ DOMAIN Other(q) = Fields /\ Other(q).run = proc[q].run
                       /\ Other(q).pc = proc[q].pc /\ Other(q).key = proc[q].key
  BY DEF Inv, Shape, Fields
<1> HIDE DEF others, fresh, Other
<1>4. proc'[p].pc = "key" /\ OthersStay(p) BY <1>1, <1>2, <1>3 DEF OthersStay
<1>5. Shape'
  <2>0. starts' = starts + 1 /\ db' = db BY DEF Start
  <2>1. starts' \in Nat /\ "secret" \in DOMAIN db' BY <2>0 DEF Inv, Shape
  <2>2. \A q \in Procs : DOMAIN proc'[q] = Fields /\ proc'[q].run \in Nat
    BY <1>1, <1>2, <1>3 DEF Inv, Shape
  <2>3. DOMAIN proc' = Procs BY <1>1
  <2> QED BY <2>1, <2>2, <2>3 DEF Shape
<1>6. KeyAlone /\ lock' = lock BY DEF Start, KeyAlone
<1>7. KeyInv' BY <1>4, <1>6, KeyInvKept DEF Inv
<1>8. LockHeld' BY <1>4, <1>6, LockKept DEF Inv, Holding
<1> QED BY <1>5, <1>7, <1>8 DEF Inv

LEMMA ReadKeyKeeps == ASSUME Inv, NEW p \in Procs, ReadKey(p) PROVE Inv'
<1> DEFINE r == [proc[p] EXCEPT !.pc = "base", !.key = keyFile]
<1>1. DOMAIN r = Fields /\ r.run \in Nat /\ r.pc = "base" /\ r.key = keyFile
  BY DEF Inv, Shape, Fields
<1>2. proc' = [proc EXCEPT ![p] = r] BY DEF ReadKey
<1> HIDE DEF r
<1>3. starts' = starts /\ "secret" \in DOMAIN db' BY DEF ReadKey, Inv, Shape
<1>4. Shape' /\ OthersStay(p) /\ proc'[p] = r BY <1>1, <1>2, <1>3, ProcChanges DEF Inv
<1>5. LockHeld' BY <1>1, <1>4, LockKept DEF Inv, ReadKey, Holding
<1>6. KeyInv'
  <2>1. CASE keyRace BY <2>1 DEF KeyInv, ReadKey
  <2>2. CASE ~keyRace
    <3> USE <1>1, <1>4, <2>2 DEF Inv, KeyInv, OthersStay, ReadKey
    <3>1. OneMaker' BY DEF OneMaker, Making
    <3>2. FileWhileMaking' BY DEF FileWhileMaking
    <3>3. KeyWasRead' BY DEF KeyWasRead, Past
    <3>4. SecretHasKey' BY DEF SecretHasKey
    <3> QED BY <3>1, <3>2, <3>3, <3>4
  <2> QED BY <2>1, <2>2
<1> QED BY <1>4, <1>5, <1>6 DEF Inv

LEMMA MissingKeyKeeps == ASSUME Inv, NEW p \in Procs, MissingKey(p) PROVE Inv'
<1>1. starts' = starts /\ "secret" \in DOMAIN db' BY DEF MissingKey, Inv, Shape
<1>2. Go(p, "create") BY DEF MissingKey
<1>3. /\ Shape' /\ OthersStay(p) /\ proc'[p].pc = "create"
  BY <1>1, <1>2, GoMoves DEF Inv
<1>4. LockHeld' BY <1>3, LockKept DEF Inv, MissingKey, Holding
<1>5. KeyInv'
  <2>1. CASE keyRace' BY <2>1 DEF KeyInv
  <2>2. CASE ~keyRace'
    <3>1. ~keyRace /\ \A q \in Procs \ {p} : ~Making(proc[q].pc)
      BY <2>2 DEF MissingKey, Making
    <3> USE <1>3, <3>1 DEF Inv, KeyInv, OthersStay, MissingKey
    <3>2. OneMaker' BY DEF OneMaker, Making
    <3>3. FileWhileMaking' BY DEF FileWhileMaking
    <3>4. KeyWasRead' BY DEF KeyWasRead, Past
    <3>5. SecretHasKey' BY DEF SecretHasKey
    <3> QED BY <3>2, <3>3, <3>4, <3>5
  <2> QED BY <2>1, <2>2
<1> QED BY <1>3, <1>4, <1>5 DEF Inv

LEMMA TruncateKeyKeeps == ASSUME Inv, NEW p \in Procs, TruncateKey(p) PROVE Inv'
<1>1. starts' = starts /\ "secret" \in DOMAIN db' BY DEF TruncateKey, Inv, Shape
<1>2. Go(p, "write") /\ proc[p].pc = "create" BY DEF TruncateKey, At
<1>3. /\ Shape' /\ OthersStay(p) /\ proc'[p].pc = "write"
  BY <1>1, <1>2, GoMoves DEF Inv
<1>4. LockHeld' BY <1>3, LockKept DEF Inv, TruncateKey, Holding
<1>5. KeyInv'
  <2>1. CASE keyRace BY <2>1 DEF KeyInv, TruncateKey
  <2>2. CASE ~keyRace
    <3> USE <1>2, <1>3, <2>2 DEF Inv, KeyInv, OthersStay, TruncateKey
    <3>1. OneMaker' BY DEF OneMaker, Making
    <3>2. keyFile = NoKey /\ \A q \in Procs \ {p} : ~Making(proc[q].pc)
      BY DEF FileWhileMaking, OneMaker, Making
    <3>3. FileWhileMaking' BY <3>2 DEF FileWhileMaking, Making
    <3>4. KeyWasRead' BY <3>2 DEF KeyWasRead, Past
    <3>5. SecretHasKey' BY <3>2 DEF SecretHasKey
    <3> QED BY <3>1, <3>3, <3>4, <3>5
  <2> QED BY <2>1, <2>2
<1> QED BY <1>3, <1>4, <1>5 DEF Inv

LEMMA WriteKeyKeeps == ASSUME Inv, NEW p \in Procs, WriteKey(p) PROVE Inv'
<1>1. starts' = starts /\ "secret" \in DOMAIN db' BY DEF WriteKey, Inv, Shape
<1>2. Go(p, "secure") /\ proc[p].pc = "write" BY DEF WriteKey, At
<1> DEFINE r == [proc[p] EXCEPT !.pc = "secure"]
<1>3. DOMAIN r = Fields /\ r.run \in Nat /\ r.run = proc[p].run /\ r.pc = "secure"
  BY DEF Inv, Shape, Fields
<1>4. proc' = [proc EXCEPT ![p] = r] BY <1>2 DEF Go
<1> HIDE DEF r
<1>5. Shape' /\ OthersStay(p) /\ proc'[p] = r BY <1>1, <1>3, <1>4, ProcChanges DEF Inv
<1>6. LockHeld' BY <1>3, <1>5, LockKept DEF Inv, WriteKey, Holding
<1>7. KeyInv'
  <2>1. CASE keyRace BY <2>1 DEF KeyInv, WriteKey
  <2>2. CASE ~keyRace
    <3>0. /\ keyFile = EmptyKey
          /\ \A q \in Procs \ {p} : ~Making(proc[q].pc)
      BY <1>2, <2>2 DEF Inv, KeyInv, FileWhileMaking, OneMaker, Making
    <3>1. keyFile' \in Nat /\ keyFile' = proc[p].run /\ keyFile' \notin {NoKey, EmptyKey}
      BY BootAssumption DEF WriteKey, Inv, Shape
    <3> USE <1>2, <1>3, <1>5, <2>2, <3>0, <3>1 DEF Inv, KeyInv, OthersStay, WriteKey
    <3>2. OneMaker' BY DEF OneMaker, Making
    <3>3. FileWhileMaking' BY DEF FileWhileMaking, Making
    <3>4. KeyWasRead' BY DEF KeyWasRead, Past
    <3>5. SecretHasKey' BY DEF SecretHasKey
    <3> QED BY <3>2, <3>3, <3>4, <3>5
  <2> QED BY <2>1, <2>2
<1> QED BY <1>5, <1>6, <1>7 DEF Inv

LEMMA SecureKeyKeeps == ASSUME Inv, NEW p \in Procs, SecureKey(p) PROVE Inv'
<1> DEFINE r == [proc[p] EXCEPT !.pc = "base", !.key = proc[p].run]
<1>1. DOMAIN r = Fields /\ r.run \in Nat /\ r.pc = "base" /\ r.key = proc[p].run
  BY DEF Inv, Shape, Fields
<1>2. proc' = [proc EXCEPT ![p] = r] BY DEF SecureKey
<1> HIDE DEF r
<1>3. starts' = starts /\ "secret" \in DOMAIN db' BY DEF SecureKey, Inv, Shape
<1>4. Shape' /\ OthersStay(p) /\ proc'[p] = r BY <1>1, <1>2, <1>3, ProcChanges DEF Inv
<1>5. LockHeld' BY <1>1, <1>4, LockKept DEF Inv, SecureKey, Holding
<1>6. KeyInv'
  <2>1. CASE keyRace BY <2>1 DEF KeyInv, SecureKey
  <2>2. CASE ~keyRace
    <3>1. keyFile = proc[p].run BY <2>2 DEF Inv, KeyInv, FileWhileMaking, SecureKey, At
    <3>2. proc[p].run # NoKey BY BootAssumption DEF Inv, Shape
    <3> USE <1>1, <1>4, <2>2, <3>1, <3>2 DEF Inv, KeyInv, OthersStay, SecureKey
    <3>3. OneMaker' BY DEF OneMaker, Making
    <3>4. FileWhileMaking' BY DEF FileWhileMaking
    <3>5. KeyWasRead' BY DEF KeyWasRead, Past
    <3>6. SecretHasKey' BY DEF SecretHasKey
    <3> QED BY <3>3, <3>4, <3>5, <3>6
  <2> QED BY <2>1, <2>2
<1> QED BY <1>4, <1>5, <1>6 DEF Inv

\* The key that is taken back is nobody's, or the race is on record.
LEMMA InsecureKeyKeeps == ASSUME Inv, NEW p \in Procs, InsecureKey(p) PROVE Inv'
<1>1. /\ starts' = starts /\ "secret" \in DOMAIN db' /\ Fail(p, "key") /\ db' = db
      /\ proc[p].pc = "secure"
  BY DEF InsecureKey, Inv, Shape, At
<1>2. /\ Shape' /\ OthersStay(p) /\ proc'[p].pc = "failed"
      /\ lock' = IF lock = p THEN NoProc ELSE lock
  BY <1>1, FailMoves DEF Inv
<1>3. LockHeld' BY <1>2, LockGivenBack DEF Inv, Holding
<1>4. KeyInv'
  <2>1. CASE keyRace' BY <2>1 DEF KeyInv
  <2>2. CASE ~keyRace' /\ keyFile' = keyFile
    <3>1. ~keyRace BY <2>2 DEF InsecureKey
    <3> USE <1>1, <1>2, <2>2, <3>1 DEF Inv, KeyInv, OthersStay
    <3>2. OneMaker' BY DEF OneMaker, Making
    <3>3. FileWhileMaking' BY DEF FileWhileMaking
    <3>4. KeyWasRead' BY DEF KeyWasRead, Past
    <3>5. SecretHasKey' BY DEF SecretHasKey
    <3> QED BY <3>2, <3>3, <3>4, <3>5
  <2>3. CASE ~keyRace' /\ keyFile' # keyFile
    <3>1. ~keyRace /\ keyFile' = NoKey /\ ~InUse(p) BY <2>3 DEF InsecureKey
    <3>2. \A q \in Procs \ {p} : ~Making(proc[q].pc)
      BY <1>1, <3>1 DEF Inv, KeyInv, OneMaker, Making
    <3>3. \A q \in Procs \ {p} : Past(proc[q].pc) => proc[q].key # NoKey /\ proc[q].key = EmptyKey
      BY <3>1 DEF Inv, KeyInv, KeyWasRead, InUse
    <3>4. db.secret = NoSecret BY <3>1 DEF Inv, KeyInv, SecretHasKey, InUse
    <3> USE <1>1, <1>2, <2>3, <3>1 DEF Inv, KeyInv, OthersStay
    <3>5. OneMaker' BY <3>2 DEF OneMaker, Making
    <3>6. FileWhileMaking' BY <3>2 DEF FileWhileMaking, Making
    <3>7. KeyWasRead' BY <3>3 DEF KeyWasRead, Past
    <3>8. SecretHasKey' BY <3>4 DEF SecretHasKey
    <3> QED BY <3>5, <3>6, <3>7, <3>8
  <2> QED BY <2>1, <2>2, <2>3
<1> QED BY <1>2, <1>3, <1>4 DEF Inv

LEMMA UnwrittenKeyKeeps == ASSUME Inv, NEW p \in Procs, UnwrittenKey(p) PROVE Inv'
<1>1. starts' = starts /\ "secret" \in DOMAIN db' /\ KeyAlone
  BY DEF UnwrittenKey, Inv, Shape, KeyAlone
<1>2. Fail(p, "key") BY DEF UnwrittenKey
<1> QED BY <1>1, <1>2, FailMoves, EndKeeps DEF Inv, Ends

LEMMA UnreadableKeyKeeps == ASSUME Inv, NEW p \in Procs, UnreadableKey(p) PROVE Inv'
<1>1. starts' = starts /\ "secret" \in DOMAIN db' /\ KeyAlone
  BY DEF UnreadableKey, Inv, Shape, KeyAlone
<1>2. Fail(p, "key") BY DEF UnreadableKey
<1> QED BY <1>1, <1>2, FailMoves, EndKeeps DEF Inv, Ends

\* A step of main under the lock.
LEMMA HolderKeeps ==
  ASSUME Inv, NEW p \in Procs, NEW r, DOMAIN r = Fields, r.run \in Nat, r.key = proc[p].key,
         proc' = [proc EXCEPT ![p] = r], UNCHANGED <<db, keyFile, lock, starts, keyRace>>,
         proc[p].pc \in Holding, r.pc \in Holding
  PROVE  Inv'
<1>1. "secret" \in DOMAIN db' BY DEF Inv, Shape
<1>2. Shape' /\ OthersStay(p) /\ proc'[p] = r BY <1>1, ProcChanges DEF Inv
<1>3. KeyAlone /\ Walks(p) BY <1>2 DEF KeyAlone, Walks, Past, Holding
<1>4. KeyInv' BY <1>2, <1>3, KeyInvKept DEF Inv
<1>5. LockHeld' BY <1>2, LockKept DEF Inv
<1> QED BY <1>2, <1>4, <1>5 DEF Inv

LEMMA MainKeeps == ASSUME Inv, NEW p \in Procs, Main(p) PROVE Inv'
<1>0. /\ "secret" \in DOMAIN db /\ DOMAIN proc[p] = Fields /\ proc[p].run \in Nat
  BY DEF Inv, Shape
<1>r. ASSUME NEW pc \in Holding, NEW next \in Holding, Run(p, pc, next, db) PROVE Inv'
  <2> DEFINE r == [proc[p] EXCEPT !.pc = next]
  <2>1. DOMAIN r = Fields /\ r.run \in Nat /\ r.pc = next /\ r.key = proc[p].key
    BY <1>0 DEF Fields
  <2>2. proc' = [proc EXCEPT ![p] = r] BY <1>r DEF Run, Go
  <2>3. proc[p].pc \in Holding BY <1>r DEF Run, At
  <2> HIDE DEF r
  <2> QED BY <1>r, <2>1, <2>2, <2>3, HolderKeeps DEF Run
<1>f. ASSUME NEW why, Fail(p, why), UNCHANGED <<db, keyFile, starts, busy, keyRace>>
      PROVE  Inv'
  <2>1. starts' = starts /\ "secret" \in DOMAIN db' /\ KeyAlone BY <1>0, <1>f DEF KeyAlone
  <2> QED BY <1>f, <2>1, FailMoves, EndKeeps DEF Inv, Ends
<1>1. CASE Acquire(p)
  <2>1. CASE lock = NoProc
    <3>1. starts' = starts /\ "secret" \in DOMAIN db' /\ Go(p, "token") /\ lock' = p
      BY <1>0, <1>1, <2>1 DEF Acquire
    <3>2. /\ Shape' /\ OthersStay(p)
          /\ proc'[p].pc = "token" /\ proc'[p].key = proc[p].key
      BY <3>1, GoMoves DEF Inv
    <3>3. KeyAlone /\ Walks(p) BY <1>1, <3>2 DEF Acquire, At, KeyAlone, Walks, Past
    <3>4. KeyInv' BY <3>2, <3>3, KeyInvKept DEF Inv
    <3>5. \A q \in Procs : proc[q].pc \notin Holding
      BY <2>1, BootAssumption DEF Inv, LockHeld
    <3>6. LockHeld' BY <3>1, <3>2, <3>5 DEF LockHeld, OthersStay
    <3> QED BY <3>2, <3>4, <3>6 DEF Inv
  <2> QED BY <1>1, <1>f, <2>1 DEF Acquire
<1>2. CASE Token(p)
  <2>1. PICK t : proc' = [proc EXCEPT ![p].pc = "listen", ![p].token = t]
    BY <1>2 DEF Token
  <2> DEFINE r == [proc[p] EXCEPT !.pc = "listen", !.token = t]
  <2>2. DOMAIN r = Fields /\ r.run \in Nat /\ r.pc = "listen" /\ r.key = proc[p].key
    BY <1>0 DEF Fields
  <2>3. proc' = [proc EXCEPT ![p] = r] BY <2>1
  <2>4. proc[p].pc \in Holding BY <1>2 DEF Token, At, Holding
  <2> HIDE DEF r
  <2> QED BY <1>2, <2>2, <2>3, <2>4, HolderKeeps DEF Token, Holding
<1>3. CASE Listen(p)
  <2> DEFINE port == ListenPort(PreferredPort(Preferred), busy)
  <2>1. CASE port = NoPort BY <1>3, <1>f, <2>1 DEF Listen
  <2>2. CASE port # NoPort
    <3> DEFINE r == [proc[p] EXCEPT !.pc = "serve", !.port = port]
    <3>1. proc' = [proc EXCEPT ![p].pc = "serve", ![p].port = port] /\ lock' = lock
      BY <1>3, <2>2 DEF Listen
    <3> HIDE DEF port
    <3>2. DOMAIN r = Fields /\ r.run \in Nat /\ r.pc = "serve" /\ r.key = proc[p].key
      BY <1>0 DEF Fields
    <3>3. proc' = [proc EXCEPT ![p] = r] BY <3>1
    <3>4. proc[p].pc \in Holding BY <1>3 DEF Listen, At, Holding
    <3>5. UNCHANGED <<db, keyFile, starts, keyRace>> BY <1>3 DEF Listen
    <3> HIDE DEF r
    <3> QED BY <3>1, <3>2, <3>3, <3>4, <3>5, HolderKeeps DEF Holding
  <2> QED BY <2>1, <2>2
<1>4. CASE Drained(p) BY <1>4, <1>r DEF Drained, Holding
<1>5. CASE CloseApp(p) BY <1>5, <1>r DEF CloseApp, Holding
<1>6. CASE Unlock(p)
  <2>1. lock = p BY <1>6 DEF Unlock, At, Inv, LockHeld, Holding
  <2>2. starts' = starts /\ "secret" \in DOMAIN db' /\ KeyAlone
    BY <1>0, <1>6 DEF Unlock, KeyAlone
  <2>3. proc' = [proc EXCEPT ![p] = Off] BY <1>6 DEF Unlock
  <2>4. Shape' /\ OthersStay(p) /\ proc'[p] = Off
    BY <2>2, <2>3, OffShape, ProcChanges DEF Inv
  <2> QED BY <1>6, <2>1, <2>2, <2>4, OffShape, EndKeeps DEF Unlock, Ends
<1> QED BY <1>1, <1>2, <1>3, <1>4, <1>5, <1>6 DEF Main

LEMMA StopKeeps == ASSUME Inv, NEW p \in Procs, Stop(p) PROVE Inv'
<1> DEFINE r == [proc[p] EXCEPT !.pc = "drain"]
<1>1. DOMAIN r = Fields /\ r.run \in Nat /\ r.pc = "drain" /\ r.key = proc[p].key
  BY DEF Inv, Shape, Fields
<1>2. proc' = [proc EXCEPT ![p] = r] BY DEF Stop, Run, Go
<1> HIDE DEF r
<1> QED BY <1>1, <1>2, HolderKeeps DEF Stop, Run, At, Holding

LEMMA CrashKeeps == ASSUME Inv, NEW p \in Procs, Crash(p) PROVE Inv'
<1>1. starts' = starts /\ "secret" \in DOMAIN db' /\ KeyAlone
  BY DEF Crash, KeyAlone, Inv, Shape
<1>2. proc' = [proc EXCEPT ![p] = Off] BY DEF Crash
<1>3. Shape' /\ OthersStay(p) /\ proc'[p] = Off
  BY <1>1, <1>2, OffShape, ProcChanges DEF Inv
<1> QED BY <1>1, <1>3, OffShape, EndKeeps DEF Crash, Ends

\* The user's work: only SaveSecret writes a credential, under a key that is on disk.
LEMMA UseKeeps == ASSUME Inv, NEW p \in Procs, Use(p) PROVE Inv'
<1>1. /\ UNCHANGED <<keyFile, lock, starts, proc, keyRace>>
      /\ proc[p].pc \in {"serve", "drain"}
  BY DEF Use, SaveSite, SaveAccount, RemoveAccount, SaveLog, SaveSetting, SaveSecret, Write
<1>2. /\ "secret" \in DOMAIN db'
      /\ db'.secret = db.secret \/ (proc[p].key # EmptyKey /\ db'.secret = proc[p].key)
  <2>0. "secret" \in DOMAIN db BY DEF Inv, Shape
  <2>1. CASE \E s \in Sites : SaveSite(p, s) BY <2>0, <2>1 DEF SaveSite, Write, AddSite
  <2>2. CASE \E a \in Accounts, s \in Sites : SaveAccount(p, a, s)
    BY <2>0, <2>2 DEF SaveAccount, Write, AddAccount
  <2>3. CASE \E a \in Accounts : RemoveAccount(p, a)
    BY <2>0, <2>3 DEF RemoveAccount, Write, DropAccount
  <2>4. CASE \E l \in Logs, a \in Accounts : SaveLog(p, l, a)
    BY <2>0, <2>4 DEF SaveLog, Write, AddLog
  <2>5. CASE SaveSetting(p) BY <2>0, <2>5 DEF SaveSetting, Write
  <2>6. CASE SaveSecret(p) BY <2>0, <2>6 DEF SaveSecret, Write
  <2> QED BY <2>1, <2>2, <2>3, <2>4, <2>5, <2>6 DEF Use
<1>3. Shape' /\ LockHeld' BY <1>1, <1>2 DEF Inv, Shape, LockHeld
<1>4. KeyInv'
  <2>1. CASE keyRace BY <1>1, <2>1 DEF KeyInv
  <2>2. CASE ~keyRace
    <3>1. OneMaker' /\ FileWhileMaking' /\ KeyWasRead'
      BY <1>1, <2>2 DEF Inv, KeyInv, OneMaker, FileWhileMaking, KeyWasRead
    <3>2. proc[p].key # NoKey /\ proc[p].key \in {keyFile, EmptyKey}
      BY <1>1, <2>2 DEF Inv, KeyInv, KeyWasRead, Past
    <3>3. SecretHasKey' BY <1>1, <1>2, <2>2, <3>2 DEF Inv, KeyInv, SecretHasKey
    <3> QED BY <3>1, <3>3 DEF KeyInv
  <2> QED BY <2>1, <2>2
<1> QED BY <1>3, <1>4 DEF Inv

LEMMA InitHolds == ASSUME Init PROVE Inv
<1>1. proc = [p \in Procs |-> Off] /\ starts = 0 BY DEF Init
<1>2. db \in Databases /\ "secret" \in DOMAIN db BY BootAssumption DEF Init, FreshDb
<1>3. Shape BY <1>1, <1>2, OffShape DEF Shape
<1>4. LockHeld BY <1>1, OffShape DEF LockHeld, Holding
<1>5. SecretHasKey BY <1>2, BootAssumption DEF Init, SecretHasKey
<1>6. KeyInv
  BY <1>1, <1>5, OffShape DEF KeyInv, OneMaker, Making, FileWhileMaking, KeyWasRead, Past
<1> QED BY <1>3, <1>4, <1>6 DEF Inv

LEMMA NextKeeps == ASSUME Inv, [Next]_vars PROVE Inv'
<1>1. CASE UNCHANGED vars
  BY <1>1 DEF vars, Inv, Shape, LockHeld, KeyInv, OneMaker, FileWhileMaking, KeyWasRead,
              SecretHasKey
<1>2. CASE Next
  <2>1. PICK p \in Procs :
          Start(p) \/ NewKey(p) \/ Migrate(p) \/ Main(p) \/ Stop(p) \/ Crash(p) \/ Use(p)
    BY <1>2 DEF Next
  <2>2. CASE NewKey(p)
    BY <2>2, ReadKeyKeeps, MissingKeyKeeps, UnreadableKeyKeeps, TruncateKeyKeeps,
       WriteKeyKeeps, UnwrittenKeyKeeps, SecureKeyKeeps, InsecureKeyKeeps DEF NewKey
  <2> QED
    BY <2>1, <2>2, StartKeeps, MigrateKeeps, MainKeeps, StopKeeps, CrashKeeps, UseKeeps
<1> QED BY <1>1, <1>2

-------------------------------------------------------------------------------
(* What a step leaves of the other processes *)

Own(p) == DOMAIN proc' = Procs /\ \A q \in Procs \ {p} : proc'[q] = proc[q]

\* A process with a step on the way, p, moves itself and no other.
LEMMA StepIsOwn ==
  ASSUME Shape, NEW p \in Procs,
         NewKey(p) \/ Migrate(p) \/ Main(p) \/ Stop(p) \/ Crash(p) \/ Use(p)
  PROVE  Live(p) /\ Own(p) /\ busy' = busy
<1> USE DEF Shape, Own, Live, At, Go, Fail, Run
<1>1. CASE NewKey(p)
  BY <1>1 DEF NewKey, ReadKey, MissingKey, UnreadableKey, TruncateKey, WriteKey,
         UnwrittenKey, SecureKey, InsecureKey
<1>2. CASE CreateTables(p) \/ EnsureColumn(p) \/ AlterTable(p) \/ DuplicateColumn(p)
  BY <1>2 DEF CreateTables, EnsureColumn, AlterTable, DuplicateColumn
<1>3. CASE Schedules(p) \/ Relax(p) \/ ForeignKeys(p) \/ ScrubSiteRows(p) \/ ScrubAccountRows(p)
  BY <1>3 DEF Schedules, Relax, ForeignKeys, ScrubSiteRows, ScrubAccountRows
<1>4. CASE AssertNoBlocking(p) \/ Rebuild(p) \/ CheckKeys(p) \/ RecordPhase(p)
  BY <1>4 DEF AssertNoBlocking, Rebuild, CheckKeys, RecordPhase
<1>5. CASE SeeSearch(p) \/ CreateSearch(p) \/ CreateTriggers(p) \/ FillSearch(p)
  BY <1>5 DEF SeeSearch, CreateSearch, CreateTriggers, FillSearch
<1>6. CASE Defaults(p) \/ Globals(p) BY <1>6 DEF Defaults, Globals
<1>7. CASE Main(p) BY <1>7 DEF Main, Acquire, Token, Listen, Drained, CloseApp, Unlock
<1>8. CASE Stop(p) \/ Crash(p) BY <1>8 DEF Stop, Crash
<1>9. CASE Use(p)
  BY <1>9 DEF Use, SaveSite, SaveAccount, RemoveAccount, SaveLog, SaveSetting, SaveSecret, Write
<1> QED BY <1>1, <1>2, <1>3, <1>4, <1>5, <1>6, <1>7, <1>8, <1>9 DEF Migrate

\* A start moves the new process, and takes from the others that they are alone.
LEMMA StartMoves ==
  ASSUME Shape, NEW p \in Procs, Start(p)
  PROVE  /\ DOMAIN proc' = Procs /\ proc'[p].pc = "key"
         /\ proc'[p].alone = ({q \in Procs \ {p} : Live(q)} = {})
         /\ \A q \in Procs \ {p} :
              /\ \A f \in Fields \ {"alone"} : proc'[q][f] = proc[q][f]
              /\ proc'[q].pc = proc[q].pc /\ proc'[q].n = proc[q].n
              /\ proc'[q].why = proc[q].why /\ proc'[q].port = proc[q].port
              /\ proc'[q].alone = (proc[q].alone /\ ~Live(q))
<1> DEFINE others == {q \in Procs \ {p} : Live(q)}
           fresh  == [Off EXCEPT !.pc = "key", !.run = starts + 1, !.alone = others = {}]
           Other(q) == [proc[q] EXCEPT !.alone = proc[q].alone /\ q \notin others]
<1>1. proc' = [q \in Procs |-> IF q = p THEN fresh ELSE Other(q)] BY DEF Start
<1>2. fresh.pc = "key" /\ fresh.alone = (others = {}) BY OffShape DEF Fields
<1>3. ASSUME NEW q \in Procs
      PROVE  /\ \A f \in Fields \ {"alone"} : Other(q)[f] = proc[q][f]
             /\ Other(q).alone = (proc[q].alone /\ q \notin others)
  BY DEF Shape, Fields
<1>4. {"pc", "n", "why", "port"} \subseteq Fields \ {"alone"} BY DEF Fields
<1>5. \A q \in Procs \ {p} : q \notin others <=> ~Live(q) OBVIOUS
<1> HIDE DEF fresh, Other
<1>6. DOMAIN proc' = Procs /\ proc'[p] = fresh /\ \A q \in Procs \ {p} : proc'[q] = Other(q)
  BY <1>1
<1> QED BY <1>2, <1>3, <1>4, <1>5, <1>6

-------------------------------------------------------------------------------
(* Theorems *)

\* Who holds the lock and which key is in use, in every reachable state.
THEOREM LockAndKey == Spec => []Inv
BY InitHolds, NextKeeps, PTL DEF Spec

\* However many starts run at once and wherever they die, at most one process is past
\* the lock with its database open (main.go:44, :45).
THEOREM LockExcludes == Spec => []OneServer
<1>1. Inv => OneServer BY DEF Inv, LockHeld, Holding, OneServer, Serving
<1> QED BY <1>1, LockAndKey, PTL

\* However many starts run at once and wherever they die, a stored credential can be
\* read with the key on disk, unless two first starts made a key each at the same time
\* (crypto.go:15, :33), or the start that made the key could not secure it and took it back
\* when another was using it (crypto.go:36-43).
THEOREM KeyFitsSecrets == Spec => []SecretsReadable
<1>1. Inv => SecretsReadable BY DEF Inv, KeyInv, SecretHasKey, SecretsReadable
<1> QED BY <1>1, LockAndKey, PTL

-------------------------------------------------------------------------------
(* What starts do to the rows of the database *)

HasTables(d) == {"sites", "accounts", "logs", "settings"} \subseteq DOMAIN d

\* From d to e no row with its parents is lost, nor a setting the user has saved.
KeepsData(d, e) ==
  /\ \A a \in DOMAIN d.accounts : d.accounts[a] \in d.sites => a \in DOMAIN e.accounts
  /\ \A l \in DOMAIN d.logs : HasParent(d, l) => l \in DOMAIN e.logs
  /\ d.settings = "edited" => e.settings = "edited"

Harmless(d, e) == HasTables(e) /\ KeepsData(d, e)

LEMMA SameRowsHarmless ==
  ASSUME NEW d, NEW e, HasTables(d), HasTables(e), e.sites = d.sites, e.accounts = d.accounts,
         e.logs = d.logs, d.settings = "edited" => e.settings = "edited"
  PROVE  Harmless(d, e)
BY DEF Harmless, KeepsData, HasParent

LEMMA ScrubsHarmless ==
  ASSUME NEW d, HasTables(d)
  PROVE  Harmless(d, ScrubSites(d)) /\ Harmless(d, ScrubLogs(d))
<1>1. Harmless(d, ScrubSites(d))
  <2> DEFINE e == ScrubSites(d)
  <2>1. /\ HasTables(e) /\ e.logs = d.logs /\ e.settings = d.settings
        /\ DOMAIN e.accounts =
             {a \in DOMAIN d.accounts : d.accounts[a] = NoSite \/ d.accounts[a] \in d.sites}
    BY DEF ScrubSites, KeepRows, Restrict, HasTables
  <2> HIDE DEF e
  <2>2. Harmless(d, e) BY <2>1 DEF Harmless, KeepsData
  <2> QED BY <2>2 DEF e
<1>2. Harmless(d, ScrubLogs(d))
  <2> DEFINE e == ScrubLogs(d)
  <2>1. /\ HasTables(e) /\ e.accounts = d.accounts /\ e.settings = d.settings
        /\ DOMAIN e.logs = {l \in DOMAIN d.logs : d.logs[l] \in DOMAIN d.accounts}
    BY DEF ScrubLogs, KeepRows, Restrict, HasTables
  <2> HIDE DEF e
  <2>2. Harmless(d, e) BY <2>1 DEF Harmless, KeepsData, HasParent
  <2> QED BY <2>2 DEF e
<1> QED BY <1>1, <1>2

\* No statement of the migrations loses data; the rebuild copies every row.
LEMMA StatementsHarmless ==
  ASSUME NEW d, HasTables(d)
  PROVE  \A e \in {d, BaseTables(d), RelaxSchedules(d), ScrubSites(d), ScrubLogs(d), Rebuilt(d),
                   SetPhase(d), SearchTable(d), SearchTriggers(d), SearchRebuild(d),
                   DefaultSettings(d), GlobalSchedule(d)} : Harmless(d, e)
<1> DEFINE Same(e) == /\ HasTables(e) /\ e.sites = d.sites /\ e.accounts = d.accounts
                      /\ e.logs = d.logs
                      /\ d.settings = "edited" => e.settings = "edited"
<1>1. Same(d) /\ Same(BaseTables(d)) BY DEF HasTables, BaseTables
<1>2. Same(RelaxSchedules(d)) BY DEF HasTables, RelaxSchedules
<1>3. Same(Rebuilt(d))
  <2>1. Same(DropSearch(d)) BY DEF HasTables, DropSearch
  <2>2. \A e : Same(e) => Same(RebuildAccounts(e)) BY DEF HasTables, RebuildAccounts
  <2>3. \A e : Same(e) => Same(RebuildLogs(e)) BY DEF HasTables, RebuildLogs
  <2>4. \A e : Same(e) => Same(MakeSearch(e)) BY DEF HasTables, MakeSearch
  <2> HIDE DEF Same
  <2> QED BY <2>1, <2>2, <2>3, <2>4 DEF Rebuilt
<1>4. Same(SetPhase(d)) BY DEF HasTables, SetPhase
<1>5. Same(SearchTable(d)) BY DEF HasTables, SearchTable
<1>6. Same(SearchTriggers(d)) BY DEF HasTables, SearchTriggers
<1>7. Same(SearchRebuild(d)) BY DEF HasTables, SearchRebuild
<1>8. Same(DefaultSettings(d)) BY DEF HasTables, DefaultSettings
<1>9. Same(GlobalSchedule(d)) BY DEF HasTables, GlobalSchedule
<1>10. ASSUME NEW e, Same(e) PROVE Harmless(d, e) BY <1>10, SameRowsHarmless
<1> HIDE DEF Same
<1> QED
  BY <1>1, <1>2, <1>3, <1>4, <1>5, <1>6, <1>7, <1>8, <1>9, <1>10, ScrubsHarmless

LEMMA ColumnHarmless ==
  ASSUME NEW d, HasTables(d), NEW n
  PROVE  Harmless(d, AddColumn(d, n))
<1>1. /\ HasTables(AddColumn(d, n))
      /\ AddColumn(d, n).sites = d.sites /\ AddColumn(d, n).accounts = d.accounts
      /\ AddColumn(d, n).logs = d.logs /\ AddColumn(d, n).settings = d.settings
  BY DEF AddColumn, HasTables
<1> QED BY <1>1, SameRowsHarmless

LEMMA MigrateHarmless ==
  ASSUME HasTables(db), NEW p \in Procs, Migrate(p)
  PROVE  Harmless(db, db')
<1> USE StatementsHarmless
<1>1. CASE CreateTables(p) \/ CreateTriggers(p) BY <1>1 DEF CreateTables, CreateTriggers
<1>2. CASE AlterTable(p) BY <1>2, ColumnHarmless DEF AlterTable
<1>3. CASE EnsureColumn(p) \/ DuplicateColumn(p) \/ AssertNoBlocking(p) \/ CheckKeys(p) \/ SeeSearch(p)
  <2>1. db' = db
    BY <1>3 DEF EnsureColumn, DuplicateColumn, AssertNoBlocking, CheckKeys, SeeSearch
  <2> QED BY <2>1
<1>4. CASE Schedules(p) \/ ForeignKeys(p)
  <2>1. db' = db BY <1>4 DEF Schedules, ForeignKeys, Run
  <2> QED BY <2>1
<1>5. CASE Relax(p) \/ ScrubSiteRows(p) \/ ScrubAccountRows(p) \/ Rebuild(p) \/ RecordPhase(p)
  BY <1>5 DEF Relax, ScrubSiteRows, ScrubAccountRows, Rebuild, RecordPhase, Run
<1>6. CASE CreateSearch(p) \/ FillSearch(p) \/ Defaults(p) \/ Globals(p)
  BY <1>6 DEF CreateSearch, FillSearch, Defaults, Globals, Run
<1> QED BY <1>1, <1>2, <1>3, <1>4, <1>5, <1>6 DEF Migrate

\* The user's work takes rows away, and is not a step of a start, a stop or a crash.
LEMMA UseStaysInTables ==
  ASSUME HasTables(db), NEW p \in Procs, Use(p)
  PROVE  HasTables(db') /\ proc' = proc
<1>1. CASE \E s \in Sites : SaveSite(p, s)
  BY <1>1 DEF HasTables, SaveSite, Write, AddSite
<1>2. CASE \E a \in Accounts, s \in Sites : SaveAccount(p, a, s)
  BY <1>2 DEF HasTables, SaveAccount, Write, AddAccount
<1>3. CASE \E a \in Accounts : RemoveAccount(p, a)
  BY <1>3 DEF HasTables, RemoveAccount, Write, DropAccount
<1>4. CASE \E l \in Logs, a \in Accounts : SaveLog(p, l, a)
  BY <1>4 DEF HasTables, SaveLog, Write, AddLog
<1>5. CASE SaveSetting(p) BY <1>5 DEF HasTables, SaveSetting, Write
<1>6. CASE SaveSecret(p) BY <1>6 DEF HasTables, SaveSecret, Write
<1> QED BY <1>1, <1>2, <1>3, <1>4, <1>5, <1>6 DEF Use

LEMMA NextHarmless ==
  ASSUME HasTables(db), [Next]_vars
  PROVE  HasTables(db') /\ (proc' # proc => KeepsData(db, db'))
<1>1. CASE db' = db BY <1>1, StatementsHarmless DEF Harmless
<1>2. CASE Next
  <2>1. PICK p \in Procs :
          Start(p) \/ NewKey(p) \/ Migrate(p) \/ Main(p) \/ Stop(p) \/ Crash(p) \/ Use(p)
    BY <1>2 DEF Next
  <2>2. CASE Start(p) \/ Stop(p) \/ Crash(p)
    <3>1. db' = db BY <2>2 DEF Start, Stop, Crash, Run
    <3> QED BY <1>1, <3>1
  <2>3. CASE NewKey(p)
    <3>1. db' = db
      BY <2>3 DEF NewKey, ReadKey, MissingKey, UnreadableKey, TruncateKey, WriteKey,
         UnwrittenKey, SecureKey, InsecureKey
    <3> QED BY <1>1, <3>1
  <2>4. CASE Main(p)
    <3>1. db' = db BY <2>4 DEF Main, Acquire, Token, Listen, Drained, CloseApp, Unlock, Run
    <3> QED BY <1>1, <3>1
  <2>5. CASE Migrate(p) BY <2>5, MigrateHarmless DEF Harmless
  <2>6. CASE Use(p) BY <2>6, UseStaysInTables
  <2> QED BY <2>1, <2>2, <2>3, <2>4, <2>5, <2>6
<1>3. CASE UNCHANGED vars BY <1>1, <1>3 DEF vars
<1> QED BY <1>2, <1>3

\* However many starts run at once and wherever they die, no step of a start, a stop or a
\* crash loses a row that has its parents or a setting the user has saved (db_fk.go).
THEOREM StartsLoseNothing == Spec => StartsKeepData
<1>1. Init => HasTables(db) BY BootAssumption DEF Init, HasTables, FreshDb
<1>2. HasTables(db) /\ [Next]_vars => HasTables(db)' BY NextHarmless
<1>3. HasTables(db) /\ [Next]_vars =>
        [proc' # proc =>
           /\ \A a \in DOMAIN db.accounts :
                db.accounts[a] \in db.sites => a \in DOMAIN db'.accounts
           /\ \A l \in DOMAIN db.logs : HasParent(db, l) => l \in DOMAIN db'.logs
           /\ db.settings = "edited" => db'.settings = "edited"]_vars
  BY NextHarmless DEF KeepsData
<1> QED BY <1>1, <1>2, <1>3, PTL DEF Spec, StartsKeepData

-------------------------------------------------------------------------------
(* The search table *)

Complete(d) == d.fts = "live" /\ d.index = DOMAIN d.accounts

\* The triggers are all that the search table needs.
Ready(d) == Complete(d) \/ DOMAIN d.accounts = {}

\* A start of an older version may have left the table without its triggers or its rows;
\* until it is right, a database with accounts has neither its foreign keys nor the phase
\* that stands for them, so that a start will rebuild it.
SearchOk(d) ==
  /\ DOMAIN FreshDb \subseteq DOMAIN d
  /\ d.index \subseteq DOMAIN d.accounts
  /\ d.fts # "live" => d.index = {}
  /\ Ready(d) \/ ~(d.phase \/ HasKeys(d))
  /\ d.tables \/ Ready(d)

\* What a statement does for search from d to e: nothing is undone.
Searchable(d, e) ==
  /\ SearchOk(e)
  /\ Ready(d) => Ready(e)
  /\ Complete(d) => Complete(e)

\* The steps of NewApp and main behind the foreign keys, and behind the triggers.
ReadySteps == {"check", "phase", "search", "table", "triggers"}
LiveSteps == {"fill", "settings", "global", "lock"} \cup Holding

SearchInv ==
  /\ SearchOk(db)
  /\ \A p \in Procs : /\ proc[p].pc \in ReadySteps => Ready(db)
                      /\ proc[p].pc \in LiveSteps => Complete(db)

\* Statements that leave rows, keys and search table as they are.
LEMMA AsideSearchable ==
  ASSUME NEW d, SearchOk(d), NEW e, DOMAIN e = DOMAIN d,
         \A f \in {"fts", "index", "accounts", "fk", "phase", "tables"} : e[f] = d[f]
  PROVE  Searchable(d, e)
BY DEF Searchable, SearchOk, Ready, Complete, HasKeys

LEMMA ScrubSearchable ==
  ASSUME NEW d, SearchOk(d)
  PROVE  Searchable(d, ScrubSites(d)) /\ Searchable(d, ScrubLogs(d))
<1>0. {"fts", "index", "accounts", "logs", "fk", "phase", "tables"} \subseteq DOMAIN d
  BY DEF SearchOk, FreshDb
<1>1. Searchable(d, ScrubSites(d))
  <2> DEFINE e == ScrubSites(d)
  <2>1. /\ DOMAIN e = DOMAIN d /\ e.fts = d.fts /\ e.fk = d.fk /\ e.phase = d.phase
        /\ e.tables = d.tables /\ DOMAIN e.accounts \subseteq DOMAIN d.accounts
        /\ e.index = IF d.fts = "live" THEN d.index \ (DOMAIN d.accounts \ DOMAIN e.accounts)
                                       ELSE d.index
    BY <1>0 DEF ScrubSites, KeepRows, Restrict
  <2> HIDE DEF e
  <2>2. Searchable(d, e) BY <2>1 DEF Searchable, SearchOk, Ready, Complete, HasKeys
  <2> QED BY <2>2 DEF e
<1>2. Searchable(d, ScrubLogs(d))
  <2> DEFINE e == ScrubLogs(d)
  <2>1. /\ DOMAIN e = DOMAIN d
        /\ \A f \in {"fts", "index", "accounts", "fk", "phase", "tables"} : e[f] = d[f]
    BY <1>0 DEF ScrubLogs
  <2> HIDE DEF e
  <2>2. Searchable(d, e) BY <2>1, AsideSearchable
  <2> QED BY <2>2 DEF e
<1> QED BY <1>1, <1>2

\* Every statement but those that make the search table and those that need it.
LEMMA StatementsSearchable ==
  ASSUME NEW d, SearchOk(d)
  PROVE  /\ Searchable(d, BaseTables(d)) /\ Searchable(d, RelaxSchedules(d))
         /\ Searchable(d, DefaultSettings(d)) /\ Searchable(d, GlobalSchedule(d))
         /\ Searchable(d, SearchTable(d))
         /\ \A n : Searchable(d, AddColumn(d, n))
<1>0. DOMAIN FreshDb \subseteq DOMAIN d BY DEF SearchOk
<1>1. Searchable(d, BaseTables(d))
  <2>1. CASE d.tables
    <3>1. BaseTables(d) = d BY <2>1 DEF BaseTables
    <3> QED BY <3>1 DEF Searchable
  <2>2. CASE ~d.tables
    <3> DEFINE e == BaseTables(d)
    <3>1. /\ DOMAIN e = DOMAIN d /\ e.accounts = d.accounts /\ e.fts = d.fts
          /\ e.index = d.index
      BY <1>0, <2>2 DEF BaseTables, FreshDb
    <3>2. Ready(d) BY <2>2 DEF SearchOk
    <3> HIDE DEF e
    <3>3. Searchable(d, e) BY <3>1, <3>2 DEF Searchable, SearchOk, Ready, Complete
    <3> QED BY <3>3 DEF e
  <2> QED BY <2>1, <2>2
<1> DEFINE Aside(e) == /\ DOMAIN e = DOMAIN d
                       /\ \A f \in {"fts", "index", "accounts", "fk", "phase", "tables"} : e[f] = d[f]
<1>2. Aside(RelaxSchedules(d)) BY <1>0 DEF RelaxSchedules, FreshDb
<1>3. Aside(DefaultSettings(d)) BY <1>0 DEF DefaultSettings, FreshDb
<1>4. Aside(GlobalSchedule(d)) BY <1>0 DEF GlobalSchedule, FreshDb
<1>5. \A n : Aside(AddColumn(d, n)) BY <1>0 DEF AddColumn, FreshDb
<1>6. ASSUME NEW e, Aside(e) PROVE Searchable(d, e) BY <1>6, AsideSearchable
<1>7. Searchable(d, SearchTable(d))
  <2> DEFINE e == SearchTable(d)
  <2>1. /\ DOMAIN e = DOMAIN d /\ e.fts = IF d.fts = "none" THEN "bare" ELSE d.fts
        /\ \A f \in {"index", "accounts", "fk", "phase", "tables"} : e[f] = d[f]
    BY <1>0 DEF SearchTable, FreshDb
  <2> HIDE DEF e
  <2>2. Searchable(d, e) BY <2>1 DEF Searchable, SearchOk, Ready, Complete, HasKeys
  <2> QED BY <2>2 DEF e
<1> HIDE DEF Aside
<1> QED BY <1>1, <1>2, <1>3, <1>4, <1>5, <1>6, <1>7

\* Those that make it, or need it.
LEMMA SearchStatements ==
  ASSUME NEW d, SearchOk(d)
  PROVE  /\ Searchable(d, Rebuilt(d)) /\ Complete(Rebuilt(d))
         /\ Ready(d) => Searchable(d, SetPhase(d))
         /\ Ready(d) => Searchable(d, SearchTriggers(d)) /\ Complete(SearchTriggers(d))
         /\ Complete(d) => Searchable(d, SearchRebuild(d))
<1>0. DOMAIN FreshDb \subseteq DOMAIN d BY DEF SearchOk
<1>1. Searchable(d, Rebuilt(d)) /\ Complete(Rebuilt(d))
  <2> DEFINE b == RebuildLogs(RebuildAccounts(DropSearch(d)))
             e == MakeSearch(b)
  <2>1. DOMAIN b = DOMAIN d /\ b.tables = d.tables /\ b.accounts = d.accounts
    BY <1>0 DEF RebuildLogs, RebuildAccounts, DropSearch, FreshDb
  <2> HIDE DEF b
  <2>2. /\ DOMAIN e = DOMAIN d /\ e.fts = "live" /\ e.index = DOMAIN e.accounts
        /\ e.accounts = d.accounts /\ e.tables = d.tables
    BY <1>0, <2>1 DEF MakeSearch, FreshDb
  <2> HIDE DEF e
  <2>3. Searchable(d, e) BY <2>2 DEF Searchable, SearchOk, Ready, Complete
  <2> QED BY <2>2, <2>3 DEF Rebuilt, e, b, Complete
<1>2. ASSUME Ready(d) PROVE Searchable(d, SetPhase(d))
  <2> DEFINE e == SetPhase(d)
  <2>1. /\ DOMAIN e = DOMAIN d
        /\ \A f \in {"fts", "index", "accounts", "fk", "tables"} : e[f] = d[f]
    BY <1>0 DEF SetPhase, FreshDb
  <2> HIDE DEF e
  <2>2. Searchable(d, e) BY <1>2, <2>1 DEF Searchable, SearchOk, Ready, Complete, HasKeys
  <2> QED BY <2>2 DEF e
<1>3. ASSUME Ready(d) PROVE Searchable(d, SearchTriggers(d)) /\ Complete(SearchTriggers(d))
  <2> DEFINE e == SearchTriggers(d)
  <2>1. /\ DOMAIN e = DOMAIN d /\ e.fts = "live"
        /\ \A f \in {"index", "accounts", "fk", "phase", "tables"} : e[f] = d[f]
    BY <1>0 DEF SearchTriggers, FreshDb
  <2>2. d.index = DOMAIN d.accounts BY <1>3 DEF Ready, SearchOk, Complete
  <2> HIDE DEF e
  <2>3. Searchable(d, e) BY <2>1, <2>2 DEF Searchable, SearchOk, Ready, Complete
  <2> QED BY <2>1, <2>2, <2>3 DEF e, Complete
<1>4. ASSUME Complete(d) PROVE Searchable(d, SearchRebuild(d))
  <2>1. SearchRebuild(d) = [d EXCEPT !.index = d.index] BY <1>4 DEF SearchRebuild, SearchOk, Complete
  <2>2. /\ DOMAIN SearchRebuild(d) = DOMAIN d
        /\ \A f \in {"fts", "index", "accounts", "fk", "phase", "tables"} :
             SearchRebuild(d)[f] = d[f]
    BY <1>0, <2>1 DEF FreshDb
  <2> QED BY <2>2, AsideSearchable
<1> QED BY <1>1, <1>2, <1>3, <1>4

\* What the running program writes, given that the search table is there.
LEMMA WritesSearchable ==
  ASSUME NEW d, SearchOk(d), Complete(d)
  PROVE  /\ \A s : Searchable(d, AddSite(d, s))
         /\ \A a, s : Searchable(d, AddAccount(d, a, s))
         /\ \A a : Searchable(d, DropAccount(d, a))
         /\ \A l, a : Searchable(d, AddLog(d, l, a))
         /\ \A x : Searchable(d, [d EXCEPT !.settings = x])
         /\ \A x : Searchable(d, [d EXCEPT !.secret = x])
<1>0. DOMAIN FreshDb \subseteq DOMAIN d BY DEF SearchOk
<1> DEFINE Aside(e) == /\ DOMAIN e = DOMAIN d
                       /\ \A f \in {"fts", "index", "accounts", "fk", "phase", "tables"} : e[f] = d[f]
<1>1. \A s : Aside(AddSite(d, s)) BY <1>0 DEF AddSite, FreshDb
<1>2. \A l, a : Aside(AddLog(d, l, a)) BY <1>0 DEF AddLog, FreshDb
<1>3. \A x : Aside([d EXCEPT !.settings = x]) BY <1>0 DEF FreshDb
<1>4. \A x : Aside([d EXCEPT !.secret = x]) BY <1>0 DEF FreshDb
<1>5. ASSUME NEW e, Aside(e) PROVE Searchable(d, e) BY <1>5, AsideSearchable
<1>6. ASSUME NEW e, DOMAIN e = DOMAIN d, e.fts = "live", e.index = DOMAIN e.accounts
      PROVE  Searchable(d, e)
  BY <1>0, <1>6 DEF Searchable, SearchOk, Ready, Complete
<1>7. ASSUME NEW a, NEW s PROVE Searchable(d, AddAccount(d, a, s))
  <2> DEFINE e == AddAccount(d, a, s)
  <2>1. /\ DOMAIN e = DOMAIN d /\ e.fts = "live" /\ e.index = d.index \cup {a}
        /\ DOMAIN e.accounts = DOMAIN d.accounts \cup {a}
    BY <1>0 DEF AddAccount, FreshDb, Complete
  <2>2. d.index = DOMAIN d.accounts BY DEF Complete
  <2> HIDE DEF e
  <2>3. Searchable(d, e) BY <1>6, <2>1, <2>2
  <2> QED BY <2>3 DEF e
<1>8. ASSUME NEW a PROVE Searchable(d, DropAccount(d, a))
  <2> DEFINE e == DropAccount(d, a)
  <2>1. /\ DOMAIN e = DOMAIN d /\ e.fts = "live" /\ e.index = d.index \ {a}
        /\ DOMAIN e.accounts = {x \in DOMAIN d.accounts : x # a}
    BY <1>0 DEF DropAccount, KeepRows, Restrict, FreshDb, Complete
  <2>2. d.index = DOMAIN d.accounts BY DEF Complete
  <2> HIDE DEF e
  <2>3. Searchable(d, e) BY <1>6, <2>1, <2>2
  <2> QED BY <2>3 DEF e
<1> HIDE DEF Aside
<1> QED BY <1>1, <1>2, <1>3, <1>4, <1>5, <1>7, <1>8

LEMMA SearchKept ==
  ASSUME SearchInv, NEW p \in Procs, Own(p), Searchable(db, db'),
         proc'[p].pc \in ReadySteps => Ready(db'),
         proc'[p].pc \in LiveSteps => Complete(db')
  PROVE  SearchInv'
<1>1. ASSUME NEW q \in Procs
      PROVE  /\ proc'[q].pc \in ReadySteps => Ready(db')
             /\ proc'[q].pc \in LiveSteps => Complete(db')
  <2>1. CASE q = p BY <2>1
  <2>2. CASE q # p
    <3>1. proc'[q] = proc[q] BY <2>2 DEF Own
    <3>2. /\ proc[q].pc \in ReadySteps => Ready(db)
          /\ proc[q].pc \in LiveSteps => Complete(db)
      BY DEF SearchInv
    <3> QED BY <3>1, <3>2 DEF Searchable
  <2> QED BY <2>1, <2>2
<1>2. SearchOk(db') BY DEF Searchable
<1> QED BY <1>1, <1>2 DEF SearchInv, SearchOk, Ready, Complete, HasKeys

\* The other steps: the database stays, and p walks on where it has been, or out.
LEMMA WalkSearchKept ==
  ASSUME SearchInv, NEW p \in Procs, Own(p), db' = db,
         proc'[p].pc \in ReadySteps => Ready(db),
         proc'[p].pc \in LiveSteps => Complete(db)
  PROVE  SearchInv'
<1>1. Searchable(db, db') BY DEF Searchable, SearchInv
<1> QED BY <1>1, SearchKept DEF Ready

LEMMA FailedIsOut ==
  ASSUME Shape, NEW p \in Procs, NEW why, Fail(p, why)
  PROVE  proc'[p].pc = "failed"
BY OffShape DEF Fail, Shape, Fields

LEMMA WentTo ==
  ASSUME Shape, NEW p \in Procs, NEW step, Go(p, step)
  PROVE  proc'[p].pc = step
BY DEF Go, Shape, Fields

LEMMA RanTo ==
  ASSUME Shape, NEW p \in Procs, NEW pc, NEW next, NEW d, Run(p, pc, next, d)
  PROVE  proc[p].pc = pc /\ proc'[p].pc = next /\ db' = d
BY WentTo DEF Run, At

LEMMA MigrateSearchKept ==
  ASSUME Shape, SearchInv, NEW p \in Procs, Migrate(p), Own(p)
  PROVE  SearchInv'
<1>0. /\ SearchOk(db) /\ DOMAIN proc = Procs /\ DOMAIN proc[p] = Fields
      /\ proc[p].pc \in ReadySteps => Ready(db)
      /\ proc[p].pc \in LiveSteps => Complete(db)
  BY DEF SearchInv, Shape
<1> USE DEF ReadySteps, LiveSteps, Holding
<1>1. CASE CreateTables(p)
  <2>1. proc'[p].pc = "column" BY <1>0, <1>1 DEF CreateTables, Fields
  <2> QED BY <1>0, <1>1, <2>1, StatementsSearchable, SearchKept DEF CreateTables
<1>2. CASE EnsureColumn(p)
  <2>1. proc'[p].pc \in {"column", "alter", "schedules"}
    <3>1. CASE Go(p, "alter") BY <3>1, WentTo
    <3>2. CASE ~Go(p, "alter") BY <1>0, <1>2, <3>2 DEF EnsureColumn, At, Fields
    <3> QED BY <3>1, <3>2
  <2> QED BY <1>2, <2>1, WalkSearchKept DEF EnsureColumn
<1>3. CASE AlterTable(p)
  <2>1. proc'[p].pc = "column" BY <1>0, <1>3 DEF AlterTable, Fields
  <2> QED BY <1>0, <1>3, <2>1, StatementsSearchable, SearchKept DEF AlterTable
<1>4. CASE DuplicateColumn(p)
  <2>1. proc'[p].pc = "failed" BY <1>4, FailedIsOut DEF DuplicateColumn
  <2> QED BY <1>4, <2>1, WalkSearchKept DEF DuplicateColumn
<1>5. CASE Schedules(p)
  <2>1. proc'[p].pc \in {"relax", "fk"} /\ db' = db BY <1>5, RanTo DEF Schedules
  <2> QED BY <2>1, WalkSearchKept
<1>6. CASE Relax(p)
  <2>1. proc'[p].pc = "fk" /\ db' = RelaxSchedules(db) BY <1>6, RanTo DEF Relax
  <2> QED BY <1>0, <2>1, StatementsSearchable, SearchKept
<1>7. CASE ForeignKeys(p)
  <2>1. /\ db' = db
        /\ proc'[p].pc = IF db.phase THEN "search" ELSE IF HasKeys(db) THEN "phase" ELSE "scrub"
    BY <1>7, RanTo DEF ForeignKeys
  <2>2. db.phase \/ HasKeys(db) => Ready(db) BY <1>0 DEF SearchOk
  <2> QED BY <2>1, <2>2, WalkSearchKept
<1>8. CASE ScrubSiteRows(p)
  <2>1. proc'[p].pc = "scrublogs" /\ db' = ScrubSites(db) BY <1>8, RanTo DEF ScrubSiteRows
  <2> QED BY <1>0, <2>1, ScrubSearchable, SearchKept
<1>9. CASE ScrubAccountRows(p)
  <2>1. proc'[p].pc = "assert" /\ db' = ScrubLogs(db) BY <1>9, RanTo DEF ScrubAccountRows
  <2> QED BY <1>0, <2>1, ScrubSearchable, SearchKept
<1>10. CASE AssertNoBlocking(p)
  <2>1. proc'[p].pc \in {"rebuild", "failed"}
    BY <1>10, WentTo, FailedIsOut DEF AssertNoBlocking
  <2> QED BY <1>10, <2>1, WalkSearchKept DEF AssertNoBlocking
<1>11. CASE Rebuild(p)
  <2>1. proc'[p].pc = "check" /\ db' = Rebuilt(db) BY <1>11, RanTo DEF Rebuild
  <2> QED BY <1>0, <2>1, SearchStatements, SearchKept DEF Ready
<1>12. CASE CheckKeys(p)
  <2>1. proc'[p].pc \in {"phase", "failed"} BY <1>12, WentTo, FailedIsOut DEF CheckKeys
  <2>2. Ready(db) BY <1>0, <1>12 DEF CheckKeys, At
  <2> QED BY <1>12, <2>1, <2>2, WalkSearchKept DEF CheckKeys
<1>13. CASE RecordPhase(p)
  <2>1. /\ proc[p].pc = "phase" /\ proc'[p].pc = "search" /\ db' = SetPhase(db)
    BY <1>13, RanTo DEF RecordPhase
  <2>2. Ready(db) /\ Searchable(db, db') BY <1>0, <2>1, SearchStatements
  <2> QED BY <2>1, <2>2, SearchKept DEF Searchable
<1>14. CASE SeeSearch(p)
  <2>1. proc'[p].pc = "table" BY <1>0, <1>14 DEF SeeSearch, Fields
  <2>2. Ready(db) BY <1>0, <1>14 DEF SeeSearch, At
  <2> QED BY <1>14, <2>1, <2>2, WalkSearchKept DEF SeeSearch
<1>15. CASE CreateSearch(p)
  <2>1. /\ proc[p].pc = "table" /\ proc'[p].pc = "triggers" /\ db' = SearchTable(db)
    BY <1>15, RanTo DEF CreateSearch
  <2>2. Ready(db) /\ Searchable(db, db') BY <1>0, <2>1, StatementsSearchable
  <2> QED BY <2>1, <2>2, SearchKept DEF Searchable
<1>16. CASE CreateTriggers(p)
  <2>1. proc'[p].pc \in {"settings", "fill"} BY <1>0, <1>16 DEF CreateTriggers, Fields
  <2>2. db' = SearchTriggers(db) /\ Ready(db) BY <1>0, <1>16 DEF CreateTriggers, At
  <2>3. Searchable(db, db') /\ Complete(db') BY <1>0, <2>2, SearchStatements
  <2> QED BY <2>1, <2>3, SearchKept
<1>17. CASE FillSearch(p)
  <2>1. /\ proc[p].pc = "fill" /\ proc'[p].pc = "settings" /\ db' = SearchRebuild(db)
    BY <1>17, RanTo DEF FillSearch
  <2>2. Complete(db) /\ Searchable(db, db') BY <1>0, <2>1, SearchStatements
  <2> QED BY <2>1, <2>2, SearchKept DEF Searchable
<1>18. CASE Defaults(p)
  <2>1. /\ proc[p].pc = "settings" /\ proc'[p].pc = "global" /\ db' = DefaultSettings(db)
    BY <1>18, RanTo DEF Defaults
  <2>2. Complete(db) /\ Searchable(db, db') BY <1>0, <2>1, StatementsSearchable
  <2> QED BY <2>1, <2>2, SearchKept DEF Searchable
<1>19. CASE Globals(p)
  <2>1. /\ proc[p].pc = "global" /\ proc'[p].pc = "lock" /\ db' = GlobalSchedule(db)
    BY <1>19, RanTo DEF Globals
  <2>2. Complete(db) /\ Searchable(db, db') BY <1>0, <2>1, StatementsSearchable
  <2> QED BY <2>1, <2>2, SearchKept DEF Searchable
<1> QED
  BY <1>1, <1>2, <1>3, <1>4, <1>5, <1>6, <1>7, <1>8, <1>9, <1>10, <1>11, <1>12, <1>13,
     <1>14, <1>15, <1>16, <1>17, <1>18, <1>19 DEF Migrate

LEMMA MainSearchKept ==
  ASSUME Shape, SearchInv, NEW p \in Procs, Main(p) \/ Stop(p) \/ Crash(p), Own(p)
  PROVE  SearchInv'
<1>0. /\ DOMAIN proc = Procs /\ DOMAIN proc[p] = Fields
      /\ proc[p].pc \in LiveSteps => Complete(db)
  BY DEF SearchInv, Shape
<1>1. db' = db
  BY DEF Main, Acquire, Token, Listen, Drained, CloseApp, Unlock, Stop, Crash, Run
<1>2. CASE Crash(p) \/ Unlock(p)
  <2>1. proc'[p] = Off BY <1>0, <1>2 DEF Crash, Unlock
  <2> QED BY <1>1, <2>1, OffShape, WalkSearchKept DEF ReadySteps, LiveSteps, Holding
<1>3. CASE ~(Crash(p) \/ Unlock(p))
  <2>1. proc[p].pc \in {"lock"} \cup Holding
    BY <1>3 DEF Main, Acquire, Token, Listen, Drained, CloseApp, Stop, Run, At, Holding
  <2>2. proc'[p].pc \in Holding \cup {"failed"}
    <3>1. CASE Acquire(p) BY <3>1, WentTo, FailedIsOut DEF Acquire, Holding
    <3>2. CASE Token(p) BY <1>0, <3>2 DEF Token, Fields, Holding
    <3>3. CASE Listen(p)
      <4>1. CASE \E why : Fail(p, why) BY <4>1, FailedIsOut
      <4>2. CASE ~\E why : Fail(p, why) BY <1>0, <3>3, <4>2 DEF Listen, Fields, Holding
      <4> QED BY <4>1, <4>2
    <3>4. CASE Drained(p) \/ CloseApp(p) \/ Stop(p)
      BY <3>4, RanTo DEF Drained, CloseApp, Stop, Holding
    <3> QED BY <1>3, <3>1, <3>2, <3>3, <3>4 DEF Main
  <2>3. Complete(db) BY <1>0, <2>1 DEF LiveSteps
  <2> QED BY <1>1, <2>2, <2>3, WalkSearchKept DEF ReadySteps, Holding
<1> QED BY <1>2, <1>3

LEMMA UseSearchKept ==
  ASSUME Shape, SearchInv, NEW p \in Procs, Use(p), Own(p)
  PROVE  SearchInv'
<1>1. SearchOk(db) /\ proc' = proc /\ Complete(db)
  BY DEF Use, SaveSite, SaveAccount, RemoveAccount, SaveLog, SaveSetting, SaveSecret, Write,
         SearchInv, LiveSteps, Holding
<1>2. Searchable(db, db')
  <2> USE <1>1, WritesSearchable
  <2>1. CASE \E s \in Sites : SaveSite(p, s) BY <2>1 DEF SaveSite, Write
  <2>2. CASE \E a \in Accounts, s \in Sites : SaveAccount(p, a, s)
    BY <2>2 DEF SaveAccount, Write
  <2>3. CASE \E a \in Accounts : RemoveAccount(p, a) BY <2>3 DEF RemoveAccount, Write
  <2>4. CASE \E l \in Logs, a \in Accounts : SaveLog(p, l, a) BY <2>4 DEF SaveLog, Write
  <2>5. CASE SaveSetting(p) BY <2>5 DEF SaveSetting, Write
  <2>6. CASE SaveSecret(p) BY <2>6 DEF SaveSecret, Write
  <2> QED BY <2>1, <2>2, <2>3, <2>4, <2>5, <2>6 DEF Use
<1>3. Ready(db') /\ Complete(db') BY <1>1, <1>2 DEF Ready, Searchable
<1> QED BY <1>2, <1>3, SearchKept

\* A new process, and the steps around the key, are before all of that.
LEMMA EarlySearchKept ==
  ASSUME Shape, SearchInv, NEW p \in Procs, Start(p) \/ NewKey(p)
  PROVE  SearchInv'
<1> DEFINE Early(step) == step \in {"key", "create", "write", "secure", "base", "failed"}
<1>0. db' = db
  BY DEF Start, NewKey, ReadKey, MissingKey, UnreadableKey, TruncateKey, WriteKey,
         UnwrittenKey, SecureKey, InsecureKey
<1>1. \A q \in Procs : proc'[q].pc = proc[q].pc \/ Early(proc'[q].pc)
  <2>1. CASE Start(p) BY <2>1, StartMoves
  <2>2. CASE NewKey(p)
    <3>1. Own(p) BY <2>2, StepIsOwn
    <3>2. Early(proc'[p].pc)
      <4>0. p \in DOMAIN proc /\ DOMAIN proc[p] = Fields BY DEF Shape
      <4>1. CASE ReadKey(p) \/ SecureKey(p) BY <4>0, <4>1 DEF ReadKey, SecureKey, Fields
      <4>2. CASE MissingKey(p) \/ TruncateKey(p) \/ WriteKey(p)
        BY <4>2, WentTo DEF MissingKey, TruncateKey, WriteKey
      <4>3. CASE UnreadableKey(p) \/ UnwrittenKey(p) \/ InsecureKey(p)
        BY <4>3, FailedIsOut DEF UnreadableKey, UnwrittenKey, InsecureKey
      <4> QED BY <2>2, <4>1, <4>2, <4>3 DEF NewKey
    <3> QED BY <3>1, <3>2 DEF Own
  <2> QED BY <2>1, <2>2
<1> QED
  BY <1>0, <1>1 DEF SearchInv, SearchOk, Ready, Complete, HasKeys, ReadySteps, LiveSteps, Holding

\* However starts, crashes and the user's work interleave, a program that serves finds
\* every account by its search table (ensureAccountSearchFTS, db_fk.go:71).
THEOREM SearchIsComplete == Spec => []SearchMatches
<1>1. Init => SearchInv
  BY BootAssumption, OffShape
  DEF Init, SearchInv, SearchOk, Ready, Complete, ReadySteps, LiveSteps, Holding
<1>2. Inv /\ SearchInv /\ [Next]_vars => SearchInv'
  <2> SUFFICES ASSUME Inv, SearchInv, [Next]_vars PROVE SearchInv' OBVIOUS
  <2>0. Shape BY DEF Inv
  <2>1. CASE UNCHANGED vars
    BY <2>1 DEF vars, SearchInv, SearchOk, Ready, Complete, HasKeys
  <2>2. CASE Next
    <3>1. PICK p \in Procs :
            Start(p) \/ NewKey(p) \/ Migrate(p) \/ Main(p) \/ Stop(p) \/ Crash(p) \/ Use(p)
      BY <2>2 DEF Next
    <3>2. CASE Start(p) \/ NewKey(p) BY <2>0, <3>2, EarlySearchKept
    <3>3. CASE Migrate(p) BY <2>0, <3>3, StepIsOwn, MigrateSearchKept
    <3>4. CASE Main(p) \/ Stop(p) \/ Crash(p) BY <2>0, <3>4, StepIsOwn, MainSearchKept
    <3>5. CASE Use(p) BY <2>0, <3>5, StepIsOwn, UseSearchKept
    <3> QED BY <3>1, <3>2, <3>3, <3>4, <3>5
  <2> QED BY <2>1, <2>2
<1>3. SearchInv => SearchMatches
  BY DEF SearchInv, Complete, SearchMatches, At, LiveSteps, Holding
<1> QED BY <1>1, <1>2, <1>3, LockAndKey, PTL DEF Spec
-------------------------------------------------------------------------------
(* The page and the port *)

PortInv ==
  /\ busy \in BusySets
  /\ \A p \in Procs : proc[p].pc = "serve" => proc[p].port = OwnHost(busy).port

\* Only Listen begins to serve.
LEMMA OnlyListenServes ==
  ASSUME Shape, NEW p \in Procs, ~Listen(p),
         NewKey(p) \/ Migrate(p) \/ Main(p) \/ Stop(p) \/ Crash(p) \/ Use(p)
  PROVE  proc'[p].pc # "serve" \/ proc' = proc
<1>0. p \in DOMAIN proc /\ DOMAIN proc[p] = Fields BY DEF Shape
<1>f. ASSUME NEW why, Fail(p, why) PROVE proc'[p].pc # "serve" BY <1>f, FailedIsOut
<1>g. ASSUME NEW step, step # "serve", Go(p, step) PROVE proc'[p].pc # "serve" BY <1>g, WentTo
<1>r. ASSUME NEW pc, NEW next, NEW d, next # "serve", Run(p, pc, next, d)
      PROVE  proc'[p].pc # "serve"
  BY <1>r, RanTo
<1>1. CASE NewKey(p)
  <2>1. CASE ReadKey(p) \/ SecureKey(p) BY <1>0, <2>1 DEF ReadKey, SecureKey, Fields
  <2>2. CASE MissingKey(p) \/ TruncateKey(p) \/ WriteKey(p)
    BY <1>g, <2>2 DEF MissingKey, TruncateKey, WriteKey
  <2>3. CASE UnreadableKey(p) \/ UnwrittenKey(p) \/ InsecureKey(p)
    BY <1>f, <2>3 DEF UnreadableKey, UnwrittenKey, InsecureKey
  <2> QED BY <1>1, <2>1, <2>2, <2>3 DEF NewKey
<1>2. CASE CreateTables(p) \/ AlterTable(p) \/ SeeSearch(p) \/ CreateTriggers(p)
  BY <1>0, <1>2 DEF CreateTables, AlterTable, SeeSearch, CreateTriggers, Fields
<1>3. CASE EnsureColumn(p)
  <2>1. CASE Go(p, "alter") BY <1>g, <2>1
  <2>2. CASE ~Go(p, "alter") BY <1>0, <1>3, <2>2 DEF EnsureColumn, At, Fields
  <2> QED BY <2>1, <2>2
<1>4. CASE DuplicateColumn(p) \/ AssertNoBlocking(p) \/ CheckKeys(p) \/ Acquire(p)
  BY <1>4, <1>f, <1>g DEF DuplicateColumn, AssertNoBlocking, CheckKeys, Acquire
<1>5. CASE Schedules(p) BY <1>5, <1>r DEF Schedules
<1>6. CASE ForeignKeys(p) BY <1>6, <1>r DEF ForeignKeys
<1>7. CASE Relax(p) \/ ScrubSiteRows(p) \/ ScrubAccountRows(p) \/ Rebuild(p) \/ RecordPhase(p)
  BY <1>7, <1>r DEF Relax, ScrubSiteRows, ScrubAccountRows, Rebuild, RecordPhase
<1>8. CASE CreateSearch(p) \/ FillSearch(p) \/ Defaults(p) \/ Globals(p)
  BY <1>8, <1>r DEF CreateSearch, FillSearch, Defaults, Globals
<1>9. CASE Drained(p) \/ CloseApp(p) \/ Stop(p) BY <1>9, <1>r DEF Drained, CloseApp, Stop
<1>10. CASE Token(p) BY <1>0, <1>10 DEF Token, Fields
<1>11. CASE Unlock(p) \/ Crash(p) BY <1>0, <1>11, OffShape DEF Unlock, Crash
<1>12. CASE Use(p)
  BY <1>12 DEF Use, SaveSite, SaveAccount, RemoveAccount, SaveLog, SaveSetting, SaveSecret, Write
<1> QED
  BY <1>1, <1>2, <1>3, <1>4, <1>5, <1>6, <1>7, <1>8, <1>9, <1>10, <1>11, <1>12
  DEF Migrate, Main

LEMMA PortKept ==
  ASSUME Inv, PortInv, [Next]_vars
  PROVE  PortInv'
<1>0. Shape BY DEF Inv
<1>1. CASE UNCHANGED vars BY <1>1 DEF vars, PortInv
<1>2. ASSUME NEW p \in Procs, Start(p) PROVE PortInv'
  <2>1. busy' = busy BY <1>2 DEF Start
  <2> QED BY <1>0, <1>2, <2>1, StartMoves DEF PortInv
<1>3. ASSUME NEW p \in Procs, Own(p), busy' = busy, proc'[p].pc # "serve" \/ proc'[p] = proc[p]
      PROVE  PortInv'
  BY <1>3 DEF Own, PortInv
<1>4. ASSUME NEW p \in Procs, Listen(p) PROVE PortInv'
  <2> DEFINE port == ListenPort(PreferredPort(Preferred), busy)
  <2>1. Own(p) /\ busy' = busy BY <1>0, <1>4, StepIsOwn DEF Main
  <2>2. CASE port = NoPort
    <3>1. proc'[p].pc = "failed" BY <1>0, <1>4, <2>2, FailedIsOut DEF Listen
    <3> QED BY <1>3, <2>1, <3>1
  <2>3. CASE port # NoPort
    <3>1. proc' = [proc EXCEPT ![p].pc = "serve", ![p].port = port]
      BY <1>4, <2>3 DEF Listen
    <3> HIDE DEF port
    <3>2. proc'[p].port = port BY <1>0, <3>1 DEF Shape, Fields
    <3>3. port = OwnHost(busy).port BY DEF OwnHost, port
    <3> QED BY <2>1, <3>2, <3>3 DEF Own, PortInv
  <2> QED BY <2>2, <2>3
<1>5. ASSUME NEW p \in Procs, NewKey(p) \/ Migrate(p) \/ Main(p) \/ Stop(p) \/ Crash(p) \/ Use(p),
             ~Listen(p)
      PROVE  PortInv'
  <2>1. Own(p) /\ busy' = busy BY <1>0, <1>5, StepIsOwn
  <2>2. proc'[p].pc # "serve" \/ proc' = proc BY <1>0, <1>5, OnlyListenServes
  <2> QED BY <1>3, <2>1, <2>2
<1> QED BY <1>1, <1>2, <1>4, <1>5 DEF Next

\* Whatever ports are taken, the page a process serves may call every method of its API at
\* the port the process got (main.go:69, http.go:197).
THEOREM PageIsLetIn == Spec => []OwnPageWorks
<1>1. Init => PortInv BY OffShape DEF Init, PortInv
<1>2. Inv /\ PortInv /\ [Next]_vars => PortInv' BY PortKept
<1>3. PortInv => OwnPageWorks
  <2> SUFFICES ASSUME PortInv, NEW p \in Procs, At(p, "serve"),
                      NEW method \in {"GET", "POST", "DELETE"}
               PROVE  Gate([bind |-> proc[p].bind, port |-> proc[p].port,
                            token |-> proc[p].token], PageCall(p, method)) = 200
    BY DEF OwnPageWorks
  <2> DEFINE server == [bind |-> proc[p].bind, port |-> proc[p].port, token |-> proc[p].token]
             host == OwnHost(busy)
  <2>1. /\ server.port = host.port /\ server.token = proc[p].token
        /\ host.name = "127.0.0.1" /\ OwnOrigin(busy) # BadOrigin
    BY OriginAssumption DEF PortInv, At, OwnHost
  <2>2. OwnOrigin(busy).scheme = "http" /\ OwnOrigin(busy).host = host BY DEF OwnOrigin
  <2>3. /\ PageCall(p, method).api /\ PageCall(p, method).host = host
        /\ PageCall(p, method).origin = OwnOrigin(busy)
        /\ PageCall(p, method).remote = "loopback"
        /\ PageCall(p, method).cookie = proc[p].token
    BY DEF PageCall
  <2> HIDE DEF server, host
  <2>4. AllowedHost(server, host) BY <2>1 DEF AllowedHost, Loopback
  <2>5. ValidOrigin(server, OwnOrigin(busy)) BY <2>1, <2>2, <2>4 DEF ValidOrigin
  <2>6. Gate(server, PageCall(p, method)) = 200
    BY <2>1, <2>3, <2>4, <2>5 DEF Gate, ValidToken, WithSession, LoopbackRemote
  <2> QED BY <2>6 DEF server
<1> QED BY <1>1, <1>2, <1>3, LockAndKey, PTL DEF Spec

-------------------------------------------------------------------------------
(* Starts that run alone *)

\* The lock is held by a process that is past it.
LockLive == lock # NoProc => lock \in Procs /\ proc[lock].pc \in Holding

\* What holds of a process that no other has met: what it has read of the database is
\* still so, and if it failed, that was not for another's sake.
Lone(p) ==
  /\ Live(p) => \A q \in Procs \ {p} : ~Live(q)
  /\ proc[p].pc = "alter" => ~HasColumn(db, proc[p].n)
  /\ proc[p].pc = "rebuild" => Blocking(db) = {}
  /\ proc[p].pc = "check" => Orphans(db) = {}
  /\ proc[p].pc = "failed" => proc[p].why \in {"key", "blocked", "ports"}

LoneInv == LockLive /\ \A p \in Procs : proc[p].alone => Lone(p)

Marked == {"alter", "rebuild", "check", "failed"}

\* p steps, and is no more alone than it was.
Treads(p) == Own(p) /\ Live(p) /\ (proc'[p].alone => proc[p].alone)

LEMMA LoneKept ==
  ASSUME LoneInv, NEW p \in Procs, Treads(p), LockLive',
         /\ proc'[p].pc = "alter" /\ proc[p].alone => ~HasColumn(db', proc'[p].n)
         /\ proc'[p].pc = "rebuild" /\ proc[p].alone => Blocking(db') = {}
         /\ proc'[p].pc = "check" /\ proc[p].alone => Orphans(db') = {}
         /\ proc'[p].pc = "failed" /\ proc[p].alone =>
              proc'[p].why \in {"key", "blocked", "ports"}
  PROVE  LoneInv'
<1>1. ASSUME NEW q \in Procs, q # p, proc'[q].alone PROVE Lone(q)'
  <2>1. proc'[q] = proc[q] /\ proc[q].alone BY <1>1 DEF Treads, Own
  <2>2. Lone(q) BY <2>1 DEF LoneInv
  <2>3. ~Live(q) BY <1>1, <2>2 DEF Lone, Treads
  <2>4. proc'[q].pc \in {"off", "failed"} BY <2>1, <2>3 DEF Live
  <2>5. proc'[q].pc = "failed" => proc'[q].why \in {"key", "blocked", "ports"}
    BY <2>1, <2>2 DEF Lone
  <2> QED BY <2>4, <2>5 DEF Lone, Live
<1>2. ASSUME proc'[p].alone PROVE Lone(p)'
  <2>1. proc[p].alone BY <1>2 DEF Treads
  <2>2. \A q \in Procs \ {p} : ~Live(q) BY <2>1 DEF LoneInv, Lone, Treads
  <2>3. \A q \in Procs \ {p} : ~Live(q)' BY <2>2 DEF Live, Treads, Own
  <2> QED BY <2>1, <2>3 DEF Lone
<1>3. ASSUME NEW q \in Procs, proc'[q].alone PROVE Lone(q)'
  <2>1. CASE q = p BY <1>2, <1>3, <2>1
  <2>2. CASE q # p BY <1>1, <1>3, <2>2
  <2> QED BY <2>1, <2>2
<1> QED BY <1>3 DEF LoneInv

LEMMA LockOutside ==
  ASSUME LockLive, NEW p \in Procs, Own(p), proc[p].pc \notin Holding,
         lock' = lock \/ lock' = IF lock = p THEN NoProc ELSE lock
  PROVE  LockLive'
<1>1. lock # p \/ lock = NoProc BY DEF LockLive
<1> QED BY <1>1 DEF LockLive, Own

LEMMA LockLeft ==
  ASSUME LockLive, NEW p \in Procs, Own(p), lock' = IF lock = p THEN NoProc ELSE lock
  PROVE  LockLive'
BY DEF LockLive, Own

\* The rebuild takes all rows over, so what had no orphan before has none after it.
LEMMA RebuiltOrphans ==
  ASSUME NEW d, HasTables(d), Blocking(d) = {}
  PROVE  Orphans(Rebuilt(d)) = {}
<1> DEFINE e == Rebuilt(d)
<1>1. e.sites = d.sites /\ e.accounts = d.accounts /\ e.logs = d.logs
  BY DEF Rebuilt, MakeSearch, RebuildLogs, RebuildAccounts, DropSearch, HasTables
<1> HIDE DEF e
<1>2. Orphans(e) = Blocking(d) BY <1>1 DEF Orphans, Blocking
<1> QED BY <1>2 DEF e

LEMMA FailTreads ==
  ASSUME Shape, NEW p \in Procs, NEW why, Fail(p, why), Own(p), Live(p)
  PROVE  Treads(p) /\ proc'[p].pc = "failed" /\ proc'[p].why = why
         /\ lock' = IF lock = p THEN NoProc ELSE lock
BY DEF Fail, Treads, Shape, Off

LEMMA GoTreads ==
  ASSUME Shape, NEW p \in Procs, NEW step, Go(p, step), Own(p), Live(p)
  PROVE  Treads(p) /\ proc'[p].pc = step /\ proc'[p].n = proc[p].n
BY DEF Go, Treads, Shape, Fields

LEMMA RunTreads ==
  ASSUME Shape, NEW p \in Procs, NEW pc, NEW next, NEW d, Run(p, pc, next, d), Own(p), Live(p)
  PROVE  Treads(p) /\ proc[p].pc = pc /\ proc'[p].pc = next /\ db' = d /\ lock' = lock
BY GoTreads DEF Run, At

\* A step outside the lock that ends at a step nothing is said of.
LEMMA PlainKept ==
  ASSUME LoneInv, NEW p \in Procs, Treads(p), proc[p].pc \notin Holding,
         lock' = lock \/ lock' = IF lock = p THEN NoProc ELSE lock, proc'[p].pc \notin Marked
  PROVE  LoneInv'
<1>1. LockLive' BY LockOutside DEF LoneInv, Treads
<1> QED BY <1>1, LoneKept DEF Marked

\* A failure for a reason that is no other process.
LEMMA ExcusedKept ==
  ASSUME LoneInv, NEW p \in Procs, Treads(p), proc'[p].pc = "failed",
         lock' = IF lock = p THEN NoProc ELSE lock,
         proc[p].alone => proc'[p].why \in {"key", "blocked", "ports"}
  PROVE  LoneInv'
<1>1. LockLive' BY LockLeft DEF LoneInv, Treads
<1> QED BY <1>1, LoneKept

LEMMA KeyLoneKept ==
  ASSUME Shape, LoneInv, NEW p \in Procs, NewKey(p), Own(p), Live(p)
  PROVE  LoneInv'
<1>0. p \in DOMAIN proc /\ DOMAIN proc[p] = Fields BY DEF Shape
<1>1. CASE ReadKey(p) \/ SecureKey(p)
  <2>1. /\ Treads(p) /\ proc'[p].pc = "base" /\ lock' = lock
        /\ proc[p].pc \in {"key", "secure"}
    BY <1>0, <1>1 DEF ReadKey, SecureKey, At, Fields, Treads
  <2> QED BY <2>1, PlainKept DEF Holding, Marked
<1>2. CASE MissingKey(p) \/ TruncateKey(p) \/ WriteKey(p)
  <2>1. /\ Treads(p) /\ proc'[p].pc \in {"create", "write", "secure"} /\ lock' = lock
        /\ proc[p].pc \in {"key", "create", "write"}
    BY <1>2, GoTreads DEF MissingKey, TruncateKey, WriteKey, At
  <2> QED BY <2>1, PlainKept DEF Holding, Marked
<1>3. CASE UnreadableKey(p) \/ UnwrittenKey(p) \/ InsecureKey(p)
  <2>1. Fail(p, "key") BY <1>3 DEF UnreadableKey, UnwrittenKey, InsecureKey
  <2> QED BY <2>1, FailTreads, ExcusedKept
<1> QED BY <1>1, <1>2, <1>3 DEF NewKey

LEMMA MigrateLoneKept ==
  ASSUME Shape, LoneInv, HasTables(db), NEW p \in Procs, Migrate(p), Own(p), Live(p)
  PROVE  LoneInv'
<1>0. p \in DOMAIN proc /\ DOMAIN proc[p] = Fields BY DEF Shape
<1>l. proc[p].alone => Lone(p) BY DEF LoneInv
<1>k. ASSUME proc[p].pc \notin Holding, lock' = lock PROVE LockLive'
  BY <1>k, LockOutside DEF LoneInv
<1>r. ASSUME NEW pc, NEW next, NEW d, Run(p, pc, next, d),
             pc \notin Holding, next \notin Marked
      PROVE  LoneInv'
  BY <1>r, RunTreads, PlainKept
<1> USE DEF Holding, Marked
<1>1. CASE CreateTables(p) \/ SeeSearch(p) \/ CreateTriggers(p) \/ AlterTable(p)
  <2>1. /\ Treads(p) /\ lock' = lock
        /\ proc'[p].pc \in {"column", "table", "settings", "fill"}
        /\ proc[p].pc \in {"base", "search", "triggers", "alter"}
    BY <1>0, <1>1 DEF CreateTables, SeeSearch, CreateTriggers, AlterTable, At, Fields, Treads
  <2> QED BY <2>1, PlainKept
<1>2. CASE EnsureColumn(p)
  <2>1. CASE Go(p, "alter") /\ ~HasColumn(db, proc[p].n)
    <3>1. /\ Treads(p) /\ proc'[p].pc = "alter" /\ proc'[p].n = proc[p].n
          /\ db' = db /\ lock' = lock /\ proc[p].pc = "column"
      BY <1>2, <2>1, GoTreads DEF EnsureColumn, At
    <3>2. ~HasColumn(db', proc'[p].n) BY <2>1, <3>1
    <3>3. LockLive' BY <1>k, <3>1
    <3> QED BY <3>1, <3>2, <3>3, LoneKept
  <2>2. CASE ~(Go(p, "alter") /\ ~HasColumn(db, proc[p].n))
    <3>1. /\ Treads(p) /\ proc'[p].pc \in {"schedules", "column"} /\ lock' = lock
          /\ proc[p].pc = "column"
      BY <1>0, <1>2, <2>2 DEF EnsureColumn, At, Fields, Treads
    <3> QED BY <3>1, PlainKept
  <2> QED BY <2>1, <2>2
<1>3. CASE DuplicateColumn(p)
  <2>1. Fail(p, "duplicate") /\ proc[p].pc = "alter" /\ HasColumn(db, proc[p].n)
    BY <1>3 DEF DuplicateColumn, At
  <2>2. ~proc[p].alone BY <1>l, <2>1 DEF Lone
  <2> QED BY <2>1, <2>2, FailTreads, ExcusedKept
<1>4. CASE Schedules(p) BY <1>4, <1>r DEF Schedules
<1>5. CASE Relax(p) BY <1>5, <1>r DEF Relax
<1>6. CASE ForeignKeys(p) BY <1>6, <1>r DEF ForeignKeys
<1>7. CASE ScrubSiteRows(p) \/ ScrubAccountRows(p)
  BY <1>7, <1>r DEF ScrubSiteRows, ScrubAccountRows
<1>8. CASE AssertNoBlocking(p)
  <2>1. CASE Blocking(db) = {}
    <3>1. /\ Treads(p) /\ proc'[p].pc = "rebuild" /\ db' = db /\ lock' = lock
          /\ proc[p].pc = "assert"
      BY <1>8, <2>1, GoTreads DEF AssertNoBlocking, At
    <3>2. LockLive' /\ Blocking(db') = {} BY <1>k, <2>1, <3>1
    <3> QED BY <3>1, <3>2, LoneKept
  <2>2. CASE Blocking(db) # {}
    <3>1. Fail(p, "blocked") BY <1>8, <2>2 DEF AssertNoBlocking
    <3> QED BY <3>1, FailTreads, ExcusedKept
  <2> QED BY <2>1, <2>2
<1>9. CASE Rebuild(p)
  <2>1. /\ Treads(p) /\ proc'[p].pc = "check" /\ db' = Rebuilt(db) /\ lock' = lock
        /\ proc[p].pc = "rebuild"
    BY <1>9, RunTreads DEF Rebuild
  <2>2. proc[p].alone => Orphans(db') = {} BY <1>l, <2>1, RebuiltOrphans DEF Lone
  <2>3. LockLive' BY <1>k, <2>1
  <2> QED BY <2>1, <2>2, <2>3, LoneKept
<1>10. CASE CheckKeys(p)
  <2>1. CASE Orphans(db) = {}
    <3>1. /\ Treads(p) /\ proc'[p].pc = "phase" /\ lock' = lock /\ proc[p].pc = "check"
      BY <1>10, <2>1, GoTreads DEF CheckKeys, At
    <3> QED BY <3>1, PlainKept
  <2>2. CASE Orphans(db) # {}
    <3>1. Fail(p, "orphans") /\ proc[p].pc = "check" BY <1>10, <2>2 DEF CheckKeys, At
    <3>2. ~proc[p].alone BY <1>l, <2>2, <3>1 DEF Lone
    <3> QED BY <3>1, <3>2, FailTreads, ExcusedKept
  <2> QED BY <2>1, <2>2
<1>11. CASE RecordPhase(p) BY <1>11, <1>r DEF RecordPhase
<1>12. CASE CreateSearch(p) \/ FillSearch(p) BY <1>12, <1>r DEF CreateSearch, FillSearch
<1>13. CASE Defaults(p) \/ Globals(p) BY <1>13, <1>r DEF Defaults, Globals
<1> QED
  BY <1>1, <1>2, <1>3, <1>4, <1>5, <1>6, <1>7, <1>8, <1>9, <1>10, <1>11, <1>12, <1>13
  DEF Migrate

LEMMA MainLoneKept ==
  ASSUME Inv, LoneInv, NEW p \in Procs, Main(p) \/ Stop(p) \/ Crash(p), Own(p), Live(p)
  PROVE  LoneInv'
<1>0. Shape /\ p \in DOMAIN proc /\ DOMAIN proc[p] = Fields BY DEF Inv, Shape
<1>i. ASSUME Treads(p), lock' = lock, proc[p].pc \in Holding, proc'[p].pc \in Holding
      PROVE  LoneInv'
  <2>1. lock = p BY <1>i DEF Inv, LockHeld
  <2>2. LockLive' BY <1>i, <2>1 DEF LockLive, LoneInv
  <2>3. proc'[p].pc \notin Marked BY <1>i DEF Holding, Marked
  <2> QED BY <1>i, <2>2, <2>3, LoneKept DEF Marked
<1>1. CASE Acquire(p)
  <2>0. proc[p].pc = "lock" BY <1>1 DEF Acquire, At
  <2>1. CASE lock = NoProc
    <3>1. Treads(p) /\ proc'[p].pc = "token" /\ lock' = p
      BY <1>0, <1>1, <2>1, GoTreads DEF Acquire
    <3>2. LockLive' BY <3>1 DEF LockLive, Holding
    <3> QED BY <3>1, <3>2, LoneKept
  <2>2. CASE lock # NoProc
    <3>1. Fail(p, "locked") BY <1>1, <2>2 DEF Acquire
    <3>2. lock \in Procs \ {p} /\ Live(lock)
      BY <2>0, <2>2 DEF LoneInv, LockLive, Holding, Live
    <3>3. ~proc[p].alone BY <3>2 DEF LoneInv, Lone
    <3> QED BY <1>0, <3>1, <3>3, FailTreads, ExcusedKept
  <2> QED BY <2>1, <2>2
<1>2. CASE Token(p)
  <2>1. Treads(p) /\ lock' = lock /\ proc[p].pc = "token" /\ proc'[p].pc = "listen"
    BY <1>0, <1>2 DEF Token, At, Fields, Treads
  <2> QED BY <1>i, <2>1 DEF Holding
<1>3. CASE Listen(p)
  <2> DEFINE port == ListenPort(PreferredPort(Preferred), busy)
  <2>1. CASE port = NoPort
    <3>1. Fail(p, "ports") BY <1>3, <2>1 DEF Listen
    <3> QED BY <1>0, <3>1, FailTreads, ExcusedKept
  <2>2. CASE port # NoPort
    <3>1. /\ proc' = [proc EXCEPT ![p].pc = "serve", ![p].port = port]
          /\ lock' = lock /\ proc[p].pc = "listen"
      BY <1>3, <2>2 DEF Listen, At
    <3> HIDE DEF port
    <3>2. Treads(p) /\ proc'[p].pc = "serve" BY <1>0, <3>1 DEF Fields, Treads
    <3> QED BY <1>i, <3>1, <3>2 DEF Holding
  <2> QED BY <2>1, <2>2
<1>4. CASE Drained(p) \/ CloseApp(p) \/ Stop(p)
  <2>1. /\ Treads(p) /\ lock' = lock
        /\ proc[p].pc \in Holding /\ proc'[p].pc \in Holding
    BY <1>0, <1>4, RunTreads DEF Drained, CloseApp, Stop, Holding
  <2> QED BY <1>i, <2>1
<1>5. CASE Unlock(p) \/ Crash(p)
  <2>1. proc'[p] = Off BY <1>0, <1>5 DEF Unlock, Crash
  <2>2. LockLive'
    <3>1. CASE Unlock(p) BY <3>1 DEF Unlock, LockLive
    <3>2. CASE Crash(p) BY <3>2, LockLeft DEF Crash, LoneInv
    <3> QED BY <1>5, <3>1, <3>2
  <2>3. ASSUME NEW q \in Procs, proc'[q].alone PROVE Lone(q)'
    <3>1. CASE q = p BY <2>1, <3>1, OffShape DEF Lone, Live
    <3>2. CASE q # p
      <4>1. proc'[q] = proc[q] /\ Lone(q) BY <2>3, <3>2 DEF Own, LoneInv
      <4>2. ~Live(q) BY <3>2, <4>1 DEF Lone
      <4>3. proc'[q].pc \in {"off", "failed"} BY <4>1, <4>2 DEF Live
      <4>4. proc'[q].pc = "failed" => proc'[q].why \in {"key", "blocked", "ports"}
        BY <4>1 DEF Lone
      <4> QED BY <4>3, <4>4 DEF Lone, Live
    <3> QED BY <3>1, <3>2
  <2> QED BY <2>2, <2>3 DEF LoneInv
<1> QED BY <1>1, <1>2, <1>3, <1>4, <1>5 DEF Main

\* A new process ends that the others are alone; it is alone if there are none.
LEMMA StartLoneKept ==
  ASSUME Shape, LoneInv, NEW p \in Procs, Start(p)
  PROVE  LoneInv'
<1>0. db' = db /\ lock' = lock /\ ~Live(p) BY DEF Start
<1>1. /\ DOMAIN proc' = Procs /\ proc'[p].pc = "key"
      /\ proc'[p].alone => \A q \in Procs \ {p} : ~Live(q)
  BY StartMoves
<1>2. ASSUME NEW q \in Procs \ {p}
      PROVE  /\ proc'[q].pc = proc[q].pc /\ proc'[q].n = proc[q].n
             /\ proc'[q].why = proc[q].why
             /\ proc'[q].alone => proc[q].alone /\ ~Live(q)
  BY StartMoves
<1>3. LockLive'
  <2>1. lock # NoProc => lock \in Procs \ {p}
    BY <1>0 DEF LoneInv, LockLive, Live, Holding
  <2> QED BY <1>0, <1>2, <2>1 DEF LoneInv, LockLive
<1>4. ASSUME NEW q \in Procs, proc'[q].alone PROVE Lone(q)'
  <2>1. CASE q = p
    <3>1. \A t \in Procs \ {p} : ~Live(t) BY <1>1, <1>4, <2>1
    <3>2. \A t \in Procs \ {p} : ~Live(t)' BY <1>2, <3>1 DEF Live
    <3> QED BY <1>1, <2>1, <3>2 DEF Lone
  <2>2. CASE q # p
    <3>1. /\ proc'[q].pc = proc[q].pc /\ proc'[q].why = proc[q].why
          /\ proc[q].alone /\ ~Live(q)
      BY <1>2, <1>4, <2>2
    <3>2. Lone(q) BY <3>1 DEF LoneInv
    <3> QED BY <3>1, <3>2 DEF Lone, Live
  <2> QED BY <2>1, <2>2
<1> QED BY <1>3, <1>4 DEF LoneInv

\* The user's work is at the one process that is neither starting nor failing.
LEMMA UseLoneKept ==
  ASSUME Shape, LoneInv, NEW p \in Procs, Use(p), Own(p), Live(p)
  PROVE  LoneInv'
<1>1. proc' = proc /\ lock' = lock /\ proc[p].pc \in {"serve", "drain"}
  BY DEF Use, SaveSite, SaveAccount, RemoveAccount, SaveLog, SaveSetting, SaveSecret, Write
<1>2. Treads(p) /\ LockLive' BY <1>1 DEF Treads, LoneInv, LockLive
<1> QED BY <1>1, <1>2, LoneKept

\* A start that meets no other fails only over the key file, rows nobody can assign, or
\* the ports, wherever the starts before it died (crypto.go:17, db_fk.go:191, main.go:181).
THEOREM LoneStartsSucceed == Spec => []LoneStartSucceeds
<1>1. Init => LoneInv /\ HasTables(db)
  BY BootAssumption, OffShape DEF Init, LoneInv, LockLive, Lone, Live, HasTables, FreshDb
<1>2. Inv /\ HasTables(db) /\ LoneInv /\ [Next]_vars => LoneInv' /\ HasTables(db)'
  <2> SUFFICES ASSUME Inv, HasTables(db), LoneInv, [Next]_vars
               PROVE  LoneInv' /\ HasTables(db)'
    OBVIOUS
  <2>0. Shape /\ HasTables(db)' BY NextHarmless DEF Inv
  <2>1. CASE UNCHANGED vars BY <2>0, <2>1 DEF vars, LoneInv, LockLive, Lone, Live
  <2>2. CASE Next
    <3>1. PICK p \in Procs :
            Start(p) \/ NewKey(p) \/ Migrate(p) \/ Main(p) \/ Stop(p) \/ Crash(p) \/ Use(p)
      BY <2>2 DEF Next
    <3>2. CASE Start(p) BY <2>0, <3>2, StartLoneKept
    <3>3. CASE NewKey(p) BY <2>0, <3>3, StepIsOwn, KeyLoneKept
    <3>4. CASE Migrate(p) BY <2>0, <3>4, StepIsOwn, MigrateLoneKept
    <3>5. CASE Main(p) \/ Stop(p) \/ Crash(p) BY <2>0, <3>5, StepIsOwn, MainLoneKept
    <3>6. CASE Use(p) BY <2>0, <3>6, StepIsOwn, UseLoneKept
    <3> QED BY <2>0, <3>1, <3>2, <3>3, <3>4, <3>5, <3>6
  <2> QED BY <2>1, <2>2
<1>3. LoneInv => LoneStartSucceeds BY DEF LoneInv, Lone, LoneStartSucceeds, At
<1> QED BY <1>1, <1>2, <1>3, LockAndKey, PTL DEF Spec

===============================================================================
