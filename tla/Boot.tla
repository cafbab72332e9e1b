-------------------------------- MODULE Boot --------------------------------
(***************************************************************************)
(* Starting and stopping the program on one data directory: main.go,       *)
(* core.NewApp and App.Close, the instance key, the single-instance lock   *)
(* and the migrations.  Several starts may run at the same time, because   *)
(* main takes the lock only after NewApp has read or made the key and      *)
(* migrated the database; any of them may die at any step.                 *)
(*                                                                         *)
(* A start goes through the steps below; every statement that commits on   *)
(* its own is a step of its own.                                           *)
(*                                                                         *)
(*   key create write secure      loadOrCreateKey                          *)
(*   base column alter            migrate: tables, ensureColumn            *)
(*   schedules relax              ensureChannelSchedulesNullableSiteID     *)
(*   fk scrub scrublogs assert                                             *)
(*   rebuild check phase          ensureSiteAndAccountForeignKeys          *)
(*   search table triggers fill   ensureAccountSearchFTS                   *)
(*   settings global              the rest of NewApp                       *)
(*   lock token listen serve      main                                     *)
(*   drain closing unlock         the shutdown and the deferred calls      *)
(***************************************************************************)
EXTENDS SchemaMigration, RequestGate

CONSTANTS Procs,          \* processes that may run at the same time
          MaxStarts,      \* bound on the number of starts
          Databases,      \* the databases the first start may find
          RequireToken,   \* RELAYCHECK_REQUIRE_TOKEN = 1
          Preferred,      \* RELAYCHECK_PORT
          BusySets,       \* ports that other programs may hold
          KeyFaults,      \* the key file may be unreadable, or fail to be written or secured
          NoProc, NoKey, EmptyKey, NoFault

\* A credential in an old database was stored with the key that lies beside it.  The start
\* of an older version may have died between making the search table and filling it; a
\* database with foreign keys has been rebuilt since, and its table filled with it.
ASSUME BootAssumption ==
  /\ NoProc \notin Procs /\ NoKey \notin Nat /\ EmptyKey \notin Nat /\ NoKey # EmptyKey
  /\ \A d \in Databases :
       /\ DOMAIN FreshDb \subseteq DOMAIN d
       /\ d.secret \in {NoSecret} \cup (IF d.tables THEN {0} ELSE {})
       /\ d.index \subseteq DOMAIN d.accounts /\ (d.fts # "live" => d.index = {})
       /\ d.phase \/ HasKeys(d) =>
            DOMAIN d.accounts = {} \/ (d.fts = "live" /\ d.index = DOMAIN d.accounts)
       /\ ~d.tables => DOMAIN d.accounts = {}

\* Where the program is reached when other programs hold the ports b.
OwnHost(b) == [name |-> "127.0.0.1", port |-> ListenPort(PreferredPort(Preferred), b)]

OwnOrigin(b) == [scheme |-> "http", host |-> OwnHost(b)]

ASSUME OriginAssumption == \A b \in BusySets : OwnOrigin(b) # BadOrigin

VARIABLES
  db,         \* data/relaycheck.db
  keyFile,    \* data/keys/instance.key: NoKey, EmptyKey, or the start that made it
  lock,       \* the process that holds data/.lock
  starts,     \* starts so far; the number names what a start makes
  proc,       \* the processes
  busy,       \* the ports other programs hold
  keyRace     \* history: two starts made a key at once, or a key in use was removed

vars == <<db, keyFile, lock, starts, proc, busy, keyRace>>

Off == [pc |-> "off", run |-> 0, key |-> NoKey, n |-> 0, existed |-> FALSE,
        alone |-> TRUE, why |-> NoFault, bind |-> "127.0.0.1", port |-> 3001, token |-> NoToken]

Live(p) == proc[p].pc \notin {"off", "failed"}

\* Past the lock, with the database still open.
Serving(p) == proc[p].pc \in {"token", "listen", "serve", "drain", "closing"}

Init ==
  /\ db \in Databases
  /\ keyFile = IF db.tables THEN 0 ELSE NoKey       \* an old database has its key
  /\ lock = NoProc /\ starts = 0 /\ keyRace = FALSE
  /\ proc = [p \in Procs |-> Off]
  /\ busy \in BusySets

At(p, pc) == proc[p].pc = pc

Go(p, pc) == proc' = [proc EXCEPT ![p].pc = pc]

\* log.Fatal, or NewApp's error: the process ends, and its lock goes with it.
Fail(p, why) ==
  /\ proc' = [proc EXCEPT ![p] =
                 [Off EXCEPT !.pc = "failed", !.why = why, !.alone = proc[p].alone]]
  /\ lock' = IF lock = p THEN NoProc ELSE lock

\* One statement on the database, then the next step.
Run(p, pc, next, d) ==
  /\ At(p, pc)
  /\ db' = d
  /\ Go(p, next)
  /\ UNCHANGED <<keyFile, lock, starts, busy, keyRace>>

-------------------------------------------------------------------------------
(* The process and its key *)

Start(p) ==
  /\ ~Live(p) /\ starts < MaxStarts
  /\ starts' = starts + 1
  /\ LET others == {q \in Procs \ {p} : Live(q)}
     IN  proc' = [q \in Procs |->
                    IF q = p
                      THEN [Off EXCEPT !.pc = "key", !.run = starts + 1, !.alone = others = {}]
                      ELSE [proc[q] EXCEPT !.alone = @ /\ q \notin others]]
  /\ UNCHANGED <<db, keyFile, lock, busy, keyRace>>

\* os.ReadFile: an empty file decodes to an empty key.
ReadKey(p) ==
  /\ At(p, "key") /\ keyFile # NoKey
  /\ proc' = [proc EXCEPT ![p].pc = "base", ![p].key = keyFile]
  /\ UNCHANGED <<db, keyFile, lock, starts, busy, keyRace>>

MissingKey(p) ==
  /\ At(p, "key") /\ keyFile = NoKey
  /\ keyRace' = (keyRace \/ \E q \in Procs \ {p} : proc[q].pc \in {"create", "write", "secure"})
  /\ Go(p, "create")
  /\ UNCHANGED <<db, keyFile, lock, starts, busy>>

UnreadableKey_MakesOne(p) ==
  /\ KeyFaults /\ At(p, "key") /\ keyFile # NoKey
  /\ Go(p, "create")
  /\ UNCHANGED <<db, keyFile, lock, starts, busy, keyRace>>

\* Any error but "does not exist" ends the start.
UnreadableKey(p) ==
  /\ KeyFaults /\ At(p, "key") /\ keyFile # NoKey
  /\ Fail(p, "key")
  /\ UNCHANGED <<db, keyFile, starts, busy, keyRace>>

\* os.WriteFile empties the file before it writes.
TruncateKey(p) ==
  /\ At(p, "create")
  /\ keyFile' = EmptyKey
  /\ Go(p, "write")
  /\ UNCHANGED <<db, lock, starts, busy, keyRace>>

WriteKey(p) ==
  /\ At(p, "write")
  /\ keyFile' = proc[p].run
  /\ Go(p, "secure")
  /\ UNCHANGED <<db, lock, starts, busy, keyRace>>

\* The directory or the file cannot be written.
UnwrittenKey(p) ==
  /\ KeyFaults /\ proc[p].pc \in {"create", "write"}
  /\ Fail(p, "key")
  /\ UNCHANGED <<db, keyFile, starts, busy, keyRace>>

\* secureInstanceKeyFile and verifyInstanceKeyFileSecurity, by the start that made it.
SecureKey(p) ==
  /\ At(p, "secure")
  /\ proc' = [proc EXCEPT ![p].pc = "base", ![p].key = proc[p].run]
  /\ UNCHANGED <<db, keyFile, lock, starts, busy, keyRace>>

InUse(p) == db.secret = keyFile \/ \E q \in Procs \ {p} : proc[q].key = keyFile

\* A file it cannot secure is removed, whoever has read it; that may fail too.
InsecureKey(p) ==
  /\ KeyFaults /\ At(p, "secure")
  /\ keyFile' \in {NoKey, keyFile}
  /\ keyRace' = (keyRace \/ (keyFile' = NoKey /\ InUse(p)))
  /\ Fail(p, "key")
  /\ UNCHANGED <<db, starts, busy>>

-------------------------------------------------------------------------------
(* migrate *)

CreateTables(p) ==
  /\ At(p, "base")
  /\ db' = BaseTables(db)
  /\ proc' = [proc EXCEPT ![p].pc = "column", ![p].n = 1]
  /\ UNCHANGED <<keyFile, lock, starts, busy, keyRace>>

EnsureColumn_Unseen(p) ==
  /\ At(p, "column")
  /\ IF proc[p].n > Len(Columns)
       THEN proc' = [proc EXCEPT ![p].pc = "schedules", ![p].n = 0]
       ELSE Go(p, "alter")
  /\ UNCHANGED <<db, keyFile, lock, starts, busy, keyRace>>

\* PRAGMA table_info, and on to the next column or to the ALTER.
EnsureColumn(p) ==
  /\ At(p, "column")
  /\ LET n == proc[p].n
     IN  IF n > Len(Columns)
           THEN proc' = [proc EXCEPT ![p].pc = "schedules", ![p].n = 0]
         ELSE IF HasColumn(db, n) THEN proc' = [proc EXCEPT ![p].n = n + 1]
         ELSE Go(p, "alter")
  /\ UNCHANGED <<db, keyFile, lock, starts, busy, keyRace>>

AlterTable(p) ==
  /\ At(p, "alter") /\ ~HasColumn(db, proc[p].n)
  /\ db' = AddColumn(db, proc[p].n)
  /\ proc' = [proc EXCEPT ![p].pc = "column", ![p].n = @ + 1]
  /\ UNCHANGED <<keyFile, lock, starts, busy, keyRace>>

\* Another start has added it since: "duplicate column name".
DuplicateColumn(p) ==
  /\ At(p, "alter") /\ HasColumn(db, proc[p].n)
  /\ Fail(p, "duplicate")
  /\ UNCHANGED <<db, keyFile, starts, busy, keyRace>>

Schedules(p) == Run(p, "schedules", IF db.strict THEN "relax" ELSE "fk", db)

Relax(p) == Run(p, "relax", "fk", RelaxSchedules(db))

\* schemaFKPhaseAtLeast, then the fast path over PRAGMA foreign_key_list.
ForeignKeys(p) ==
  Run(p, "fk",
      IF db.phase THEN "search" ELSE IF HasKeys(db) THEN "phase" ELSE "scrub", db)

ScrubSiteRows(p) == Run(p, "scrub", "scrublogs", ScrubSites(db))

ScrubAccountRows(p) == Run(p, "scrublogs", "assert", ScrubLogs(db))

AssertNoBlocking(p) ==
  /\ At(p, "assert")
  /\ IF Blocking(db) = {} THEN Go(p, "rebuild") /\ UNCHANGED lock ELSE Fail(p, "blocked")
  /\ UNCHANGED <<db, keyFile, starts, busy, keyRace>>

Rebuild(p) == Run(p, "rebuild", "check", Rebuilt(db))

\* PRAGMA foreign_key_check runs after the commit.
CheckKeys(p) ==
  /\ At(p, "check")
  /\ IF Orphans(db) = {} THEN Go(p, "phase") /\ UNCHANGED lock ELSE Fail(p, "orphans")
  /\ UNCHANGED <<db, keyFile, starts, busy, keyRace>>

RecordPhase(p) == Run(p, "phase", "search", SetPhase(db))

\* ensureAccountSearchFTS: was there a search table before this start?
SeeSearch(p) ==
  /\ At(p, "search")
  /\ proc' = [proc EXCEPT ![p].pc = "table", ![p].existed = db.fts # "none"]
  /\ UNCHANGED <<db, keyFile, lock, starts, busy, keyRace>>

CreateSearch(p) == Run(p, "table", "triggers", SearchTable(db))

CreateTriggers(p) ==
  /\ At(p, "triggers")
  /\ db' = SearchTriggers(db)
  /\ proc' = [proc EXCEPT ![p].pc = IF proc[p].existed THEN "settings" ELSE "fill",
                          ![p].existed = FALSE]
  /\ UNCHANGED <<keyFile, lock, starts, busy, keyRace>>

FillSearch(p) == Run(p, "fill", "settings", SearchRebuild(db))

Defaults(p) == Run(p, "settings", "global", DefaultSettings(db))

Globals(p) == Run(p, "global", "lock", GlobalSchedule(db))

-------------------------------------------------------------------------------
(* main *)

\* lock.Acquire does not wait.
Acquire(p) ==
  /\ At(p, "lock")
  /\ IF lock = NoProc THEN lock' = p /\ Go(p, "token") ELSE Fail(p, "locked")
  /\ UNCHANGED <<db, keyFile, starts, busy, keyRace>>

\* The token is enforced only when its file could be written and secured.
Token(p) ==
  /\ At(p, "token")
  /\ \E t \in IF RequireToken THEN {proc[p].run, NoToken} ELSE {NoToken} :
       proc' = [proc EXCEPT ![p].pc = "listen", ![p].token = t]
  /\ UNCHANGED <<db, keyFile, lock, starts, busy, keyRace>>

\* SetRuntimeAddress keeps the preferred port.
Listen_PreferredKept(p) ==
  /\ At(p, "listen")
  /\ IF ListenPort(PreferredPort(Preferred), busy) = NoPort
       THEN Fail(p, "ports")
       ELSE Go(p, "serve") /\ UNCHANGED lock
  /\ UNCHANGED <<db, keyFile, starts, busy, keyRace>>

\* listenWithFallback, SetRuntimeAddress and StartSchedulers.
Listen(p) ==
  /\ At(p, "listen")
  /\ LET port == ListenPort(PreferredPort(Preferred), busy)
     IN  IF port = NoPort THEN Fail(p, "ports")
         ELSE /\ proc' = [proc EXCEPT ![p].pc = "serve", ![p].port = port]
              /\ UNCHANGED lock
  /\ UNCHANGED <<db, keyFile, starts, busy, keyRace>>

\* Interrupt or SIGTERM: Shutdown, at most eight seconds.
Stop(p) == Run(p, "serve", "drain", db)

\* The deferred calls in the order they are written.
Drained_LockFirst(p) ==
  /\ At(p, "drain")
  /\ lock' = NoProc
  /\ Go(p, "closing")
  /\ UNCHANGED <<db, keyFile, starts, busy, keyRace>>

Drained(p) == Run(p, "drain", "closing", db)

\* Deferred calls run in the reverse order: app.Close, then the lock.
CloseApp(p) == Run(p, "closing", "unlock", db)

Unlock(p) ==
  /\ At(p, "unlock")
  /\ lock' = NoProc
  /\ proc' = [proc EXCEPT ![p] = Off]
  /\ UNCHANGED <<db, keyFile, starts, busy, keyRace>>

Crash(p) ==
  /\ Live(p)
  /\ proc' = [proc EXCEPT ![p] = Off]
  /\ lock' = IF lock = p THEN NoProc ELSE lock
  /\ UNCHANGED <<db, keyFile, starts, busy, keyRace>>

-------------------------------------------------------------------------------
(* What happens while it serves *)

Write(p, d) ==
  /\ proc[p].pc \in {"serve", "drain"}
  /\ db' = d
  /\ UNCHANGED <<keyFile, lock, starts, proc, busy, keyRace>>

SaveSite(p, s) == s \notin db.sites /\ Write(p, AddSite(db, s))

SaveAccount(p, a, s) ==
  /\ s \in db.sites /\ a \notin DOMAIN db.accounts
  /\ Write(p, AddAccount(db, a, s))

RemoveAccount(p, a) == a \in DOMAIN db.accounts /\ Write(p, DropAccount(db, a))

SaveLog(p, l, a) ==
  /\ a \in DOMAIN db.accounts /\ l \notin DOMAIN db.logs
  /\ Write(p, AddLog(db, l, a))

SaveSetting(p) == Write(p, [db EXCEPT !.settings = "edited"])

\* Encrypt fails with an empty key, and nothing is saved.
SaveSecret(p) ==
  /\ proc[p].key # EmptyKey
  /\ Write(p, [db EXCEPT !.secret = proc[p].key])

NewKey(p) ==
  \/ ReadKey(p) \/ MissingKey(p) \/ UnreadableKey(p) \/ TruncateKey(p) \/ WriteKey(p)
  \/ UnwrittenKey(p) \/ SecureKey(p) \/ InsecureKey(p)

Migrate(p) ==
  \/ CreateTables(p) \/ EnsureColumn(p) \/ AlterTable(p) \/ DuplicateColumn(p)
  \/ Schedules(p) \/ Relax(p) \/ ForeignKeys(p) \/ ScrubSiteRows(p) \/ ScrubAccountRows(p)
  \/ AssertNoBlocking(p) \/ Rebuild(p) \/ CheckKeys(p) \/ RecordPhase(p)
  \/ SeeSearch(p) \/ CreateSearch(p) \/ CreateTriggers(p) \/ FillSearch(p)
  \/ Defaults(p) \/ Globals(p)

Main(p) ==
  \/ Acquire(p) \/ Token(p) \/ Listen(p) \/ Drained(p) \/ CloseApp(p) \/ Unlock(p)

Use(p) ==
  \/ \E s \in Sites : SaveSite(p, s)
  \/ \E a \in Accounts, s \in Sites : SaveAccount(p, a, s)
  \/ \E a \in Accounts : RemoveAccount(p, a)
  \/ \E l \in Logs, a \in Accounts : SaveLog(p, l, a)
  \/ SaveSetting(p) \/ SaveSecret(p)

Next ==
  \E p \in Procs :
    Start(p) \/ NewKey(p) \/ Migrate(p) \/ Main(p) \/ Stop(p) \/ Crash(p) \/ Use(p)

Spec == Init /\ [][Next]_vars

-------------------------------------------------------------------------------
(* Properties *)

\* Credentials can be read with the key on disk, wherever starts have crashed or failed,
\* unless two first starts made a key each at the same time (crypto.go:15, :33), or the
\* start that made the key took it back when another was using it (crypto.go:36-43).
SecretsReadable ==
  keyRace \/ db.secret = NoSecret \/ db.secret = keyFile

HasParent(d, l) ==
  l \in DOMAIN d.logs /\ d.logs[l] \in DOMAIN d.accounts
    /\ d.accounts[d.logs[l]] \in d.sites \cup {NoSite}

\* No step of a start, a stop or a crash loses a row that has its parents, or a setting
\* the user has saved: not even the rebuild of a late start under a running program.
StartsKeepData ==
  [][proc' # proc =>
       /\ \A a \in DOMAIN db.accounts :
            db.accounts[a] \in db.sites => a \in DOMAIN db'.accounts
       /\ \A l \in DOMAIN db.logs : HasParent(db, l) => l \in DOMAIN db'.logs
       /\ db.settings = "edited" => db'.settings = "edited"]_vars

\* A program that serves finds every account by its search table, wherever the starts
\* before it died and whatever starts run beside it.
SearchMatches ==
  \A p \in Procs : At(p, "serve") => db.fts = "live" /\ db.index = DOMAIN db.accounts

\* At most one process is past the lock with its database open (main.go:44, :45).
OneServer == \A p, q \in Procs : Serving(p) /\ Serving(q) => p = q

\* A crash poisons no later start: one that runs alone fails only over the key file, rows
\* nobody can assign, or the ports.
LoneStartSucceeds ==
  \A p \in Procs :
    At(p, "failed") /\ proc[p].alone => proc[p].why \in {"key", "blocked", "ports"}

\* GET / hands out the cookie (registerStatic), and the calls of that page come from its
\* own origin.
PageCall(p, method) ==
  [method |-> method, api |-> TRUE, host |-> OwnHost(busy), remote |-> "loopback",
   origin |-> OwnOrigin(busy), cookie |-> proc[p].token]

\* Whatever port was free, the page a process serves there may call every method of its
\* API (main.go:69, http.go:197): neither the Host nor the Origin check shuts it out.
OwnPageWorks ==
  \A p \in Procs : At(p, "serve") =>
    \A method \in {"GET", "POST", "DELETE"} :
      Gate([bind |-> proc[p].bind, port |-> proc[p].port, token |-> proc[p].token],
           PageCall(p, method)) = 200

===============================================================================
