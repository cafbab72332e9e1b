---------------------------- MODULE DatabaseFiles ----------------------------
(***************************************************************************)
(* The database file of the program as its connections see it.  A file     *)
(* keeps its identity when it is renamed; a handle, a sql.DB, is a pool    *)
(* that opens new connections by NAME, at any time, while the connections  *)
(* it has stay on the file they opened.  Closing a handle does not end a   *)
(* transaction that runs.                                                  *)
(***************************************************************************)
EXTENDS Naturals

CONSTANTS
  Accounts,
  MaxFile,       \* files ever created
  MaxHandle      \* handles ever opened after the first

ASSUME FilesAssumption == MaxFile \in Nat \ {0} /\ MaxHandle \in Nat

NoFile == 0
Files == 1..MaxFile
Handles == 0..MaxHandle
\* relaycheck.db; .restore-current-*.db or relaycheck.db.pre-import-bak; .restore-*.db
Names == {"db", "aside", "temp"}
\* What a row of channel_accounts says about the account.
Status == {"gone", "fine", "unsupported"}
Rows == [Accounts -> Status]
Empty == [a \in Accounts |-> "gone"]

VARIABLES
  path,      \* the file each name stands for
  rows,      \* the accounts in each file
  created,   \* how many files have been created
  handle,    \* the handle of App.db, and of every holder reopenDatabase rebinds
  kept,      \* the handle the other services took when they were built
  open,      \* handles that are not closed
  pool       \* files the connections of each handle are on

fileVars == <<path, rows, created>>
handleVars == <<handle, kept, open, pool>>

FilesType ==
  /\ path \in [Names -> Files \cup {NoFile}]
  /\ rows \in [Files -> Rows]
  /\ created \in Files
  /\ handle \in Handles /\ kept \in Handles
  /\ open \in SUBSET Handles
  /\ pool \in [Handles -> SUBSET Files]

FilesInit ==
  /\ path = [n \in Names |-> IF n = "db" THEN 1 ELSE NoFile]
  /\ \E r \in Rows : rows = [f \in Files |-> IF f = 1 THEN r ELSE Empty]
  /\ created = 1
  /\ handle = 0 /\ kept = 0
  /\ open = {0}
  /\ pool = [h \in Handles |-> {}]

\* The files a query on h may reach: by a connection it has or by a new one.
Reach(h) ==
  IF h \in open THEN pool[h] \cup ({path["db"]} \ {NoFile}) ELSE {}

Connect(h, f) == pool' = [pool EXCEPT ![h] = @ \cup {f}]

\* os.Rename, which replaces the target.
Renamed(from, to) == [path EXCEPT ![to] = path[from], ![from] = NoFile]

Removed(names) == [n \in Names |-> IF n \in names THEN NoFile ELSE path[n]]

\* A file with contents r appears under a name; one that is there is overwritten.
WriteFile(name, r) ==
  IF path[name] = NoFile
  THEN /\ created < MaxFile
       /\ created' = created + 1
       /\ path' = [path EXCEPT ![name] = created']
       /\ rows' = [rows EXCEPT ![created'] = r]
  ELSE /\ rows' = [rows EXCEPT ![path[name]] = r]
       /\ UNCHANGED <<path, created>>

\* SQLite creates a database that is not there for the first connection that asks.
CreateMissing ==
  /\ open # {} /\ path["db"] = NoFile
  /\ WriteFile("db", Empty)

\* openAppDB: sql.Open checks nothing and connects to nothing; the first query does.
OpenAppDB ==
  /\ handle < MaxHandle
  /\ handle' = handle + 1
  /\ open' = open \cup {handle'}
=============================================================================
