--------------------------- MODULE SchemaMigration ---------------------------
(***************************************************************************)
(* What the statements of core/db.go and core/db_fk.go do to the database. *)
(* A database is a record:                                                 *)
(*                                                                         *)
(*   tables    the base tables exist                                       *)
(*   cols      the later columns that have been added                      *)
(*   strict    channel_schedules.upstream_site_id is still NOT NULL        *)
(*   fk        the child tables that carry their foreign keys              *)
(*   phase     system_settings has schema.fk_phase = "2"                   *)
(*   fts       the search table: absent, without its triggers, or live     *)
(*   index     the accounts the search table knows                         *)
(*   settings  the row of a default setting                                *)
(*   global    the site column of the __global__ schedule                  *)
(*   sites     the rows of upstream_sites                                  *)
(*   accounts  channel_accounts: the site of each row                      *)
(*   logs      checkin_logs and balance_snapshots: the account of each row *)
(*   secret    the key a stored credential is encrypted with               *)
(*                                                                         *)
(* site_pricing_cache has the shape of accounts and is left out.  The      *)
(* statements of one transaction are one operator; statements that commit  *)
(* on their own are operators of their own.                                *)
(***************************************************************************)
EXTENDS Naturals, Sequences, FiniteSets, Functions

CONSTANTS Sites, Accounts, Logs,   \* the rows of an instance
          Columns,                 \* the columns of migrate's table, in its order
          NoSite,                  \* '' in upstream_site_id
          NoSecret

\* A site or account id no row has.
Gone == "gone"

Empty == [x \in {} |-> Gone]

\* CREATE TABLE IF NOT EXISTS: a fresh database gets its foreign keys at once, the
\* tables of an old one stay as they are.
BaseTables(d) ==
  IF d.tables THEN d ELSE [d EXCEPT !.tables = TRUE, !.fk = {"accounts", "logs"}]

\* ensureColumn: PRAGMA table_info, and ALTER TABLE for a column it did not list.
HasColumn(d, n) == Columns[n] \in d.cols

AddColumn(d, n) == [d EXCEPT !.cols = @ \cup {Columns[n]}]

\* ensureChannelSchedulesNullableSiteID: one transaction copies the table and turns
\* the __global__ reference into NULL.
RelaxSchedules(d) ==
  [d EXCEPT !.strict = FALSE, !.global = IF @ = "site" THEN "null" ELSE @]

AddSite(d, s) == [d EXCEPT !.sites = @ \cup {s}]

-------------------------------------------------------------------------------
(* Rows without a parent *)

KeepRows(f, Keep(_)) == Restrict(f, {x \in DOMAIN f : Keep(x)})

\* The first four DELETEs: rows of a site that is gone; a blank site is skipped.
ScrubSites(d) ==
  LET keep(a) == d.accounts[a] = NoSite \/ d.accounts[a] \in d.sites
      left    == KeepRows(d.accounts, keep)
  IN  [d EXCEPT !.accounts = left,
                !.index = IF d.fts = "live" THEN @ \ (DOMAIN d.accounts \ DOMAIN left) ELSE @]

\* The last two: logs and balances of an account that is gone.
ScrubLogs(d) ==
  LET keep(l) == d.logs[l] \in DOMAIN d.accounts
  IN  [d EXCEPT !.logs = KeepRows(d.logs, keep)]

\* What assertNoBlockingOrphansForFK counts.
Blocking(d) ==
  {a \in DOMAIN d.accounts : d.accounts[a] \notin d.sites}
    \cup {l \in DOMAIN d.logs : d.logs[l] \notin DOMAIN d.accounts}

\* What PRAGMA foreign_key_check lists: the same rows, under the new keys.
Orphans(d) ==
  {a \in DOMAIN d.accounts : d.accounts[a] \notin d.sites}
    \cup {l \in DOMAIN d.logs : d.logs[l] \notin DOMAIN d.accounts}

-------------------------------------------------------------------------------
(* The rebuild and the search table *)

MakeSearch_NotFilled(d) == [d EXCEPT !.fts = "live"]

\* dropAccountSearchFTS and createAccountSearchFTS.
DropSearch(d) == [d EXCEPT !.fts = "none", !.index = {}]

MakeSearch(d) == [d EXCEPT !.fts = "live", !.index = DOMAIN d.accounts]

\* Left in force, the keys would take the logs with the dropped table.
RebuildAccounts_KeysOn(d) ==
  [d EXCEPT !.fk = @ \cup {"accounts"}, !.logs = IF "logs" \in d.fk THEN Empty ELSE @]

\* copyTableByIntersection takes every row over; the old table is dropped with
\* foreign_keys=OFF, so that nothing cascades to the rows below it.
RebuildAccounts(d) == [d EXCEPT !.fk = @ \cup {"accounts"}]

RebuildLogs(d) == [d EXCEPT !.fk = @ \cup {"logs"}]

\* The transaction of the rebuild.
Rebuilt(d) == MakeSearch(RebuildLogs(RebuildAccounts(DropSearch(d))))

\* tableHasFK, of the two tables the fast path looks at.
HasKeys(d) == {"accounts", "logs"} \subseteq d.fk

SetPhase(d) == [d EXCEPT !.phase = TRUE]

SearchTable(d) == [d EXCEPT !.fts = IF @ = "none" THEN "bare" ELSE @]

SearchTriggers(d) == [d EXCEPT !.fts = "live"]

SearchRebuild(d) == [d EXCEPT !.index = DOMAIN d.accounts]

\* INSERT OR IGNORE of the defaults.
DefaultSettings(d) == [d EXCEPT !.settings = IF @ = "none" THEN "default" ELSE @]

\* EnsureGlobalScheduleRecord: the row is written with a NULL site.
GlobalSchedule(d) == [d EXCEPT !.global = "null"]

-------------------------------------------------------------------------------
(* What the running program writes; the triggers keep the search table up *)

AddAccount(d, a, s) ==
  [d EXCEPT !.accounts = [x \in DOMAIN @ \cup {a} |-> IF x = a THEN s ELSE @[x]],
            !.index = IF d.fts = "live" THEN @ \cup {a} ELSE @]

\* ON DELETE CASCADE takes the logs with the account.
DropAccount(d, a) ==
  LET other(x) == x # a
      kept(l)  == d.logs[l] # a
  IN  [d EXCEPT !.accounts = KeepRows(@, other),
                !.logs = KeepRows(@, kept),
                !.index = IF d.fts = "live" THEN @ \ {a} ELSE @]

AddLog(d, l, a) ==
  [d EXCEPT !.logs = [x \in DOMAIN @ \cup {l} |-> IF x = l THEN a ELSE @[x]]]

-------------------------------------------------------------------------------
(* Databases a start can find *)

FreshDb ==
  [tables |-> FALSE, cols |-> {}, strict |-> FALSE, fk |-> {}, phase |-> FALSE,
   fts |-> "none", index |-> {}, settings |-> "none", global |-> "absent",
   sites |-> {}, accounts |-> Empty, logs |-> Empty, secret |-> NoSecret]

\* Tables of a version without foreign keys; accs and ls may have lost their parents.
LegacyDb(strict, live, accs, ls) ==
  [FreshDb EXCEPT !.tables = TRUE, !.strict = strict, !.settings = "edited",
                  !.fts = IF live THEN "live" ELSE "none",
                  !.index = IF live THEN DOMAIN accs ELSE {},
                  !.global = IF strict THEN "site" ELSE "null",
                  !.sites = Sites, !.accounts = accs, !.logs = ls]

\* Foreign keys in place and the settings row wiped.
WipedDb(accs, ls) ==
  [LegacyDb(FALSE, TRUE, accs, ls) EXCEPT !.fk = {"accounts", "logs"}, !.settings = "none",
                                          !.cols = {Columns[n] : n \in DOMAIN Columns}]
===============================================================================
