------------------------------- MODULE Inventory -------------------------------
(***************************************************************************)
(* Sites, their accounts and the channels of a local NewAPI: synchronising *)
(* and importing channels, marking those that are gone, detecting sites,   *)
(* adding and editing them, importing accounts, deleting sites.  Each task *)
(* reads rows, asks the network and writes later, in no transaction (the   *)
(* marking and the deletion excepted); tasks overlap freely.               *)
(***************************************************************************)
EXTENDS SiteDetection

CONSTANTS
  Ops, Meetings,   \* tasks that meet: functions from Ops to what each does
  Starts,          \* [channels, sites, accounts] to begin with
  Sources,         \* what the NewAPI may list: sequences of records
  BaseOf,          \* of each address: its normalised base URL
  Faces,           \* of each base URL: the answers it may give to a scan
  Officials, Refused,      \* base URLs: of official providers, and refused by the outbound policy
  ExcludedUrls,            \* addresses of the excluded sites
  Lower,           \* of each login name: its lower case
  PageSize, MaxPages,
  FirstId,         \* the first fresh id: those of the start and of the NewAPI's channels are smaller
  MaxChanges, MaxFaults   \* bounds on changes of the source, and on failures

ASSUME InventoryAssumption ==
  /\ PageSize \in Nat \ {0} /\ MaxPages \in Nat \ {0}
  /\ FirstId \in Nat \ {0}
  /\ MaxChanges \in Nat /\ MaxFaults \in Nat

\* The id of a channel is its key in the NewAPI; 0 stands for a record without one.
ASSUME SourcesAssumption ==
  \A s \in Sources :
    /\ s \in Seq({s[i] : i \in DOMAIN s})
    /\ \A i \in DOMAIN s : s[i].id \in 0..(FirstId - 1)
    /\ \A i, j \in DOMAIN s : s[i].id = s[j].id /\ s[i].id # 0 => i = j

Kinds == {"sync", "mark", "detect", "bulk", "site", "account", "edit", "legacy", "chrome", "delete"}

\* An address that is typed has a base URL (Resolve: "http://" or "https://").
ASSUME MeetingsAssumption ==
  \A t \in Meetings :
    /\ DOMAIN t = Ops
    /\ \A o \in Ops : t[o].what \in Kinds
    /\ \A o \in Ops : t[o].what = "edit" /\ t[o].url # "" => BaseOf[t[o].url] # ""

Distinct(set) == \A x, y \in set : x.id = y.id => x = y
SidsDistinct(set) == \A c, d \in set : c.of = "instance" /\ d.of = "instance" /\ c.sid = d.sid => c = d

\* Tables have keys, a channel of the NewAPI one row (UNIQUE(local_instance_id,
\* source_channel_id)), and an account its site.
ASSUME StartsAssumption ==
  \A s \in Starts :
    /\ \A set \in {s.channels, s.sites, s.accounts} :
         Distinct(set) /\ \A x \in set : x.id \in 1..(FirstId - 1)
    /\ SidsDistinct(s.channels)
    /\ \A c \in s.channels : /\ DOMAIN c = {"id", "of", "sid", "url", "state", "kind", "key", "missing"}
                              /\ c.sid \in 0..(FirstId - 1)
    /\ \A x \in s.sites : DOMAIN x = {"id", "chan", "base", "login", "source", "kind", "checkin"}
    /\ \A a \in s.accounts : /\ DOMAIN a = {"id", "site", "who", "by"}
                              /\ \E x \in s.sites : x.id = a.site

VARIABLES
  source,                    \* the channels of the NewAPI
  channels, sites, accounts, \* the tables, as sets of rows
  token,                     \* the saved access token of the instance
  next,                      \* the next fresh id
  task, pc, mem,             \* of an operation: its task, its step, what it holds
  changes, faults,
  typed,      \* history: of a site, the login page and the address last typed for it
  excused,    \* history: sites typed on while a task that had read them was to write
  doubles,    \* history: base URLs two tasks looked for at once, or added by hand
  clean,      \* history: operations since whose start nothing else changed channels
  settled, reconciled,       \* history: a clean sync, or marking, was the last change
  crowded     \* history: two account imports overlapped

tables == <<channels, sites, accounts, token, next>>
world == <<source, changes>>
history == <<typed, excused, doubles, clean, settled, reconciled, crowded>>
vars == <<world, tables, task, pc, mem, faults, history>>

NoUrl == ""
NoLogin == <<"", "">>
Unread == [login |-> NoLogin, source |-> ""]
Nothing == [kind |-> "none", checkin |-> FALSE, login |-> NoLogin, source |-> ""]
Holds == [todo |-> <<>>, page |-> 0, last |-> FALSE, seen |-> {}, rows |-> {}, chan |-> 0, kind |-> "unknown",
          base |-> NoUrl, site |-> 0, from |-> 0, old |-> Unread, det |-> Nothing]
NotTyped == [login |-> NoLogin, base |-> NoUrl]

\* What a scan of a base URL can find.
Scans(b) ==
  {[kind |-> d.kind, checkin |-> d.checkin, login |-> <<b, d.login.url>>, source |-> d.login.source] :
     d \in {DetectUpstream(f, b \in Officials) : f \in Faces[b]}}
Detections == [b \in DOMAIN Faces |-> Scans(b)]

FirstStep(what) ==
  CASE what \in {"sync", "mark"} -> "begin"  [] what \in {"detect", "bulk"} -> "read"
    [] what = "site" -> "scan"  [] what \in {"account", "legacy"} -> "look"
    [] what = "edit" -> "load"  [] what = "chrome" -> "match"  [] what = "delete" -> "delete"

Init ==
  /\ source \in Sources /\ changes = 0 /\ faults = 0
  /\ \E start \in Starts :
       /\ channels = start.channels /\ sites = start.sites /\ accounts = start.accounts
  /\ token = "" /\ next = FirstId
  /\ task \in Meetings /\ pc = [o \in Ops |-> FirstStep(task[o].what)]
  /\ mem = [o \in Ops |-> Holds]
  /\ typed = <<>> /\ excused = {} /\ doubles = {}
  /\ clean = [o \in Ops |-> FALSE] /\ settled = FALSE /\ reconciled = FALSE /\ crowded = FALSE

Excluded(url) == url \in ExcludedUrls

Goes(o, step) == pc' = [pc EXCEPT ![o] = step]
Holding(o, m) == mem' = [mem EXCEPT ![o] = m]
Ends(o) == Goes(o, "done") /\ Holding(o, Holds)
Steady == UNCHANGED <<world, task, faults>>
Fails == faults < MaxFaults /\ faults' = faults + 1 /\ UNCHANGED <<world, task>>
Named1(set, id) == CHOOSE x \in set : x.id = id
Exists(set, id) == \E x \in set : x.id = id
Replaced(set, id, y) == {IF x.id = id THEN y ELSE x : x \in set}
Sought(b) == {s \in sites : s.base = b}
TypedOf(id) == IF id \in DOMAIN typed THEN typed[id] ELSE NotTyped

\* The NewAPI's channels change.
SourceChanges ==
  /\ changes < MaxChanges /\ changes' = changes + 1
  /\ source' \in Sources \ {source}
  /\ clean' = [o \in Ops |-> FALSE] /\ settled' = FALSE /\ reconciled' = FALSE
  /\ UNCHANGED <<tables, task, pc, mem, faults, typed, excused, doubles, crowded>>

\* Every write of channels ends what was true of the last sync, and of others under way.
Disturbs(o) ==
  /\ clean' = [p \in Ops |-> p = o /\ clean[o]]
  /\ settled' = FALSE /\ reconciled' = FALSE
  /\ UNCHANGED crowded
Undisturbed == UNCHANGED <<clean, settled, reconciled, crowded>>

-------------------------------------------------------------------------------
(* Login pages *)

\* Mutant: only a login page whose source is not known is taken for typed.
ShouldPreserveExistingLogin_NoSource(b, old) ==
  old.login # NoLogin /\ old.source = "" /\ old.login # <<b, "/login">>

ShouldPreserveExistingLogin(b, old) ==
  old.login # NoLogin /\ (old.source = "manual" \/ (old.source = "" /\ old.login # <<b, "/login">>))

\* What a detection (or none) leaves as the login page, given what was read before.
StoredLogin(b, det, login, old) ==
  IF login # NoLogin THEN [login |-> login, source |-> "manual"]
  ELSE IF det = Nothing /\ old.login # NoLogin
    THEN [login |-> old.login, source |-> IF old.source = "" THEN "manual" ELSE old.source]
  ELSE IF ShouldPreserveExistingLogin(b, old) THEN [login |-> old.login, source |-> "manual"]
  ELSE IF det = Nothing THEN [login |-> <<b, "/login">>, source |-> "fallback"]
  ELSE [login |-> det.login, source |-> det.source]

LoginRead(s) == [login |-> s.login, source |-> s.source]

\* Tasks that have read site id, and will write what they read.
WillOverwrite(o, id) ==
  /\ mem[o].site = id
  /\ \/ task[o].what \in {"detect", "bulk"} /\ pc[o] \in {"scan", "reread", "write"}
     \/ task[o].what = "sync" /\ pc[o] = "store"

\* A user types the login page of a site, or its address, or both.
Types(o, id, login, base) ==
  /\ typed' = [i \in DOMAIN typed \cup {id} |->
                 IF i # id THEN typed[i]
                 ELSE [login |-> IF login = NoLogin THEN TypedOf(id).login ELSE login,
                       base |-> IF base = NoUrl THEN TypedOf(id).base ELSE base]]
  /\ excused' = IF \E p \in Ops \ {o} : WillOverwrite(p, id) THEN excused \cup {id} ELSE excused

TypesLogin(o, id, login) ==
  IF login = NoLogin THEN UNCHANGED <<typed, excused>> ELSE Types(o, id, login, NoUrl)

\* Tasks that found no site with base URL b, and will make one.
Seeks(o, b) == mem[o].base = b /\ mem[o].site = 0 /\ pc[o] \in {"store", "scan", "add", "put", "address"}
               /\ task[o].what # "site" /\ task[o].what \notin {"detect", "bulk"}
LooksFor(o, b) ==
  doubles' = IF Sought(b) = {} /\ \E p \in Ops \ {o} : Seeks(p, b) THEN doubles \cup {b} ELSE doubles

-------------------------------------------------------------------------------
(* Synchronising, and marking what is gone *)

\* The API instance needs a token: the one typed, else the one saved.
Begin(o) ==
  /\ pc[o] = "begin" /\ Steady /\ UNCHANGED <<tables, mem, typed, excused, doubles>>
  /\ Goes(o, IF task[o].api /\ task[o].token = "" /\ token = "" THEN "done" ELSE "page")
  /\ clean' = [clean EXCEPT ![o] = TRUE]
  /\ UNCHANGED <<settled, reconciled, crowded>>

\* One page of the API.
Page(n) == SubSeq(source, n * PageSize + 1, AtMost(n * PageSize + PageSize, Len(source)))

\* The whole SQLite table.
Table(n) == IF n = 0 THEN source ELSE <<>>

\* Mutant: a full page is taken for the last.
LastPage_Full(o, n) == n <= PageSize

LastPage(o, n) == IF task[o].api THEN n < PageSize ELSE TRUE

AfterPages(o) == IF task[o].what = "mark" THEN "existing" ELSE "finish"

ReadPage(o) ==
  LET page == IF task[o].api THEN Page(mem[o].page) ELSE Table(mem[o].page)
      last == LastPage(o, Len(page)) \/ mem[o].page + 1 >= MaxPages
      ids == {page[i].id : i \in DOMAIN page}
  IN
  /\ pc[o] = "page" /\ Steady /\ UNCHANGED <<tables, typed, excused, doubles>> /\ Undisturbed
  /\ Holding(o, [mem[o] EXCEPT !.todo = IF task[o].what = "sync" THEN page ELSE <<>>,
                 !.page = @ + 1, !.last = last, !.seen = @ \cup ids])
  /\ Goes(o, IF page = <<>> THEN AfterPages(o) ELSE IF task[o].what = "sync" THEN "upsert"
             ELSE IF last THEN "existing" ELSE "page")

\* The request fails, or the database does: what is imported so far stays.  A marking or
\* a SQLite sync answers with the error.  The sync over the API has put it in a variable
\* that ends with the branch, goes on, and writes to the result that there is not.
AfterFailure(t) == IF t.what = "sync" /\ t.api THEN "panicked" ELSE "done"

ImportFails(o) ==
  /\ pc[o] \in {"page", "upsert", "find", "store"} /\ task[o].what \in {"sync", "mark"}
  /\ Fails /\ Goes(o, AfterFailure(task[o])) /\ Holding(o, Holds)
  /\ UNCHANGED <<tables, typed, excused, doubles>> /\ Undisturbed

AfterRecord(m) == IF Len(m.todo) > 1 THEN "upsert" ELSE IF m.last THEN "finish" ELSE "page"
NextRecord(o, m) == Holding(o, [m EXCEPT !.todo = Tail(@), !.det = Nothing, !.site = 0, !.chan = 0])
                    /\ Goes(o, AfterRecord(m))

Imported(r) == {c \in channels : c.of = "instance" /\ c.sid = r.id /\ r.id # 0}

\* Mutant: the address a row has is kept.
Upserted_KeepUrl(c, r, keys) ==
  [c EXCEPT !.state = r.state, !.kind = r.kind, !.missing = FALSE,
            !.key = IF keys /\ r.key # "" THEN r.key ELSE @]

\* The row a record makes of one there is: a key stays unless one is imported.
Upserted(c, r, keys) ==
  [c EXCEPT !.url = r.url, !.state = r.state, !.kind = r.kind, !.missing = FALSE,
            !.key = IF keys /\ r.key # "" THEN r.key ELSE @]

NewChannel(id, of, sid, url, kind) ==
  [id |-> id, of |-> of, sid |-> sid, url |-> url, state |-> "", kind |-> kind, key |-> "", missing |-> FALSE]

\* A record without an id gets a fresh one each time.
Upsert(o) ==
  LET m == mem[o]  r == Head(m.todo)  t == task[o]
      id == IF Imported(r) = {} THEN next ELSE (CHOOSE c \in Imported(r) : TRUE).id
      fresh == NewChannel(next, "instance", IF r.id = 0 THEN next ELSE r.id, r.url, r.kind)
  IN
  /\ pc[o] = "upsert" /\ Steady /\ UNCHANGED <<sites, accounts, token, typed, excused, doubles>>
  /\ IF Excluded(r.url)
     THEN UNCHANGED <<channels, next>> /\ NextRecord(o, m) /\ Undisturbed
     ELSE /\ IF Imported(r) = {}
             THEN channels' = channels \cup {Upserted(fresh, r, t.keys)} /\ next' = next + 1
             ELSE /\ channels' = Replaced(channels, id, Upserted(Named1(channels, id), r, t.keys))
                  /\ UNCHANGED next
          /\ Disturbs(o)
          /\ IF t.sites /\ r.url # NoUrl
             THEN /\ Holding(o, [m EXCEPT !.chan = id, !.kind = r.kind, !.base = BaseOf[r.url]])
                  /\ Goes(o, IF t.detect THEN "scan" ELSE "find")
             ELSE NextRecord(o, m)

\* The scan of an imported channel replaces its address and kind.
ImportScan(o) ==
  LET m == mem[o] IN
  /\ pc[o] = "scan" /\ task[o].what = "sync" /\ Steady
  /\ \E d \in Detections[m.base] :
       /\ Holding(o, [m EXCEPT !.det = d])
       /\ channels' = {IF c.id = m.chan THEN [c EXCEPT !.url = m.base, !.kind = d.kind] ELSE c : c \in channels}
  /\ Goes(o, "find") /\ Disturbs(o)
  /\ UNCHANGED <<sites, accounts, token, next, typed, excused, doubles>>

\* Mutant: sites are looked up by the address as the record has it.
SiteKey_Raw(m) == Head(m.todo).url

SiteKey(m) == m.base

\* EnsureUpstreamSiteForChannel looks for a site of that base URL, and later writes.
Find(o) ==
  LET m == mem[o]  b == SiteKey(m) IN
  /\ pc[o] = "find" /\ Steady /\ UNCHANGED <<tables, typed, excused>> /\ Undisturbed
  /\ IF m.det # Nothing /\ ~IsManagedRelayKind(m.det.kind)
     THEN NextRecord(o, m) /\ UNCHANGED doubles
     ELSE /\ Goes(o, "store") /\ LooksFor(o, m.base)
          /\ IF Sought(b) = {} THEN Holding(o, m)
             ELSE \E s \in Sought(b) : Holding(o, [m EXCEPT !.site = s.id, !.old = LoginRead(s)])

SiteRow(id, chan, b, login, kind, checkin) ==
  [id |-> id, chan |-> chan, base |-> b, login |-> login.login, source |-> login.source,
   kind |-> kind, checkin |-> checkin]

Store(o) ==
  LET m == mem[o]
      kind == IF m.det = Nothing THEN m.kind ELSE m.det.kind
      login == StoredLogin(m.base, m.det, NoLogin, IF m.site = 0 THEN Unread ELSE m.old)
  IN
  /\ pc[o] = "store" /\ Steady /\ NextRecord(o, m)
  /\ UNCHANGED <<channels, accounts, token, typed, excused, doubles>> /\ Undisturbed
  /\ IF m.site = 0
     THEN sites' = sites \cup {SiteRow(next, m.chan, m.base, login, kind, m.det.checkin)} /\ next' = next + 1
     ELSE /\ sites' = {IF s.id # m.site THEN s
                       ELSE [s EXCEPT !.chan = IF @ = 0 THEN m.chan ELSE @,
                               !.login = login.login, !.source = login.source,
                               !.kind = IF @ = "unknown" THEN kind ELSE @,
                               !.checkin = @ \/ m.det.checkin] : s \in sites}
          /\ UNCHANGED next

TokenAfter(t) == IF t.clear THEN "" ELSE IF t.save /\ t.token # "" THEN t.token ELSE token

\* Only a sync that went through saves the token typed for it, or clears the saved one;
\* whether that succeeds is not looked at.
\* History: settled if nothing came between, and the sync was one that takes over all.
Finish(o, ok) ==
  /\ pc[o] = "finish" /\ Ends(o) /\ IF ok THEN Steady ELSE task[o].api /\ Fails
  /\ token' = IF task[o].api /\ ok THEN TokenAfter(task[o]) ELSE token
  /\ settled' = (clean[o] /\ ~task[o].detect /\ task[o].keys)
  /\ UNCHANGED <<channels, sites, accounts, next, typed, excused, doubles, clean, reconciled, crowded>>

\* Marking reads the rows there are after the source, and marks them in one transaction.
ReadExisting(o) ==
  /\ pc[o] = "existing" /\ Steady /\ Goes(o, "marks")
  /\ Holding(o, [mem[o] EXCEPT !.rows = {c.sid : c \in {x \in channels : x.of = "instance"}}])
  /\ UNCHANGED <<tables, typed, excused, doubles>> /\ Undisturbed

Marked(c, m) == IF c.of = "instance" /\ c.sid \in m.rows THEN [c EXCEPT !.missing = c.sid \notin m.seen] ELSE c

Mark(o) ==
  /\ pc[o] = "marks" /\ Steady /\ Ends(o)
  /\ channels' = {Marked(c, mem[o]) : c \in channels}
  /\ token' = TokenAfter(task[o])
  /\ clean' = [p \in Ops |-> p = o /\ clean[o]] /\ settled' = FALSE /\ reconciled' = clean[o]
  /\ UNCHANGED <<sites, accounts, next, typed, excused, doubles, crowded>>

-------------------------------------------------------------------------------
(* Detecting a site *)

\* DetectUpstreamSite reads the login page before the scan, the bulk detection after it.
Read(o) ==
  /\ pc[o] = "read" /\ Steady /\ UNCHANGED <<tables, typed, excused, doubles>> /\ Undisturbed
  /\ IF ~Exists(sites, task[o].site) THEN Ends(o)
     ELSE LET s == Named1(sites, task[o].site) IN
          /\ Holding(o, [mem[o] EXCEPT !.site = s.id, !.base = s.base,
                           !.old = IF task[o].what = "detect" THEN LoginRead(s) ELSE @])
          /\ Goes(o, "scan")

Scan(o) ==
  /\ pc[o] = "scan" /\ task[o].what \in {"detect", "bulk"} /\ Steady
  /\ \E d \in Detections[mem[o].base] : Holding(o, [mem[o] EXCEPT !.det = d])
  /\ Goes(o, IF task[o].what = "bulk" THEN "reread" ELSE "write")
  /\ UNCHANGED <<tables, typed, excused, doubles>> /\ Undisturbed

Reread(o) ==
  /\ pc[o] = "reread" /\ Steady /\ Goes(o, "write")
  /\ Holding(o, [mem[o] EXCEPT !.old = IF Exists(sites, mem[o].site)
                                        THEN LoginRead(Named1(sites, mem[o].site)) ELSE Unread])
  /\ UNCHANGED <<tables, typed, excused, doubles>> /\ Undisturbed

\* Everything the scan found replaces what is there, the base URL included.
WriteDetection(o) ==
  LET m == mem[o]  login == StoredLogin(m.base, m.det, NoLogin, m.old) IN
  /\ pc[o] = "write" /\ Steady /\ Ends(o)
  /\ sites' = {IF s.id # m.site THEN s
               ELSE [s EXCEPT !.base = m.base, !.login = login.login, !.source = login.source,
                              !.kind = m.det.kind, !.checkin = m.det.checkin] : s \in sites}
  /\ UNCHANGED <<channels, accounts, token, next, typed, excused, doubles>> /\ Undisturbed

-------------------------------------------------------------------------------
(* Adding a site, alone or for an account or an edit of one *)

AfterSite(o) == IF task[o].what = "edit" THEN "meta" ELSE "bind"

\* EnsureManualSite: a site of that base URL is used, and takes the login page typed.
Look(o) ==
  LET t == task[o]  b == BaseOf[t.url] IN
  /\ pc[o] = "look" /\ t.what \in {"account", "edit"} /\ Steady /\ Undisturbed
  /\ UNCHANGED <<channels, accounts, token, next>>
  /\ IF Excluded(t.url) THEN Ends(o) /\ UNCHANGED <<sites, typed, excused, doubles>>
     ELSE IF Sought(b) = {}
     THEN /\ Holding(o, [mem[o] EXCEPT !.base = b, !.site = 0]) /\ Goes(o, "scan")
          /\ LooksFor(o, b) /\ UNCHANGED <<sites, typed, excused>>
     ELSE \E s \in Sought(b) :
          /\ Holding(o, [mem[o] EXCEPT !.base = b, !.site = s.id]) /\ Goes(o, AfterSite(o))
          /\ sites' = IF t.login = NoLogin THEN sites
                      ELSE Replaced(sites, s.id, [s EXCEPT !.login = t.login, !.source = "manual"])
          /\ TypesLogin(o, s.id, t.login) /\ UNCHANGED doubles

\* The kind chosen by hand wins; what is no relay panel is refused.
ScanNew(o) ==
  LET t == task[o]  b == BaseOf[t.url] IN
  /\ pc[o] = "scan" /\ t.what \in {"site", "account", "edit"} /\ Steady
  /\ \E d \in Detections[b] :
       LET kind == IF t.prefer = "unknown" THEN d.kind ELSE t.prefer IN
       IF IsManagedRelayKind(kind) /\ ~Excluded(t.url)
       THEN Goes(o, "add") /\ Holding(o, [mem[o] EXCEPT !.base = b, !.det = [d EXCEPT !.kind = kind]])
       ELSE Ends(o)
  /\ UNCHANGED <<tables, typed, excused, doubles>> /\ Undisturbed

CreatedSite(m, t) ==
  SiteRow(next + 1, next, m.base, StoredLogin(m.base, m.det, t.login, Unread), m.det.kind, m.det.checkin)

\* The channel is inserted first: if the site is not, it stays without one.
Add(o, ok) ==
  LET t == task[o]  m == mem[o] IN
  /\ pc[o] = "add" /\ IF ok THEN Steady ELSE Fails
  /\ channels' = channels \cup {NewChannel(next, "manual", next, m.base, m.det.kind)}
  /\ next' = next + 2
  /\ IF ok
     THEN /\ sites' = sites \cup {CreatedSite(m, t)}
          /\ TypesLogin(o, next + 1, t.login)
          /\ IF t.what = "site" THEN Ends(o)
             ELSE Goes(o, AfterSite(o)) /\ Holding(o, [m EXCEPT !.site = next + 1])
     ELSE Ends(o) /\ UNCHANGED <<sites, typed, excused>>
  /\ doubles' = IF t.what = "site" THEN doubles \cup {m.base} ELSE doubles
  /\ UNCHANGED <<accounts, token>> /\ Disturbs(o)

Account(id, site, who, by) == [id |-> id, site |-> site, who |-> who, by |-> by]

\* The account is inserted, or moved; the database refuses a site that is gone.
Bind(o) ==
  LET t == task[o]  m == mem[o] IN
  /\ pc[o] = "bind" /\ Steady /\ Ends(o)
  /\ UNCHANGED <<channels, sites, token, typed, excused, doubles>> /\ Undisturbed
  /\ IF ~Exists(sites, m.site) THEN UNCHANGED <<accounts, next>>
     ELSE IF t.what = "edit"
     THEN /\ accounts' = {IF a.id = t.account /\ m.site # m.from
                          THEN [a EXCEPT !.site = m.site, !.by = "user"] ELSE a : a \in accounts}
          /\ UNCHANGED next
     ELSE accounts' = accounts \cup {Account(next, m.site, t.who, IF t.what = "legacy" THEN "file" ELSE "user")}
          /\ next' = next + 1

-------------------------------------------------------------------------------
(* Editing the site of an account *)

\* Where an edit of the address leads: the site as it is, another one, or it is moved.
EditStep(t, s) ==
  IF t.url = NoUrl THEN IF t.login = NoLogin THEN "bind" ELSE "meta"
  ELSE IF BaseOf[t.url] = s.base THEN "meta" ELSE IF t.shared THEN "other" ELSE "look"

LoadAccount(o) ==
  LET t == task[o] IN
  /\ pc[o] = "load" /\ Steady /\ UNCHANGED <<tables, typed, excused, doubles>> /\ Undisturbed
  /\ IF ~Exists(accounts, t.account) \/ Excluded(t.url) THEN Ends(o)
     ELSE LET s == Named1(sites, Named1(accounts, t.account).site) IN
          Goes(o, EditStep(t, s)) /\ Holding(o, [mem[o] EXCEPT !.site = s.id, !.from = s.id])

\* A shared edit joins the site that has the new address, if there is one.
Other(o) ==
  LET m == mem[o]  b == BaseOf[task[o].url]  others == {s \in Sought(b) : s.id # m.from} IN
  /\ pc[o] = "other" /\ Steady /\ UNCHANGED <<tables, typed, excused>> /\ Undisturbed
  /\ IF others = {}
     THEN Goes(o, "address") /\ Holding(o, [m EXCEPT !.base = b, !.site = 0]) /\ LooksFor(o, b)
     ELSE Goes(o, "meta") /\ UNCHANGED doubles /\ \E s \in others : Holding(o, [m EXCEPT !.site = s.id])

\* UpdateMetadata: the site, and the channel it is linked to (as of then).
LinkedTo(id) == {s.chan : s \in {x \in sites : x.id = id}}

Meta(o) ==
  LET m == mem[o]  t == task[o] IN
  /\ pc[o] = "meta" /\ Steady /\ Holding(o, m)
  /\ Goes(o, IF t.url # NoUrl /\ t.shared /\ m.site # m.from THEN "move" ELSE "bind")
  /\ sites' = {IF s.id # m.site THEN s
               ELSE [s EXCEPT !.login = IF t.login = NoLogin THEN @ ELSE t.login,
                              !.source = IF t.login = NoLogin THEN @ ELSE "manual",
                              !.kind = IF t.prefer = "unknown" THEN @ ELSE t.prefer] : s \in sites}
  /\ channels' = {IF c.id \in LinkedTo(m.site) /\ t.prefer # "unknown" THEN [c EXCEPT !.kind = t.prefer] ELSE c
                  : c \in channels}
  /\ TypesLogin(o, m.site, t.login)
  /\ IF channels' = channels THEN Undisturbed ELSE Disturbs(o)
  /\ UNCHANGED <<accounts, token, next, doubles>>

\* Every account of the site moves; that fails if the other one is gone meanwhile.
Move(o) ==
  LET m == mem[o]  refused == ~Exists(sites, m.site) /\ \E a \in accounts : a.site = m.from IN
  /\ pc[o] = "move" /\ Steady /\ UNCHANGED <<channels, sites, token, next, typed, excused, doubles>> /\ Undisturbed
  /\ IF refused THEN Ends(o) /\ UNCHANGED accounts
     ELSE /\ Goes(o, "bind") /\ Holding(o, m)
          /\ accounts' = {IF a.site = m.from THEN [a EXCEPT !.site = m.site, !.by = "user"] ELSE a : a \in accounts}

\* UpdateAddress: the login page stays unless one is typed.
Address(o) ==
  LET m == mem[o]  t == task[o] IN
  /\ pc[o] = "address" /\ Steady /\ Goes(o, "bind") /\ Holding(o, [m EXCEPT !.site = m.from])
  /\ sites' = {IF s.id # m.from THEN s
               ELSE [s EXCEPT !.base = m.base, !.login = IF t.login = NoLogin THEN @ ELSE t.login,
                              !.source = IF t.login = NoLogin THEN @ ELSE "manual",
                              !.kind = IF t.prefer = "unknown" THEN @ ELSE t.prefer] : s \in sites}
  /\ channels' = {IF c.id \in LinkedTo(m.from) THEN [c EXCEPT !.url = m.base] ELSE c : c \in channels}
  /\ Types(o, m.from, t.login, m.base) /\ Disturbs(o)
  /\ UNCHANGED <<accounts, token, next, doubles>>

-------------------------------------------------------------------------------
(* Importing accounts, and deleting a site *)

\* A legacy config names one site, and what it says of it, and one account.
LookLegacy(o) ==
  LET t == task[o]  b == BaseOf[t.url] IN
  /\ pc[o] = "look" /\ t.what = "legacy" /\ Steady /\ Goes(o, "put") /\ LooksFor(o, b)
  /\ IF Sought(b) = {} THEN Holding(o, [mem[o] EXCEPT !.base = b])
     ELSE \E s \in Sought(b) : Holding(o, [mem[o] EXCEPT !.base = b, !.site = s.id])
  /\ UNCHANGED <<tables, typed, excused>> /\ Undisturbed

\* Its login page replaces the one there is, but not where that came from: a later
\* detection may replace it again, so it does not count as typed.
Put(o) ==
  LET t == task[o]  m == mem[o] IN
  /\ pc[o] = "put" /\ Steady /\ Goes(o, "who") /\ UNCHANGED <<accounts, token, doubles>>
  /\ IF m.site = 0
     THEN /\ channels' = channels \cup {NewChannel(next, "legacy", next, m.base, "unknown")}
          /\ sites' = sites \cup {SiteRow(next + 1, next, m.base, [login |-> t.login, source |-> ""], "unknown", t.rule)}
          /\ next' = next + 2 /\ Holding(o, [m EXCEPT !.site = next + 1])
          /\ UNCHANGED <<typed, excused>> /\ Disturbs(o)
     ELSE /\ sites' = {IF s.id # m.site THEN s
                       ELSE [s EXCEPT !.login = IF t.login = NoLogin THEN @ ELSE t.login,
                                      !.checkin = @ \/ t.rule] : s \in sites}
          /\ typed' = [i \in DOMAIN typed |-> IF i = m.site /\ t.login # NoLogin
                                              THEN [typed[i] EXCEPT !.login = NoLogin] ELSE typed[i]]
          /\ Holding(o, m) /\ UNCHANGED <<channels, next, excused>> /\ Undisturbed

InFile(o) == \E p \in Ops \ {o} : task[p].what \in {"legacy", "chrome"} /\ pc[p] \in {"bind", "insert"}
Crowds(o) == crowded' = (crowded \/ InFile(o)) /\ UNCHANGED <<clean, settled, reconciled>>

Who(o) ==
  LET t == task[o]  m == mem[o] IN
  /\ pc[o] = "who" /\ Steady /\ Crowds(o) /\ UNCHANGED <<tables, typed, excused, doubles>>
  /\ IF \E a \in accounts : a.site = m.site /\ Lower[a.who] = Lower[t.who] THEN Ends(o)
     ELSE Goes(o, "bind") /\ UNCHANGED mem

\* Passwords of Chrome: each row at each site of its host, with the accounts known so far.
Match(o) ==
  LET hits == {<<x[1].id, x[2][2]>> : x \in {y \in sites \X task[o].rows : BaseOf[y[2][1]] = y[1].base}}
  IN
  /\ pc[o] = "match" /\ Steady /\ Goes(o, "known")
  /\ Holding(o, [mem[o] EXCEPT !.rows = hits])
  /\ UNCHANGED <<tables, typed, excused, doubles>> /\ Undisturbed

\* Mutant: accounts are told from one another by their lower-case names on one side only.
HasAccount_Lower(pair) == \E a \in accounts : a.site = pair[1] /\ Lower[a.who] = pair[2]

HasAccount(pair) == \E a \in accounts : a.site = pair[1] /\ a.who = pair[2]

Known(o) ==
  LET fresh == {x \in mem[o].rows : ~HasAccount(x)}
      \* one of those whose lower-case names agree
      once == {u \in SUBSET fresh :
                 /\ \A x, y \in u : x[1] = y[1] /\ Lower[x[2]] = Lower[y[2]] => x = y
                 /\ \A x \in fresh : \E y \in u : x[1] = y[1] /\ Lower[x[2]] = Lower[y[2]]}
  IN
  /\ pc[o] = "known" /\ Steady /\ Crowds(o) /\ Goes(o, "insert")
  /\ \E u \in once : Holding(o, [mem[o] EXCEPT !.rows = u])
  /\ UNCHANGED <<tables, typed, excused, doubles>>

\* The first row whose site is gone ends the import.
Insert(o) ==
  /\ pc[o] = "insert" /\ Steady /\ UNCHANGED <<channels, sites, token, typed, excused, doubles>> /\ Undisturbed
  /\ IF mem[o].rows = {} THEN Ends(o) /\ UNCHANGED <<accounts, next>>
     ELSE \E x \in mem[o].rows :
       IF Exists(sites, x[1])
       THEN /\ accounts' = accounts \cup {Account(next, x[1], x[2], "file")} /\ next' = next + 1
            /\ Holding(o, [mem[o] EXCEPT !.rows = @ \ {x}]) /\ UNCHANGED pc
       ELSE Ends(o) /\ UNCHANGED <<accounts, next>>

\* One transaction takes the site and all that belongs to it; its channel stays.
Delete(o) ==
  LET id == task[o].site IN
  /\ pc[o] = "delete" /\ Steady /\ Ends(o)
  /\ sites' = {s \in sites : s.id # id}
  /\ accounts' = {a \in accounts : a.site # id}
  /\ UNCHANGED <<channels, token, next, typed, excused, doubles>> /\ Undisturbed

Step(o) ==
  \/ Begin(o) \/ ReadPage(o) \/ ImportFails(o) \/ Upsert(o) \/ ImportScan(o) \/ Find(o) \/ Store(o)
  \/ (\E ok \in BOOLEAN : Finish(o, ok)) \/ ReadExisting(o) \/ Mark(o)
  \/ Read(o) \/ Scan(o) \/ Reread(o) \/ WriteDetection(o)
  \/ Look(o) \/ ScanNew(o) \/ (\E ok \in BOOLEAN : Add(o, ok)) \/ Bind(o)
  \/ LoadAccount(o) \/ Other(o) \/ Meta(o) \/ Move(o) \/ Address(o)
  \/ LookLegacy(o) \/ Put(o) \/ Who(o) \/ Match(o) \/ Known(o) \/ Insert(o) \/ Delete(o)

Next == SourceChanges \/ \E o \in Ops : Step(o)

Spec == Init /\ [][Next]_vars

-------------------------------------------------------------------------------
(* Properties *)

\* What the preview says of a record, given the row it has.
Same(c, r) ==
  c.url = r.url /\ c.state = r.state /\ c.kind = r.kind /\ (r.key = "" \/ c.key = "" \/ c.key = r.key)

PreviewAction(r) ==
  IF Excluded(r.url) THEN "skipped"
  ELSE IF Imported(r) = {} THEN "new"
  ELSE IF \A c \in Imported(r) : Same(c, r) THEN "unchanged" ELSE "changed"

\* After a sync that took over all, and that nothing came between, the preview finds
\* nothing to do for any record with an id, over pages, failed syncs before and rows
\* that others edited (BuildLocalNewAPISyncPreview, importChannelRecordOutcome).
SyncSettles ==
  settled => \A i \in DOMAIN source : source[i].id # 0 => PreviewAction(source[i]) \in {"skipped", "unchanged"}

\* After a marking that nothing came between, exactly the channels that the source no
\* longer lists are marked as missing (ReconcileMissingLocalNewAPIInstance).
MarksAreTrue ==
  reconciled => \A c \in channels :
    c.of = "instance" /\ c.sid < FirstId => (c.missing <=> ~\E i \in DOMAIN source : source[i].id = c.sid)

\* A login page or an address a user typed stays until typed again, through imports and
\* detections, unless one had read the site before and wrote it later
\* (shouldPreserveExistingLogin, DetectUpstreamSite, UpdateAddress).
TypedIsKept ==
  \A s \in sites : s.id \notin excused =>
    /\ TypedOf(s.id).login # NoLogin => s.login = TypedOf(s.id).login
    /\ TypedOf(s.id).base # NoUrl => s.base = TypedOf(s.id).base

\* A base URL has one site, unless added by hand again, or two tasks looked for it at
\* once, or a detection put back an address edited meanwhile: no import doubles one.
OneSitePerBase ==
  \A s, t \in sites : s.id # t.id /\ s.base = t.base =>
    s.base \in doubles \/ {s.id, t.id} \cap excused # {}

\* Files of accounts imported again, or one after the other, add no account twice.
NoAccountTwice ==
  crowded \/ \A a, b \in accounts :
    a.id # b.id /\ a.site = b.site /\ a.by = "file" /\ b.by = "file" => a.who # b.who

\* A sync that fails answers with an error, which the scheduler counts before it goes on
\* (scheduler.go: "if err != nil { result.FailedInstances++").  This is violated.
FailedSyncAnswers == \A o \in Ops : pc[o] # "panicked"
===============================================================================
