----------------------------- MODULE AccountAccess -----------------------------
(***************************************************************************)
(* Every operation that uses or changes the credentials of one account:    *)
(* check-in, balance, login and key tests, password and browser logins,    *)
(* edits and deletion.  Each reads the row once, works on its copy across  *)
(* calls of the site, and writes back what it learnt; several run at once. *)
(***************************************************************************)
EXTENDS UpstreamAnswers

CONSTANTS
  Ops,             \* operations, each of some kind
  Meetings,        \* which kinds meet: functions from Ops to kinds
  Sessions,        \* the sequence of sessions the site can issue
  Accounts,        \* rows the account may begin with
  Edits,           \* what users type into the account form
  Rules,           \* checkin_config_json of the site
  Preferred,       \* check-in paths of its kind, and the general ones
  General,
  CheckinBodies,   \* what an answer to a check-in may say: the marks of its body
  BalanceDocs,     \* of each balance path in turn, the answers it may give
  Reported,        \* the balance the site gives in them
  LoginDocs(_),    \* what a login that opens a session answers: [cookie, body]
  KeyDocs,         \* answers of /v1/models
  LoginTries,      \* login paths times payloads
  CheckinMaxNetworkAttempts

ASSUME AccessAssumption ==
  /\ LoginTries \in Nat \ {0} /\ CheckinMaxNetworkAttempts \in Nat \ {0}

Kinds == {"checkin", "balance", "testKey", "testLogin", "relogin", "open", "finish", "edit", "clear", "delete"}
AccountFields == {"there", "cookie", "token", "user", "key", "password", "login", "keyStatus", "checkin", "balance"}

ASSUME MeetingsAssumption == Meetings \subseteq [Ops -> Kinds]
ASSUME AccountsAssumption == \A a \in Accounts : DOMAIN a = AccountFields
\* There is a path to ask for the balance, and its answers are JSON.
ASSUME DocumentsAssumption ==
  /\ BalanceDocs \in Seq({BalanceDocs[i] : i \in DOMAIN BalanceDocs}) \ {<<>>}
  /\ \A i \in DOMAIN BalanceDocs : \A doc \in BalanceDocs[i] : IsDocument(doc)
\* A session is a cookie or a token that is not empty.
ASSUME SessionsAssumption == \A i \in DOMAIN Sessions : Sessions[i] # NoText

VARIABLES
  row,       \* the account in channel_accounts; there = FALSE once deleted
  store,     \* the browser session store: the operation whose window it holds, or NoOp
  kind, pc,  \* of an operation: what it does, and its next step
  auth,      \* its accountAuthContext
  at, attempt, again,  \* its candidate, attempt, and whether it has just logged in
  got,       \* what it has learnt and not yet written
  live, issued, visited,  \* the site: sessions it accepts, how many it issued,
                          \* whether the account is checked in there
  misled,    \* history: operations told of a check-in that did not take place
  windows  \* of a browser login: "none", "open", "gone", "reaped", or the cookie

site == <<live, issued, visited, misled>>
call == <<kind, auth, at, attempt, again>>
vars == <<row, store, call, pc, got, site, windows>>

NoOp == "none"
Nothing == [status |-> NoText, cookie |-> NoText, token |-> NoText, user |-> FALSE,
            balance |-> NoNumber]
Candidates == CheckinCandidatesForKind(ParseCheckinRules(Rules), Preferred, General)

Init ==
  /\ row \in Accounts
  /\ store = NoOp /\ windows = [o \in Ops |-> "none"]
  /\ kind \in Meetings /\ pc = [o \in Ops |-> "load"]
  /\ auth = [o \in Ops |-> row] /\ at = [o \in Ops |-> 1] /\ attempt = [o \in Ops |-> 1]
  /\ again = [o \in Ops |-> FALSE] /\ got = [o \in Ops |-> Nothing]
  /\ live \in SUBSET ({row.cookie} \ {NoText}) /\ issued = 0 /\ visited = FALSE /\ misled = {}

Goes(o, step) == pc' = [pc EXCEPT ![o] = step]
Learns(o, status) == got' = [got EXCEPT ![o].status = status]
Knows(o) == UNCHANGED got
Updates(r) == row' = IF row.there THEN r ELSE row      \* UPDATE ... WHERE id=?

-------------------------------------------------------------------------------
(* Load, and the session an operation starts from *)

CanAttemptCheckin(a) ==
  a.cookie # NoText \/ a.token # NoText \/ a.key \/ a.password # NoText

\* Ensure is content with any of these; a token alone still serves if a login fails.
HasSession(a) == a.cookie # NoText \/ a.key \/ (a.token # NoText /\ a.user)
HasAnything(a) == a.cookie # NoText \/ a.key \/ a.token # NoText

ClearedAuth(a) == [a EXCEPT !.cookie = NoText, !.token = NoText, !.user = FALSE]

EnsureStep(a) ==
  IF ~HasSession(a) /\ a.password # NoText THEN "login"
  ELSE IF HasAnything(a) THEN "call" ELSE "done"

FirstStep(k, a) ==
  CASE k = "checkin"   -> IF CanAttemptCheckin(a) THEN EnsureStep(a) ELSE "save"
    [] k = "balance"   -> EnsureStep(a)
    [] k = "testKey"   -> IF a.key THEN "call" ELSE "done"
    [] k = "testLogin" -> "call"
    [] k = "relogin"   -> IF a.password = NoText THEN "mark" ELSE "login"
    [] k \in {"open", "finish"} -> "look"
    [] k = "edit"      -> "write"

\* What a call ends with that never asks the site.
FirstStatus(step) ==
  CASE step = "save" -> "auth_expired" [] step = "mark" -> "manual_required" [] OTHER -> NoText

AuthOf(k) == IF k \in {"relogin", "testKey"} THEN ClearedAuth(row) ELSE row

Load(o) ==
  /\ pc[o] = "load" /\ kind[o] \notin {"clear", "delete"}
  /\ LET step == IF row.there THEN FirstStep(kind[o], row) ELSE "done" IN
     Goes(o, step) /\ Learns(o, FirstStatus(step))
  /\ auth' = [auth EXCEPT ![o] = IF row.there THEN AuthOf(kind[o]) ELSE @]
  /\ UNCHANGED <<row, store, kind, at, attempt, again, site, windows>>

-------------------------------------------------------------------------------
(* LoginWithPassword and Save *)

\* Where a failed login leaves its caller.
AfterLoginFailed(o) ==
  CASE kind[o] = "relogin" -> "mark"
    [] kind[o] = "checkin" -> IF HasAnything(auth[o]) THEN "call" ELSE "save"
    [] kind[o] = "balance" -> IF HasAnything(auth[o]) THEN "call" ELSE "done"

LoginFailedStatus(step) ==
  CASE step = "save" -> "auth_expired" [] step = "mark" -> "expired" [] OTHER -> NoText

LoginFails(o) ==
  IF attempt[o] < LoginTries
  THEN attempt' = [attempt EXCEPT ![o] = @ + 1] /\ UNCHANGED <<pc, got, again>>
  ELSE LET step == IF again[o] THEN "save" ELSE AfterLoginFailed(o) IN
       /\ attempt' = [attempt EXCEPT ![o] = 1]
       /\ again' = [again EXCEPT ![o] = FALSE]
       /\ Goes(o, step) /\ Learns(o, LoginFailedStatus(step))

\* A path the site does not serve, a payload it does not read, a wrong password, a
\* lost call.
LoginRefused(o) ==
  /\ pc[o] = "login" /\ LoginFails(o)
  /\ UNCHANGED <<row, store, kind, auth, at, site, windows>>

Issues(s) ==
  /\ issued < Len(Sessions) /\ s = Sessions[issued + 1]
  /\ issued' = issued + 1
  /\ live' \in {live \cup {s}, {s}}      \* a site may keep one session an account
  /\ UNCHANGED <<visited, misled>>

LoginKept(d, token) == ~ResponseExplicitlyFailed(d.body) /\ (d.cookie # NoText \/ token # NoText)

LoginAnswered(o) ==
  /\ pc[o] = "login" /\ auth[o].password = "right"
  /\ \E s \in {Sessions[i] : i \in DOMAIN Sessions} :
       /\ Issues(s)
       /\ \/ LoginFails(o)               \* the answer is lost
          \/ \E d \in LoginDocs(s) :
                \E token \in ExtractToken(d.body), id \in ExtractUserID(d.body) :
                  IF LoginKept(d, token)
                  THEN /\ Goes(o, "keep")
                       /\ got' = [got EXCEPT ![o] = [@ EXCEPT !.cookie = d.cookie,
                                     !.token = token, !.user = id # NoNumber]]
                       /\ attempt' = [attempt EXCEPT ![o] = 1]
                       /\ UNCHANGED again
                  ELSE LoginFails(o)
  /\ UNCHANGED <<row, store, kind, auth, at, windows>>

\* A value the login did not return keeps what is there.
Merged_Blank(a, g) == [a EXCEPT !.cookie = g.cookie, !.token = g.token, !.user = @ \/ g.user]

Merged(a, g) ==
  [a EXCEPT !.cookie = IF g.cookie # NoText THEN g.cookie ELSE @,
            !.token = IF g.token # NoText THEN g.token ELSE @,
            !.user = @ \/ g.user]

SaveSession(o) ==
  /\ pc[o] = "keep"
  /\ Updates([Merged(row, got[o]) EXCEPT !.login = "valid"])
  /\ auth' = [auth EXCEPT ![o] = Merged(@, got[o])]
  /\ Goes(o, IF kind[o] = "relogin" THEN "done" ELSE "call")
  /\ got' = [got EXCEPT ![o] = [Nothing EXCEPT !.status = got[o].status]]
  /\ UNCHANGED <<store, kind, at, attempt, again, site, windows>>

-------------------------------------------------------------------------------
(* CheckinExecutor.Run *)

Signed(a) == a.cookie \in live \/ a.token \in live
Reply(http, words) == [http |-> http, words |-> words]

\* A site may answer a check-in with anything: on a path that it does not serve or with
\* its start page, to a dead session, without doing it, or after having done it.
Replies == {Reply(http, words) : http \in {200, 401, 404, 500}, words \in CheckinBodies}

\* An answer that nobody can tell from that of a check-in that took place, or of a second
\* one: a 2xx that speaks of today, or that names no failure and is no login page.
Misleads(r) ==
  /\ Ok(r.http) /\ {"disabled", "turnstile"} \cap r.words = {}
  /\ "already" \in r.words \/ ("false" \notin r.words /\ ~({"login", "html"} \subseteq r.words))

NextAt(o) == at[o] + 1

\* Out of candidates, the last failure counts, else the site has no check-in.
NextCandidate(o, status) ==
  /\ again' = [again EXCEPT ![o] = FALSE]
  /\ Learns(o, status)
  /\ IF at[o] < Len(Candidates)
     THEN at' = [at EXCEPT ![o] = NextAt(o)] /\ UNCHANGED <<pc, auth>>
     ELSE Goes(o, "save") /\ UNCHANGED <<at, auth>>

\* The last answer of a candidate; after a password login its answer is final.
Judge(o, r) ==
  LET status == ClassifyCheckinResponse(r.http, r.words) IN
  /\ attempt' = [attempt EXCEPT ![o] = 1]
  /\ IF r.http = 0 THEN NextCandidate(o, "failed")
     ELSE IF Missing(r.http) /\ ~again[o] THEN NextCandidate(o, got[o].status)
     ELSE IF status = "auth_expired" /\ auth[o].password # NoText /\ ~again[o]
     THEN /\ auth' = [auth EXCEPT ![o] = ClearedAuth(@)]
          /\ again' = [again EXCEPT ![o] = TRUE]
          /\ Goes(o, "login") /\ UNCHANGED <<at, got>>
     ELSE Goes(o, "save") /\ Learns(o, status) /\ UNCHANGED <<at, auth, again>>

LastAttempt(o) == attempt[o] >= CheckinMaxNetworkAttempts

Answered(o, r) ==
  IF ShouldRetryCheckinAttempt(r.http) /\ ~LastAttempt(o)
  THEN attempt' = [attempt EXCEPT ![o] = @ + 1] /\ UNCHANGED <<pc, got, auth, at, again>>
  ELSE Judge(o, r)

CallCheckin(o) ==
  /\ pc[o] = "call" /\ kind[o] = "checkin"
  /\ UNCHANGED visited \/ (Signed(auth[o]) /\ visited' = TRUE)
  /\ \/ \E r \in Replies :
          /\ Answered(o, r)
          /\ misled' = IF Misleads(r) /\ ~visited' THEN misled \cup {o} ELSE misled
     \/ Answered(o, Reply(0, {})) /\ UNCHANGED misled        \* the call or its answer is lost
  /\ UNCHANGED <<row, store, kind, live, issued, windows>>

\* One transaction, the log and the account, or neither; Run then returns, and what it
\* knew is gone.
SaveResult(o) ==
  /\ pc[o] = "save"
  /\ Updates([row EXCEPT !.checkin = IF got[o].status = NoText THEN "unsupported"
                                     ELSE got[o].status])
  /\ Goes(o, "done")
  /\ got' = [got EXCEPT ![o] = Nothing]
  /\ at' = [at EXCEPT ![o] = 1] /\ attempt' = [attempt EXCEPT ![o] = 1]
  /\ again' = [again EXCEPT ![o] = FALSE]
  /\ UNCHANGED <<store, kind, auth, site, windows>>

-------------------------------------------------------------------------------
(* BalanceRefresher.Run: the first path with a number in its answer *)

NextBalancePath(o) ==
  /\ UNCHANGED <<row, got>>
  /\ IF at[o] < Len(BalanceDocs)
     THEN at' = [at EXCEPT ![o] = @ + 1] /\ UNCHANGED pc
     ELSE Goes(o, "done") /\ UNCHANGED at

CallBalance(o) ==
  /\ pc[o] = "call" /\ kind[o] = "balance"
  /\ \/ NextBalancePath(o)        \* absent, refused, failed, lost
     \/ /\ auth[o].key \/ Signed(auth[o])
        /\ \E doc \in BalanceDocs[at[o]] : \E result \in ParseBalance(doc, {}) :
             IF Parsed(result)
             THEN /\ Goes(o, "insert")
                  /\ got' = [got EXCEPT ![o].balance = result.balance]
                  /\ UNCHANGED <<row, at>>
             ELSE NextBalancePath(o)
  /\ UNCHANGED <<store, kind, auth, attempt, again, site, windows>>

\* The snapshot and the account are written in two statements.
InsertSnapshot(o) ==
  /\ pc[o] = "insert"
  /\ Goes(o, IF row.there THEN "bank" ELSE "done") /\ Knows(o)
  /\ UNCHANGED <<row, store, call, site, windows>>

SaveBalance(o) ==
  /\ pc[o] = "bank"
  /\ Updates([row EXCEPT !.balance = got[o].balance, !.login = "valid"])
  /\ Goes(o, "done") /\ Knows(o)
  /\ UNCHANGED <<store, call, site, windows>>

-------------------------------------------------------------------------------
(* AccountValidationService, and the marks of RetryPasswordLogin *)

LoginVerdict(http) ==
  IF http = 200 THEN "valid" ELSE IF ~Authorized(http) THEN "expired" ELSE "unknown"

TestLogin(o) ==
  /\ pc[o] = "call" /\ kind[o] = "testLogin"
  /\ \E http \in (IF Signed(auth[o]) THEN {200} ELSE IF auth[o].key THEN {200, 401} ELSE {401}) \cup {0, 404} :
       Learns(o, LoginVerdict(http))
  /\ Goes(o, "mark")
  /\ UNCHANGED <<row, store, call, site, windows>>

\* Steps of TestAPIKey: 1 the model list, 2 a call of one model, 3 and 4 the probes.
KeyVerdict(step, http) ==
  IF ~Authorized(http) THEN "expired"
  ELSE IF step = 2 \/ Ok(http) THEN "valid" ELSE "unknown"

NextKeyStep(step, http, models) ==
  IF step = 1 /\ Ok(http) /\ models # {} THEN 2
  ELSE IF step \in {1, 3} /\ Authorized(http) /\ ~Ok(http) THEN IF step = 1 THEN 3 ELSE 4
  ELSE 0

TestAPIKey(o) ==
  /\ pc[o] = "call" /\ kind[o] = "testKey"
  /\ \E http \in {0, 200, 401, 404}, doc \in KeyDocs :
       LET next == NextKeyStep(at[o], http, ParseModelIDs(doc)) IN
       /\ Learns(o, KeyVerdict(at[o], http))
       /\ IF next # 0 THEN at' = [at EXCEPT ![o] = next] /\ UNCHANGED pc
          ELSE Goes(o, "mark") /\ UNCHANGED at
  /\ UNCHANGED <<row, store, kind, auth, attempt, again, site, windows>>

MarkStatus(o) ==
  /\ pc[o] = "mark"
  /\ LET s == got[o].status IN
     Updates(IF kind[o] = "testKey"
             THEN [row EXCEPT !.keyStatus = s,
                              !.login = IF s \in {"valid", "expired"} THEN s ELSE @]
             ELSE [row EXCEPT !.login = s])
  /\ Goes(o, "done") /\ Knows(o)
  /\ UNCHANGED <<store, call, site, windows>>

-------------------------------------------------------------------------------
(* BrowserLoginService, its session store and the watchdog of each window *)

Look(o) ==
  /\ pc[o] = "look"
  /\ IF kind[o] = "open" THEN Goes(o, IF store = NoOp THEN "start" ELSE "done")
     ELSE Goes(o, IF store = NoOp THEN "done" ELSE "read")
  /\ Learns(o, store)
  /\ UNCHANGED <<row, store, call, site, windows>>

StartChrome(o) ==
  /\ pc[o] = "start"
  /\ windows' = [windows EXCEPT ![o] = "open"] /\ store' = o
  /\ Goes(o, "mark") /\ Learns(o, "manual_required")
  /\ UNCHANGED <<row, call, site>>

SignIn(o) ==
  /\ windows[o] = "open"
  /\ \E s \in {Sessions[i] : i \in DOMAIN Sessions} :
       Issues(s) /\ windows' = [windows EXCEPT ![o] = s]
  /\ UNCHANGED <<row, store, call, pc, got>>

Showing(w) == windows[w] \notin {"none", "gone", "reaped"}

CloseWindow(o) ==
  /\ Showing(o)
  /\ windows' = [windows EXCEPT ![o] = "gone"]
  /\ UNCHANGED <<row, store, call, pc, got, site>>

\* DeleteIfPIDMatches
ReapedStore_Any(o) == NoOp

ReapedStore(o) == IF store = o THEN NoOp ELSE store

Watchdog(o) ==
  /\ windows[o] = "gone"
  /\ windows' = [windows EXCEPT ![o] = "reaped"] /\ store' = ReapedStore(o)
  /\ UNCHANGED <<row, call, pc, got, site>>

ReadChrome(o) ==
  /\ pc[o] = "read"
  /\ LET w == windows[got[o].status] IN
     IF w \in {"open", "gone", "reaped"} THEN Goes(o, "done") /\ Knows(o)
     ELSE Goes(o, "hold") /\ got' = [got EXCEPT ![o].cookie = w]
  /\ UNCHANGED <<row, store, call, site, windows>>

SaveBrowser(o) ==
  /\ pc[o] = "hold"
  /\ Updates([row EXCEPT !.cookie = got[o].cookie, !.login = "valid"])
  /\ Goes(o, "drop") /\ Knows(o)
  /\ UNCHANGED <<store, call, site, windows>>

DropSession(o) ==
  /\ pc[o] = "drop" \/ (pc[o] = "load" /\ kind[o] = "clear")
  /\ store' = NoOp
  /\ Goes(o, IF kind[o] = "clear" THEN "write" ELSE "done") /\ Knows(o)
  /\ UNCHANGED <<row, call, site, windows>>

-------------------------------------------------------------------------------
(* The user's own changes *)

ClearSession(o) ==
  /\ pc[o] = "write" /\ kind[o] = "clear"
  /\ Updates([row EXCEPT !.cookie = NoText, !.login = "manual_required"])
  /\ Goes(o, "done") /\ Knows(o)
  /\ UNCHANGED <<store, call, site, windows>>

\* A blank field keeps its secret; the clear flag of a cookie decides its status.
Edited(r, e) ==
  LET cookie == e.cookie # NoText \/ e.clearCookie
      key == e.key \/ e.clearKey IN
  [r EXCEPT !.password = IF e.password # NoText THEN e.password ELSE @,
            !.token = IF e.token # NoText THEN e.token ELSE @,
            !.key = IF key THEN e.key ELSE @,
            !.keyStatus = IF ~key THEN @ ELSE IF e.key THEN "unchecked" ELSE "missing",
            !.cookie = IF cookie THEN e.cookie ELSE @,
            !.login = IF ~cookie THEN @ ELSE IF e.clearCookie THEN "manual_required" ELSE "valid"]

UpdateAccount(o) ==
  /\ pc[o] = "write" /\ kind[o] = "edit"
  /\ \E e \in Edits : Updates(Edited(row, e))
  /\ Goes(o, "done") /\ Knows(o)
  /\ UNCHANGED <<store, call, site, windows>>

DeleteAccount(o) ==
  /\ pc[o] = "load" /\ kind[o] = "delete"
  /\ row' = [row EXCEPT !.there = FALSE]
  /\ Goes(o, "done") /\ Knows(o)
  /\ UNCHANGED <<store, call, site, windows>>

-------------------------------------------------------------------------------
\* The site ends a session.
Expire ==
  /\ \E s \in live : live' = live \ {s}
  /\ UNCHANGED <<row, store, call, pc, got, issued, visited, misled, windows>>

Asks(o) == LoginRefused(o) \/ LoginAnswered(o) \/ CallCheckin(o) \/ CallBalance(o) \/ TestLogin(o) \/ TestAPIKey(o)
Writes(o) == SaveSession(o) \/ SaveResult(o) \/ InsertSnapshot(o) \/ SaveBalance(o) \/ MarkStatus(o)
Browses(o) == Look(o) \/ StartChrome(o) \/ ReadChrome(o) \/ SaveBrowser(o) \/ DropSession(o)
Changes(o) == ClearSession(o) \/ UpdateAccount(o) \/ DeleteAccount(o)
Step(o) == Load(o) \/ Asks(o) \/ Writes(o) \/ Browses(o) \/ Changes(o)

Next == Expire \/ \E o \in Ops : Step(o) \/ SignIn(o) \/ CloseWindow(o) \/ Watchdog(o)

Spec == Init /\ [][Next]_vars

-------------------------------------------------------------------------------
(* Properties *)

\* classifyCheckinResponse and callAPIWithRetry: an account is recorded as checked in
\* only if the site has checked it in, or has told the operation that records it so by an
\* answer that misleads.  No lost call, failed attempt, missing path, named refusal or
\* login page does it, in whatever order they come over paths, retries and logins.
StatusTruthful ==
  /\ row.checkin \in {"success", "already_checked"} => visited \/ misled # {}
  /\ \A o \in Ops :
       kind[o] = "checkin" /\ got[o].status \in {"success", "already_checked"} =>
         visited \/ o \in misled

\* AccountSessionService.Save and the other writers: no credential of the account turns
\* empty except by what its user does.
CredentialsKept ==
  [][(\E f \in {"cookie", "token", "password"} : row[f] # NoText /\ row'[f] = NoText)
        \/ (row.key /\ ~row'.key) \/ (row.user /\ ~row'.user)
     => \E o \in Ops : kind[o] \in {"edit", "clear"} /\ pc[o] = "write" /\ pc'[o] = "done"]_vars

\* browser_session_store.go:39, "avoid deleting a newer session that replaced the one it
\* was watching": the store lets go of an open window only for a newer one, or when the
\* session is saved or cleared.
OpenWindowIsKept ==
  [][\A w \in Ops :
       store = w /\ Showing(w) /\ store' # w =>
         \E o \in Ops : pc'[o] # pc[o] /\ (pc[o] \in {"drop", "start"} \/ kind[o] = "clear")]_vars

\* parseBalance: the balance shown is the one the site gave, wherever in the answer
\* its field is and in whatever order a map is walked, or unknown.
BalanceIsReported == row.balance \in Reported \cup {NoNumber}

===============================================================================
