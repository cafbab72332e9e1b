------------------------------ MODULE MCInventory ------------------------------
(* Two tasks of any kinds among two or three sites, one of which may be down. *)
EXTENDS Inventory

Answer(path, status, words, keys) ==
  [method |-> "GET", path |-> path, checkin |-> FALSE, status |-> status, words |-> words,
   json |-> keys # {}, top |-> keys, keys |-> keys, links |-> <<>>]

Panel == <<Answer("/api/status", 200, {"new-api"}, {"version", "success"}),
           Answer("/login", 200, {"<html", "<form", "password"}, {}),
           Answer("/api/user/self", 401, {}, {"message"}),
           [Answer("/api/user/checkin", 401, {}, {"message"}) EXCEPT !.checkin = TRUE]>>
MCFaces == [b \in {"b1", "b2", "b3", "b4"} |-> IF b = "b1" THEN {Panel, <<>>} ELSE {Panel}]

MCBaseOf == [u \in {"", "b1", "b1/v1", "b2", "b3", "b4"} |-> IF u = "b1/v1" THEN "b1" ELSE u]
MCLower == [n \in {"Ann", "ann", "Bob"} |-> IF n = "Ann" THEN "ann" ELSE n]

Record(id, url, state, kind, key) == [id |-> id, url |-> url, state |-> state, kind |-> kind, key |-> key]
R1 == Record(1, "b1/v1", "on", "newapi", "k1")
R2 == Record(2, "b2", "on", "unknown", "")
MCExcludedUrls == {"b4"}
MCSources == {<<R1, R2, Record(3, "b4", "on", "newapi", "")>>, <<R2, [R2 EXCEPT !.id = 3]>>, <<Record(0, "b2", "on", "newapi", "k2"), [R1 EXCEPT !.url = "b1", !.key = "k3"]>>}

Imported1 == [NewChannel(1, "instance", 1, "b1/v1", "newapi") EXCEPT !.key = "k1", !.state = "off"]
Site(id, chan, base, login, from) ==
  SiteRow(id, chan, base, [login |-> login, source |-> from], "newapi", TRUE)
MCStarts ==
  {[channels |-> {}, sites |-> {}, accounts |-> {}],
   [channels |-> {Imported1},
    sites |-> {Site(1, 1, "b1", <<"b1", "/login">>, "fallback"), Site(2, 0, "b2", <<"b2", "/login">>, "")},
    accounts |-> {Account(1, 1, "Ann", "file"), Account(2, 2, "Bob", "user")}]}

Typed == <<"typed", "page">>
Sync(api, keys, detect) ==
  [what |-> "sync", api |-> api, token |-> "t", save |-> TRUE, clear |-> FALSE, keys |-> keys,
   sites |-> TRUE, detect |-> detect]
SavedOnly == [Sync(TRUE, TRUE, FALSE) EXCEPT !.token = "", !.clear = TRUE, !.sites = FALSE]
Marking(api) == [what |-> "mark", api |-> api, token |-> IF api THEN "t" ELSE "", save |-> FALSE, clear |-> FALSE]
NewSite(url, login, prefer) == [what |-> "site", url |-> url, login |-> login, prefer |-> prefer]
NewAccount(url, login) ==
  [what |-> "account", url |-> url, login |-> login, prefer |-> "unknown", who |-> "Bob"]
Edit(url, login, shared) ==
  [what |-> "edit", account |-> 1, url |-> url, login |-> login, prefer |-> "unknown", shared |-> shared]
Legacy(url, login, who) == [what |-> "legacy", url |-> url, login |-> login, rule |-> TRUE, who |-> who]
Chrome == [what |-> "chrome", rows |-> {<<"b1", "Ann">>, <<"b1/v1", "ann">>, <<"b2", "Bob">>}]

MCTasks ==
  <<Sync(TRUE, TRUE, FALSE), Sync(FALSE, TRUE, FALSE), Sync(TRUE, FALSE, TRUE), SavedOnly,
    Marking(TRUE), Marking(FALSE),
    [what |-> "detect", site |-> 1], [what |-> "bulk", site |-> 1], [what |-> "delete", site |-> 1],
    [what |-> "delete", site |-> 2],
    NewSite("b2", NoLogin, "unknown"), NewSite("b3", NoLogin, "oneapi"),
    NewAccount("b1", Typed), NewAccount("b2", NoLogin),
    Edit(NoUrl, Typed, FALSE), Edit("b2", NoLogin, TRUE), Edit("b3", Typed, TRUE), Edit("b2", NoLogin, FALSE),
    Legacy("b1/v1", NoLogin, "ann"), Legacy("b2", <<"b2", "/signin">>, "Bob"), Chrome>>
MCMeetings == {[o \in Ops |-> MCTasks[IF o = "o1" THEN p[1] ELSE p[2]]] :
                 p \in {q \in (1..21) \X (1..21) : q[1] <= q[2]}}
===============================================================================
