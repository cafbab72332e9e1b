---------------------------- MODULE MCAccountAccess ----------------------------
(* Two operations of any kinds on one account, at a site with two check-in paths. *)
EXTENDS AccountAccess

Account(cookie, token, key, password) ==
  [there |-> TRUE, cookie |-> cookie, token |-> token, user |-> FALSE, key |-> key,
   password |-> password, login |-> "unknown", keyStatus |-> NoText, checkin |-> NoText,
   balance |-> NoNumber]

MCAccounts ==
  {Account("s0", NoText, FALSE, "right"), Account("s0", NoText, TRUE, NoText),
   Account(NoText, "s0", FALSE, "wrong"), Account(NoText, NoText, FALSE, NoText)}

Edit(password, key, clearKey, cookie, clearCookie) ==
  [password |-> password, token |-> NoText, key |-> key, clearKey |-> clearKey,
   cookie |-> cookie, clearCookie |-> clearCookie]

MCEdits == {Edit("right", TRUE, FALSE, NoText, FALSE), Edit(NoText, FALSE, TRUE, NoText, TRUE),
            Edit(NoText, FALSE, FALSE, "typed", FALSE)}

Rule(method, path) == [method |-> method, path |-> path]
MCRules == <<Rule("POST", "/api/user/checkin"), Rule("POST", NoText)>>
MCPreferred == <<Rule("POST", "/api/user/checkin")>>
MCGeneral == <<Rule("POST", "/api/user/checkin"), Rule("GET", "/api/user/checkin")>>

\* Nothing to recognise, a login page, a failure, two with a reason, and "today".
MCCheckinBodies ==
  {{}, {"login", "html"}, {"false"}, {"disabled", "false"}, {"turnstile"}, {"already", "false"}}

User(extra) == Map([data |-> Map([id |-> Num(7)] @@ extra), success |-> Flag(TRUE)])

MCLoginDocs(s) ==
  {[cookie |-> NoText, body |-> User([token |-> Text(s)])],
   [cookie |-> s, body |-> User([access_token |-> Null])],
   [cookie |-> NoText, body |-> Map([success |-> Flag(FALSE)])]}

\* A subscription without a balance; a user with a group; a quota spelt as a string; what
\* was used and what remains in maps side by side.
MCBalanceDocs ==
  <<{Map([hard_limit_usd |-> Num(8)]), Map([message |-> Text("no")])},
    {Map([data |-> Map([quota |-> Num(5), used_quota |-> Num(3),
                        group |-> Map([quota |-> Num(9)])])]),
     Map([data |-> List(<<Map([used |-> Num(3)]), Map([remaining |-> Digits(5)])>>)]),
     Map([stats |-> Map([used_quota |-> Num(3)]), wallet |-> Map([remaining |-> Num(5)]),
          plan |-> Map([limit |-> Num(9)])])}>>

MCSessions == <<"s1", "s2">>

\* Every two kinds once.
MCKinds == <<"checkin", "balance", "testLogin", "testKey", "relogin", "open", "finish", "clear",
             "edit", "delete">>
MCMeetings == {[o \in Ops |-> MCKinds[IF o = "o1" THEN i ELSE j]] :
                 <<i, j>> \in {p \in (1..10) \X (1..10) : p[1] <= p[2]}}

MCKeyDocs == {Map([data |-> List(<<Map([id |-> Text("gpt-4")])>>)]), Map([data |-> List(<<>>)])}

===============================================================================
