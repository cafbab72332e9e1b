-------------------------- MODULE AccountAccess_proofs --------------------------
(***************************************************************************)
(* Theorems about AccountAccess, for any number of operations of any kinds *)
(* on any account, any answers, sessions and paths of the site, and calls  *)
(* that may all be lost.                                                   *)
(***************************************************************************)
EXTENDS AccountAccess, WellFoundedInduction, TLAPS

-------------------------------------------------------------------------------
(* Where each kind of operation goes *)

StepsOf(k) ==
  CASE k = "checkin"   -> {"load", "login", "keep", "call", "save", "done"}
    [] k = "balance"   -> {"load", "login", "keep", "call", "insert", "bank", "done"}
    [] k = "testKey"   -> {"load", "call", "mark", "done"}
    [] k = "testLogin" -> {"load", "call", "mark", "done"}
    [] k = "relogin"   -> {"load", "login", "keep", "mark", "done"}
    [] k = "open"      -> {"load", "look", "start", "mark", "done"}
    [] k = "finish"    -> {"load", "look", "read", "hold", "drop", "done"}
    [] k = "edit"      -> {"load", "write", "done"}
    [] k = "clear"     -> {"load", "write", "done"}
    [] k = "delete"    -> {"load", "done"}

Learnt == {"status", "cookie", "token", "user", "balance"}

Shape ==
  /\ DOMAIN row = AccountFields
  /\ store \in Ops \cup {NoOp}
  /\ kind \in [Ops -> Kinds]
  /\ DOMAIN pc = Ops /\ DOMAIN again = Ops /\ DOMAIN windows = Ops /\ DOMAIN got = Ops
  /\ \A o \in Ops : DOMAIN got[o] = Learnt

\* An operation takes the steps of its kind; only a check-in logs in again.
Control == \A o \in Ops : pc[o] \in StepsOf(kind[o]) /\ (again[o] => kind[o] = "checkin")

Moves(o) == \E step \in StepsOf(kind[o]) : Goes(o, step)
LogsInAgain(o) ==
  \/ UNCHANGED again
  \/ again' = [again EXCEPT ![o] = FALSE]
  \/ kind[o] = "checkin" /\ again' = [again EXCEPT ![o] = TRUE]

Remembers(o) == UNCHANGED got \/ \E g : DOMAIN g = Learnt /\ got' = [got EXCEPT ![o] = g]

\* What a step of one operation changes of it, and what it leaves to the others.
Works(o) == LogsInAgain(o) /\ (UNCHANGED pc \/ Moves(o)) /\ Remembers(o)

Frame(o) ==
  /\ Works(o) /\ kind' = kind
  /\ DOMAIN row' = AccountFields
  /\ DOMAIN windows' = Ops /\ store' \in Ops \cup {NoOp}

LEMMA UpdatesShape ==
  ASSUME DOMAIN row = AccountFields, NEW r, DOMAIN r = AccountFields, Updates(r)
  PROVE  DOMAIN row' = AccountFields
BY DEF Updates

LEMMA LearnsShape ==
  ASSUME Shape, NEW o \in Ops, NEW status, Learns(o, status)
  PROVE  Remembers(o)
<1>. DEFINE g == [got[o] EXCEPT !.status = status]
<1>1. DOMAIN g = Learnt BY DEF Shape
<1>2. got' = [got EXCEPT ![o] = g] BY DEF Learns
<1>. QED BY <1>1, <1>2 DEF Remembers

LEMMA FirstStepInKind ==
  ASSUME NEW k \in Kinds, k \notin {"clear", "delete"}, NEW a
  PROVE  FirstStep(k, a) \in StepsOf(k)
BY DEF Kinds, FirstStep, EnsureStep, StepsOf

LEMMA LoginFailsWorks ==
  ASSUME Shape, Control, NEW o \in Ops, pc[o] = "login", LoginFails(o)
  PROVE  Works(o)
<1>1. CASE attempt[o] < LoginTries BY <1>1 DEF LoginFails, LogsInAgain, Works, Remembers
<1>2. CASE ~(attempt[o] < LoginTries)
  <2>. DEFINE step == IF again[o] THEN "save" ELSE AfterLoginFailed(o)
  <2>1. Goes(o, step) /\ Learns(o, LoginFailedStatus(step)) /\ again' = [again EXCEPT ![o] = FALSE]
    BY <1>2 DEF LoginFails
  <2>2. kind[o] \in {"checkin", "balance", "relogin"} BY DEF Shape, Control, StepsOf, Kinds
  <2>3. step \in StepsOf(kind[o]) BY <2>2 DEF Control, StepsOf, AfterLoginFailed
  <2>. QED BY <2>1, <2>3, LearnsShape DEF Moves, LogsInAgain, Works
<1>. QED BY <1>1, <1>2

LEMMA NextCandidateWorks ==
  ASSUME Shape, Control, NEW o \in Ops, kind[o] = "checkin", NEW status, NextCandidate(o, status)
  PROVE  Works(o)
<1>1. Learns(o, status) /\ again' = [again EXCEPT ![o] = FALSE] BY DEF NextCandidate
<1>2. UNCHANGED pc \/ Goes(o, "save") BY DEF NextCandidate
<1>3. "save" \in StepsOf(kind[o]) BY DEF StepsOf
<1>. QED BY <1>1, <1>2, <1>3, LearnsShape DEF LogsInAgain, Moves, Works

\* Every answer to a check-in, however it is judged.
LEMMA AnsweredWorks ==
  ASSUME Shape, Control, NEW o \in Ops, kind[o] = "checkin", NEW r, Answered(o, r)
  PROVE  Works(o)
<1>1. CASE UNCHANGED <<pc, got, again>> BY <1>1 DEF Works, LogsInAgain, Remembers
<1>2. CASE Judge(o, r)
  <2>. DEFINE status == ClassifyCheckinResponse(r.http, r.words)
  <2>1. CASE NextCandidate(o, "failed") BY <2>1, NextCandidateWorks
  <2>2. CASE NextCandidate(o, got[o].status) BY <2>2, NextCandidateWorks
  <2>3. CASE again' = [again EXCEPT ![o] = TRUE] /\ Goes(o, "login") /\ UNCHANGED got
    BY <2>3 DEF Works, LogsInAgain, Remembers, Moves, StepsOf
  <2>4. CASE Goes(o, "save") /\ Learns(o, status) /\ UNCHANGED again
    BY <2>4, LearnsShape DEF Works, LogsInAgain, Moves, StepsOf
  <2>. QED BY <1>2, <2>1, <2>2, <2>3, <2>4 DEF Judge
<1>. QED BY <1>1, <1>2 DEF Answered

\* A login that opened a session with this cookie or token.
Keeps(o, cookie, token, user) ==
  /\ Goes(o, "keep") /\ UNCHANGED again
  /\ got' = [got EXCEPT ![o] = [@ EXCEPT !.cookie = cookie, !.token = token, !.user = user]]

LEMMA LoginAnswers ==
  ASSUME NEW o \in Ops, LoginAnswered(o)
  PROVE  LoginFails(o) \/ \E c, t, u : Keeps(o, c, t, u)
<1>1. PICK s : \/ LoginFails(o)
               \/ \E d \in LoginDocs(s) :
                  \E token \in ExtractToken(d.body), id \in ExtractUserID(d.body) :
                    IF LoginKept(d, token) THEN Keeps(o, d.cookie, token, id # NoNumber)
                    ELSE LoginFails(o)
  BY DEF LoginAnswered, Keeps
<1>. QED BY <1>1

LEMMA StepFrame ==
  ASSUME Shape, Control, NEW o \in Ops, Step(o)
  PROVE  Frame(o)
<1>k. kind[o] \in Kinds BY DEF Shape
<1>c. pc[o] \in StepsOf(kind[o]) /\ (again[o] => kind[o] = "checkin") BY DEF Control
<1>r. DOMAIN row = AccountFields /\ DOMAIN windows = Ops /\ store \in Ops \cup {NoOp} BY DEF Shape
<1>n. Knows(o) => Remembers(o) BY DEF Knows, Remembers
<1>1. ASSUME Load(o) PROVE Frame(o)
  <2>. DEFINE step == IF row.there THEN FirstStep(kind[o], row) ELSE "done"
  <2>1. Goes(o, step) /\ Learns(o, FirstStatus(step)) /\ kind[o] \notin {"clear", "delete"}
        /\ UNCHANGED <<row, store, kind, again, windows>>
    BY <1>1 DEF Load
  <2>2. step \in StepsOf(kind[o]) BY <1>k, <2>1, FirstStepInKind DEF StepsOf, Kinds
  <2>. QED BY <2>1, <2>2, <1>r, LearnsShape DEF Frame, Works, LogsInAgain, Moves
<1>2. ASSUME LoginRefused(o) PROVE Frame(o)
  BY <1>2, <1>r, LoginFailsWorks DEF LoginRefused, Frame
<1>3. ASSUME LoginAnswered(o) PROVE Frame(o)
  <2>1. pc[o] = "login" /\ UNCHANGED <<row, store, kind, windows>> BY <1>3 DEF LoginAnswered
  <2>2. LoginFails(o) \/ \E c, t, u : Keeps(o, c, t, u) BY <1>3, LoginAnswers
  <2>3. CASE LoginFails(o) BY <2>1, <2>3, <1>r, LoginFailsWorks DEF Frame
  <2>4. ASSUME NEW c, NEW t, NEW u, Keeps(o, c, t, u) PROVE Frame(o)
    <3>. DEFINE g == [got[o] EXCEPT !.cookie = c, !.token = t, !.user = u]
    <3>1. DOMAIN g = Learnt /\ got' = [got EXCEPT ![o] = g] BY <2>4 DEF Shape, Keeps
    <3>2. "keep" \in StepsOf(kind[o]) BY <2>1, <1>c, <1>k DEF StepsOf, Kinds
    <3>. QED BY <2>1, <2>4, <3>1, <3>2, <1>r DEF Frame, Works, LogsInAgain, Remembers, Moves, Keeps
  <2>. QED BY <2>2, <2>3, <2>4
<1>4. ASSUME CallCheckin(o) PROVE Frame(o)
  <2>1. kind[o] = "checkin" /\ UNCHANGED <<row, store, kind, windows>> BY <1>4 DEF CallCheckin
  <2>2. \E r : Answered(o, r) BY <1>4 DEF CallCheckin
  <2>. QED BY <2>1, <2>2, <1>r, AnsweredWorks DEF Frame
<1>5. ASSUME CallBalance(o) PROVE Frame(o)
  <2>1. kind[o] = "balance" /\ UNCHANGED <<row, store, kind, again, windows>>
    BY <1>5 DEF CallBalance, NextBalancePath
  <2>2. \/ UNCHANGED got /\ (UNCHANGED pc \/ Goes(o, "done"))
        \/ Goes(o, "insert") /\ \E b : got' = [got EXCEPT ![o].balance = b]
    BY <1>5 DEF CallBalance, NextBalancePath
  <2>3. {"done", "insert"} \subseteq StepsOf(kind[o]) BY <2>1 DEF StepsOf
  <2>4. Remembers(o)
    <3>1. ASSUME NEW b, got' = [got EXCEPT ![o].balance = b] PROVE Remembers(o)
      <4>. DEFINE g == [got[o] EXCEPT !.balance = b]
      <4>1. DOMAIN g = Learnt /\ got' = [got EXCEPT ![o] = g] BY <3>1 DEF Shape
      <4>. QED BY <4>1 DEF Remembers
    <3>. QED BY <2>2, <3>1 DEF Remembers
  <2>. QED BY <2>1, <2>2, <2>3, <2>4, <1>r DEF Frame, Works, LogsInAgain, Moves
<1>6. ASSUME TestLogin(o) PROVE Frame(o)
  <2>1. kind[o] = "testLogin" /\ UNCHANGED <<row, store, kind, again, windows>> /\ Goes(o, "mark")
    BY <1>6 DEF TestLogin, call
  <2>2. \E status : Learns(o, status) BY <1>6 DEF TestLogin
  <2>. QED BY <2>1, <2>2, <1>r, LearnsShape DEF Frame, Works, LogsInAgain, Moves, StepsOf
<1>7. ASSUME TestAPIKey(o) PROVE Frame(o)
  <2>1. kind[o] = "testKey" /\ UNCHANGED <<row, store, kind, again, windows>>
    BY <1>7 DEF TestAPIKey
  <2>2. \E status : Learns(o, status) BY <1>7 DEF TestAPIKey
  <2>3. UNCHANGED pc \/ Goes(o, "mark") BY <1>7 DEF TestAPIKey
  <2>. QED BY <2>1, <2>2, <2>3, <1>r, LearnsShape DEF Frame, Works, LogsInAgain, Moves, StepsOf
<1>8. ASSUME SaveSession(o) PROVE Frame(o)
  <2>. DEFINE r == [Merged(row, got[o]) EXCEPT !.login = "valid"]
              step == IF kind[o] = "relogin" THEN "done" ELSE "call"
  <2>1. pc[o] = "keep" /\ Updates(r) /\ Goes(o, step) /\ UNCHANGED <<store, kind, again, windows>>
    BY <1>8 DEF SaveSession
  <2>g. Remembers(o)
    <3>. DEFINE g == [Nothing EXCEPT !.status = got[o].status]
    <3>1. DOMAIN g = Learnt /\ got' = [got EXCEPT ![o] = g] BY <1>8 DEF SaveSession, Nothing, Learnt
    <3>. QED BY <3>1 DEF Remembers
  <2>2. DOMAIN r = AccountFields BY <1>r DEF Merged
  <2>3. DOMAIN row' = AccountFields BY <2>1, <2>2, <1>r, UpdatesShape
  <2>4. step \in StepsOf(kind[o]) BY <2>1, <1>c, <1>k DEF StepsOf, Kinds
  <2>. QED BY <2>1, <2>3, <2>4, <2>g, <1>r DEF Frame, Works, LogsInAgain, Moves
<1>9. ASSUME NEW step \in StepsOf(kind[o]), Goes(o, step), Knows(o), UNCHANGED <<store, call, windows>>,
             UNCHANGED row \/ \E r : DOMAIN r = AccountFields /\ Updates(r)
      PROVE  Frame(o)
  <2>1. DOMAIN row' = AccountFields BY <1>9, <1>r, UpdatesShape
  <2>. QED BY <1>9, <2>1, <1>r, <1>n DEF Frame, Works, LogsInAgain, Moves, call
<1>d. "done" \in StepsOf(kind[o]) BY <1>k DEF Kinds, StepsOf
<1>10. ASSUME SaveResult(o) PROVE Frame(o)
  <2>. DEFINE r == [row EXCEPT !.checkin = IF got[o].status = NoText THEN "unsupported"
                                           ELSE got[o].status]
  <2>1. Updates(r) /\ DOMAIN r = AccountFields BY <1>10, <1>r DEF SaveResult
  <2>2. DOMAIN row' = AccountFields BY <2>1, <1>r, UpdatesShape
  <2>3. DOMAIN Nothing = Learnt BY DEF Nothing, Learnt
  <2>4. /\ Goes(o, "done") /\ again' = [again EXCEPT ![o] = FALSE]
        /\ got' = [got EXCEPT ![o] = Nothing] /\ UNCHANGED <<store, kind, windows>>
    BY <1>10 DEF SaveResult
  <2>. QED BY <2>2, <2>3, <2>4, <1>d, <1>r DEF Frame, Works, LogsInAgain, Moves, Remembers
<1>11. ASSUME InsertSnapshot(o) PROVE Frame(o)
  <2>1. "bank" \in StepsOf(kind[o]) BY <1>11, <1>c, <1>k DEF InsertSnapshot, Kinds, StepsOf
  <2>. QED BY <2>1, <1>9, <1>11, <1>d DEF InsertSnapshot
<1>12. ASSUME SaveBalance(o) PROVE Frame(o)
  <2>. DEFINE r == [row EXCEPT !.balance = got[o].balance, !.login = "valid"]
  <2>1. Updates(r) /\ DOMAIN r = AccountFields BY <1>12, <1>r DEF SaveBalance
  <2>. QED BY <2>1, <1>9, <1>12, <1>d DEF SaveBalance
<1>13. ASSUME MarkStatus(o) PROVE Frame(o)
  <2>1. \E r : Updates(r) /\ DOMAIN r = AccountFields
    <3>. DEFINE s == got[o].status
                r == IF kind[o] = "testKey"
                     THEN [row EXCEPT !.keyStatus = s,
                                      !.login = IF s \in {"valid", "expired"} THEN s ELSE @]
                     ELSE [row EXCEPT !.login = s]
    <3>1. Updates(r) BY <1>13 DEF MarkStatus
    <3>2. DOMAIN r = AccountFields BY <1>r
    <3>. QED BY <3>1, <3>2
  <2>. QED BY <2>1, <1>9, <1>13, <1>d DEF MarkStatus
<1>14. ASSUME Look(o) PROVE Frame(o)
  <2>1. pc[o] = "look" /\ Learns(o, store) /\ UNCHANGED <<row, store, call, windows>> BY <1>14 DEF Look
  <2>2. \/ Goes(o, "done")
        \/ kind[o] = "open" /\ Goes(o, "start")
        \/ kind[o] # "open" /\ Goes(o, "read")
    BY <1>14 DEF Look
  <2>3. kind[o] \in {"open", "finish"} BY <2>1, <1>c, <1>k DEF Kinds, StepsOf
  <2>4. Moves(o) BY <2>2, <2>3 DEF Moves, StepsOf
  <2>. QED BY <2>1, <2>4, <1>r, LearnsShape DEF Frame, Works, LogsInAgain, call
<1>15. ASSUME StartChrome(o) PROVE Frame(o)
  <2>1. pc[o] = "start" /\ Learns(o, "manual_required") /\ Goes(o, "mark") /\ UNCHANGED <<row, call>>
    BY <1>15 DEF StartChrome
  <2>2. DOMAIN windows' = Ops /\ store' = o BY <1>15, <1>r DEF StartChrome
  <2>3. "mark" \in StepsOf(kind[o]) BY <2>1, <1>c, <1>k DEF Kinds, StepsOf
  <2>. QED BY <2>1, <2>2, <2>3, <1>r, LearnsShape DEF Frame, Works, LogsInAgain, Moves, call
<1>16. ASSUME ReadChrome(o) PROVE Frame(o)
  <2>. DEFINE w == windows[got[o].status]
              g == [got[o] EXCEPT !.cookie = w]
  <2>1. pc[o] = "read" /\ UNCHANGED <<row, store, call, windows>> BY <1>16 DEF ReadChrome
  <2>2. (Goes(o, "done") /\ Knows(o)) \/ (Goes(o, "hold") /\ got' = [got EXCEPT ![o] = g])
    BY <1>16 DEF ReadChrome
  <2>3. DOMAIN g = Learnt BY DEF Shape
  <2>4. Remembers(o) BY <2>2, <2>3, <1>n DEF Remembers
  <2>5. "hold" \in StepsOf(kind[o]) BY <2>1, <1>c, <1>k DEF Kinds, StepsOf
  <2>. QED BY <2>1, <2>2, <2>4, <2>5, <1>d, <1>r DEF Frame, Works, LogsInAgain, Moves, call
<1>17. ASSUME SaveBrowser(o) PROVE Frame(o)
  <2>. DEFINE r == [row EXCEPT !.cookie = got[o].cookie, !.login = "valid"]
  <2>1. Updates(r) /\ DOMAIN r = AccountFields BY <1>17, <1>r DEF SaveBrowser
  <2>2. "drop" \in StepsOf(kind[o]) BY <1>17, <1>c, <1>k DEF SaveBrowser, Kinds, StepsOf
  <2>. QED BY <2>1, <2>2, <1>9, <1>17 DEF SaveBrowser
<1>18. ASSUME DropSession(o) PROVE Frame(o)
  <2>. DEFINE step == IF kind[o] = "clear" THEN "write" ELSE "done"
  <2>1. Goes(o, step) /\ Knows(o) /\ UNCHANGED <<row, call, windows>> /\ store' = NoOp
    BY <1>18 DEF DropSession
  <2>2. step \in StepsOf(kind[o]) BY <1>k DEF Kinds, StepsOf
  <2>. QED BY <2>1, <2>2, <1>r, <1>n DEF Frame, Works, LogsInAgain, Moves, call
<1>19. ASSUME ClearSession(o) PROVE Frame(o)
  <2>. DEFINE r == [row EXCEPT !.cookie = NoText, !.login = "manual_required"]
  <2>1. Updates(r) /\ DOMAIN r = AccountFields BY <1>19, <1>r DEF ClearSession
  <2>. QED BY <2>1, <1>9, <1>19, <1>d DEF ClearSession
<1>20. ASSUME UpdateAccount(o) PROVE Frame(o)
  <2>1. PICK e \in Edits : Updates(Edited(row, e)) BY <1>20 DEF UpdateAccount
  <2>2. DOMAIN Edited(row, e) = AccountFields BY <1>r DEF Edited
  <2>. QED BY <2>1, <2>2, <1>9, <1>20, <1>d DEF UpdateAccount
<1>21. ASSUME DeleteAccount(o) PROVE Frame(o)
  <2>1. DOMAIN row' = AccountFields BY <1>21, <1>r DEF DeleteAccount
  <2>2. Goes(o, "done") /\ Knows(o) /\ UNCHANGED <<store, call, windows>> BY <1>21 DEF DeleteAccount
  <2>. QED BY <2>1, <2>2, <1>d, <1>r, <1>n DEF Frame, Works, LogsInAgain, Moves, call
<1>. QED
  BY <1>1, <1>2, <1>3, <1>4, <1>5, <1>6, <1>7, <1>8, <1>10, <1>11, <1>12, <1>13, <1>14, <1>15,
     <1>16, <1>17, <1>18, <1>19, <1>20, <1>21 DEF Step, Asks, Writes, Browses, Changes

Basics == Shape /\ Control

LEMMA BasicsInit == Init => Basics
<1>. SUFFICES ASSUME Init PROVE Basics OBVIOUS
<1>1. DOMAIN row = AccountFields BY AccountsAssumption DEF Init
<1>2. kind \in [Ops -> Kinds] BY MeetingsAssumption DEF Init
<1>3. \A o \in Ops : pc[o] = "load" /\ again[o] = FALSE /\ got[o] = Nothing BY DEF Init
<1>4. Control BY <1>2, <1>3 DEF Control, Kinds, StepsOf
<1>5. DOMAIN Nothing = Learnt BY DEF Nothing, Learnt
<1>. QED BY <1>1, <1>2, <1>3, <1>4, <1>5 DEF Basics, Shape, Init

LEMMA BasicsStep == Basics /\ [Next]_vars => Basics'
<1>. SUFFICES ASSUME Basics, [Next]_vars PROVE Basics' OBVIOUS
<1>1. ASSUME NEW o \in Ops, Step(o) PROVE Basics'
  <2>1. Frame(o) BY <1>1, StepFrame DEF Basics
  <2>2. Shape'
    <3>1. DOMAIN got' = Ops /\ \A p \in Ops : DOMAIN got'[p] = Learnt
      BY <2>1 DEF Basics, Shape, Frame, Works, Remembers
    <3>2. DOMAIN pc' = Ops BY <2>1 DEF Basics, Shape, Frame, Works, Moves, Goes
    <3>3. DOMAIN again' = Ops BY <2>1 DEF Basics, Shape, Frame, Works, LogsInAgain
    <3>. QED BY <2>1, <3>1, <3>2, <3>3 DEF Basics, Shape, Frame
  <2>3. Control'
    <3>1. \A p \in Ops : pc'[p] \in StepsOf(kind[p])
      BY <2>1 DEF Basics, Shape, Control, Frame, Works, Moves, Goes
    <3>2. \A p \in Ops : again'[p] => kind[p] = "checkin"
      BY <2>1 DEF Basics, Shape, Control, Frame, Works, LogsInAgain
    <3>. QED BY <2>1, <3>1, <3>2 DEF Control, Frame
  <2>. QED BY <2>2, <2>3 DEF Basics
<1>2. ASSUME UNCHANGED <<row, call, pc, got>>, store' \in {store, NoOp}, DOMAIN windows' = Ops
      PROVE  Basics'
  BY <1>2 DEF Basics, Shape, Control, call
<1>3. ASSUME Expire PROVE Basics' BY <1>2, <1>3 DEF Expire, Basics, Shape
<1>4. ASSUME NEW o \in Ops, SignIn(o) PROVE Basics' BY <1>2, <1>4 DEF SignIn, Basics, Shape
<1>5. ASSUME NEW o \in Ops, CloseWindow(o) PROVE Basics' BY <1>2, <1>5 DEF CloseWindow, Basics, Shape
<1>6. ASSUME NEW o \in Ops, Watchdog(o) PROVE Basics'
  BY <1>2, <1>6 DEF Watchdog, ReapedStore, Basics, Shape
<1>7. ASSUME UNCHANGED vars PROVE Basics' BY <1>2, <1>7 DEF vars, Basics, Shape
<1>. QED BY <1>1, <1>3, <1>4, <1>5, <1>6, <1>7 DEF Next

-------------------------------------------------------------------------------
(* What is recorded of a check-in *)

Checked == {"success", "already_checked"}

\* A check-in has learnt of a success, or of an earlier one, only from a site that has
\* checked the account in or has misled it.
Truthful(o) == kind[o] = "checkin" /\ got[o].status \in Checked => visited \/ o \in misled

StatusInv == StatusTruthful /\ \A o \in Ops : Truthful(o)

\* What is done, and what was said of it, stays so.
Lasts == (visited => visited') /\ misled \subseteq misled'

\* An answer that is read as a check-in is one that nobody can tell from it.
LEMMA ReadAsDoneMisleads ==
  ASSUME NEW r, ClassifyCheckinResponse(r.http, r.words) \in Checked
  PROVE  Misleads(r)
BY DEF ClassifyCheckinResponse, Authorized, Ok, Checked, Misleads

LEMMA LostIsNoSuccess == ClassifyCheckinResponse(0, {}) \notin Checked
BY DEF ClassifyCheckinResponse, Authorized, Ok, Checked

LEMMA LearnsStatus ==
  ASSUME Shape, NEW o \in Ops, NEW status, Learns(o, status)
  PROVE  got'[o].status = status
BY DEF Learns, Shape, Learnt

LEMMA AnsweredIsTruthful ==
  ASSUME Shape, NEW o \in Ops, kind[o] = "checkin", kind' = kind, Truthful(o), Lasts, NEW r, Answered(o, r),
         ClassifyCheckinResponse(r.http, r.words) \in Checked => visited' \/ o \in misled'
  PROVE  Truthful(o)'
<1>1. CASE UNCHANGED got BY <1>1 DEF Truthful, Lasts
<1>2. ASSUME NEW status, Learns(o, status), status \in Checked => visited' \/ o \in misled'
      PROVE  Truthful(o)'
  BY <1>2, LearnsStatus DEF Truthful
<1>3. "failed" \notin Checked BY DEF Checked
<1>4. ASSUME NEW status, NextCandidate(o, status), status \in Checked => visited' \/ o \in misled'
      PROVE  Truthful(o)'
  BY <1>2, <1>4 DEF NextCandidate
<1>5. CASE Judge(o, r)
  <2>1. \/ NextCandidate(o, "failed") \/ NextCandidate(o, got[o].status) \/ UNCHANGED got
        \/ Learns(o, ClassifyCheckinResponse(r.http, r.words))
    BY <1>5 DEF Judge
  <2>. QED BY <1>1, <1>2, <1>3, <1>4, <2>1 DEF Truthful, Lasts
<1>. QED BY <1>1, <1>5 DEF Answered

LEMMA CallIsTruthful ==
  ASSUME Shape, NEW o \in Ops, Truthful(o), CallCheckin(o)
  PROVE  Truthful(o)' /\ Lasts
<1>1. kind[o] = "checkin" /\ kind' = kind /\ (visited => visited') BY DEF CallCheckin
<1>2. ASSUME NEW r \in Replies, Answered(o, r),
             misled' = IF Misleads(r) /\ ~visited' THEN misled \cup {o} ELSE misled
      PROVE  Truthful(o)' /\ Lasts
  <2>1. Lasts BY <1>1, <1>2 DEF Lasts
  <2>2. ClassifyCheckinResponse(r.http, r.words) \in Checked => visited' \/ o \in misled'
    BY <1>2, ReadAsDoneMisleads
  <2>. QED BY <1>1, <1>2, <2>1, <2>2, AnsweredIsTruthful
<1>3. ASSUME Answered(o, Reply(0, {})), UNCHANGED misled PROVE Truthful(o)' /\ Lasts
  <2>1. Reply(0, {}).http = 0 /\ Reply(0, {}).words = {} BY DEF Reply
  <2>2. Lasts BY <1>1, <1>3 DEF Lasts
  <2>. QED BY <1>1, <1>3, <2>1, <2>2, LostIsNoSuccess, AnsweredIsTruthful
<1>. QED BY <1>2, <1>3 DEF CallCheckin

LEMMA LoginFailsIsTruthful ==
  ASSUME Shape, NEW o \in Ops, Truthful(o), LoginFails(o), kind' = kind, Lasts
  PROVE  Truthful(o)'
<1>1. CASE UNCHANGED got BY <1>1 DEF Truthful, Lasts
<1>2. ASSUME NEW step, Learns(o, LoginFailedStatus(step)) PROVE Truthful(o)'
  <2>1. LoginFailedStatus(step) \notin Checked BY DEF LoginFailedStatus, Checked, NoText
  <2>. QED BY <1>2, <2>1, LearnsStatus DEF Truthful
<1>. QED BY <1>1, <1>2 DEF LoginFails

\* The steps that write the account.
Writing(o) ==
  SaveSession(o) \/ SaveResult(o) \/ SaveBalance(o) \/ MarkStatus(o) \/ SaveBrowser(o) \/ Changes(o)

LEMMA RowsWriters ==
  ASSUME NEW o \in Ops, Step(o)
  PROVE  UNCHANGED row \/ Writing(o)
<1>1. Load(o) => UNCHANGED row BY DEF Load
<1>2. Asks(o) => UNCHANGED row
  BY DEF Asks, LoginRefused, LoginAnswered, CallCheckin, CallBalance, NextBalancePath, TestLogin, TestAPIKey
<1>3. InsertSnapshot(o) => UNCHANGED row BY DEF InsertSnapshot
<1>4. Look(o) \/ StartChrome(o) \/ ReadChrome(o) \/ DropSession(o) => UNCHANGED row
  BY DEF Look, StartChrome, ReadChrome, DropSession
<1>. QED BY <1>1, <1>2, <1>3, <1>4 DEF Step, Writes, Browses, Writing

\* A write of the account, and the field that only SaveResult changes.
LEMMA CheckinsWriter ==
  ASSUME Shape, NEW o \in Ops, Writing(o)
  PROVE  row'.checkin = row.checkin \/ SaveResult(o)
<1>r. DOMAIN row = AccountFields BY DEF Shape
<1>1. ASSUME NEW r, Updates(r), r.checkin = row.checkin PROVE row'.checkin = row.checkin
  BY <1>1 DEF Updates
<1>2. SaveSession(o) => row'.checkin = row.checkin
  <2>1. [Merged(row, got[o]) EXCEPT !.login = "valid"].checkin = row.checkin
    BY <1>r DEF Merged, AccountFields
  <2>. QED BY <1>1, <2>1 DEF SaveSession
<1>3. SaveBalance(o) => row'.checkin = row.checkin
  <2>1. [row EXCEPT !.balance = got[o].balance, !.login = "valid"].checkin = row.checkin
    BY <1>r DEF AccountFields
  <2>. QED BY <1>1, <2>1 DEF SaveBalance
<1>4. MarkStatus(o) => row'.checkin = row.checkin BY <1>r DEF MarkStatus, Updates, AccountFields
<1>5. SaveBrowser(o) => row'.checkin = row.checkin BY <1>r DEF SaveBrowser, Updates, AccountFields
<1>6. Changes(o) => row'.checkin = row.checkin
  BY <1>r DEF Changes, ClearSession, UpdateAccount, DeleteAccount, Edited, Updates, AccountFields
<1>. QED BY <1>2, <1>3, <1>4, <1>5, <1>6 DEF Writing

LEMMA WhatIsSaidLasts ==
  ASSUME Shape, NEW o \in Ops, Truthful(o), Step(o)
  PROVE  Lasts
<1>1. CASE CallCheckin(o) BY <1>1, CallIsTruthful
<1>2. LoginAnswered(o) => UNCHANGED <<visited, misled>> BY DEF LoginAnswered, Issues
<1>3. LoginRefused(o) \/ CallBalance(o) \/ TestLogin(o) \/ TestAPIKey(o) => UNCHANGED <<visited, misled>>
  BY DEF LoginRefused, CallBalance, TestLogin, TestAPIKey, site
<1>4. Load(o) \/ Writes(o) \/ Changes(o) => UNCHANGED <<visited, misled>>
  BY DEF Load, Writes, SaveSession, SaveResult, InsertSnapshot, SaveBalance, MarkStatus, Changes,
         ClearSession, UpdateAccount, DeleteAccount, site
<1>5. Browses(o) => UNCHANGED <<visited, misled>>
  BY DEF Browses, Look, StartChrome, ReadChrome, SaveBrowser, DropSession, site
<1>6. UNCHANGED <<visited, misled>> => Lasts BY DEF Lasts
<1>. QED BY <1>1, <1>2, <1>3, <1>4, <1>5, <1>6 DEF Step, Asks

LEMMA StepIsTruthful ==
  ASSUME Basics, NEW o \in Ops, Truthful(o), Step(o)
  PROVE  Truthful(o)'
<1>s. Shape BY DEF Basics
<1>f. kind' = kind /\ Lasts BY <1>s, StepFrame, WhatIsSaidLasts DEF Basics, Frame
<1>1. CASE kind[o] # "checkin" BY <1>1, <1>f DEF Truthful
<1>2. CASE kind[o] = "checkin"
  <2>1. pc[o] \in {"load", "login", "keep", "call", "save", "done"} BY <1>2 DEF Basics, Control, StepsOf
  <2>2. ASSUME got'[o].status \in {got[o].status, NoText} PROVE Truthful(o)'
    BY <2>2, <1>f DEF Truthful, Lasts, Checked, NoText
  <2>3. ASSUME Load(o) PROVE Truthful(o)'
    <3>1. PICK step : Learns(o, FirstStatus(step)) BY <2>3 DEF Load
    <3>2. FirstStatus(step) \notin Checked BY DEF FirstStatus, Checked, NoText
    <3>. QED BY <3>1, <3>2, <1>s, LearnsStatus DEF Truthful
  <2>4. ASSUME LoginRefused(o) PROVE Truthful(o)'
    BY <2>4, <1>s, <1>f, LoginFailsIsTruthful DEF LoginRefused
  <2>5. ASSUME LoginAnswered(o) PROVE Truthful(o)'
    <3>1. LoginFails(o) \/ \E c, t, u : Keeps(o, c, t, u) BY <2>5, LoginAnswers
    <3>2. ASSUME NEW c, NEW t, NEW u, Keeps(o, c, t, u) PROVE Truthful(o)'
      <4>1. got'[o].status = got[o].status BY <3>2, <1>s DEF Keeps, Shape, Learnt
      <4>. QED BY <4>1, <2>2
    <3>. QED BY <3>1, <3>2, <1>s, <1>f, LoginFailsIsTruthful
  <2>6. ASSUME CallCheckin(o) PROVE Truthful(o)' BY <2>6, <1>s, CallIsTruthful
  <2>7. ASSUME Writes(o) \/ SaveBrowser(o) \/ DropSession(o) \/ Changes(o) PROVE Truthful(o)'
    <3>1. UNCHANGED got \/ SaveSession(o) \/ SaveResult(o)
      BY <2>7 DEF Writes, InsertSnapshot, SaveBalance, MarkStatus, SaveBrowser,
                  DropSession, Changes, ClearSession, UpdateAccount, DeleteAccount, Knows
    <3>2. got'[o].status \in {got[o].status, NoText}
      BY <3>1, <1>s DEF SaveSession, SaveResult, Nothing, Shape
    <3>. QED BY <3>2, <2>2
  <2>8. ~CallBalance(o) /\ ~TestLogin(o) /\ ~TestAPIKey(o)
    BY <1>2 DEF CallBalance, TestLogin, TestAPIKey
  <2>9. ~Look(o) /\ ~StartChrome(o) /\ ~ReadChrome(o) BY <2>1 DEF Look, StartChrome, ReadChrome
  <2>. QED BY <2>3, <2>4, <2>5, <2>6, <2>7, <2>8, <2>9 DEF Step, Asks, Browses
<1>. QED BY <1>1, <1>2

LEMMA StatusStep == Basics /\ StatusInv /\ [Next]_vars => StatusInv'
<1>. SUFFICES ASSUME Basics, StatusInv, [Next]_vars PROVE StatusInv' OBVIOUS
<1>1. ASSUME NEW o \in Ops, Step(o) PROVE StatusInv'
  <2>f. Frame(o) /\ Shape BY <1>1, StepFrame DEF Basics
  <2>v. Lasts BY <1>1, <2>f, WhatIsSaidLasts DEF StatusInv
  <2>1. ASSUME NEW p \in Ops PROVE Truthful(p)'
    <3>1. CASE p = o BY <3>1, <1>1, StepIsTruthful DEF StatusInv
    <3>2. CASE p # o
      <4>1. got'[p] = got[p] /\ kind' = kind BY <3>2, <2>f DEF Frame, Works, Remembers, Shape
      <4>. QED BY <4>1, <2>v DEF StatusInv, Truthful, Lasts
    <3>. QED BY <3>1, <3>2
  <2>2. row'.checkin \in Checked => visited' \/ misled' # {}
    <3>1. CASE row'.checkin = row.checkin
      BY <3>1, <2>v DEF StatusInv, StatusTruthful, Checked, Lasts
    <3>2. CASE SaveResult(o)
      <4>1. kind[o] = "checkin"
        BY <3>2, <2>f DEF SaveResult, Basics, Control, StepsOf, Shape, Kinds
      <4>2. row'.checkin \in {row.checkin, "unsupported", got[o].status}
        BY <3>2, <2>f DEF SaveResult, Updates, Shape, AccountFields
      <4>3. CASE row'.checkin = row.checkin BY <3>1, <4>3
      <4>4. CASE row'.checkin = got[o].status
        BY <4>1, <4>4, <2>v DEF StatusInv, Truthful, Lasts
      <4>5. CASE row'.checkin = "unsupported" BY <4>5 DEF Checked
      <4>. QED BY <4>2, <4>3, <4>4, <4>5
    <3>. QED BY <3>1, <3>2, <1>1, <2>f, RowsWriters, CheckinsWriter
  <2>. QED BY <2>1, <2>2 DEF StatusInv, StatusTruthful, Truthful, Checked
<1>2. ASSUME UNCHANGED <<row, kind, got, visited, misled>> PROVE StatusInv'
  BY <1>2 DEF StatusInv, StatusTruthful, Truthful
<1>3. Expire => StatusInv' BY <1>2 DEF Expire, call
<1>4. ASSUME NEW o \in Ops, SignIn(o) \/ CloseWindow(o) \/ Watchdog(o) PROVE StatusInv'
  BY <1>2, <1>4 DEF SignIn, CloseWindow, Watchdog, Issues, call, site
<1>5. UNCHANGED vars => StatusInv' BY <1>2 DEF vars, call, site
<1>. QED BY <1>1, <1>3, <1>4, <1>5 DEF Next

\* classifyCheckinResponse, callAPIWithRetry and CheckinExecutor.Run: whatever the site
\* answers, on whatever path and to whatever session, and whatever answers are lost and
\* asked for again, an account is recorded as checked in only if the site has checked it
\* in, or has said what nobody can tell from it.
THEOREM RecordedIsDone ==
  ASSUME \A a \in Accounts : a.checkin \notin {"success", "already_checked"}
  PROVE  Spec => []StatusTruthful
<1>1. Init => StatusInv
  <2>. SUFFICES ASSUME Init PROVE StatusInv OBVIOUS
  <2>1. row \in Accounts /\ \A o \in Ops : got[o] = Nothing BY DEF Init
  <2>2. Nothing.status \notin Checked BY DEF Nothing, Checked, NoText
  <2>. QED BY <2>1, <2>2 DEF StatusInv, StatusTruthful, Truthful, Checked
<1>2. StatusInv => StatusTruthful BY DEF StatusInv
<1>. QED BY <1>1, <1>2, BasicsInit, BasicsStep, StatusStep, PTL DEF Spec

-------------------------------------------------------------------------------
(* Credentials and windows *)

\* The login that a finishing operation reads is of a window that was opened, and what it
\* takes from there is a session.
TakesSession(o) ==
  /\ windows[o] # NoText
  /\ pc[o] = "read" => got[o].status \in Ops
  /\ pc[o] = "hold" => got[o].cookie # NoText

BrowserInv == \A o \in Ops : TakesSession(o)

LEMMA BrowserInit == Init => BrowserInv
BY DEF Init, BrowserInv, TakesSession, NoText

\* Nobody but the browser operations reaches their steps.
LEMMA StepTakesSession ==
  ASSUME Basics, BrowserInv, NEW o \in Ops, Step(o)
  PROVE  BrowserInv'
<1>s. Shape /\ Frame(o) BY StepFrame DEF Basics
<1>1. \A p \in Ops : windows'[p] # NoText
  <2>1. CASE UNCHANGED windows BY <2>1 DEF BrowserInv, TakesSession
  <2>2. CASE StartChrome(o) BY <2>2, <1>s DEF StartChrome, BrowserInv, TakesSession, Shape, NoText
  <2>3. UNCHANGED windows \/ StartChrome(o)
    <3>1. Load(o) \/ Writes(o) \/ Changes(o) => UNCHANGED windows
      BY DEF Load, Writes, SaveSession, SaveResult, InsertSnapshot, SaveBalance, MarkStatus, Changes,
             ClearSession, UpdateAccount, DeleteAccount
    <3>2. Asks(o) => UNCHANGED windows
      BY DEF Asks, LoginRefused, LoginAnswered, CallCheckin, CallBalance, TestLogin, TestAPIKey
    <3>3. Look(o) \/ ReadChrome(o) \/ SaveBrowser(o) \/ DropSession(o) => UNCHANGED windows
      BY DEF Look, ReadChrome, SaveBrowser, DropSession
    <3>. QED BY <3>1, <3>2, <3>3 DEF Step, Browses
  <2>. QED BY <2>1, <2>2, <2>3
<1>2. ASSUME NEW p \in Ops, p # o PROVE TakesSession(p)'
  <2>1. pc'[p] = pc[p] /\ got'[p] = got[p]
    BY <1>2, <1>s DEF Shape, Frame, Works, Moves, Goes, Remembers
  <2>. QED BY <1>1, <2>1 DEF BrowserInv, TakesSession
<1>3. TakesSession(o)'
  <2>1. CASE Look(o)
    <3>1. got'[o].status = store BY <2>1, <1>s, LearnsStatus DEF Look
    <3>2. pc'[o] = "read" => store # NoOp BY <2>1, <1>s DEF Look, Goes, Shape
    <3>3. pc'[o] # "hold" BY <2>1, <1>s DEF Look, Goes, Shape
    <3>. QED BY <3>1, <3>2, <3>3, <1>1, <1>s DEF TakesSession, Shape
  <2>2. CASE ReadChrome(o)
    <3>. DEFINE w == windows[got[o].status]
    <3>1. w # NoText BY <2>2 DEF ReadChrome, BrowserInv, TakesSession
    <3>2. pc'[o] # "read" BY <2>2, <1>s DEF ReadChrome, Goes, Shape
    <3>3. pc'[o] = "hold" => got'[o].cookie = w
      BY <2>2, <1>s DEF ReadChrome, Goes, Shape, Learnt
    <3>. QED BY <3>1, <3>2, <3>3, <1>1 DEF TakesSession
  <2>3. ASSUME pc'[o] \notin {"read", "hold"} PROVE TakesSession(o)' BY <2>3, <1>1 DEF TakesSession
  <2>4. ASSUME ~Look(o), ~ReadChrome(o) PROVE pc'[o] \notin {"read", "hold"}
    <3>1. CASE kind[o] # "finish"
      <4>1. pc'[o] \in StepsOf(kind[o])
        BY <1>s DEF Basics, Control, Shape, Frame, Works, Moves, Goes
      <4>. QED BY <3>1, <4>1, <1>s DEF Shape, Kinds, StepsOf
    <3>2. CASE kind[o] = "finish"
      <4>1. pc[o] \in {"load", "look", "read", "hold", "drop", "done"}
        BY <3>2 DEF Basics, Control, StepsOf
      <4>2. Load(o) \/ SaveBrowser(o) \/ DropSession(o)
        BY <2>4, <3>2, <4>1
           DEF Step, Asks, Writes, Browses, Changes, LoginRefused, LoginAnswered, CallCheckin, CallBalance,
               TestLogin, TestAPIKey, SaveSession, SaveResult, InsertSnapshot, SaveBalance, MarkStatus,
               StartChrome, ClearSession, UpdateAccount, DeleteAccount
      <4>3. Load(o) => pc'[o] \in {"look", "done"} BY <3>2, <1>s DEF Load, Goes, Shape, FirstStep
      <4>4. SaveBrowser(o) \/ DropSession(o) => pc'[o] \in {"drop", "done"}
        BY <3>2, <1>s DEF SaveBrowser, DropSession, Goes, Shape
      <4>. QED BY <4>2, <4>3, <4>4
    <3>. QED BY <3>1, <3>2
  <2>. QED BY <2>1, <2>2, <2>3, <2>4
<1>. QED BY <1>2, <1>3 DEF BrowserInv

LEMMA BrowserStep == Basics /\ BrowserInv /\ [Next]_vars => BrowserInv'
<1>. SUFFICES ASSUME Basics, BrowserInv, [Next]_vars PROVE BrowserInv' OBVIOUS
<1>1. ASSUME NEW o \in Ops, Step(o) PROVE BrowserInv' BY <1>1, StepTakesSession
<1>2. ASSUME UNCHANGED <<pc, got>>, \A o \in Ops : windows'[o] # NoText PROVE BrowserInv'
  BY <1>2 DEF BrowserInv, TakesSession
<1>3. ASSUME UNCHANGED windows PROVE \A o \in Ops : windows'[o] # NoText
  BY <1>3 DEF BrowserInv, TakesSession
<1>4. Expire => BrowserInv' BY <1>2, <1>3 DEF Expire
<1>5. ASSUME NEW o \in Ops, SignIn(o) PROVE BrowserInv'
  BY <1>2, <1>5, SessionsAssumption DEF SignIn, BrowserInv, TakesSession, Basics, Shape
<1>6. ASSUME NEW o \in Ops, CloseWindow(o) \/ Watchdog(o) PROVE BrowserInv'
  BY <1>2, <1>6 DEF CloseWindow, Watchdog, BrowserInv, TakesSession, Basics, Shape, NoText
<1>7. UNCHANGED vars => BrowserInv' BY <1>2, <1>3 DEF vars
<1>. QED BY <1>1, <1>4, <1>5, <1>6, <1>7 DEF Next

\* No credential of r is empty in s that is there in r.
Keeping(r, s) ==
  /\ r.cookie # NoText => s.cookie # NoText
  /\ r.token # NoText => s.token # NoText
  /\ r.password # NoText => s.password # NoText
  /\ r.key => s.key
  /\ r.user => s.user

\* The user's own edits and clears.
ByUser(o) == kind[o] \in {"edit", "clear"} /\ pc[o] = "write" /\ pc'[o] = "done"

LEMMA UpdateKeeps ==
  ASSUME NEW r, Keeping(row, r), Updates(r)
  PROVE  Keeping(row, row')
BY DEF Updates, Keeping

LEMMA MergedKeeps ==
  ASSUME DOMAIN row = AccountFields, NEW g
  PROVE  Keeping(row, [Merged(row, g) EXCEPT !.login = "valid"])
<1>. DEFINE r == Merged(row, g)
            s == [r EXCEPT !.login = "valid"]
<1>1. DOMAIN r = AccountFields BY DEF Merged
<1>2. /\ r.cookie = IF g.cookie # NoText THEN g.cookie ELSE row.cookie
      /\ r.token = IF g.token # NoText THEN g.token ELSE row.token
      /\ r.password = row.password /\ r.key = row.key /\ r.user = (row.user \/ g.user)
  BY DEF Merged, AccountFields
<1>3. /\ s.cookie = r.cookie /\ s.token = r.token /\ s.password = r.password
      /\ s.key = r.key /\ s.user = r.user
  BY <1>1 DEF AccountFields
<1>4. row.user => s.user BY <1>2, <1>3
<1>5. Keeping(row, s)
  <2>. HIDE DEF r, s
  <2>. QED BY <1>2, <1>3, <1>4 DEF Keeping
<1>. QED BY <1>5

LEMMA WritingKeeps ==
  ASSUME Basics, BrowserInv, NEW o \in Ops, Writing(o)
  PROVE  Keeping(row, row') \/ ByUser(o)
<1>s. Shape /\ DOMAIN row = AccountFields BY DEF Basics, Shape
<1>1. SaveSession(o) => Keeping(row, row') BY <1>s, MergedKeeps, UpdateKeeps DEF SaveSession
<1>2. ASSUME NEW r, DOMAIN r = AccountFields, Updates(r), r.key = row.key, r.user = row.user,
             r.token = row.token, r.password = row.password, r.cookie = row.cookie \/ r.cookie # NoText
      PROVE  Keeping(row, row')
  <2>1. (row.key => r.key) /\ (row.user => r.user) BY <1>2
  <2>2. Keeping(row, r) BY <1>2, <2>1 DEF Keeping
  <2>. QED BY <1>2, <2>2, UpdateKeeps
<1>3. SaveResult(o) => Keeping(row, row')
  <2>. DEFINE r == [row EXCEPT !.checkin = IF got[o].status = NoText THEN "unsupported"
                                           ELSE got[o].status]
  <2>1. /\ DOMAIN r = AccountFields /\ r.key = row.key /\ r.user = row.user
        /\ r.token = row.token /\ r.password = row.password /\ r.cookie = row.cookie
    BY <1>s DEF AccountFields
  <2>2. SaveResult(o) => Updates(r) BY DEF SaveResult
  <2>. HIDE DEF r
  <2>. QED BY <2>1, <2>2, <1>2
<1>4. SaveBalance(o) => Keeping(row, row')
  <2>. DEFINE r == [row EXCEPT !.balance = got[o].balance, !.login = "valid"]
  <2>1. /\ DOMAIN r = AccountFields /\ r.key = row.key /\ r.user = row.user
        /\ r.token = row.token /\ r.password = row.password /\ r.cookie = row.cookie
    BY <1>s DEF AccountFields
  <2>2. SaveBalance(o) => Updates(r) BY DEF SaveBalance
  <2>. HIDE DEF r
  <2>. QED BY <2>1, <2>2, <1>2
<1>5. MarkStatus(o) => Keeping(row, row')
  <2>. DEFINE s == got[o].status
              r == IF kind[o] = "testKey"
                   THEN [row EXCEPT !.keyStatus = s,
                                    !.login = IF s \in {"valid", "expired"} THEN s ELSE @]
                   ELSE [row EXCEPT !.login = s]
  <2>1. /\ DOMAIN r = AccountFields /\ r.key = row.key /\ r.user = row.user
        /\ r.token = row.token /\ r.password = row.password /\ r.cookie = row.cookie
    BY <1>s DEF AccountFields
  <2>2. MarkStatus(o) => Updates(r) BY DEF MarkStatus
  <2>. HIDE DEF r
  <2>. QED BY <2>1, <2>2, <1>2
<1>6. SaveBrowser(o) => Keeping(row, row')
  <2>. DEFINE r == [row EXCEPT !.cookie = got[o].cookie, !.login = "valid"]
  <2>1. /\ DOMAIN r = AccountFields /\ r.key = row.key /\ r.user = row.user
        /\ r.token = row.token /\ r.password = row.password /\ r.cookie = got[o].cookie
    BY <1>s DEF AccountFields
  <2>2. SaveBrowser(o) => Updates(r) /\ r.cookie # NoText
    BY <2>1 DEF SaveBrowser, BrowserInv, TakesSession
  <2>. HIDE DEF r
  <2>. QED BY <2>1, <2>2, <1>2
<1>7. ClearSession(o) \/ UpdateAccount(o) => ByUser(o)
  BY <1>s DEF ClearSession, UpdateAccount, Goes, ByUser, Shape
<1>8. DeleteAccount(o) => Keeping(row, row')
  <2>1. DeleteAccount(o) => /\ row'.key = row.key /\ row'.user = row.user /\ row'.cookie = row.cookie
                            /\ row'.token = row.token /\ row'.password = row.password
    BY <1>s DEF DeleteAccount, AccountFields
  <2>2. DeleteAccount(o) => (row.key => row'.key) /\ (row.user => row'.user) BY <2>1
  <2>. QED BY <2>1, <2>2 DEF Keeping
<1>. QED BY <1>1, <1>3, <1>4, <1>5, <1>6, <1>7, <1>8 DEF Writing, Changes

\* AccountSessionService.Save and the other writers: no credential of the account turns
\* empty except by what its user does, whatever the site answers and whatever else is done
\* with the account meanwhile.
THEOREM NothingIsBlanked == Spec => CredentialsKept
<1>1. ASSUME Basics, BrowserInv, [Next]_vars
      PROVE  [(\E f \in {"cookie", "token", "password"} : row[f] # NoText /\ row'[f] = NoText)
                  \/ (row.key /\ ~row'.key) \/ (row.user /\ ~row'.user)
               => \E o \in Ops : kind[o] \in {"edit", "clear"} /\ pc[o] = "write" /\ pc'[o] = "done"]_vars
  <2>1. Keeping(row, row') \/ \E o \in Ops : ByUser(o)
    <3>1. CASE UNCHANGED row BY <3>1 DEF Keeping
    <3>2. ASSUME NEW o \in Ops, Step(o) PROVE Keeping(row, row') \/ \E p \in Ops : ByUser(p)
      <4>1. UNCHANGED row \/ Writing(o) BY <3>2, RowsWriters
      <4>. QED BY <1>1, <3>1, <4>1, WritingKeeps
    <3>3. Expire => UNCHANGED row BY DEF Expire
    <3>4. ASSUME NEW o \in Ops, SignIn(o) \/ CloseWindow(o) \/ Watchdog(o) PROVE UNCHANGED row
      BY <3>4 DEF SignIn, CloseWindow, Watchdog
    <3>5. UNCHANGED vars => UNCHANGED row BY DEF vars
    <3>. QED BY <1>1, <3>1, <3>2, <3>3, <3>4, <3>5 DEF Next
  <2>. QED BY <2>1 DEF Keeping, ByUser
<1>. QED BY <1>1, BasicsInit, BasicsStep, BrowserInit, BrowserStep, PTL DEF Spec, CredentialsKept

LEMMA StoresWriters ==
  ASSUME NEW o \in Ops, Step(o)
  PROVE  UNCHANGED store \/ StartChrome(o) \/ DropSession(o)
<1>1. Load(o) \/ Writes(o) \/ Changes(o) => UNCHANGED store
  BY DEF Load, Writes, SaveSession, SaveResult, InsertSnapshot, SaveBalance, MarkStatus, Changes,
         ClearSession, UpdateAccount, DeleteAccount
<1>2. Asks(o) => UNCHANGED store
  BY DEF Asks, LoginRefused, LoginAnswered, CallCheckin, CallBalance, TestLogin, TestAPIKey
<1>3. Look(o) \/ ReadChrome(o) \/ SaveBrowser(o) => UNCHANGED store BY DEF Look, ReadChrome, SaveBrowser
<1>. QED BY <1>1, <1>2, <1>3 DEF Step, Browses

\* browser_session_store.go, DeleteIfPIDMatches: the store lets go of a window that shows
\* only for a newer one, or when the session is saved or cleared; the watchdogs of other
\* windows and of windows that were closed before never take it.
THEOREM WindowsAreKept == Spec => OpenWindowIsKept
<1>1. ASSUME Basics, [Next]_vars
      PROVE  [\A w \in Ops :
                store = w /\ Showing(w) /\ store' # w =>
                  \E o \in Ops : pc'[o] # pc[o] /\ (pc[o] \in {"drop", "start"} \/ kind[o] = "clear")]_vars
  <2>. SUFFICES ASSUME NEW w \in Ops, store = w, Showing(w), store' # w
                PROVE  \E o \in Ops : pc'[o] # pc[o] /\ (pc[o] \in {"drop", "start"} \/ kind[o] = "clear")
    OBVIOUS
  <2>1. ASSUME NEW o \in Ops, StartChrome(o) \/ DropSession(o)
        PROVE  pc'[o] # pc[o] /\ (pc[o] \in {"drop", "start"} \/ kind[o] = "clear")
    BY <1>1, <2>1 DEF StartChrome, DropSession, Goes, Basics, Shape
  <2>2. ~Expire /\ ~UNCHANGED vars BY DEF Expire, vars
  <2>3. ASSUME NEW o \in Ops PROVE ~SignIn(o) /\ ~CloseWindow(o) /\ ~Watchdog(o)
    BY DEF SignIn, CloseWindow, Watchdog, ReapedStore, Showing
  <2>. QED BY <1>1, <2>1, <2>2, <2>3, StoresWriters DEF Next
<1>. QED BY <1>1, BasicsInit, BasicsStep, PTL DEF Spec, OpenWindowIsKept
-------------------------------------------------------------------------------
(* What is found in a document *)

\* The provers take no operator as a parameter, so a claim about all levels of a document is
\* proved from the least one that it would fail for.
LEMMA LeastNumber ==
  ASSUME NEW T, T \subseteq Nat, T # {}
  PROVE  \E x \in T : \A y \in T : x <= y
<1>. DEFINE R == OpToRel(<, Nat)
<1>1. IsWellFoundedOn(R, Nat) BY NatLessThanWellFounded
<1>2. \A x, y \in Nat : <<x, y>> \in R <=> x < y BY DEF OpToRel
<1>. HIDE DEF R
<1>3. PICK x \in T : \A y \in T : <<y, x>> \notin R BY <1>1, WFMin
<1>4. \A y \in T : x \in Nat /\ y \in Nat /\ ~(y < x) BY <1>2, <1>3
<1>5. \A y \in T : x <= y BY <1>4
<1>. QED BY <1>5

LEMMA MinIsLeast ==
  ASSUME NEW T, T \subseteq Nat, T # {}
  PROVE  Min(T) \in T
<1>1. \E x \in T : \A y \in T : x <= y BY LeastNumber
<1>. QED BY <1>1 DEF Min

\* The levels below a document, of which those in stop are not entered.
Opens(x, stop, k, g) ==
  g = [n \in 0..k |-> IF n = 0 THEN {x} ELSE Below(g[n - 1] \ stop)]

LEMMA LevelsGoOn ==
  ASSUME NEW x, NEW stop, NEW k \in Nat
  PROVE  \E g : Opens(x, stop, k, g)
<1>. DEFINE Open == {i \in Nat : ~ \E g : Opens(x, stop, i, g)}
<1>1. SUFFICES ASSUME Open # {} PROVE FALSE OBVIOUS
<1>2. PICK i \in Open : \A y \in Open : i <= y
  <2>1. Open \subseteq Nat OBVIOUS
  <2>. HIDE DEF Open
  <2>. QED BY <1>1, <2>1, LeastNumber
<1>3. i \in Nat /\ ~ \E g : Opens(x, stop, i, g) BY <1>2
<1>4. i # 0
  <2>1. SUFFICES ASSUME i = 0 PROVE FALSE OBVIOUS
  <2>2. Opens(x, stop, 0, [n \in 0..0 |-> {x}]) BY DEF Opens
  <2>. QED BY <1>3, <2>1, <2>2
<1>5. i - 1 \in Nat /\ ~(i <= i - 1) BY <1>3, <1>4
<1>6. PICK g : Opens(x, stop, i - 1, g) BY <1>2, <1>5
<1>. DEFINE last == Below(g[i - 1] \ stop)
            h == [n \in 0..i |-> IF n = i THEN last ELSE g[n]]
<1>7. \A n \in 0..(i - 1) : g[n] = IF n = 0 THEN {x} ELSE Below(g[n - 1] \ stop)
  BY <1>6 DEF Opens
<1>8. ASSUME NEW n \in 0..i PROVE h[n] = IF n = 0 THEN {x} ELSE Below(h[n - 1] \ stop)
  <2>1. CASE n = 0
    <3>1. 0 \in 0..(i - 1) /\ 0 # i BY <1>5, <1>4
    <3>. QED BY <2>1, <3>1, <1>7
  <2>2. CASE n # 0
    <3>1. n - 1 \in 0..(i - 1) /\ n - 1 \in 0..i /\ n - 1 # i BY <2>2, <1>3
    <3>2. h[n - 1] = g[n - 1] BY <3>1
    <3>3. CASE n = i BY <2>2, <3>2, <3>3
    <3>4. CASE n # i
      <4>1. n \in 0..(i - 1) BY <3>4, <1>3
      <4>2. h[n] = g[n] BY <3>4
      <4>. QED BY <4>1, <4>2, <3>2, <2>2, <1>7
    <3>. QED BY <3>3, <3>4
  <2>. QED BY <2>1, <2>2
<1>9. Opens(x, stop, i, h)
  <2>1. DOMAIN h = 0..i /\ h = [n \in DOMAIN h |-> h[n]] OBVIOUS
  <2>. HIDE DEF h
  <2>. QED BY <1>8, <2>1 DEF Opens
<1>. QED BY <1>3, <1>9

LEMMA LevelsAreLevels == \A x : Opens(x, {}, MaxDepth, Levels(x))
<1>1. SUFFICES ASSUME NEW x PROVE Opens(x, {}, MaxDepth, Levels(x)) OBVIOUS
<1>. DEFINE level[n \in 0..MaxDepth] == IF n = 0 THEN {x} ELSE Below(level[n - 1])
            Next1(f) == [n \in 0..MaxDepth |-> IF n = 0 THEN {x} ELSE Below(f[n - 1])]
<1>2. Levels(x) = level BY DEF Levels
<1>3. level = CHOOSE f : f = Next1(f) OBVIOUS
<1>4. PICK g : Opens(x, {}, MaxDepth, g) BY DepthAssumption, LevelsGoOn DEF DepthAssumption
<1>5. \A set : set \ {} = set OBVIOUS
<1>6. g = Next1(g) BY <1>4, <1>5 DEF Opens
<1>. HIDE DEF level
<1>7. level = Next1(level) BY <1>3, <1>6
<1>. QED BY <1>2, <1>5, <1>7 DEF Opens

LEMMA LevelFacts ==
  ASSUME NEW x
  PROVE  /\ Levels(x)[0] = {x}
         /\ \A n \in 1..MaxDepth : Levels(x)[n] = Below(Levels(x)[n - 1])
<1>. DEFINE L == Levels(x)
<1>1. L = [n \in 0..MaxDepth |-> IF n = 0 THEN {x} ELSE Below(L[n - 1] \ {})]
  BY LevelsAreLevels DEF Opens
<1>. HIDE DEF L
<1>2. MaxDepth \in Nat BY DepthAssumption DEF DepthAssumption
<1>3. \A n \in 0..MaxDepth : L[n] = IF n = 0 THEN {x} ELSE Below(L[n - 1] \ {}) BY <1>1
<1>4. \A set : set \ {} = set OBVIOUS
<1>5. L[0] = {x} BY <1>2, <1>3
<1>6. \A n \in 1..MaxDepth : L[n] = Below(L[n - 1]) BY <1>3, <1>4
<1>. QED BY <1>5, <1>6 DEF L

\* What a document has from a level on.
Deeper(x, n) == UNION {Levels(x)[m] : m \in n..MaxDepth}

LEMMA PartsAreDeeper ==
  ASSUME NEW x, IsDocument(x), NEW n \in 0..MaxDepth, NEW y \in Deeper(x, n)
  PROVE  Parts(y) \subseteq Deeper(x, n + 1)
<1>0. MaxDepth \in Nat BY DepthAssumption DEF DepthAssumption
<1>1. PICK m \in n..MaxDepth : y \in Levels(x)[m] BY DEF Deeper
<1>2. CASE m = MaxDepth
  <2>1. Below(Levels(x)[m]) = {} BY <1>2 DEF IsDocument
  <2>. QED BY <1>1, <2>1 DEF Below
<1>3. CASE m # MaxDepth
  <2>1. m + 1 \in 1..MaxDepth /\ m + 1 \in (n + 1)..MaxDepth /\ (m + 1) - 1 = m BY <1>0, <1>3
  <2>2. Levels(x)[m + 1] = Below(Levels(x)[m]) BY <2>1, LevelFacts
  <2>3. Parts(y) \subseteq Levels(x)[m + 1] BY <1>1, <2>2 DEF Below
  <2>. QED BY <2>1, <2>3 DEF Deeper
<1>. QED BY <1>2, <1>3

\* What a search finds in y, when f is what it finds in the parts of y.
Finds(f, y, keys) ==
  IF Is("map", y) THEN
    IF Named(y, keys) # {} THEN {FirstNumber(y, keys)}
    ELSE UNION {f[y.map[k]] : k \in DOMAIN y.map}
  ELSE IF Is("list", y) THEN
    LET hits == {i \in DOMAIN y.list : f[y.list[i]] # {}}
    IN IF hits = {} THEN {} ELSE f[y.list[Min(hits)]]
  ELSE {}

Search(f, x, keys) == f = [y \in Within(x) |-> Finds(f, y, keys)]

\* The first entry of a list with a find is an entry of it.
LEMMA FirstHit ==
  ASSUME NEW list, NEW set, list \in Seq(set), NEW hits, hits \subseteq DOMAIN list, hits # {}
  PROVE  Min(hits) \in hits
<1>1. DOMAIN list \subseteq Nat OBVIOUS
<1>. QED BY <1>1, MinIsLeast

LEMMA FindsByParts ==
  ASSUME NEW y, NEW keys, NEW f, NEW g, Is("list", y) => y.list \in Seq(Parts(y)),
         \A z \in Parts(y) : f[z] = g[z]
  PROVE  Finds(f, y, keys) = Finds(g, y, keys)
<1>1. CASE Is("map", y)
  <2>1. \A k \in DOMAIN y.map : f[y.map[k]] = g[y.map[k]] BY <1>1 DEF Parts
  <2>2. {f[y.map[k]] : k \in DOMAIN y.map} = {g[y.map[k]] : k \in DOMAIN y.map} BY <2>1
  <2>. QED BY <1>1, <2>2 DEF Finds
<1>2. CASE ~Is("map", y) /\ Is("list", y)
  <2>1. \A i \in DOMAIN y.list : f[y.list[i]] = g[y.list[i]] BY <1>2 DEF Parts
  <2>. DEFINE hits == {i \in DOMAIN y.list : f[y.list[i]] # {}}
  <2>2. hits = {i \in DOMAIN y.list : g[y.list[i]] # {}} BY <2>1
  <2>3. hits # {} => Min(hits) \in hits
    <3>1. hits \subseteq DOMAIN y.list OBVIOUS
    <3>. HIDE DEF hits
    <3>. QED BY <1>2, <3>1, FirstHit
  <2>4. hits # {} => f[y.list[Min(hits)]] = g[y.list[Min(hits)]] BY <2>1, <2>3
  <2>5. Finds(f, y, keys) = IF hits = {} THEN {} ELSE f[y.list[Min(hits)]] BY <1>2 DEF Finds
  <2>6. Finds(g, y, keys) = IF hits = {} THEN {} ELSE g[y.list[Min(hits)]]
    <3>. HIDE DEF hits
    <3>. QED BY <1>2, <2>2 DEF Finds
  <2>. HIDE DEF hits
  <2>. QED BY <2>4, <2>5, <2>6
<1>3. CASE ~Is("map", y) /\ ~Is("list", y) BY <1>3 DEF Finds
<1>. QED BY <1>1, <1>2, <1>3

\* The search of FindNumber comes to an end: from the deepest level up, what it finds is
\* determined by what it has found below.
LEMMA SearchEnds ==
  ASSUME NEW x, IsDocument(x), NEW keys
  PROVE  \E f : Search(f, x, keys)
<1>. DEFINE From(n, f) == f = [y \in Deeper(x, n) |-> Finds(f, y, keys)]
            Done == {n \in 0..(MaxDepth + 1) : \E f : From(n, f)}
            Open == {j \in 0..(MaxDepth + 1) : MaxDepth + 1 - j \notin Done}
<1>0. MaxDepth \in Nat BY DepthAssumption DEF DepthAssumption
<1>1. \E f : From(0, f)
  <2>1. SUFFICES ASSUME Open # {} PROVE FALSE
    <3>1. PICK j : j = MaxDepth + 1 OBVIOUS
    <3>2. j \in 0..(MaxDepth + 1) /\ MaxDepth + 1 - j = 0 BY <1>0, <3>1
    <3>3. j \notin Open BY <2>1
    <3>. HIDE DEF Done
    <3>4. 0 \in Done BY <3>2, <3>3
    <3>. QED BY <3>4 DEF Done
  <2>2. PICK j \in Open : \A i \in Open : j <= i
    <3>1. Open \subseteq Nat OBVIOUS
    <3>. HIDE DEF Open
    <3>. QED BY <2>1, <3>1, LeastNumber
  <2>. DEFINE n == MaxDepth + 1 - j
  <2>3. j \in 0..(MaxDepth + 1) /\ ~ \E f : From(n, f)
    <3>1. n \in 0..(MaxDepth + 1) BY <1>0, <2>2
    <3>. HIDE DEF From, n
    <3>. QED BY <2>2, <3>1 DEF n
  <2>4. j # 0
    <3>1. SUFFICES ASSUME j = 0 PROVE FALSE OBVIOUS
    <3>2. n..MaxDepth = {} BY <3>1, <1>0
    <3>3. Deeper(x, n) = {} BY <3>2 DEF Deeper
    <3>4. From(n, [y \in {} |-> {}]) BY <3>3
    <3>. QED BY <2>3, <3>4
  <2>5. j - 1 \in 0..(MaxDepth + 1) /\ ~(j <= j - 1) /\ MaxDepth + 1 - (j - 1) = n + 1
        /\ n \in 0..MaxDepth
    BY <1>0, <2>3, <2>4
  <2>6. PICK f : From(n + 1, f)
    <3>1. j - 1 \notin Open BY <2>2, <2>5
    <3>2. n + 1 \in Done
      <4>. HIDE DEF Done, n
      <4>. QED BY <2>5, <3>1
    <3>. HIDE DEF From, n
    <3>. QED BY <3>2
  <2>. HIDE DEF n
  <2>. DEFINE g == [y \in Deeper(x, n) |-> IF y \in Deeper(x, n + 1) THEN f[y]
                                           ELSE Finds(f, y, keys)]
  <2>7. Deeper(x, n + 1) \subseteq Deeper(x, n)
    <3>1. (n + 1)..MaxDepth \subseteq n..MaxDepth BY <2>5
    <3>. QED BY <3>1 DEF Deeper
  <2>8. ASSUME NEW y \in Deeper(x, n) PROVE g[y] = Finds(g, y, keys)
    <3>1. Parts(y) \subseteq Deeper(x, n + 1) BY <2>5, <2>8, PartsAreDeeper
    <3>2. \A z \in Parts(y) : f[z] = g[z] BY <2>7, <3>1
    <3>3. y \in Within(x)
      <4>1. n..MaxDepth \subseteq 0..MaxDepth BY <2>5
      <4>. QED BY <2>8, <4>1 DEF Deeper, Within
    <3>4. Is("list", y) => y.list \in Seq(Parts(y)) BY <3>3 DEF IsDocument
    <3>. HIDE DEF g
    <3>5. Finds(f, y, keys) = Finds(g, y, keys) BY <3>2, <3>4, FindsByParts
    <3>. USE DEF g
    <3>6. g[y] = Finds(f, y, keys)
      <4>1. y \in Deeper(x, n + 1) => f[y] = Finds(f, y, keys) BY <2>6
      <4>. QED BY <2>8, <4>1
    <3>. QED BY <3>5, <3>6
  <2>9. From(n, g)
    <3>1. DOMAIN g = Deeper(x, n) /\ g = [y \in DOMAIN g |-> g[y]] OBVIOUS
    <3>. HIDE DEF g
    <3>. QED BY <2>8, <3>1
  <2>. HIDE DEF From, g
  <2>. QED BY <2>3, <2>9 DEF n
<1>2. Deeper(x, 0) = Within(x) BY DEF Deeper, Within
<1>. QED BY <1>1, <1>2 DEF Search

LEMMA FindNumberSearches ==
  ASSUME NEW x, IsDocument(x), NEW keys
  PROVE  \E f : Search(f, x, keys) /\ FindNumber(x, keys) = f[x]
<1>. DEFINE find[y \in Within(x)] ==
              IF Is("map", y) THEN
                IF Named(y, keys) # {} THEN {FirstNumber(y, keys)}
                ELSE UNION {find[y.map[k]] : k \in DOMAIN y.map}
              ELSE IF Is("list", y) THEN
                LET hits == {i \in DOMAIN y.list : find[y.list[i]] # {}}
                IN IF hits = {} THEN {} ELSE find[y.list[Min(hits)]]
              ELSE {}
<1>1. FindNumber(x, keys) = find[x] BY DEF FindNumber
<1>2. find = CHOOSE f : f = [y \in Within(x) |-> Finds(f, y, keys)] BY DEF Finds
<1>. HIDE DEF find
<1>3. \E f : f = [y \in Within(x) |-> Finds(f, y, keys)] BY SearchEnds DEF Search
<1>4. Search(find, x, keys) BY <1>2, <1>3 DEF Search
<1>. QED BY <1>1, <1>4

\* The maps of a document that have a number under one of the names, and that are in no
\* other such map.
Naming(x, keys) == {y \in Within(x) : Is("map", y) /\ Named(y, keys) # {}}

Opened(x, keys) ==
  LET open[n \in 0..MaxDepth] ==
        IF n = 0 THEN {x} ELSE Below(open[n - 1] \ Naming(x, keys))
  IN open

Outermost(x, keys) == Naming(x, keys) \cap UNION {Opened(x, keys)[n] : n \in 0..MaxDepth}

LEMMA OpenedFacts ==
  ASSUME NEW x, NEW keys
  PROVE  /\ Opened(x, keys)[0] = {x}
         /\ \A n \in 1..MaxDepth :
              Opened(x, keys)[n] = Below(Opened(x, keys)[n - 1] \ Naming(x, keys))
<1>. DEFINE stop == Naming(x, keys)
            open[n \in 0..MaxDepth] == IF n = 0 THEN {x} ELSE Below(open[n - 1] \ stop)
            Next1(f) == [n \in 0..MaxDepth |-> IF n = 0 THEN {x} ELSE Below(f[n - 1] \ stop)]
<1>0. MaxDepth \in Nat BY DepthAssumption DEF DepthAssumption
<1>1. Opened(x, keys) = open BY DEF Opened
<1>2. open = CHOOSE f : f = Next1(f) OBVIOUS
<1>3. PICK g : Opens(x, stop, MaxDepth, g) BY <1>0, LevelsGoOn
<1>4. g = Next1(g) BY <1>3 DEF Opens
<1>. HIDE DEF open, stop
<1>5. open = Next1(open) BY <1>2, <1>4
<1>6. \A n \in 0..MaxDepth : open[n] = IF n = 0 THEN {x} ELSE Below(open[n - 1] \ stop)
  BY <1>5
<1>7. open[0] = {x}
  <2>1. 0 \in 0..MaxDepth BY <1>0
  <2>. QED BY <1>6, <2>1
<1>8. \A n \in 1..MaxDepth : open[n] = Below(open[n - 1] \ stop) BY <1>6
<1>. QED BY <1>1, <1>7, <1>8 DEF stop

\* What is opened is part of the document.
LEMMA OpenedIsThere ==
  ASSUME NEW x, NEW keys, NEW n \in 0..MaxDepth
  PROVE  Opened(x, keys)[n] \subseteq Levels(x)[n]
<1>. DEFINE O == Opened(x, keys)
            L == Levels(x)
            Odd == {m \in 0..MaxDepth : ~(O[m] \subseteq L[m])}
<1>0. MaxDepth \in Nat BY DepthAssumption DEF DepthAssumption
<1>1. SUFFICES ASSUME Odd # {} PROVE FALSE OBVIOUS
<1>2. PICK m \in Odd : \A i \in Odd : m <= i
  <2>1. Odd \subseteq Nat OBVIOUS
  <2>. HIDE DEF Odd
  <2>. QED BY <1>1, <2>1, LeastNumber
<1>3. m \in 0..MaxDepth /\ ~(O[m] \subseteq L[m]) BY <1>2
<1>4. m # 0 BY <1>3, LevelFacts, OpenedFacts
<1>5. m \in 1..MaxDepth /\ m - 1 \in 0..MaxDepth /\ ~(m <= m - 1) BY <1>0, <1>3, <1>4
<1>6. O[m - 1] \subseteq L[m - 1] BY <1>2, <1>5
<1>7. O[m] = Below(O[m - 1] \ Naming(x, keys)) /\ L[m] = Below(L[m - 1])
  BY <1>5, LevelFacts, OpenedFacts
<1>8. O[m] \subseteq L[m]
  <2>. HIDE DEF O, L
  <2>. QED BY <1>6, <1>7 DEF Below
<1>. QED BY <1>3, <1>8

\* findNumber: in a document of any shape, in whatever order a map is walked, the search
\* finds the number under the first of the names in a map that has one and that is in no
\* other such map; it finds nothing only if there is no such map.
THEOREM FindsOutermost ==
  ASSUME NEW x, IsDocument(x), NEW keys
  PROVE  /\ FindNumber(x, keys) \subseteq {FirstNumber(y, keys) : y \in Outermost(x, keys)}
         /\ FindNumber(x, keys) = {} => Outermost(x, keys) = {}
<1>. DEFINE O == Opened(x, keys)
            stop == Naming(x, keys)
            found == {FirstNumber(y, keys) : y \in Outermost(x, keys)}
<1>0. MaxDepth \in Nat BY DepthAssumption DEF DepthAssumption
<1>1. PICK f : Search(f, x, keys) /\ FindNumber(x, keys) = f[x] BY FindNumberSearches
<1>2. \A y \in Within(x) : f[y] = Finds(f, y, keys) BY <1>1 DEF Search
<1>3. ASSUME NEW n \in 0..MaxDepth, NEW y \in O[n]
      PROVE  y \in Within(x) /\ (Is("list", y) => y.list \in Seq(Parts(y)))
  <2>1. y \in Within(x) BY <1>3, OpenedIsThere DEF Within
  <2>. QED BY <2>1 DEF IsDocument
\* A part of what is opened and is no such map is opened on the next level.
<1>4. ASSUME NEW n \in 0..MaxDepth, NEW y \in O[n], y \notin stop, NEW z \in Parts(y)
      PROVE  n + 1 \in 0..MaxDepth /\ z \in O[n + 1]
  <2>1. n # MaxDepth
    <3>1. SUFFICES ASSUME n = MaxDepth PROVE FALSE OBVIOUS
    <3>2. y \in Levels(x)[MaxDepth] BY <1>4, <3>1, OpenedIsThere
    <3>. QED BY <1>4, <3>2 DEF IsDocument, Below
  <2>2. n + 1 \in 1..MaxDepth /\ (n + 1) - 1 = n BY <1>0, <2>1
  <2>3. O[n + 1] = Below(O[n] \ stop) BY <2>2, OpenedFacts
  <2>. QED BY <1>4, <2>2, <2>3 DEF Below
<1>5. ASSUME NEW n \in 0..MaxDepth, NEW y \in O[n], y \in stop
      PROVE  f[y] = {FirstNumber(y, keys)} /\ y \in Outermost(x, keys)
  <2>1. f[y] = {FirstNumber(y, keys)} BY <1>2, <1>5 DEF Naming, Finds
  <2>. QED BY <1>5, <2>1 DEF Outermost
\* What is found elsewhere is found in a part, and something is if it is in any.
<1>6. ASSUME NEW n \in 0..MaxDepth, NEW y \in O[n], y \notin stop
      PROVE  /\ \A v \in f[y] : \E z \in Parts(y) : v \in f[z]
             /\ f[y] = {} => \A z \in Parts(y) : f[z] = {}
  <2>1. y \in Within(x) /\ f[y] = Finds(f, y, keys) BY <1>2, <1>3, <1>6
  <2>2. CASE Is("map", y)
    <3>1. f[y] = UNION {f[y.map[k]] : k \in DOMAIN y.map}
      BY <1>6, <2>1, <2>2 DEF Naming, Finds
    <3>2. Parts(y) = {y.map[k] : k \in DOMAIN y.map} BY <2>2 DEF Parts
    <3>. QED BY <3>1, <3>2
  <2>3. CASE ~Is("map", y) /\ Is("list", y)
    <3>. DEFINE hits == {i \in DOMAIN y.list : f[y.list[i]] # {}}
    <3>1. f[y] = IF hits = {} THEN {} ELSE f[y.list[Min(hits)]] BY <2>1, <2>3 DEF Finds
    <3>2. Parts(y) = {y.list[i] : i \in DOMAIN y.list} BY <2>3 DEF Parts
    <3>3. hits # {} => Min(hits) \in hits
      <4>1. y.list \in Seq(Parts(y)) BY <1>3, <1>6, <2>3
      <4>2. hits \subseteq DOMAIN y.list OBVIOUS
      <4>. HIDE DEF hits
      <4>. QED BY <4>1, <4>2, FirstHit
    <3>4. CASE hits = {}
      <4>1. \A z \in Parts(y) : f[z] = {} BY <3>2, <3>4
      <4>. QED BY <3>1, <3>4, <4>1
    <3>5. CASE hits # {}
      <4>1. Min(hits) \in DOMAIN y.list /\ f[y.list[Min(hits)]] # {} BY <3>3, <3>5
      <4>. HIDE DEF hits
      <4>. QED BY <3>1, <3>2, <3>5, <4>1
    <3>. QED BY <3>4, <3>5
  <2>4. CASE ~Is("map", y) /\ ~Is("list", y) BY <2>1, <2>4 DEF Finds, Parts
  <2>. QED BY <2>2, <2>3, <2>4
<1>7. 0 \in 0..MaxDepth /\ x \in O[0] BY <1>0, OpenedFacts
<1>. HIDE DEF O, stop, found
\* From the last level up: nothing but such numbers is found.
<1>8. ASSUME NEW v \in f[x], v \notin found PROVE FALSE
  <2>. DEFINE Odd == {j \in 0..MaxDepth : \E y \in O[MaxDepth - j] : v \in f[y]}
  <2>1. MaxDepth \in Odd
    <3>1. MaxDepth \in 0..MaxDepth /\ MaxDepth - MaxDepth = 0 BY <1>0
    <3>. QED BY <1>7, <1>8, <3>1
  <2>2. PICK j \in Odd : \A i \in Odd : j <= i
    <3>1. Odd \subseteq Nat OBVIOUS
    <3>. HIDE DEF Odd
    <3>. QED BY <2>1, <3>1, LeastNumber
  <2>3. PICK y \in O[MaxDepth - j] : v \in f[y] BY <2>2
  <2>4. j \in 0..MaxDepth /\ MaxDepth - j \in 0..MaxDepth BY <1>0, <2>2
  <2>5. y \notin stop
    <3>1. y \in stop => v \in found BY <1>5, <2>3, <2>4 DEF found
    <3>. QED BY <1>8, <3>1
  <2>6. PICK z \in Parts(y) : v \in f[z] BY <1>6, <2>3, <2>4, <2>5
  <2>7. MaxDepth - j + 1 \in 0..MaxDepth /\ z \in O[MaxDepth - j + 1]
    BY <1>4, <2>3, <2>4, <2>5
  <2>8. j - 1 \in 0..MaxDepth /\ MaxDepth - (j - 1) = MaxDepth - j + 1 /\ ~(j <= j - 1)
    BY <1>0, <2>4, <2>7
  <2>9. j - 1 \in Odd BY <2>6, <2>7, <2>8
  <2>. QED BY <2>2, <2>8, <2>9
\* From the first level down: if nothing is found, there is no such map.
<1>9. ASSUME f[x] = {} PROVE Outermost(x, keys) = {}
  <2>. DEFINE Odd == {n \in 0..MaxDepth : \E y \in O[n] : f[y] # {}}
  <2>1. Odd = {}
    <3>1. SUFFICES ASSUME Odd # {} PROVE FALSE OBVIOUS
    <3>2. PICK n \in Odd : \A i \in Odd : n <= i
      <4>1. Odd \subseteq Nat OBVIOUS
      <4>. HIDE DEF Odd
      <4>. QED BY <3>1, <4>1, LeastNumber
    <3>3. PICK z \in O[n] : f[z] # {} BY <3>2
    <3>4. n \in 0..MaxDepth /\ n # 0 BY <1>9, <3>2, <3>3, OpenedFacts DEF O
    <3>5. n \in 1..MaxDepth /\ n - 1 \in 0..MaxDepth /\ ~(n <= n - 1) BY <1>0, <3>4
    <3>6. O[n] = Below(O[n - 1] \ stop) BY <3>5, OpenedFacts DEF O, stop
    <3>7. PICK y \in O[n - 1] : y \notin stop /\ z \in Parts(y) BY <3>3, <3>6 DEF Below
    <3>8. f[y] = {} BY <3>2, <3>5
    <3>. QED BY <1>6, <3>3, <3>5, <3>7, <3>8
  <2>2. SUFFICES ASSUME NEW y \in Outermost(x, keys) PROVE FALSE OBVIOUS
  <2>3. PICK n \in 0..MaxDepth : y \in O[n] BY <2>2 DEF Outermost, O
  <2>4. y \in stop BY <2>2 DEF Outermost, stop
  <2>5. f[y] # {} BY <1>5, <2>3, <2>4
  <2>. QED BY <2>1, <2>3, <2>5
<1>. QED BY <1>1, <1>8, <1>9 DEF found

-------------------------------------------------------------------------------
(* What is recorded of a balance *)

\* Reported has at least the numbers that the site gives in its answers: under the first
\* name of a balance in a map that has one and that is in no other such map.
ReportsGiven ==
  \A i \in DOMAIN BalanceDocs : \A doc \in BalanceDocs[i] :
    {FirstNumber(y, BalanceKeys) : y \in Outermost(doc, BalanceKeys)} \subseteq Reported

Known == Reported \cup {NoNumber}

\* Which path an operation asks for the balance.
AsksPath ==
  DOMAIN at = Ops /\ \A o \in Ops : kind[o] = "balance" => at[o] \in DOMAIN BalanceDocs

BalanceInv == BalanceIsReported /\ AsksPath /\ \A o \in Ops : got[o].balance \in Known

LEMMA Paths == Len(BalanceDocs) \in Nat \ {0} /\ DOMAIN BalanceDocs = 1..Len(BalanceDocs)
<1>1. BalanceDocs \in Seq({BalanceDocs[i] : i \in DOMAIN BalanceDocs}) /\ BalanceDocs # <<>>
  BY DocumentsAssumption DEF DocumentsAssumption
<1>. QED BY <1>1

LEMMA ParsedIsGiven ==
  ASSUME ReportsGiven, NEW i \in DOMAIN BalanceDocs, NEW doc \in BalanceDocs[i],
         NEW result \in ParseBalance(doc, {})
  PROVE  result.balance \in Known
<1>1. result.balance \in Reading(doc, BalanceKeys) BY DEF ParseBalance
<1>2. IsDocument(doc) BY DocumentsAssumption DEF DocumentsAssumption
<1>3. FindNumber(doc, BalanceKeys) \subseteq Reported BY <1>2, FindsOutermost DEF ReportsGiven
<1>. QED BY <1>1, <1>3 DEF Reading, Known

LEMMA PathsStep ==
  ASSUME Basics, AsksPath, NEW o \in Ops, Step(o)
  PROVE  AsksPath'
<1>f. kind' = kind BY StepFrame DEF Basics, Frame
<1>1. CASE UNCHANGED at BY <1>1, <1>f DEF AsksPath
<1>2. ASSUME NEW v, at' = [at EXCEPT ![o] = v], kind[o] = "balance" => v \in DOMAIN BalanceDocs
      PROVE  AsksPath'
  BY <1>2, <1>f DEF AsksPath
<1>3. CASE CallCheckin(o)
  <2>1. kind[o] = "checkin" BY <1>3 DEF CallCheckin
  <2>2. PICK r : Answered(o, r) BY <1>3 DEF CallCheckin
  <2>3. UNCHANGED at \/ at' = [at EXCEPT ![o] = NextAt(o)]
    BY <2>2 DEF Answered, Judge, NextCandidate
  <2>. QED BY <1>1, <1>2, <2>1, <2>3
<1>4. CASE TestAPIKey(o)
  <2>1. kind[o] = "testKey" /\ (UNCHANGED at \/ \E n : at' = [at EXCEPT ![o] = n])
    BY <1>4 DEF TestAPIKey
  <2>. QED BY <1>1, <1>2, <2>1
<1>5. CASE CallBalance(o)
  <2>1. kind[o] = "balance" BY <1>5 DEF CallBalance
  <2>2. UNCHANGED at \/ NextBalancePath(o) BY <1>5 DEF CallBalance
  <2>3. at[o] \in 1..Len(BalanceDocs) /\ Len(BalanceDocs) \in Nat BY <2>1, Paths DEF AsksPath
  <2>4. NextBalancePath(o) => UNCHANGED at \/ (at' = [at EXCEPT ![o] = at[o] + 1] /\ at[o] < Len(BalanceDocs))
    BY DEF NextBalancePath
  <2>5. at[o] < Len(BalanceDocs) => at[o] + 1 \in DOMAIN BalanceDocs BY <2>3, Paths
  <2>. QED BY <1>1, <1>2, <2>2, <2>4, <2>5
<1>6. Load(o) \/ LoginRefused(o) \/ LoginAnswered(o) \/ TestLogin(o) => UNCHANGED at
  BY DEF Load, LoginRefused, LoginAnswered, TestLogin, call
<1>9. CASE SaveResult(o)
  <2>1. at' = [at EXCEPT ![o] = 1] BY <1>9 DEF SaveResult
  <2>2. 1 \in DOMAIN BalanceDocs BY Paths
  <2>. QED BY <1>2, <2>1, <2>2
<1>7. Writes(o) \/ Changes(o) => UNCHANGED at \/ SaveResult(o)
  BY DEF Writes, SaveSession, InsertSnapshot, SaveBalance, MarkStatus, Changes,
         ClearSession, UpdateAccount, DeleteAccount, call
<1>8. Browses(o) => UNCHANGED at
  BY DEF Browses, Look, StartChrome, ReadChrome, SaveBrowser, DropSession, call
<1>. QED BY <1>1, <1>3, <1>4, <1>5, <1>6, <1>7, <1>8, <1>9 DEF Step, Asks

\* Only the call of a balance learns one.
LEMMA LearnsBalance ==
  ASSUME Basics, ReportsGiven, AsksPath, NEW o \in Ops, got[o].balance \in Known, Step(o)
  PROVE  got'[o].balance \in Known
<1>s. Shape BY DEF Basics
<1>1. CASE UNCHANGED got BY <1>1
<1>2. ASSUME NEW status, Learns(o, status) PROVE got'[o].balance = got[o].balance
  BY <1>2, <1>s DEF Learns, Shape, Learnt
<1>3. LoginFails(o) => got'[o].balance = got[o].balance BY <1>2 DEF LoginFails
<1>4. CASE LoginAnswered(o)
  <2>1. ASSUME NEW c, NEW t, NEW u, Keeps(o, c, t, u) PROVE got'[o].balance = got[o].balance
    BY <2>1, <1>s DEF Keeps, Shape, Learnt
  <2>. QED BY <1>3, <1>4, <2>1, LoginAnswers
<1>5. CASE CallCheckin(o)
  <2>1. PICK r : Answered(o, r) BY <1>5 DEF CallCheckin
  <2>2. UNCHANGED got \/ \E status : Learns(o, status)
    BY <2>1 DEF Answered, Judge, NextCandidate
  <2>. QED BY <1>1, <1>2, <2>2
<1>6. CASE CallBalance(o)
  <2>1. at[o] \in DOMAIN BalanceDocs BY <1>6 DEF CallBalance, AsksPath
  <2>2. \/ UNCHANGED got
        \/ \E doc \in BalanceDocs[at[o]] : \E result \in ParseBalance(doc, {}) :
             got' = [got EXCEPT ![o].balance = result.balance]
    BY <1>6 DEF CallBalance, NextBalancePath
  <2>3. ASSUME NEW v, got' = [got EXCEPT ![o].balance = v] PROVE got'[o].balance = v
    BY <2>3, <1>s DEF Shape, Learnt
  <2>. QED BY <1>1, <2>1, <2>2, <2>3, ParsedIsGiven
<1>7. CASE ReadChrome(o)
  <2>1. UNCHANGED got \/ \E w : got' = [got EXCEPT ![o].cookie = w] BY <1>7 DEF ReadChrome, Knows
  <2>2. ASSUME NEW w, got' = [got EXCEPT ![o].cookie = w] PROVE got'[o].balance = got[o].balance
    BY <2>2, <1>s DEF Shape, Learnt
  <2>. QED BY <1>1, <2>1, <2>2
<1>8. Load(o) \/ TestLogin(o) \/ TestAPIKey(o) \/ Look(o) \/ StartChrome(o) => \E status : Learns(o, status)
  BY DEF Load, TestLogin, TestAPIKey, Look, StartChrome
<1>9. LoginRefused(o) => LoginFails(o) BY DEF LoginRefused
<1>11. SaveSession(o) \/ SaveResult(o) => got'[o].balance = NoNumber
  BY <1>s DEF SaveSession, SaveResult, Nothing, Shape
<1>12. NoNumber \in Known BY DEF Known
<1>10. Writes(o) \/ SaveBrowser(o) \/ DropSession(o) \/ Changes(o)
         => UNCHANGED got \/ SaveSession(o) \/ SaveResult(o)
  BY DEF Writes, InsertSnapshot, SaveBalance, MarkStatus, SaveBrowser,
         DropSession, Changes, ClearSession, UpdateAccount, DeleteAccount, Knows
<1>. QED BY <1>1, <1>2, <1>3, <1>4, <1>5, <1>6, <1>7, <1>8, <1>9, <1>10, <1>11, <1>12
   DEF Step, Asks, Browses

\* A write of the account, and the field that only SaveBalance changes.
LEMMA BalancesWriter ==
  ASSUME Shape, NEW o \in Ops, Writing(o)
  PROVE  row'.balance \in {row.balance, got[o].balance}
<1>r. DOMAIN row = AccountFields BY DEF Shape
<1>1. ASSUME NEW r, Updates(r), r.balance = row.balance PROVE row'.balance = row.balance
  BY <1>1 DEF Updates
<1>2. SaveSession(o) => row'.balance = row.balance
  <2>1. [Merged(row, got[o]) EXCEPT !.login = "valid"].balance = row.balance
    BY <1>r DEF Merged, AccountFields
  <2>. QED BY <1>1, <2>1 DEF SaveSession
<1>3. SaveBalance(o) => row'.balance \in {row.balance, got[o].balance}
  BY <1>r DEF SaveBalance, Updates, AccountFields
<1>4. SaveResult(o) => row'.balance = row.balance BY <1>r DEF SaveResult, Updates, AccountFields
<1>5. MarkStatus(o) => row'.balance = row.balance BY <1>r DEF MarkStatus, Updates, AccountFields
<1>6. SaveBrowser(o) => row'.balance = row.balance BY <1>r DEF SaveBrowser, Updates, AccountFields
<1>7. Changes(o) => row'.balance = row.balance
  BY <1>r DEF Changes, ClearSession, UpdateAccount, DeleteAccount, Edited, Updates, AccountFields
<1>. QED BY <1>2, <1>3, <1>4, <1>5, <1>6, <1>7 DEF Writing

LEMMA BalanceStep ==
  ASSUME Basics, ReportsGiven, BalanceInv, [Next]_vars
  PROVE  BalanceInv'
<1>1. ASSUME NEW o \in Ops, Step(o) PROVE BalanceInv'
  <2>f. Frame(o) /\ Shape BY <1>1, StepFrame DEF Basics
  <2>1. AsksPath' BY <1>1, PathsStep DEF BalanceInv
  <2>2. ASSUME NEW p \in Ops PROVE got'[p].balance \in Known
    <3>1. CASE p = o BY <3>1, <1>1, LearnsBalance DEF BalanceInv
    <3>2. CASE p # o
      <4>1. got'[p] = got[p] BY <3>2, <2>f DEF Frame, Works, Remembers, Shape
      <4>. QED BY <4>1 DEF BalanceInv
    <3>. QED BY <3>1, <3>2
  <2>3. BalanceIsReported'
    <3>1. row'.balance \in {row.balance, got[o].balance}
      BY <1>1, <2>f, RowsWriters, BalancesWriter
    <3>. QED BY <3>1 DEF BalanceInv, BalanceIsReported, Known
  <2>. QED BY <2>1, <2>2, <2>3 DEF BalanceInv, Known
<1>2. ASSUME UNCHANGED <<row, kind, at, got>> PROVE BalanceInv'
  BY <1>2 DEF BalanceInv, BalanceIsReported, AsksPath, Known
<1>3. Expire => BalanceInv' BY <1>2 DEF Expire, call
<1>4. ASSUME NEW o \in Ops, SignIn(o) \/ CloseWindow(o) \/ Watchdog(o) PROVE BalanceInv'
  BY <1>2, <1>4 DEF SignIn, CloseWindow, Watchdog, call
<1>5. UNCHANGED vars => BalanceInv' BY <1>2 DEF vars, call
<1>. QED BY <1>1, <1>3, <1>4, <1>5 DEF Next

\* parseBalance and BalanceRefresher.Run: the balance of an account is one the site gave,
\* wherever in its answer, or unknown, if it was so to begin with.
THEOREM BalancesAreReported ==
  ASSUME ReportsGiven, \A a \in Accounts : a.balance \in Reported \cup {NoNumber}
  PROVE  Spec => []BalanceIsReported
<1>1. Init => BalanceInv
  <2>. SUFFICES ASSUME Init PROVE BalanceInv OBVIOUS
  <2>1. row \in Accounts /\ DOMAIN at = Ops /\ \A o \in Ops : got[o] = Nothing /\ at[o] = 1
    BY DEF Init
  <2>2. 1 \in DOMAIN BalanceDocs BY Paths
  <2>. QED BY <2>1, <2>2 DEF BalanceInv, BalanceIsReported, AsksPath, Known, Nothing
<1>2. Basics /\ BalanceInv /\ [Next]_vars => BalanceInv' BY BalanceStep
<1>3. BalanceInv => BalanceIsReported BY DEF BalanceInv
<1>. QED BY <1>1, <1>2, <1>3, BasicsInit, BasicsStep, PTL DEF Spec

===============================================================================
