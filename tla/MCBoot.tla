------------------------------- MODULE MCBoot -------------------------------
(* Two processes on a fresh data directory, and on those of older versions. *)
EXTENDS Boot, TLC

CONSTANTS s1, a1, l1, p1, p2

MCSymmetry == Permutations({p1, p2})

MCColumns == <<"auth_user_id", "cron_expr">>

With(a, s) == [x \in {a} |-> s]

MCDatabases ==
  {FreshDb, WipedDb(With(a1, s1), With(l1, a1))}
    \cup {[LegacyDb(b, b, With(a1, s), With(l1, a)) EXCEPT !.secret = 0] :
             b \in BOOLEAN, <<s, a>> \in {<<s1, a1>>, <<s1, Gone>>, <<Gone, a1>>, <<NoSite, a1>>}}
    \cup {[LegacyDb(FALSE, FALSE, With(a1, s1), With(l1, a1)) EXCEPT !.secret = 0, !.fts = f] :
             f \in {"bare", "live"}}

\* The preferred port is taken by another program, and every port is.
MCBusy == {{3001}, Range(Candidates(3001))}
===============================================================================
