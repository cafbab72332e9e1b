--------------------------- MODULE MCSchedulerRuns ---------------------------
(* Small instances of SchedulerRuns for TLC: a tick every two units of a day of six or twelve. *)
EXTENDS SchedulerRuns

CONSTANTS s1, s2

Plain(t, a, b) ==
  [enabled |-> TRUE, time |-> t, hasCron |-> FALSE, slots |-> {}, skip |-> {},
   dmin |-> a, dmax |-> b]
Window(t, a, b) == [enabled |-> TRUE, time |-> t, dmin |-> a, dmax |-> b]
Off == [enabled |-> FALSE, time |-> 0, dmin |-> 0, dmax |-> 0]

\* Inside the day, and over midnight, and off.
MCWindows == {Window(1, 0, 2), Window(4, 1, 4), Off}
MCWide == {Window(1, 0, 8)}

MCSites == {Plain(1, 0, 0), Plain(3, 0, 2), [Plain(2, 0, 0) EXCEPT !.enabled = FALSE]}
MCOneSite == {Plain(1, 0, 2)}

MCSync == <<"sync.local_newapi">>
Every(n, s) == [enabled |-> TRUE, interval |-> n, startup |-> s]
MCIntervals == {Every(3, TRUE), Every(3, FALSE), [Every(3, FALSE) EXCEPT !.enabled = FALSE]}
MCOneInterval == {Every(3, FALSE)}

\* Two days of the daily run alone, or one of the job and the site alone.  The row of
\* a job that is off is left out: the write that plans it fails.
OnlyDaily ==
  /\ \A s \in Sites : siteConfig[s] = [Plain(2, 0, 0) EXCEPT !.enabled = FALSE] /\ siteNext[s] = 2
  /\ \A j \in Range(IntervalJobs) : ~jobConfig[j].enabled /\ rows[j] = NoRow
OnlyOthers == daily = Off /\ clock <= 7 /\ rows["checkin"] = NoRow

MCFocus == OnlyDaily \/ OnlyOthers

-------------------------------------------------------------------------------
(* Schedules of a day of six minutes, with every list of three dates *)

Daily(t, s) ==
  [enabled |-> TRUE, time |-> t, hasCron |-> FALSE, slots |-> {}, skip |-> s, dmin |-> 1, dmax |-> 2]
Cron(c, s) == [Daily(0, s) EXCEPT !.hasCron = TRUE, !.slots = c]

MCSchedules ==
  {Daily(t, s) : t \in 0..5, s \in SUBSET (1..3)} \cup {Cron(c, s) : c \in SUBSET (0..5), s \in SUBSET (1..3)}
    \cup {[Daily(3, {2}) EXCEPT !.dmin = 2]}
===============================================================================
