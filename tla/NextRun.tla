------------------------------- MODULE NextRun -------------------------------
(***************************************************************************)
(* channels.ComputeNextRun: when a site's own check-in schedule fires next. *)
(* A schedule is a record                                                   *)
(*   time     minute of the day of the check-in                             *)
(*   hasCron  is there a cron expression (it then overrides time)?          *)
(*   slots    minutes of the day the expression matches; none when it       *)
(*            matches no date at all ("0 0 30 2 *" parses)                  *)
(*   skip     days on which nothing shall run                               *)
(*   dmin, dmax  the random delay, in minutes                               *)
(* Time is counted in minutes of China Standard Time from the zero of       *)
(* time.Time; a day has DayLen of them.                                     *)
(***************************************************************************)
EXTENDS Integers, FiniteSets, FiniteSetsExt

\* SchedulerRuns, which takes these as its own, assumes what they are.
CONSTANTS DayLen,    \* minutes of a day
          MaxIter    \* maxIter, the bound on skipping

Zero == 0            \* time.Time{}, which an expression without a match returns

Day(t) == t \div DayLen

Midnight(d) == d * DayLen

\* cron.Schedule.Next: the first match after t.
CronNext(slots, t) ==
  IF slots = {} THEN Zero ELSE Min({u \in (t + 1)..(t + DayLen) : u % DayLen \in slots})

\* Today at "time", or tomorrow when that is not after now.
DailyNext(time, now) ==
  LET today == Midnight(Day(now)) + time IN IF today > now THEN today ELSE today + DayLen

FirstMatch(cfg, now) ==
  LET cron == CronNext(cfg.slots, now) IN
  IF cfg.hasCron /\ cron # Zero THEN cron ELSE DailyNext(cfg.time, now)

\* Mutant: one day further from the date, not from the match.
NextMatch_SameDay(cfg, t) ==
  IF cfg.hasCron THEN CronNext(cfg.slots, t + DayLen) ELSE t + DayLen

\* The match after one that falls on a skipped date.
NextMatch(cfg, t) == IF cfg.hasCron THEN CronNext(cfg.slots, t + 1) ELSE t + DayLen

IsDateSkipped(cfg, t) == Day(t) \in cfg.skip

\* One round of the loop over the skip list.
Round(cfg, t) == IF IsDateSkipped(cfg, t) THEN NextMatch(cfg, t) ELSE t

\* At most MaxIter rounds of it.
SkipDates(cfg, first) ==
  LET after[n \in 0..MaxIter] == IF n = 0 THEN first ELSE Round(cfg, after[n - 1])
  IN  after[MaxIter]

\* The midpoint of the delay, "for deterministic preview".
Delay(cfg) == IF cfg.dmax > cfg.dmin THEN (cfg.dmin + cfg.dmax) \div 2 ELSE 0

ComputeNextRun(cfg, now) == SkipDates(cfg, FirstMatch(cfg, now)) + Delay(cfg)
===============================================================================
