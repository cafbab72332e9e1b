---------------------------- MODULE SchedulerRuns ----------------------------
(***************************************************************************)
(* The scheduler goroutine: one ticker, and on every tick, in this order,  *)
(* the daily check-in, the schedules of single sites and the interval jobs *)
(* (sync.local_newapi, channel.health).  It keeps its plans in the rows of *)
(* scheduler_runs and channel_schedules, which survive the process; the    *)
(* guards of the interval jobs do not.                                     *)
(*                                                                         *)
(* Time is counted in units of which a day has DayLen.  Only jobs take     *)
(* time: the handlers between them are instantaneous.                      *)
(***************************************************************************)
EXTENDS Integers, Sequences, FiniteSets, SequencesExt

CONSTANTS
  DayLen, MaxIter,   \* see NextRun
  MaxNow,            \* bound: the instance ends here
  TickPeriod,        \* schedulerTickInterval
  MaxRun,            \* how long one job may take
  Sites,             \* sites with a row in channel_schedules
  SiteConfigs,       \* what a user may save for one: enabled and a schedule of NextRun
  Schedules,         \* those of which FirstAsked speaks, saved here or not
  DailyConfigs,      \* values of the setting checkin.schedule
  IntervalJobs,      \* the interval jobs, in tick order
  IntervalConfigs,   \* values of the settings sync.schedule, channel.health.schedule
  Faults,            \* what may go wrong: subset of {"write", "crash", "edit"}
  NoTime, NoSite

DailyConfig == [enabled : BOOLEAN, time : Nat, dmin : Nat, dmax : Nat]
SiteConfig == [enabled : BOOLEAN, time : Nat, hasCron : BOOLEAN, slots : SUBSET (0..(DayLen - 1)),
               skip : SUBSET Nat, dmin : Nat, dmax : Nat]
IntervalConfig == [enabled : BOOLEAN, interval : Nat, startup : BOOLEAN]

ASSUME SchedulerAssumption ==
  /\ DayLen \in Nat \ {0} /\ TickPeriod \in Nat \ {0}
  /\ MaxIter \in Nat /\ MaxNow \in Nat /\ MaxRun \in Nat /\ TickPeriod <= MaxNow
  /\ IntervalJobs \in Seq(STRING) /\ NoTime \notin Int
  /\ Range(IntervalJobs) \cap
       {"checkin", "sites", "site loop", "reset", "wait", "closed", "down"} = {}
  /\ DailyConfigs \subseteq DailyConfig
  /\ IntervalConfigs \subseteq IntervalConfig /\ SiteConfigs \subseteq SiteConfig
  /\ \A cfg \in Schedules : cfg \in SiteConfig /\ IsFiniteSet(cfg.skip)
  /\ Faults \subseteq {"write", "crash", "edit"}

N == INSTANCE NextRun

Units == <<"checkin", "sites">> \o IntervalJobs
Jobs == {"checkin"} \cup Range(IntervalJobs)   \* rows of scheduler_runs

VARIABLES
  clock,
  \* the process
  unit,        \* where the goroutine is: a unit, "reset", "wait", "closed" or "down"
  executing,   \* is it inside that unit's job?
  tickNow,     \* nowTime of the current tick, NoTime between ticks
  fire,        \* when the oldest tick it has not taken fires; NoTime before the first
  startedAt,   \* schedulerStartedAt
  spent,       \* how long the current job has run
  ctxDone,     \* Close has cancelled the scheduler's context
  guard,       \* SyncJobRunStore.running of each interval job
  todo,        \* due sites of this tick with the schedules it has read, none gone yet
  inHand,      \* the member of todo being checked in
  \* the database
  rows,        \* scheduler_runs
  daily,       \* checkin.schedule
  jobConfig,   \* sync.schedule, channel.health.schedule
  siteConfig, siteNext,   \* channel_schedules, next_run_at apart
  \* history
  begun,       \* how often the daily run of each day began
  stuck,       \* jobs of which a write that ends their run has failed
  served       \* sites of which this tick's run was complete

timeVars    == <<clock, tickNow, fire, startedAt, spent>>
controlVars == <<unit, executing, ctxDone, guard>>
siteVars    == <<todo, inHand>>
configVars  == <<daily, jobConfig, siteConfig>>
historyVars == <<begun, stuck, served>>
vars == <<timeVars, controlVars, siteVars, rows, configVars, siteNext, historyVars>>

Row == [status : {"none", "scheduled", "running", "ended", "idle"},
        planned : Nat \cup {NoTime}, next : Nat \cup {NoTime},
        last : Nat \cup {NoTime}, finished : Nat \cup {NoTime}]

NoRow == [status |-> "none", planned |-> NoTime, next |-> NoTime,
          last |-> NoTime, finished |-> NoTime]

Init ==
  /\ clock \in 0..(TickPeriod - 1)
  /\ unit = "down" /\ executing = FALSE /\ ctxDone = FALSE
  /\ tickNow = NoTime /\ fire = NoTime /\ startedAt = 0 /\ spent = 0
  /\ guard = [j \in Range(IntervalJobs) |-> FALSE]
  /\ todo = {} /\ inHand = NoSite
  /\ rows = [j \in Jobs |-> NoRow]
  /\ daily \in DailyConfigs
  /\ jobConfig \in [Range(IntervalJobs) -> IntervalConfigs]
  /\ siteConfig \in [Sites -> SiteConfigs]
  /\ siteNext = [s \in Sites |-> N!ComputeNextRun(siteConfig[s], clock)]
  /\ begun = [d \in 0..N!Day(MaxNow) |-> 0]
  /\ stuck = {} /\ served = {}

-------------------------------------------------------------------------------
(* Steps of the goroutine through a tick *)

At(u) == unit = u /\ ~executing

\* The write of a handler reaches the database; with the context done it cannot.
Written == IF ctxDone THEN {FALSE} ELSE IF "write" \in Faults THEN BOOLEAN ELSE {TRUE}

\* tickSchedulers goes on to the next unit, or the loop waits for the ticker, which
\* is created after the first tick.
UnitAfter(u) ==
  LET i == CHOOSE k \in DOMAIN Units : Units[k] = u IN
  IF ctxDone THEN "closed" ELSE IF i = Len(Units) THEN "wait" ELSE Units[i + 1]

Leave(u) ==
  /\ unit' = UnitAfter(u)
  /\ executing' = FALSE
  /\ tickNow' = IF UnitAfter(u) \in {"wait", "closed"} THEN NoTime ELSE tickNow
  /\ fire' = IF UnitAfter(u) = "wait" /\ fire = NoTime THEN clock + TickPeriod ELSE fire
  /\ spent' = 0

Stay(u) == unit' = u /\ executing' = TRUE /\ spent' = 0 /\ UNCHANGED <<tickNow, fire>>

\* Mutant: rows left "running" by the last process are not reset.
AfterReset_None(row) == row

\* resetInterruptedSchedulerRuns
AfterReset(row) == IF row.status = "running" THEN [row EXCEPT !.status = "idle"] ELSE row

\* schedulerLoop starts: reset, then the first tick at once.
Reset ==
  /\ At("reset")
  /\ \E ok \in Written :
       IF ok THEN rows' = [j \in Jobs |-> AfterReset(rows[j])] /\ stuck' = {}
       ELSE /\ stuck' = stuck \cup {j \in Jobs : rows[j].status = "running"}
            /\ UNCHANGED rows
  /\ unit' = "checkin" /\ tickNow' = clock
  /\ UNCHANGED <<clock, fire, startedAt, spent, executing, ctxDone, guard, siteVars,
                 configVars, siteNext, begun, served>>

\* The ticker keeps one tick for a goroutine that is late and drops the others.
StartTick ==
  /\ At("wait") /\ fire <= clock
  /\ fire' = fire + TickPeriod * ((clock - fire) \div TickPeriod + 1)
  /\ unit' = "checkin" /\ tickNow' = clock
  /\ UNCHANGED <<clock, startedAt, spent, executing, ctxDone, guard, siteVars, rows,
                 configVars, siteNext, historyVars>>

\* select on ctx.Done while waiting
StopWaiting ==
  /\ At("wait") /\ ctxDone
  /\ unit' = "closed"
  /\ UNCHANGED <<timeVars, executing, ctxDone, guard, siteVars, rows, configVars, siteNext,
                 historyVars>>

-------------------------------------------------------------------------------
(* Rows of scheduler_runs *)

\* upsertSchedulerPlan
Planned(row, key, next) ==
  [row EXCEPT !.status = IF @ = "running" THEN @ ELSE "scheduled",
              !.planned = key, !.next = next]

\* beginSchedulerJob's upsert, where the row is not running already
Begun(row, key) == [row EXCEPT !.status = "running", !.planned = key, !.last = key]

\* finishSchedulerJob's upsert
Ended(row, key) == [row EXCEPT !.status = "ended", !.last = key, !.finished = clock]

\* finishSchedulerJob for the run in hand, whose key begin has left in the row.
FinishRow(j) ==
  \E ok \in Written :
    IF ok THEN /\ rows' = [rows EXCEPT ![j] = Ended(@, rows[j].planned)]
               /\ stuck' = stuck \ {j}
    ELSE stuck' = stuck \cup {j} /\ UNCHANGED rows

-------------------------------------------------------------------------------
(* The daily check-in *)

\* makeCheckinPlan: today's window, or tomorrow's when today's is over.
CheckinPlan ==
  LET dmax == IF daily.dmax < daily.dmin THEN daily.dmin ELSE daily.dmax
      today == N!Midnight(N!Day(tickNow)) + daily.time
      base == IF tickNow > today + dmax THEN today + DayLen ELSE today
  IN  [start |-> base + daily.dmin, end |-> base + dmax, key |-> N!Day(base + daily.dmin)]

InWindow(t, plan) == t # NoTime /\ plan.start <= t /\ t <= plan.end

\* The row already holds an instant of this window.
Kept(row, plan) == row.planned = plan.key /\ InWindow(row.next, plan)

\* Otherwise a random one is drawn.
RunAts(row, plan) == IF Kept(row, plan) THEN {row.next} ELSE plan.start..plan.end

\* Mutant: last_run_key is not looked at.
DailyDue_Again(row, plan, runAt) == runAt <= tickNow /\ tickNow <= plan.end

\* Mutant: the tick is compared with the end of the window in place of the instant.
DailyDue_Late(row, plan, runAt) ==
  row.last # plan.key /\ plan.end <= tickNow /\ tickNow <= plan.end

DailyDue(row, plan, runAt) ==
  row.last # plan.key /\ runAt <= tickNow /\ tickNow <= plan.end

SkipCheckin ==
  /\ At("checkin") /\ ~daily.enabled
  /\ \E ok \in Written :
       rows' = IF ok THEN [rows EXCEPT !["checkin"] = Planned(@, NoTime, NoTime)] ELSE rows
  /\ Leave("checkin")
  /\ UNCHANGED <<clock, startedAt, ctxDone, guard, siteVars, configVars, siteNext,
                 historyVars>>

\* The row after the plan was written, or was not.
PlanWritten(row, plan, runAt) ==
  {IF ok /\ ~Kept(row, plan) THEN Planned(row, plan.key, runAt) ELSE row : ok \in Written}

WaitForCheckin ==
  /\ At("checkin") /\ daily.enabled
  /\ \E runAt \in RunAts(rows["checkin"], CheckinPlan) :
     \E row \in PlanWritten(rows["checkin"], CheckinPlan, runAt) :
       /\ \/ ~DailyDue(rows["checkin"], CheckinPlan, runAt)
          \/ row.status = "running"                  \* the CAS affects no row
          \/ FALSE \in Written                       \* or fails
       /\ rows' = [rows EXCEPT !["checkin"] = row]
  /\ Leave("checkin")
  /\ UNCHANGED <<clock, startedAt, ctxDone, guard, siteVars, configVars, siteNext,
                 historyVars>>

BeginCheckin ==
  /\ At("checkin") /\ daily.enabled /\ TRUE \in Written
  /\ \E runAt \in RunAts(rows["checkin"], CheckinPlan) :
     \E row \in PlanWritten(rows["checkin"], CheckinPlan, runAt) :
       /\ DailyDue(rows["checkin"], CheckinPlan, runAt)
       /\ row.status # "running"
       /\ rows' = [rows EXCEPT !["checkin"] = Begun(row, CheckinPlan.key)]
  /\ begun' = [begun EXCEPT ![CheckinPlan.key] = @ + 1]
  /\ Stay("checkin")
  /\ UNCHANGED <<clock, startedAt, ctxDone, guard, siteVars, configVars, siteNext,
                 stuck, served>>

\* runDueCheckins returns, with or without an error: the row ends either way.
EndCheckin ==
  /\ unit = "checkin" /\ executing
  /\ FinishRow("checkin")
  /\ Leave("checkin")
  /\ UNCHANGED <<clock, startedAt, ctxDone, guard, siteVars, configVars, siteNext,
                 begun, served>>

-------------------------------------------------------------------------------
(* Schedules of single sites *)

SiteDue(s, t) == siteConfig[s].enabled /\ siteNext[s] <= t

\* tickChannelScheduler reads all schedules once; without the context it reads none.
ListSites ==
  /\ At("sites")
  /\ todo' = {e \in Sites \X SiteConfigs :
                e[2] = siteConfig[e[1]] /\ SiteDue(e[1], tickNow) /\ ~ctxDone}
  /\ unit' = "site loop"
  /\ UNCHANGED <<timeVars, executing, ctxDone, guard, inHand, rows, configVars, siteNext,
                 historyVars>>

BeginSite(e) ==
  /\ At("site loop") /\ e \in todo /\ ~ctxDone
  /\ inHand' = e
  /\ Stay("site loop")
  /\ UNCHANGED <<clock, startedAt, ctxDone, guard, todo, rows, configVars, siteNext,
                 historyVars>>

RestOfSites == todo \ {inHand}

\* Mutant: a run that was refused or failed advances the schedule too.
Advances_Always(result) == TRUE

\* runDueCheckinsForSite has returned no error.  That includes a run which the end
\* of the process has cut short.
Advances(result) == result # "error"

\* Mutant: the schedule is advanced outside the context of the scheduler.
SiteWritten_Detached == {TRUE}

SiteWritten == Written

\* The slot was busy or the accounts could not be read ("error"), every due account
\* was tried ("complete"), or the context ended the loop ("cut").
EndSite(result) ==
  /\ unit = "site loop" /\ executing
  /\ result = "cut" => ctxDone
  /\ \E ok \in SiteWritten :
       siteNext' = IF Advances(result) /\ ok
                   THEN [siteNext EXCEPT ![inHand[1]] = N!ComputeNextRun(inHand[2], clock)]
                   ELSE siteNext
  /\ served' = IF result = "complete" THEN served \cup {inHand[1]} ELSE served
  /\ todo' = RestOfSites
  /\ inHand' = NoSite
  /\ executing' = FALSE /\ spent' = 0
  /\ UNCHANGED <<clock, tickNow, fire, startedAt, unit, ctxDone, guard, rows, configVars,
                 begun, stuck>>

EndSites ==
  /\ At("site loop") /\ (todo = {} \/ ctxDone)
  /\ todo' = {} /\ served' = {}
  /\ Leave("sites")
  /\ UNCHANGED <<clock, startedAt, ctxDone, guard, inHand, rows, configVars, siteNext,
                 begun, stuck>>

-------------------------------------------------------------------------------
(* Interval jobs *)

SkipJob(j) ==
  /\ At(j) /\ ~jobConfig[j].enabled
  /\ \E ok \in Written :
       rows' = IF ok THEN [rows EXCEPT ![j] = Planned(@, NoTime, NoTime)] ELSE rows
  /\ Leave(j)
  /\ UNCHANGED <<clock, startedAt, ctxDone, guard, siteVars, configVars, siteNext,
                 historyVars>>

\* nextRun: an interval after the last end, or after the start of the process.
NextOfJob(j) ==
  IF rows[j].finished # NoTime THEN rows[j].finished + jobConfig[j].interval
  ELSE IF jobConfig[j].startup THEN tickNow ELSE startedAt + jobConfig[j].interval

JobDue(j) == NextOfJob(j) <= tickNow

\* The keys of interval jobs (the minute of the tick) are only shown: left out.
JobPlanWritten(j) ==
  {IF ok THEN Planned(rows[j], NoTime, NextOfJob(j)) ELSE rows[j] : ok \in Written}

GuardAfterRefusal(j) == guard

WaitForJob(j) ==
  /\ At(j) /\ jobConfig[j].enabled
  /\ \E row \in JobPlanWritten(j) :
       /\ \/ ~JobDue(j)
          \/ guard[j]
          \/ row.status = "running"
          \/ FALSE \in Written
       /\ rows' = [rows EXCEPT ![j] = row]
  /\ guard' = GuardAfterRefusal(j)
  /\ Leave(j)
  /\ UNCHANGED <<clock, startedAt, ctxDone, siteVars, configVars, siteNext,
                 historyVars>>

BeginJob(j) ==
  /\ At(j) /\ jobConfig[j].enabled /\ JobDue(j) /\ ~guard[j] /\ TRUE \in Written
  /\ \E row \in JobPlanWritten(j) :
       /\ row.status # "running"
       /\ rows' = [rows EXCEPT ![j] = Begun(row, NoTime)]
  /\ guard' = [guard EXCEPT ![j] = TRUE]
  /\ Stay(j)
  /\ UNCHANGED <<clock, startedAt, ctxDone, siteVars, configVars, siteNext, begun,
                 stuck, served>>

EndJob(j) ==
  /\ unit = j /\ executing
  /\ guard' = [guard EXCEPT ![j] = FALSE]
  /\ FinishRow(j)
  /\ Leave(j)
  /\ UNCHANGED <<clock, startedAt, ctxDone, siteVars, configVars, siteNext, begun,
                 served>>

-------------------------------------------------------------------------------
(* Time, users and the end of the process *)

\* Between jobs the goroutine is fast; a job takes at most MaxRun.
Advance ==
  /\ clock < MaxNow
  /\ \/ unit = "down"
     \/ At("wait") /\ fire > clock /\ ~ctxDone
     \/ executing /\ spent < MaxRun
  /\ clock' = clock + 1
  /\ spent' = IF executing THEN spent + 1 ELSE 0
  /\ UNCHANGED <<tickNow, fire, startedAt, controlVars, siteVars, rows, configVars, siteNext,
                 historyVars>>

SaveDaily(cfg) ==
  /\ "edit" \in Faults /\ daily # cfg
  /\ daily' = cfg
  /\ UNCHANGED <<timeVars, controlVars, siteVars, rows, jobConfig, siteConfig, siteNext,
                 historyVars>>

SaveJob(j, cfg) ==
  /\ "edit" \in Faults /\ jobConfig[j] # cfg
  /\ jobConfig' = [jobConfig EXCEPT ![j] = cfg]
  /\ UNCHANGED <<timeVars, controlVars, siteVars, rows, daily, siteConfig, siteNext,
                 historyVars>>

\* PUT /api/scheduler/channel-schedules
SaveSite(s, cfg) ==
  /\ "edit" \in Faults
  /\ siteConfig' = [siteConfig EXCEPT ![s] = cfg]
  /\ siteNext' = [siteNext EXCEPT ![s] = N!ComputeNextRun(cfg, clock)]
  /\ UNCHANGED <<timeVars, controlVars, siteVars, rows, daily, jobConfig, historyVars>>

\* StartSchedulers in a new process
Boot ==
  /\ unit = "down"
  /\ unit' = "reset"
  /\ startedAt' = clock
  /\ UNCHANGED <<clock, tickNow, fire, spent, executing, ctxDone, guard, siteVars, rows,
                 configVars, siteNext, historyVars>>

\* App.Close cancels the scheduler and waits for it.
Close ==
  /\ "crash" \in Faults
  /\ unit \notin {"down", "closed"} /\ ~ctxDone
  /\ ctxDone' = TRUE
  /\ UNCHANGED <<timeVars, unit, executing, guard, siteVars, rows, configVars, siteNext,
                 historyVars>>

\* The process ends, after Close or at any other moment: its memory is gone.
Exit ==
  /\ "crash" \in Faults /\ unit # "down"
  /\ unit' = "down" /\ executing' = FALSE /\ ctxDone' = FALSE
  /\ guard' = [j \in Range(IntervalJobs) |-> FALSE]
  /\ tickNow' = NoTime /\ fire' = NoTime /\ startedAt' = 0 /\ spent' = 0
  /\ todo' = {} /\ inHand' = NoSite /\ served' = {}
  /\ UNCHANGED <<clock, rows, configVars, siteNext, begun, stuck>>

Scheduler ==
  \/ Reset \/ StartTick \/ StopWaiting
  \/ SkipCheckin \/ WaitForCheckin \/ BeginCheckin \/ EndCheckin
  \/ ListSites \/ EndSites
  \/ \E e \in todo : BeginSite(e)
  \/ \E r \in {"complete", "cut", "error"} : EndSite(r)
  \/ \E j \in Range(IntervalJobs) : SkipJob(j) \/ WaitForJob(j) \/ BeginJob(j) \/ EndJob(j)

Environment ==
  \/ Advance \/ Boot \/ Close \/ Exit
  \/ \E cfg \in DailyConfigs : SaveDaily(cfg)
  \/ \E j \in Range(IntervalJobs), cfg \in IntervalConfigs : SaveJob(j, cfg)
  \/ \E s \in Sites, cfg \in SiteConfigs : SaveSite(s, cfg)

Next == Scheduler \/ Environment

Spec == Init /\ [][Next]_vars

-------------------------------------------------------------------------------
(* Properties *)

\* Every variable stays in its type.
TypeOK ==
  /\ clock \in 0..MaxNow /\ startedAt \in 0..MaxNow
  /\ tickNow \in 0..MaxNow \cup {NoTime}
  /\ fire \in Nat \cup {NoTime}
  /\ spent \in 0..MaxRun
  /\ unit \in Range(Units) \cup {"site loop", "reset", "wait", "closed", "down"}
  /\ executing \in BOOLEAN /\ ctxDone \in BOOLEAN
  /\ guard \in [Range(IntervalJobs) -> BOOLEAN]
  /\ todo \subseteq Sites \X SiteConfigs /\ inHand \in (Sites \X SiteConfigs) \cup {NoSite}
  /\ served \subseteq Sites
  /\ rows \in [Jobs -> Row]
  /\ daily \in DailyConfigs
  /\ jobConfig \in [Range(IntervalJobs) -> IntervalConfigs]
  /\ siteConfig \in [Sites -> SiteConfigs]
  /\ siteNext \in [Sites -> Nat]
  /\ begun \in [0..N!Day(MaxNow) -> Nat]
  /\ stuck \subseteq Jobs

\* The daily run begins at most once a day: over restarts, failing writes and changes
\* of the setting in the middle of the day or of its window.
OneDailyRunPerDay == \A d \in DOMAIN begun : begun[d] <= 1

\* What runs as the run of a day begins on that day, even when its window was planned
\* the day before or reaches over midnight.
DailyRunOnItsDay ==
  unit = "checkin" /\ executing => rows["checkin"].last = N!Day(tickNow)

\* The guard of an interval job is held exactly while the job runs: every way out of
\* beginSchedulerJob and finishSchedulerJob releases it.
GuardReleased ==
  unit # "down" => \A j \in Range(IntervalJobs) : guard[j] <=> unit = j /\ executing

\* A row says "running" only while its job runs, or because the write that should
\* have ended the run failed in this process; the row of a dead process is repaired.
RunningRowIsTrue ==
  unit \notin {"down", "reset"} =>
    \A j \in Jobs : rows[j].status = "running" => (unit = j /\ executing) \/ j \in stuck

\* scheduler.go:181, "Do not advance the schedule if the run was blocked or failed
\* before completion; otherwise the due window is lost": a due site stays due until a
\* run for it was complete, unless its schedule is saved anew meanwhile.
DueWindowKept ==
  [][\A s \in Sites :
       SiteDue(s, clock) /\ ~SiteDue(s, clock)'
         => s \in served' \/ \E cfg \in SiteConfigs : SaveSite(s, cfg)]_vars

\* The planned daily run begins within a tick of its instant and the time of every
\* other job once, whenever its window is long enough for that.
PlannedRunIsPrompt ==
  LET row == rows["checkin"]
      latest == row.next + TickPeriod + MaxRun * (Cardinality(Sites) + Len(IntervalJobs))
  IN  /\ At("wait") /\ fire > clock /\ row.planned = N!Day(clock)
      /\ latest < clock /\ latest <= N!Midnight(row.planned) + daily.time + daily.dmax
      => row.last = row.planned

\* The minutes of a day at which a schedule fires, and whether it asks for a run at t.
Minutes(cfg) == IF cfg.hasCron /\ cfg.slots # {} THEN cfg.slots ELSE {cfg.time}

Matches(cfg, t) == t % DayLen \in Minutes(cfg)

AskedFor(cfg, t) == Matches(cfg, t) /\ ~N!IsDateSkipped(cfg, t)

\* A time of the day, or an expression that matches no two minutes that follow each
\* other: the loop over the skip list looks for the match after the minute that follows
\* one.  An expression that matches nothing leaves the time, if nothing is skipped.
Regular(cfg) ==
  /\ cfg \in SiteConfig /\ cfg.time < DayLen
  /\ cfg.hasCron =>
       /\ \A m \in cfg.slots : (m + 1) % DayLen \notin cfg.slots
       /\ cfg.slots = {} => cfg.skip = {}

\* ComputeNextRun finds, before the delay, the first minute after now that the schedule
\* asks for, if its loop may go over every match of the skipped dates.  (None of this
\* depends on the state, so it is asked of the first ones.)
FirstAsked ==
  unit = "down" /\ clock = 0 =>
    \A cfg \in Schedules, now \in 0..MaxNow :
      LET run == N!ComputeNextRun(cfg, now) - N!Delay(cfg)
      IN  Regular(cfg) /\ Cardinality(cfg.skip) * Cardinality(Minutes(cfg)) <= MaxIter =>
            now < run /\ AskedFor(cfg, run) /\ \A t \in (now + 1)..(run - 1) : ~AskedFor(cfg, t)

===============================================================================
