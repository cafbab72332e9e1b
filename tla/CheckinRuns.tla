----------------------------- MODULE CheckinRuns -----------------------------
(***************************************************************************)
(* Batch check-ins of one process: the preview store (CheckinPlanStore),   *)
(* the run slot and its published progress (CheckinRunStore), the manual   *)
(* task (CheckinTaskService.StartCheckin), the batch orchestrator used by  *)
(* the scheduler and by /api/checkins/run-all, and the executor that calls *)
(* a relay site and saves the result.                                      *)
(*                                                                         *)
(* Workers are goroutines; each step of a worker is one action, so that    *)
(* cancellation, deletion of accounts, other workers, midnight and the end *)
(* of the process can fall between any two of them.                        *)
(***************************************************************************)
EXTENDS Naturals, Sequences, FiniteSets, SequencesExt

CONSTANTS
  Accounts,      \* ids of rows of channel_accounts
  Sites,         \* ids of rows of upstream_sites
  SiteOf,        \* the site of each account
  Ability,       \* what canAttemptCheckin finds: ready, unsupported, no_credentials
  Tasks,         \* POST /api/tasks/start requests of type "checkin"
  RunAlls,       \* POST /api/checkins/run-all requests
  Singles,       \* POST /api/accounts/{id}/checkin requests
  Schedulers,    \* the scheduler goroutine (at most one; none in some instances)
  SiteResults,   \* what relay sites answer, success and already_checked aside
  Previews,      \* preview ids that newID may return
  MaxPreviews,   \* maxPendingCheckinPreviews
  MaxDryRun,     \* maxDryRunAccounts
  NoAccount,     \* the empty account id
  NoPreview      \* no preview claimed

Batches == RunAlls \cup Schedulers
Runners == Tasks \cup Batches          \* workers that need the run slot
Workers == Runners \cup Singles

Abilities == {"ready", "unsupported", "no_credentials"}

ASSUME ConstantsAssumption ==
  /\ IsFiniteSet(Accounts) /\ NoAccount \notin Accounts
  /\ IsFiniteSet(Previews) /\ NoPreview \notin Previews
  /\ SiteOf \in [Accounts -> Sites]
  /\ Ability \in [Accounts -> Abilities]
  /\ MaxPreviews \in Nat /\ MaxDryRun \in Nat
  /\ Tasks \cap Batches = {} /\ Singles \cap Runners = {}
  /\ Schedulers \cap RunAlls = {}
  /\ SiteResults \subseteq {"unsupported", "auth_expired", "failed"}

VARIABLES
  run,        \* CheckinRunStore.state
  plans,      \* CheckinPlanStore.plans, with the previews already gone
  account,    \* is the row of an account not yet there, live or deleted?
  checked,    \* live rows whose last_checkin_status counts as done today
  upstream,   \* accounts the relay sites have checked in today
  pc,         \* where each worker is
  todo,       \* accounts a worker has still to process, the current one first
  auths,      \* accounts whose credentials LoadBatch returned
  answer,     \* status of the executor's result for the current account
  items,      \* results a worker has published
  ctxDone,    \* has the worker's context been cancelled?
  status,     \* TaskProgress.Status of a task
  claimed,    \* the preview a task has consumed
  atCancel,   \* history: items published when the task was cancelled
  straddle    \* history: accounts with an answer in flight at midnight

storeVars   == <<run, plans>>
dbVars      == <<account, checked>>
workVars    == <<todo, auths, answer, items>>
taskVars    == <<ctxDone, status, claimed>>
historyVars == <<atCancel, straddle>>
vars == <<storeVars, dbVars, upstream, pc, workVars, taskVars, historyVars>>

Results == {"success", "already_checked", "unsupported", "auth_expired", "failed"}
\* "scheduler" stands for both "scheduled" and "channel.<site>".
Modes   == {"", "manual.task", "manual", "scheduler"}

\* Steps of a worker between a successful begin and the deferred finish.
Held == {"auth", "loop", "call", "save", "record", "update", "release"}
Steps == Held \cup {"idle", "claimed", "loaded", "over"}

Item == [id : Accounts, status : Results]
Plan == [state : {"unissued", "fresh", "expired", "gone"}, accounts : Seq(Accounts)]
Run  == [running : BOOLEAN, mode : Modes, total : Nat, processed : Nat,
         tally : [Results -> Nat], current : Accounts \cup {NoAccount}]

NoTally == [r \in Results |-> 0]

Init ==
  /\ run = [running |-> FALSE, mode |-> "", total |-> 0, processed |-> 0,
            tally |-> NoTally, current |-> NoAccount]
  /\ plans = [p \in Previews |-> [state |-> "unissued", accounts |-> <<>>]]
  /\ account \in [Accounts -> {"new", "live"}]
  /\ checked = {}
  /\ upstream = {}
  /\ pc = [w \in Workers |-> "idle"]
  /\ todo = [w \in Workers |-> <<>>]
  /\ auths = [w \in Workers |-> {}]
  /\ answer = [w \in Workers |-> "failed"]
  /\ items = [w \in Workers |-> <<>>]
  /\ ctxDone = [w \in Workers |-> FALSE]
  /\ status = [t \in Tasks |-> "none"]
  /\ claimed = [t \in Tasks |-> NoPreview]
  /\ atCancel = [w \in Workers |-> 0]
  /\ straddle = {}

-------------------------------------------------------------------------------
(* Helpers *)

Live == {a \in Accounts : account[a] = "live"}

\* LoadDueAccounts for every site: rows not done today.
Due == Live \ checked

DueOfSite(s) == {a \in Due : SiteOf[a] = s}

Runnable == {a \in Due : Ability[a] = "ready"}

\* purgeExpiredLocked
Purged == [p \in Previews |->
             IF plans[p].state = "expired" THEN [plans[p] EXCEPT !.state = "gone"]
                                           ELSE plans[p]]

Pending(ps) == {p \in Previews : ps[p].state \in {"fresh", "expired"}}

\* A request is answered once; the scheduler goroutine goes on to its next tick.
Ended(w) == IF w \in Schedulers THEN "idle" ELSE "over"

Goto(w, step) == pc' = [pc EXCEPT ![w] = step]

Current(w) == Head(todo[w])

-------------------------------------------------------------------------------
(* Previews: POST /api/tasks/dry-run *)

BuildAllDueUncapped(p) ==
  /\ plans[p].state = "unissued"
  /\ Runnable # {}
  /\ Cardinality(Due) <= MaxDryRun
  /\ \E order \in SetToSeqs(Runnable) :
       plans' = [Purged EXCEPT ![p] = [state |-> "fresh", accounts |-> order]]
  /\ UNCHANGED <<run, dbVars, upstream, pc, workVars, taskVars, historyVars>>

BuildAllDue(p) ==
  /\ Cardinality(Pending(Purged)) < MaxPreviews
  /\ BuildAllDueUncapped(p)

\* checkinPreviewTTL runs out for a preview nobody has claimed.
Expire(p) ==
  /\ plans[p].state = "fresh"
  /\ plans' = [plans EXCEPT ![p].state = "expired"]
  /\ UNCHANGED <<run, dbVars, upstream, pc, workVars, taskVars, historyVars>>

\* Mutant: Claim looks the preview up without deleting it.
Consumed_Kept(p) == Purged

\* What Claim leaves in the store of the preview it hands out.
Consumed(p) == [Purged EXCEPT ![p].state = "gone"]

\* Mutant: the task reads the due accounts again instead of its frozen plan.
ClaimedAccounts_Reloaded(p) == CHOOSE order \in SetToSeqs(Due) : TRUE

ClaimedAccounts(p) == plans[p].accounts

Claim(t, p) ==
  /\ pc[t] = "idle"
  /\ IF plans[p].state = "fresh"
     THEN /\ plans' = Consumed(p)
          /\ todo' = [todo EXCEPT ![t] = ClaimedAccounts(p)]
          /\ claimed' = [claimed EXCEPT ![t] = p]
          /\ Goto(t, "claimed")
     ELSE /\ plans' = Purged                       \* 409, nothing started
          /\ Goto(t, "over")
          /\ UNCHANGED <<todo, claimed>>
  /\ UNCHANGED <<run, dbVars, upstream, auths, answer, items, ctxDone, status, historyVars>>

-------------------------------------------------------------------------------
(* The run slot *)

NewRun(mode, total) ==
  [running |-> TRUE, mode |-> mode, total |-> total, processed |-> 0,
   tally |-> NoTally, current |-> NoAccount]

\* Mutant: begin does not look whether a run is in progress.
MayBegin_Always == TRUE

\* CheckinRunStore.begin refuses while a run is in progress.
MayBegin == ~run.running

\* StartCheckin: begin, then register the task, both before the handler replies.
BeginTask(t) ==
  /\ pc[t] = "claimed"
  /\ IF MayBegin
     THEN /\ run' = NewRun("manual.task", Len(todo[t]))
          /\ status' = [status EXCEPT ![t] = "running"]
          /\ Goto(t, "auth")
          /\ UNCHANGED todo
     ELSE /\ Goto(t, "over")                       \* 409, the preview is spent
          /\ todo' = [todo EXCEPT ![t] = <<>>]
          /\ UNCHANGED <<run, status>>
  /\ UNCHANGED <<plans, dbVars, upstream, auths, answer, items, ctxDone, claimed, historyVars>>

\* runWithFilter reads the due accounts before it asks for the slot.
LoadDue(b) ==
  /\ pc[b] = "idle"
  /\ \/ \E order \in SetToSeqs(Due) : todo' = [todo EXCEPT ![b] = order]
     \/ /\ b \in Schedulers                        \* RunForSite; an empty list ends it
        /\ \E s \in Sites : DueOfSite(s) # {} /\
             \E order \in SetToSeqs(DueOfSite(s)) : todo' = [todo EXCEPT ![b] = order]
  /\ Goto(b, "loaded")
  /\ UNCHANGED <<storeVars, dbVars, upstream, auths, answer, items, taskVars, historyVars>>

ModeOf(b) == IF b \in Schedulers THEN "scheduler" ELSE "manual"

BeginBatch(b) ==
  /\ pc[b] = "loaded"
  /\ IF MayBegin
     THEN /\ run' = NewRun(ModeOf(b), Len(todo[b]))
          /\ Goto(b, "auth")
          /\ UNCHANGED todo
     ELSE /\ Goto(b, Ended(b))                     \* errCheckinRunBusy
          /\ todo' = [todo EXCEPT ![b] = <<>>]
          /\ UNCHANGED run
  /\ UNCHANGED <<plans, dbVars, upstream, auths, answer, items, taskVars, historyVars>>

\* The deferred finish.  A task has already published its final status.
Finish(w) ==
  /\ pc[w] = "release"
  /\ run' = [run EXCEPT !.running = FALSE, !.current = NoAccount]
  /\ Goto(w, Ended(w))
  /\ todo' = [todo EXCEPT ![w] = <<>>]
  /\ auths' = [auths EXCEPT ![w] = {}]
  \* A task's progress stays readable; a batch has returned its results.
  /\ IF w \in Tasks THEN UNCHANGED <<items, ctxDone, atCancel>>
     ELSE /\ items' = [items EXCEPT ![w] = <<>>]
          /\ ctxDone' = [ctxDone EXCEPT ![w] = FALSE]
          /\ atCancel' = [atCancel EXCEPT ![w] = 0]
  /\ UNCHANGED <<plans, dbVars, upstream, answer, status, claimed, straddle>>

-------------------------------------------------------------------------------
(* The loop shared by StartCheckin and runWithFilter *)

\* LoadBatch: rows that exist now; a query error leaves no credentials at all.
LoadAuths(w) ==
  /\ pc[w] = "auth"
  /\ \E found \in {Range(todo[w]) \cap Live, {}} : auths' = [auths EXCEPT ![w] = found]
  /\ Goto(w, "loop")
  /\ UNCHANGED <<storeVars, dbVars, upstream, todo, answer, items, taskVars, historyVars>>

EndTask(w, final) ==
  status' = IF w \in Tasks THEN [status EXCEPT ![w] = final] ELSE status

\* Mutant: the loop stops one account short and waits there.
MayStart_NotLast(w) == Len(todo[w]) > 1 /\ ~ctxDone[w]

\* The context test at the head of the loop lets the next account start.
MayStart(w) == todo[w] # <<>> /\ ~ctxDone[w]

StartItem(w) ==
  /\ pc[w] = "loop"
  /\ MayStart(w)
  /\ run' = [run EXCEPT !.current = IF run.running THEN Current(w) ELSE @]
  /\ Goto(w, "call")
  /\ UNCHANGED <<plans, dbVars, upstream, workVars, taskVars, historyVars>>

\* ctx.Err() # nil (or the site limiter's wait is interrupted).
StopOnCancel(w) ==
  /\ pc[w] = "loop" /\ todo[w] # <<>> /\ ctxDone[w]
  /\ EndTask(w, "cancelled")
  /\ Goto(w, "release")
  /\ UNCHANGED <<storeVars, dbVars, upstream, workVars, ctxDone, claimed, historyVars>>

EndLoop(w) ==
  /\ pc[w] = "loop" /\ todo[w] = <<>>
  /\ EndTask(w, "done")
  /\ Goto(w, "release")
  /\ UNCHANGED <<storeVars, dbVars, upstream, workVars, ctxDone, claimed, historyVars>>

\* One worker's result as CheckinRunStore.recordResult counts it.
Recorded(r) ==
  IF run.running THEN [run EXCEPT !.processed = @ + 1, !.tally[r] = @ + 1] ELSE run

PublishedItems(w) == Append(items[w], [id |-> Current(w), status |-> answer[w]])

Record(w) ==
  /\ pc[w] = "record"
  /\ run' = Recorded(answer[w])
  /\ IF w \in Tasks
     THEN Goto(w, "update") /\ UNCHANGED <<todo, items>>
     ELSE /\ Goto(w, "loop")
          /\ items' = [items EXCEPT ![w] = PublishedItems(w)]
          /\ todo' = [todo EXCEPT ![w] = Tail(@)]
  /\ UNCHANGED <<plans, dbVars, upstream, auths, answer, taskVars, historyVars>>

\* runningTask.update
Update(t) ==
  /\ pc[t] = "update"
  /\ items' = [items EXCEPT ![t] = PublishedItems(t)]
  /\ todo' = [todo EXCEPT ![t] = Tail(@)]
  /\ Goto(t, "loop")
  /\ UNCHANGED <<storeVars, dbVars, upstream, auths, answer, taskVars, historyVars>>

-------------------------------------------------------------------------------
(* CheckinExecutor.Run for the current account *)

\* Credentials were not in the batch and Load fails: an error, nothing saved.
LoadAuthFails(w) ==
  /\ pc[w] = "call" /\ Current(w) \notin auths[w]
  /\ answer' = [answer EXCEPT ![w] = "failed"]
  /\ Goto(w, IF w \in Singles THEN "over" ELSE "record")
  /\ UNCHANGED <<storeVars, dbVars, upstream, todo, auths, items, taskVars, historyVars>>

HasAuth(w) == Current(w) \in auths[w] \cup Live

\* What a relay site may answer.  The executor tries several paths and retries a
\* lost request, so any answer may come with or without the check-in having taken
\* effect; a second check-in of the day is told so.
SiteAnswers(a) ==
  {<<r, u>> : r \in SiteResults, u \in {upstream, upstream \cup {a}}}
  \cup {<<"already_checked", upstream \cup {a}>>}
  \cup {<<"success", upstream \cup {a}>> : fresh \in {a} \ upstream}

Answers(a) ==
  CASE Ability[a] = "unsupported"    -> {<<"unsupported", upstream>>}
    [] Ability[a] = "no_credentials" -> {<<"auth_expired", upstream>>}
    [] OTHER                         -> SiteAnswers(a)

CallSite(w) ==
  /\ pc[w] = "call" /\ HasAuth(w)
  /\ \E r \in Answers(Current(w)) :
       answer' = [answer EXCEPT ![w] = r[1]] /\ upstream' = r[2]
  /\ Goto(w, "save")
  /\ UNCHANGED <<storeVars, dbVars, todo, auths, items, taskVars, historyVars>>

\* Mutant: a failed attempt also counts for today.
DoneStatuses_WithFailed == {"success", "already_checked", "failed"}

\* Statuses that LoadDueAccounts takes for done.
DoneStatuses == {"success", "already_checked"}

AfterSave(w) == Goto(w, IF w \in Singles THEN "over" ELSE "record")

\* SaveResult commits when the row is still there; last_checkin_at is the time
\* of the save, so the status counts for the day of the save.
SaveResult(w) ==
  /\ pc[w] = "save" /\ account[Current(w)] = "live" /\ ~ctxDone[w]
  /\ checked' = IF answer[w] \in DoneStatuses THEN checked \cup {Current(w)}
                                              ELSE checked \ {Current(w)}
  /\ AfterSave(w)
  /\ UNCHANGED <<storeVars, account, upstream, workVars, taskVars, historyVars>>

\* SaveResult rolls back (row gone, context done, busy database): only logged.
SaveFails(w) ==
  /\ pc[w] = "save"
  /\ AfterSave(w)
  /\ UNCHANGED <<storeVars, dbVars, upstream, workVars, taskVars, historyVars>>

\* checkinAccount runs the executor without asking for the slot.
StartSingle(s, a) ==
  /\ pc[s] = "idle"
  /\ todo' = [todo EXCEPT ![s] = <<a>>]
  /\ Goto(s, "call")
  /\ UNCHANGED <<storeVars, dbVars, upstream, auths, answer, items, taskVars, historyVars>>

-------------------------------------------------------------------------------
(* Everything that can happen between two steps of a worker *)

\* Cancel of a task, a client that hangs up on run-all, checkinJobTimeout.
Cancel(w) ==
  /\ pc[w] \in Held \ {"release"} /\ ~ctxDone[w]
  /\ ctxDone' = [ctxDone EXCEPT ![w] = TRUE]
  /\ atCancel' = [atCancel EXCEPT ![w] = Len(items[w])]
  /\ UNCHANGED <<storeVars, dbVars, upstream, pc, workVars, status, claimed, straddle>>

AddAccount(a) ==
  /\ account[a] = "new"
  /\ account' = [account EXCEPT ![a] = "live"]
  /\ UNCHANGED <<storeVars, checked, upstream, pc, workVars, taskVars, historyVars>>

DeleteAccount(a) ==
  /\ account[a] = "live"
  /\ account' = [account EXCEPT ![a] = "deleted"]
  /\ checked' = checked \ {a}
  /\ UNCHANGED <<storeVars, upstream, pc, workVars, taskVars, historyVars>>

\* Midnight in Asia/Shanghai: cstDayBounds moves and the sites start a new day.
NewDay ==
  /\ upstream' = {} /\ checked' = {}
  /\ upstream \cup checked # {}
  /\ straddle' = {Current(w) : w \in {v \in Workers : pc[v] = "save"}}
  /\ UNCHANGED <<storeVars, account, pc, workVars, taskVars, atCancel>>

\* The process ends at any point and starts again: memory is lost, rows stay.
Restart ==
  /\ run' = [run EXCEPT !.running = FALSE, !.mode = "", !.total = 0, !.processed = 0,
                        !.tally = NoTally, !.current = NoAccount]
  /\ plans' = [p \in Previews |-> IF plans[p].state = "unissued" THEN plans[p]
                                  ELSE [plans[p] EXCEPT !.state = "gone"]]
  /\ pc' = [w \in Workers |-> IF pc[w] = "idle" THEN "idle" ELSE Ended(w)]
  /\ todo' = [w \in Workers |-> <<>>]
  /\ items' = [w \in Workers |-> <<>>]
  /\ ctxDone' = [w \in Workers |-> FALSE]
  /\ status' = [t \in Tasks |-> "none"]
  /\ claimed' = [t \in Tasks |-> NoPreview]
  /\ auths' = [w \in Workers |-> {}]
  /\ answer' = [w \in Workers |-> "failed"]
  /\ atCancel' = [w \in Workers |-> 0]
  /\ UNCHANGED <<dbVars, upstream, straddle>>

-------------------------------------------------------------------------------
RunnerStep(w) ==
  \/ LoadAuths(w) \/ StartItem(w) \/ StopOnCancel(w) \/ EndLoop(w)
  \/ Record(w) \/ Finish(w)

ExecutorStep(w) == LoadAuthFails(w) \/ CallSite(w) \/ SaveResult(w) \/ SaveFails(w)

Environment ==
  \/ \E p \in Previews : BuildAllDue(p) \/ Expire(p)
  \/ \E a \in Accounts : AddAccount(a) \/ DeleteAccount(a)
  \/ \E w \in Runners : Cancel(w)
  \/ NewDay
  \/ Restart

Next ==
  \/ \E t \in Tasks : (\E p \in Previews : Claim(t, p)) \/ BeginTask(t) \/ Update(t)
  \/ \E b \in Batches : LoadDue(b) \/ BeginBatch(b)
  \/ \E w \in Runners : RunnerStep(w)
  \/ \E w \in Workers : ExecutorStep(w)
  \/ \E s \in Singles, a \in Accounts : StartSingle(s, a)
  \/ Environment

Spec == Init /\ [][Next]_vars

\* Goroutines are scheduled and every HTTP call has a timeout.  Nothing obliges
\* a user, the clock or the end of the process to act.
WorkerStep(w) == RunnerStep(w) \/ ExecutorStep(w) \/ (w \in Tasks /\ Update(w))

Fairness == \A w \in Runners : WF_vars(WorkerStep(w))

FairSpec == Spec /\ Fairness

-------------------------------------------------------------------------------
(* Properties *)

\* Every variable stays in its type.
TypeOK ==
  /\ run \in Run
  /\ plans \in [Previews -> Plan]
  /\ account \in [Accounts -> {"new", "live", "deleted"}]
  /\ checked \subseteq Accounts
  /\ upstream \subseteq Accounts
  /\ pc \in [Workers -> Steps]
  /\ todo \in [Workers -> Seq(Accounts)]
  /\ auths \in [Workers -> SUBSET Accounts]
  /\ answer \in [Workers -> Results]
  /\ items \in [Workers -> Seq(Item)]
  /\ ctxDone \in [Workers -> BOOLEAN]
  /\ status \in [Tasks -> {"none", "running", "done", "cancelled"}]
  /\ claimed \in [Tasks -> Previews \cup {NoPreview}]
  /\ atCancel \in [Workers -> Nat]
  /\ straddle \subseteq Accounts

Holders == {w \in Runners : pc[w] \in Held}

\* Two batches never run at once, and the published state says "running"
\* exactly while one does: begin and finish pair up on every path.
OneBatchAtATime ==
  /\ \A v, w \in Holders : v = w
  /\ run.running <=> Holders # {}

\* One-time previews: two start requests never run the same frozen plan, however
\* their Claim calls interleave.
PreviewUsedOnce ==
  \A t, u \in Tasks : claimed[t] = claimed[u] /\ claimed[t] # NoPreview => t = u

Ids(s) == [i \in 1..Len(s) |-> s[i].id]

\* A task publishes one item per account of its frozen plan, in plan order, and
\* never another account; a task that says "done" has published all of them.
PlanIsFrozen ==
  \A t \in Tasks : status[t] # "none" =>
    /\ pc[t] \in Held => Ids(items[t]) \o todo[t] = plans[claimed[t]].accounts
    /\ status[t] = "done" => Ids(items[t]) = plans[claimed[t]].accounts

\* While a task reports "running" the slot is its own: no progress of another
\* worker is ever shown under it.
RunningTaskOwnsSlot ==
  \A t \in Tasks : status[t] = "running" =>
    run.running /\ run.mode = "manual.task" /\ pc[t] \in Held

\* After a cancellation at most the account in hand is still finished.
CancelStopsTheRest ==
  \A w \in Runners : ctxDone[w] => Len(items[w]) <= atCancel[w] + 1

\* The database never calls an account done for today when the site has not
\* checked it in today, except for an answer in flight at midnight.
DoneTodayIsReal == \A a \in checked : a \in upstream \/ a \in straddle

\* Every batch gives the slot back: it ends, is cancelled or dies with the process.
EveryBatchEnds == \A w \in Runners : pc[w] \in Held ~> pc[w] \notin Held

\* The run slot as its callers see it.
Slot == INSTANCE RunSlot WITH Workers <- Runners, holders <- Holders

\* However the begin calls of tasks, run-all requests and the scheduler interleave,
\* one of them has the slot at a time, and whoever has it gives it back: CheckinRuns
\* implements RunSlot, fairness of Release included.
ImplementsRunSlot == Slot!Spec
===============================================================================
