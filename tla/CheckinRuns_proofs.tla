------------------------- MODULE CheckinRuns_proofs -------------------------
(***************************************************************************)
(* Theorems about CheckinRuns, for every set of accounts, tasks, run-all   *)
(* and single requests and every size of the preview store.                *)
(***************************************************************************)
EXTENDS CheckinRuns, FiniteSetTheorems, SequenceTheorems, TLAPS

-------------------------------------------------------------------------------
(* Type correctness *)

\* An account is in hand from the start of its turn until its result is published.
InHand == {"call", "save", "record", "update"}

HasCurrent == \A w \in Workers : pc[w] \in InHand => todo[w] # <<>>

TypeInv == TypeOK /\ HasCurrent

\* An order of some accounts is a sequence of accounts.
LEMMA OrderIsSeq ==
  ASSUME NEW S \in SUBSET Accounts, NEW order \in SetToSeqs(S)
  PROVE  order \in Seq(Accounts)
<1>1. IsFiniteSet(S) BY ConstantsAssumption, FS_Subset
<1>2. Cardinality(S) \in Nat BY <1>1, FS_CardinalityType
<1>3. order \in [1..Cardinality(S) -> S] BY DEF SetToSeqs
<1>4. order \in Seq(S) BY <1>2, <1>3, SeqDef
<1> QED BY <1>4, SeqMonotonic

LEMMA TypeInvInit == Init => TypeInv
<1> SUFFICES ASSUME Init PROVE TypeInv OBVIOUS
<1>1. NoTally \in [Results -> Nat] BY DEF NoTally
<1>2. run \in Run BY <1>1 DEF Init, Run, Modes
<1>3. plans \in [Previews -> Plan] BY EmptySeq DEF Init, Plan
<1>4. /\ todo \in [Workers -> Seq(Accounts)]
      /\ items \in [Workers -> Seq(Item)]
      /\ auths \in [Workers -> SUBSET Accounts]
      /\ answer \in [Workers -> Results]
  BY EmptySeq DEF Init, Results
<1>5. pc \in [Workers -> Steps] /\ HasCurrent BY DEF Init, Steps, HasCurrent, InHand
<1>6. claimed \in [Tasks -> Previews \cup {NoPreview}] BY DEF Init
<1>7. /\ account \in [Accounts -> {"new", "live", "deleted"}]
      /\ checked \subseteq Accounts /\ upstream \subseteq Accounts
      /\ straddle \subseteq Accounts
  BY DEF Init
<1>8. /\ ctxDone \in [Workers -> BOOLEAN]
      /\ status \in [Tasks -> {"none", "running", "done", "cancelled"}]
      /\ atCancel \in [Workers -> Nat]
  BY DEF Init
<1> QED BY <1>2, <1>3, <1>4, <1>5, <1>6, <1>7, <1>8 DEF TypeInv, TypeOK

\* The current account of a worker is an account.
LEMMA CurrentIsAccount ==
  ASSUME TypeInv, NEW w \in Workers, pc[w] \in InHand \/ todo[w] # <<>>
  PROVE  /\ Current(w) \in Accounts
         /\ Tail(todo[w]) \in Seq(Accounts)
         /\ PublishedItems(w) \in Seq(Item)
<1>1. todo[w] \in Seq(Accounts) /\ todo[w] # <<>> BY DEF TypeInv, TypeOK, HasCurrent
<1>2. Current(w) \in Accounts /\ Tail(todo[w]) \in Seq(Accounts)
  BY <1>1 DEF Current
<1>3. items[w] \in Seq(Item) /\ answer[w] \in Results BY DEF TypeInv, TypeOK
<1>4. [id |-> Current(w), status |-> answer[w]] \in Item BY <1>2, <1>3 DEF Item
<1>5. PublishedItems(w) \in Seq(Item) BY <1>3, <1>4 DEF PublishedItems
<1> QED BY <1>2, <1>5

\* Counting a result keeps the published state well typed.
LEMMA RecordedIsRun ==
  ASSUME TypeInv, NEW r \in Results
  PROVE  Recorded(r) \in Run
<1>1. run \in Run BY DEF TypeInv, TypeOK
<1>2. [run.tally EXCEPT ![r] = run.tally[r] + 1] \in [Results -> Nat] BY <1>1 DEF Run
<1>3. run.processed + 1 \in Nat BY <1>1 DEF Run
<1>4. [run EXCEPT !.processed = run.processed + 1, !.tally = [run.tally EXCEPT ![r] = run.tally[r] + 1]] \in Run
  BY <1>1, <1>2, <1>3 DEF Run
<1>5. [run EXCEPT !.processed = @ + 1, !.tally[r] = @ + 1]
        = [run EXCEPT !.processed = run.processed + 1, !.tally = [run.tally EXCEPT ![r] = run.tally[r] + 1]]
  BY <1>1 DEF Run
<1> QED BY <1>1, <1>4, <1>5 DEF Recorded

LEMMA NewRunIsRun ==
  ASSUME NEW mode \in Modes, NEW total \in Nat
  PROVE  NewRun(mode, total) \in Run
<1>1. NoTally \in [Results -> Nat] BY DEF NoTally
<1> QED BY <1>1 DEF NewRun, Run

LEMMA TypeInvStep == TypeInv /\ [Next]_vars => TypeInv'
<1> SUFFICES ASSUME TypeInv, [Next]_vars PROVE TypeInv' OBVIOUS
<1> USE DEF TypeInv, storeVars, dbVars, workVars, taskVars, historyVars
<1>1. ASSUME NEW p \in Previews, BuildAllDue(p) PROVE TypeInv'
  <2>1. BuildAllDueUncapped(p) BY <1>1 DEF BuildAllDue
  <2>2. PICK order \in SetToSeqs(Runnable) :
          plans' = [Purged EXCEPT ![p] = [state |-> "fresh", accounts |-> order]]
    BY <2>1 DEF BuildAllDueUncapped
  <2>3. order \in Seq(Accounts) BY OrderIsSeq DEF Runnable, Due, Live
  <2>4. Purged \in [Previews -> Plan] BY DEF Purged, TypeOK, Plan
  <2>5. plans' \in [Previews -> Plan] BY <2>2, <2>3, <2>4 DEF Plan
  <2> QED BY <2>1, <2>5 DEF BuildAllDueUncapped, TypeOK, HasCurrent
<1>2. ASSUME NEW p \in Previews, Expire(p) PROVE TypeInv'
  BY <1>2 DEF Expire, TypeOK, HasCurrent, Plan
<1>3. ASSUME NEW t \in Tasks, NEW p \in Previews, Claim(t, p) PROVE TypeInv'
  <2>1. Purged \in [Previews -> Plan] BY DEF Purged, TypeOK, Plan
  <2>2. plans' \in [Previews -> Plan] BY <1>3, <2>1 DEF Claim, Consumed, Plan
  <2>3. plans[p].accounts \in Seq(Accounts) BY DEF TypeOK, Plan
  <2>4. todo' \in [Workers -> Seq(Accounts)]
    BY <1>3, <2>3 DEF Claim, ClaimedAccounts, TypeOK, Workers, Runners
  <2> QED BY <1>3, <2>2, <2>4 DEF Claim, Goto, TypeOK, HasCurrent, InHand, Steps, Held, Workers, Runners
<1>4. ASSUME NEW t \in Tasks, BeginTask(t) PROVE TypeInv'
  <2>1. todo[t] \in Seq(Accounts) /\ Len(todo[t]) \in Nat BY DEF TypeOK, Workers, Runners
  <2>2. "manual.task" \in Modes BY DEF Modes
  <2>3. NewRun("manual.task", Len(todo[t])) \in Run BY <2>1, <2>2, NewRunIsRun
  <2>4. run' \in Run BY <1>4, <2>3 DEF BeginTask, TypeOK
  <2>5. todo' \in [Workers -> Seq(Accounts)] BY <1>4, EmptySeq DEF BeginTask, TypeOK
  <2>6. pc' \in [Workers -> Steps] /\ HasCurrent'
    BY <1>4 DEF BeginTask, Goto, TypeOK, HasCurrent, InHand, Steps, Held, Workers, Runners
  <2> QED BY <1>4, <2>4, <2>5, <2>6 DEF BeginTask, TypeOK
<1>5. ASSUME NEW b \in Batches, LoadDue(b) PROVE TypeInv'
  <2>1. \E order \in Seq(Accounts) : todo' = [todo EXCEPT ![b] = order]
    BY <1>5, OrderIsSeq DEF LoadDue, DueOfSite, Due, Live
  <2> QED BY <1>5, <2>1 DEF LoadDue, Goto, TypeOK, HasCurrent, InHand, Steps, Held, Workers, Runners
<1>6. ASSUME NEW b \in Batches, BeginBatch(b) PROVE TypeInv'
  <2>1. todo[b] \in Seq(Accounts) /\ Len(todo[b]) \in Nat BY DEF TypeOK, Workers, Runners
  <2>2. ModeOf(b) \in Modes BY DEF Modes, ModeOf
  <2>3. NewRun(ModeOf(b), Len(todo[b])) \in Run BY <2>1, <2>2, NewRunIsRun
  <2>4. run' \in Run BY <1>6, <2>3 DEF BeginBatch, TypeOK
  <2>5. todo' \in [Workers -> Seq(Accounts)] BY <1>6, EmptySeq DEF BeginBatch, TypeOK
  <2>6. pc' \in [Workers -> Steps] /\ HasCurrent'
    BY <1>6 DEF BeginBatch, Goto, Ended, TypeOK, HasCurrent, InHand, Steps, Held, Workers, Runners
  <2> QED BY <1>6, <2>4, <2>5, <2>6 DEF BeginBatch, TypeOK
<1>7. ASSUME NEW w \in Runners, Finish(w) PROVE TypeInv'
  <2>1. run' \in Run BY <1>7 DEF Finish, Run, TypeOK
  <2>2. pc' \in [Workers -> Steps] /\ HasCurrent'
    BY <1>7 DEF Finish, Goto, Ended, TypeOK, HasCurrent, InHand, Steps, Held, Workers
  <2>3. /\ todo' \in [Workers -> Seq(Accounts)]
        /\ auths' \in [Workers -> SUBSET Accounts]
    BY <1>7, EmptySeq DEF Finish, TypeOK
  <2>4. /\ items' \in [Workers -> Seq(Item)]
        /\ ctxDone' \in [Workers -> BOOLEAN]
        /\ atCancel' \in [Workers -> Nat]
    <3>1. CASE w \in Tasks BY <1>7, <3>1 DEF Finish, TypeOK
    <3>2. CASE w \notin Tasks
      <4>1. /\ items' = [items EXCEPT ![w] = <<>>]
            /\ ctxDone' = [ctxDone EXCEPT ![w] = FALSE]
            /\ atCancel' = [atCancel EXCEPT ![w] = 0]
        BY <1>7, <3>2 DEF Finish
      <4>2. <<>> \in Seq(Item) BY EmptySeq
      <4>3. items' \in [Workers -> Seq(Item)] BY <4>1, <4>2 DEF TypeOK
      <4> QED BY <4>1, <4>3 DEF TypeOK
    <3> QED BY <3>1, <3>2
  <2> QED BY <1>7, <2>1, <2>2, <2>3, <2>4 DEF Finish, TypeOK
<1>8. ASSUME NEW w \in Runners, LoadAuths(w) PROVE TypeInv'
  BY <1>8 DEF LoadAuths, Live, Goto, TypeOK, HasCurrent, InHand, Steps, Held, Workers
<1>9. ASSUME NEW w \in Runners, StartItem(w) PROVE TypeInv'
  <2>1. Current(w) \in Accounts BY <1>9, CurrentIsAccount DEF StartItem, MayStart, Workers
  <2>2. run' \in Run BY <1>9, <2>1 DEF StartItem, Run, TypeOK
  <2> QED BY <1>9, <2>2 DEF StartItem, MayStart, Goto, TypeOK, HasCurrent, InHand, Steps, Held, Workers
<1>10. ASSUME NEW w \in Runners, StopOnCancel(w) PROVE TypeInv'
  BY <1>10 DEF StopOnCancel, EndTask, Goto, TypeOK, HasCurrent, InHand, Steps, Held, Workers
<1>11. ASSUME NEW w \in Runners, EndLoop(w) PROVE TypeInv'
  BY <1>11 DEF EndLoop, EndTask, Goto, TypeOK, HasCurrent, InHand, Steps, Held, Workers
<1>12. ASSUME NEW w \in Runners, Record(w) PROVE TypeInv'
  <2>1. /\ Tail(todo[w]) \in Seq(Accounts)
        /\ PublishedItems(w) \in Seq(Item)
    BY <1>12, CurrentIsAccount DEF Record, InHand, Workers
  <2>2. run' \in Run BY <1>12, RecordedIsRun DEF Record, TypeOK, Workers
  <2> QED BY <1>12, <2>1, <2>2 DEF Record, Goto, TypeOK, HasCurrent, InHand, Steps, Held, Workers
<1>13. ASSUME NEW t \in Tasks, Update(t) PROVE TypeInv'
  <2>1. /\ Tail(todo[t]) \in Seq(Accounts)
        /\ PublishedItems(t) \in Seq(Item)
    BY <1>13, CurrentIsAccount DEF Update, InHand, Workers, Runners
  <2> QED BY <1>13, <2>1 DEF Update, Goto, TypeOK, HasCurrent, InHand, Steps, Held, Workers, Runners
<1>14. ASSUME NEW w \in Workers, LoadAuthFails(w) PROVE TypeInv'
  BY <1>14 DEF LoadAuthFails, Goto, TypeOK, HasCurrent, InHand, Steps, Held, Results
<1>15. ASSUME NEW w \in Workers, CallSite(w) PROVE TypeInv'
  <2>1. Current(w) \in Accounts BY <1>15, CurrentIsAccount DEF CallSite, InHand
  <2>2. PICK r \in Answers(Current(w)) :
          answer' = [answer EXCEPT ![w] = r[1]] /\ upstream' = r[2]
    BY <1>15 DEF CallSite
  <2>3. r[1] \in Results /\ r[2] \subseteq Accounts
    BY <2>1, ConstantsAssumption DEF Answers, SiteAnswers, Results, TypeOK
  <2> QED BY <1>15, <2>2, <2>3 DEF CallSite, Goto, TypeOK, HasCurrent, InHand, Steps, Held
<1>16. ASSUME NEW w \in Workers, SaveResult(w) PROVE TypeInv'
  <2>1. Current(w) \in Accounts BY <1>16, CurrentIsAccount DEF SaveResult, InHand
  <2> QED BY <1>16, <2>1 DEF SaveResult, AfterSave, Goto, TypeOK, HasCurrent, InHand, Steps, Held
<1>17. ASSUME NEW w \in Workers, SaveFails(w) PROVE TypeInv'
  BY <1>17 DEF SaveFails, AfterSave, Goto, TypeOK, HasCurrent, InHand, Steps, Held
<1>18. ASSUME NEW s \in Singles, NEW a \in Accounts, StartSingle(s, a) PROVE TypeInv'
  BY <1>18 DEF StartSingle, Goto, TypeOK, HasCurrent, InHand, Steps, Held, Workers
<1>19. ASSUME NEW w \in Runners, Cancel(w) PROVE TypeInv'
  <2>1. Len(items[w]) \in Nat BY DEF TypeOK, Workers
  <2> QED BY <1>19, <2>1 DEF Cancel, TypeOK, HasCurrent, Workers
<1>20. ASSUME NEW a \in Accounts, AddAccount(a) \/ DeleteAccount(a) PROVE TypeInv'
  BY <1>20 DEF AddAccount, DeleteAccount, TypeOK, HasCurrent
<1>21. CASE NewDay
  <2>1. \A w \in Workers : pc[w] = "save" => Current(w) \in Accounts
    BY CurrentIsAccount DEF InHand
  <2> QED BY <1>21, <2>1 DEF NewDay, TypeOK, HasCurrent
<1>22. CASE Restart
  <2>1. run' \in Run BY <1>22 DEF Restart, Run, Modes, NoTally, TypeOK
  <2>2. plans' \in [Previews -> Plan] BY <1>22 DEF Restart, Plan, TypeOK
  <2> QED BY <1>22, <2>1, <2>2 DEF Restart, Ended, TypeOK, HasCurrent, InHand, Steps, Results
<1>23. CASE UNCHANGED vars BY <1>23 DEF vars, TypeOK, HasCurrent
<1> QED
  BY <1>1, <1>2, <1>3, <1>4, <1>5, <1>6, <1>7, <1>8, <1>9, <1>10, <1>11, <1>12, <1>13,
     <1>14, <1>15, <1>16, <1>17, <1>18, <1>19, <1>20, <1>21, <1>22, <1>23
  DEF Next, RunnerStep, ExecutorStep, Environment, Workers, Runners, Batches

LEMMA TypeInvariant == Spec => []TypeInv
<1> QED BY TypeInvInit, TypeInvStep, PTL DEF Spec

\* Every variable keeps its type; with HasCurrent, no step of the loop takes the
\* head of an empty list of accounts.
THEOREM TypeCorrect == Spec => []TypeOK
<1>1. TypeInv => TypeOK BY DEF TypeInv
<1> QED BY <1>1, TypeInvariant, PTL

-------------------------------------------------------------------------------
(* The run slot *)

\* How the slot moves: it is taken when free, given back by its holder, lost with
\* the process, or left alone; and Running says each time whether it is held.
SlotMove ==
  \/ \E w \in Runners : Holders = {} /\ Holders' = {w} /\ run'.running = TRUE
  \/ \E w \in Runners : w \in Holders /\ Holders' = Holders \ {w} /\ run'.running = FALSE
  \/ Holders' = {} /\ run'.running = FALSE
  \/ Holders' = Holders /\ run'.running = run.running

\* A worker that changes step but neither enters nor leaves the slot.
LEMMA StaysOutOrIn ==
  ASSUME TypeOK, NEW w \in Workers, NEW step, pc' = [pc EXCEPT ![w] = step],
         w \in Runners => (pc[w] \in Held <=> step \in Held),
         run'.running = run.running
  PROVE  SlotMove
<1>1. \A v \in Runners : pc'[v] \in Held <=> pc[v] \in Held
  BY DEF TypeOK, Workers
<1> QED BY <1>1 DEF SlotMove, Holders

LEMMA TakesSlot ==
  ASSUME TypeOK, OneBatchAtATime, NEW w \in Runners, run.running = FALSE,
         pc' = [pc EXCEPT ![w] = "auth"], run'.running = TRUE
  PROVE  SlotMove
<1>1. Holders = {} BY DEF OneBatchAtATime
<1>2. Holders' = {w} BY <1>1 DEF Holders, TypeOK, Workers, Held
<1> QED BY <1>1, <1>2 DEF SlotMove

LEMMA SlotStep ==
  ASSUME TypeInv, OneBatchAtATime, [Next]_vars
  PROVE  SlotMove
<1> USE DEF TypeInv, storeVars, dbVars, workVars, taskVars, historyVars
<1>0. TypeOK /\ run \in Run BY DEF TypeOK
<1>1. ASSUME NEW p \in Previews, BuildAllDue(p) \/ Expire(p) PROVE SlotMove
  BY <1>1 DEF BuildAllDue, BuildAllDueUncapped, Expire, SlotMove, Holders
<1>2. ASSUME NEW t \in Tasks, NEW p \in Previews, Claim(t, p) PROVE SlotMove
  <2>1. PICK step \in {"claimed", "over"} : pc' = [pc EXCEPT ![t] = step]
    BY <1>2 DEF Claim, Goto
  <2>2. t \in Workers /\ pc[t] \notin Held /\ step \notin Held
    BY <1>2, <2>1 DEF Claim, Held, Workers, Runners
  <2> QED BY <1>0, <1>2, <2>1, <2>2, StaysOutOrIn DEF Claim
<1>3. ASSUME NEW t \in Tasks, BeginTask(t) PROVE SlotMove
  <2>0. t \in Runners /\ t \in Workers BY DEF Runners, Workers
  <2>1. CASE MayBegin
    <3>1. run.running = FALSE BY <1>0, <2>1 DEF MayBegin, Run
    <3>2. run'.running = TRUE /\ pc' = [pc EXCEPT ![t] = "auth"]
      BY <1>3, <2>1 DEF BeginTask, NewRun, Goto
    <3> QED BY <1>0, <2>0, <3>1, <3>2, TakesSlot
  <2>2. CASE ~MayBegin
    <3>1. run' = run /\ pc' = [pc EXCEPT ![t] = "over"] BY <1>3, <2>2 DEF BeginTask, Goto
    <3>2. pc[t] \notin Held /\ "over" \notin Held BY <1>3 DEF BeginTask, Held
    <3> QED BY <1>0, <2>0, <3>1, <3>2, StaysOutOrIn
  <2> QED BY <2>1, <2>2
<1>4. ASSUME NEW b \in Batches, LoadDue(b) PROVE SlotMove
  <2>1. b \in Workers /\ pc[b] \notin Held /\ "loaded" \notin Held
    BY <1>4 DEF LoadDue, Held, Workers, Runners
  <2> QED BY <1>0, <1>4, <2>1, StaysOutOrIn DEF LoadDue, Goto
<1>5. ASSUME NEW b \in Batches, BeginBatch(b) PROVE SlotMove
  <2>0. b \in Runners /\ b \in Workers BY DEF Runners, Workers
  <2>1. CASE MayBegin
    <3>1. run.running = FALSE BY <1>0, <2>1 DEF MayBegin, Run
    <3>2. run'.running = TRUE /\ pc' = [pc EXCEPT ![b] = "auth"]
      BY <1>5, <2>1 DEF BeginBatch, NewRun, Goto
    <3> QED BY <1>0, <2>0, <3>1, <3>2, TakesSlot
  <2>2. CASE ~MayBegin
    <3>1. run' = run /\ pc' = [pc EXCEPT ![b] = Ended(b)] BY <1>5, <2>2 DEF BeginBatch, Goto
    <3>2. pc[b] \notin Held /\ Ended(b) \notin Held BY <1>5 DEF BeginBatch, Ended, Held
    <3> QED BY <1>0, <2>0, <3>1, <3>2, StaysOutOrIn
  <2> QED BY <2>1, <2>2
<1>6. ASSUME NEW w \in Runners, Finish(w) PROVE SlotMove
  <2>1. pc' = [pc EXCEPT ![w] = Ended(w)] /\ run'.running = FALSE /\ w \in Holders
    BY <1>0, <1>6 DEF Finish, Goto, Holders, Held, Run
  <2>2. Ended(w) \notin Held BY DEF Ended, Held
  <2>3. Holders' = Holders \ {w} BY <1>0, <2>1, <2>2 DEF Holders, TypeOK, Workers
  <2> QED BY <2>1, <2>3 DEF SlotMove
<1>7. ASSUME NEW w \in Runners, LoadAuths(w) \/ StartItem(w) \/ StopOnCancel(w) \/ EndLoop(w) \/ Record(w)
      PROVE SlotMove
  <2>1. PICK step \in Held : pc' = [pc EXCEPT ![w] = step]
    BY <1>7 DEF LoadAuths, StartItem, StopOnCancel, EndLoop, Record, Goto, Held
  <2>2. pc[w] \in Held BY <1>7 DEF LoadAuths, StartItem, StopOnCancel, EndLoop, Record, Held
  <2>3. run'.running = run.running
    BY <1>0, <1>7 DEF LoadAuths, StartItem, StopOnCancel, EndLoop, Record, Recorded, Run
  <2> QED BY <1>0, <2>1, <2>2, <2>3, StaysOutOrIn DEF Workers
<1>8. ASSUME NEW t \in Tasks, Update(t) PROVE SlotMove
  <2>1. t \in Workers /\ pc[t] \in Held /\ "loop" \in Held BY <1>8 DEF Update, Held, Workers, Runners
  <2> QED BY <1>0, <1>8, <2>1, StaysOutOrIn DEF Update, Goto
<1>9. ASSUME NEW w \in Workers, ExecutorStep(w) PROVE SlotMove
  <2>1. PICK step \in {"save", "record", "over"} :
          pc' = [pc EXCEPT ![w] = step] /\ (step = "over" => w \in Singles)
    BY <1>9 DEF ExecutorStep, LoadAuthFails, CallSite, SaveResult, SaveFails, AfterSave, Goto
  <2>2. pc[w] \in Held /\ run' = run
    BY <1>9 DEF ExecutorStep, LoadAuthFails, CallSite, SaveResult, SaveFails, Held
  <2>3. w \in Runners => step \in Held BY <2>1, ConstantsAssumption DEF Held
  <2> QED BY <1>0, <2>1, <2>2, <2>3, StaysOutOrIn
<1>10. ASSUME NEW s \in Singles, NEW a \in Accounts, StartSingle(s, a) PROVE SlotMove
  <2>1. s \in Workers /\ s \notin Runners BY ConstantsAssumption DEF Workers
  <2> QED BY <1>0, <1>10, <2>1, StaysOutOrIn DEF StartSingle, Goto
<1>11. ASSUME NEW w \in Runners, Cancel(w) PROVE SlotMove
  BY <1>11 DEF Cancel, SlotMove, Holders
<1>12. ASSUME NEW a \in Accounts, AddAccount(a) \/ DeleteAccount(a) PROVE SlotMove
  BY <1>12 DEF AddAccount, DeleteAccount, SlotMove, Holders
<1>13. CASE NewDay BY <1>13 DEF NewDay, SlotMove, Holders
<1>14. CASE Restart
  <2>1. \A w \in Runners : pc'[w] \notin Held
    BY <1>14 DEF Restart, Ended, Held, Workers
  <2> QED BY <1>0, <1>14, <2>1 DEF Restart, SlotMove, Holders, Run
<1>15. CASE UNCHANGED vars BY <1>15 DEF vars, SlotMove, Holders
<1> QED
  BY <1>1, <1>2, <1>3, <1>4, <1>5, <1>6, <1>7, <1>8, <1>9, <1>10, <1>11, <1>12, <1>13,
     <1>14, <1>15
  DEF Next, RunnerStep, Environment

LEMMA OneBatchInit == Init => OneBatchAtATime
<1> SUFFICES ASSUME Init PROVE OneBatchAtATime OBVIOUS
<1>1. Holders = {} BY DEF Init, Holders, Held, Workers
<1>2. run.running = FALSE BY DEF Init
<1> QED BY <1>1, <1>2 DEF OneBatchAtATime

LEMMA OneBatchStep == TypeInv /\ OneBatchAtATime /\ [Next]_vars => OneBatchAtATime'
<1> SUFFICES ASSUME TypeInv, OneBatchAtATime, [Next]_vars PROVE OneBatchAtATime' OBVIOUS
<1>1. SlotMove BY SlotStep
<1> QED BY <1>1 DEF SlotMove, OneBatchAtATime

\* begin and finish pair up: for any number of tasks, run-all requests and
\* schedulers, at most one of them runs a batch, and Running says whether one does.
THEOREM RunsExclude == Spec => []OneBatchAtATime
<1> QED BY OneBatchInit, OneBatchStep, TypeInvariant, PTL DEF Spec

\* The safety part of the refinement: every step of CheckinRuns is a step of the
\* abstract slot, or leaves it alone.
THEOREM SlotSafety == Spec => Slot!Safety
<1>1. Init => Slot!Init BY DEF Init, Slot!Init, Holders, Held, Workers
<1>2. TypeInv /\ OneBatchAtATime /\ [Next]_vars => [Slot!Next]_Holders
  <2> SUFFICES ASSUME TypeInv, OneBatchAtATime, [Next]_vars PROVE [Slot!Next]_Holders OBVIOUS
  <2>1. SlotMove BY SlotStep
  <2> QED BY <2>1 DEF SlotMove, Slot!Next, Slot!Acquire, Slot!Release, Slot!Reset
<1> QED BY <1>1, <1>2, TypeInvariant, RunsExclude, PTL DEF Spec, Slot!Safety

-------------------------------------------------------------------------------
(* Tasks and previews *)

\* The mode of the slot is that of the task that holds it, and a task says running
\* only while it has work to do under the slot.
TaskHolds ==
  \A t \in Tasks :
    /\ pc[t] \in Held => run.mode = "manual.task"
    /\ status[t] = "running" => pc[t] \in Held \ {"release"}

\* A worker other than t moves: t's own step and status stay.
LEMMA TaskUntouched ==
  ASSUME TypeOK, TaskHolds, NEW w \in Workers, NEW step, pc' = [pc EXCEPT ![w] = step],
         status' = status, run'.mode = run.mode,
         w \in Tasks => (step \in Held => pc[w] \in Held)
                        /\ (status[w] = "running" => step \in Held \ {"release"})
  PROVE  TaskHolds'
<1> SUFFICES ASSUME NEW t \in Tasks
             PROVE  /\ pc'[t] \in Held => run'.mode = "manual.task"
                    /\ status'[t] = "running" => pc'[t] \in Held \ {"release"}
  BY DEF TaskHolds
<1>1. t \in Workers BY DEF Workers, Runners
<1>2. CASE t = w BY <1>1, <1>2 DEF TypeOK, TaskHolds
<1>3. CASE t # w BY <1>1, <1>3 DEF TypeOK, TaskHolds
<1> QED BY <1>2, <1>3

LEMMA TaskHoldsStep ==
  ASSUME TypeInv, OneBatchAtATime, TaskHolds, [Next]_vars
  PROVE  TaskHolds'
<1> USE DEF TypeInv, storeVars, dbVars, workVars, taskVars, historyVars
<1>0. TypeOK /\ run \in Run /\ Tasks \cap Batches = {} /\ Tasks \cap Singles = {}
  BY ConstantsAssumption DEF TypeOK, Runners
<1>1. ASSUME NEW p \in Previews, BuildAllDue(p) \/ Expire(p) PROVE TaskHolds'
  BY <1>1 DEF BuildAllDue, BuildAllDueUncapped, Expire, TaskHolds
<1>2. ASSUME NEW t \in Tasks, NEW p \in Previews, Claim(t, p) PROVE TaskHolds'
  <2>1. PICK step \in {"claimed", "over"} : pc' = [pc EXCEPT ![t] = step]
    BY <1>2 DEF Claim, Goto
  <2>2. t \in Workers /\ pc[t] \notin Held /\ step \notin Held
    BY <1>2, <2>1 DEF Claim, Held, Workers, Runners
  <2>3. status[t] # "running" BY <2>2 DEF TaskHolds
  <2> QED BY <1>0, <1>2, <2>1, <2>2, <2>3, TaskUntouched DEF Claim
<1>3. ASSUME NEW t \in Tasks, BeginTask(t) PROVE TaskHolds'
  <2>1. t \in Workers /\ pc[t] \notin Held /\ status[t] # "running"
    BY <1>3 DEF BeginTask, Held, Workers, Runners, TaskHolds
  <2>2. CASE MayBegin
    <3>1. \A u \in Tasks : pc[u] \notin Held
      BY <1>0, <2>2 DEF MayBegin, OneBatchAtATime, Holders, Runners
    <3>2. run'.mode = "manual.task" /\ pc' = [pc EXCEPT ![t] = "auth"]
      BY <1>3, <2>2 DEF BeginTask, NewRun, Goto
    <3>3. status' = [status EXCEPT ![t] = "running"] BY <1>3, <2>2 DEF BeginTask
    <3> QED BY <1>0, <2>1, <3>1, <3>2, <3>3 DEF TaskHolds, TypeOK, Held, Workers, Runners
  <2>3. CASE ~MayBegin
    <3>1. run' = run /\ status' = status /\ pc' = [pc EXCEPT ![t] = "over"]
      BY <1>3, <2>3 DEF BeginTask, Goto
    <3> QED BY <1>0, <2>1, <3>1, TaskUntouched DEF Held
  <2> QED BY <2>2, <2>3
<1>4. ASSUME NEW b \in Batches, LoadDue(b) PROVE TaskHolds'
  BY <1>0, <1>4, TaskUntouched DEF LoadDue, Goto, Workers, Runners
<1>5. ASSUME NEW b \in Batches, BeginBatch(b) PROVE TaskHolds'
  <2>1. b \in Workers /\ b \notin Tasks BY <1>0 DEF Workers, Runners
  <2>2. CASE MayBegin
    <3>1. \A u \in Tasks : pc[u] \notin Held
      BY <1>0, <2>2 DEF MayBegin, OneBatchAtATime, Holders, Runners
    <3>2. pc' = [pc EXCEPT ![b] = "auth"] /\ status' = status
      BY <1>5, <2>2 DEF BeginBatch, Goto
    <3> QED BY <1>0, <2>1, <3>1, <3>2 DEF TaskHolds, TypeOK, Workers, Runners
  <2>3. CASE ~MayBegin
    BY <1>0, <1>5, <2>1, <2>3, TaskUntouched DEF BeginBatch, Goto
  <2> QED BY <2>2, <2>3
<1>6. ASSUME NEW w \in Runners, Finish(w) PROVE TaskHolds'
  <2>1. w \in Workers /\ Ended(w) \notin Held BY DEF Ended, Held, Workers
  <2>2. w \in Tasks => status[w] # "running" BY <1>6 DEF Finish, TaskHolds
  <2>3. run'.mode = run.mode BY <1>0, <1>6 DEF Finish, Run
  <2> QED BY <1>0, <1>6, <2>1, <2>2, <2>3, TaskUntouched DEF Finish, Goto
<1>7. ASSUME NEW w \in Runners, LoadAuths(w) \/ StartItem(w) \/ Record(w) PROVE TaskHolds'
  <2>1. PICK step \in Held \ {"release"} : pc' = [pc EXCEPT ![w] = step]
    BY <1>7 DEF LoadAuths, StartItem, Record, Goto, Held
  <2>2. pc[w] \in Held /\ status' = status
    BY <1>7 DEF LoadAuths, StartItem, Record, Held
  <2>3. run'.mode = run.mode
    BY <1>0, <1>7 DEF LoadAuths, StartItem, Record, Recorded, Run
  <2> QED BY <1>0, <2>1, <2>2, <2>3, TaskUntouched DEF Workers
<1>8. ASSUME NEW w \in Runners, StopOnCancel(w) \/ EndLoop(w) PROVE TaskHolds'
  <2>1. /\ pc' = [pc EXCEPT ![w] = "release"] /\ pc[w] \in Held /\ run' = run
    BY <1>8 DEF StopOnCancel, EndLoop, Goto, Held
  <2>2. PICK final \in {"cancelled", "done"} :
          status' = IF w \in Tasks THEN [status EXCEPT ![w] = final] ELSE status
    BY <1>8 DEF StopOnCancel, EndLoop, EndTask
  <2>3. CASE w \in Tasks
    BY <1>0, <2>1, <2>2, <2>3 DEF TaskHolds, TypeOK, Workers, Runners
  <2>4. CASE w \notin Tasks
    BY <1>0, <2>1, <2>2, <2>4, TaskUntouched DEF Workers
  <2> QED BY <2>3, <2>4
<1>9. ASSUME NEW t \in Tasks, Update(t) PROVE TaskHolds'
  <2>1. t \in Workers /\ pc[t] \in Held /\ "loop" \in Held \ {"release"}
    BY <1>9 DEF Update, Held, Workers, Runners
  <2> QED BY <1>0, <1>9, <2>1, TaskUntouched DEF Update, Goto
<1>10. ASSUME NEW w \in Workers, ExecutorStep(w) PROVE TaskHolds'
  <2>1. PICK step \in {"save", "record", "over"} :
          pc' = [pc EXCEPT ![w] = step] /\ (step = "over" => w \in Singles)
    BY <1>10 DEF ExecutorStep, LoadAuthFails, CallSite, SaveResult, SaveFails, AfterSave, Goto
  <2>2. pc[w] \in Held /\ run' = run /\ status' = status
    BY <1>10 DEF ExecutorStep, LoadAuthFails, CallSite, SaveResult, SaveFails, Held
  <2>3. w \in Tasks => step \in Held \ {"release"} BY <1>0, <2>1 DEF Held
  <2> QED BY <1>0, <2>1, <2>2, <2>3, TaskUntouched
<1>11. ASSUME NEW s \in Singles, NEW a \in Accounts, StartSingle(s, a) PROVE TaskHolds'
  BY <1>0, <1>11, TaskUntouched DEF StartSingle, Goto, Workers
<1>12. ASSUME NEW w \in Runners, Cancel(w) PROVE TaskHolds'
  BY <1>12 DEF Cancel, TaskHolds
<1>13. ASSUME NEW a \in Accounts, AddAccount(a) \/ DeleteAccount(a) PROVE TaskHolds'
  BY <1>13 DEF AddAccount, DeleteAccount, TaskHolds
<1>14. CASE NewDay BY <1>14 DEF NewDay, TaskHolds
<1>15. CASE Restart
  <2>1. \A t \in Tasks : pc'[t] \notin Held
    BY <1>15 DEF Restart, Ended, Held, Workers, Runners
  <2> QED BY <1>15, <2>1 DEF Restart, TaskHolds
<1>16. CASE UNCHANGED vars BY <1>16 DEF vars, TaskHolds
<1> QED
  BY <1>1, <1>2, <1>3, <1>4, <1>5, <1>6, <1>7, <1>8, <1>9, <1>10, <1>11, <1>12, <1>13,
     <1>14, <1>15, <1>16
  DEF Next, RunnerStep, Environment

\* A client that sees "running" sees the progress of that very task: the slot is
\* held, by it, from before its start is answered until its final status is set.
THEOREM RunningTasksHoldTheSlot == Spec => []RunningTaskOwnsSlot
<1>1. Init => TaskHolds BY DEF Init, TaskHolds, Held, Workers, Runners
<1>2. TypeInv /\ OneBatchAtATime /\ TaskHolds /\ [Next]_vars => TaskHolds' BY TaskHoldsStep
<1>3. TypeInv /\ OneBatchAtATime /\ TaskHolds => RunningTaskOwnsSlot
  BY DEF TaskHolds, OneBatchAtATime, RunningTaskOwnsSlot, Holders, Runners, TypeInv, TypeOK, Run
<1> QED BY <1>1, <1>2, <1>3, TypeInvariant, RunsExclude, PTL DEF Spec

\* A claimed preview is gone from the store.
ClaimedIsGone == \A t \in Tasks : claimed[t] # NoPreview => plans[claimed[t]].state = "gone"

PreviewInv == ClaimedIsGone /\ PreviewUsedOnce

LEMMA PreviewInvStep ==
  ASSUME TypeInv, PreviewInv, [Next]_vars
  PROVE  PreviewInv'
<1> USE DEF TypeInv, storeVars, dbVars, workVars, taskVars, historyVars
<1>0. /\ plans \in [Previews -> Plan]
      /\ claimed \in [Tasks -> Previews \cup {NoPreview}]
      /\ Purged \in [Previews -> Plan]
      /\ \A q \in Previews : plans[q].state = "gone" => Purged[q].state = "gone"
  BY DEF TypeOK, Purged, Plan
<1>1. ASSUME NEW p \in Previews, BuildAllDue(p) PROVE PreviewInv'
  <2>1. plans[p].state = "unissued" /\ claimed' = claimed
    BY <1>1 DEF BuildAllDue, BuildAllDueUncapped
  <2>2. PICK order : plans' = [Purged EXCEPT ![p] = [state |-> "fresh", accounts |-> order]]
    BY <1>1 DEF BuildAllDue, BuildAllDueUncapped
  <2>3. \A q \in Previews : plans[q].state = "gone" => plans'[q].state = "gone"
    BY <1>0, <2>1, <2>2
  <2> QED BY <1>0, <2>1, <2>3 DEF PreviewInv, ClaimedIsGone, PreviewUsedOnce
<1>2. ASSUME NEW p \in Previews, Expire(p) PROVE PreviewInv'
  <2>1. \A q \in Previews : plans[q].state = "gone" => plans'[q].state = "gone"
    BY <1>0, <1>2 DEF Expire, Plan
  <2> QED BY <1>0, <1>2, <2>1 DEF Expire, PreviewInv, ClaimedIsGone, PreviewUsedOnce
<1>3. ASSUME NEW t \in Tasks, NEW p \in Previews, Claim(t, p) PROVE PreviewInv'
  <2>1. CASE plans[p].state = "fresh"
    <3>1. /\ plans' = [Purged EXCEPT ![p].state = "gone"]
          /\ claimed' = [claimed EXCEPT ![t] = p]
      BY <1>3, <2>1 DEF Claim, Consumed
    <3>2. /\ plans'[p].state = "gone"
          /\ \A q \in Previews : plans[q].state = "gone" => plans'[q].state = "gone"
      BY <1>0, <3>1 DEF Plan
    <3>3. \A u \in Tasks : claimed[u] # p
      BY <2>1, ConstantsAssumption DEF PreviewInv, ClaimedIsGone
    <3>4. ClaimedIsGone' BY <1>0, <3>1, <3>2 DEF PreviewInv, ClaimedIsGone
    <3>5. PreviewUsedOnce' BY <1>0, <3>1, <3>3 DEF PreviewInv, PreviewUsedOnce
    <3> QED BY <3>4, <3>5 DEF PreviewInv
  <2>2. CASE plans[p].state # "fresh"
    <3>1. plans' = Purged /\ claimed' = claimed BY <1>3, <2>2 DEF Claim
    <3> QED BY <1>0, <3>1 DEF PreviewInv, ClaimedIsGone, PreviewUsedOnce
  <2> QED BY <2>1, <2>2
<1>4. CASE Restart
  BY <1>4 DEF Restart, PreviewInv, ClaimedIsGone, PreviewUsedOnce
<1>5. ASSUME UNCHANGED <<plans, claimed>> PROVE PreviewInv'
  BY <1>5 DEF PreviewInv, ClaimedIsGone, PreviewUsedOnce
<1>6. ASSUME NEW t \in Tasks, BeginTask(t) \/ Update(t) PROVE PreviewInv'
  BY <1>5, <1>6 DEF BeginTask, Update
<1>7. ASSUME NEW b \in Batches, LoadDue(b) \/ BeginBatch(b) PROVE PreviewInv'
  BY <1>5, <1>7 DEF LoadDue, BeginBatch
<1>8. ASSUME NEW w \in Runners, RunnerStep(w) \/ Cancel(w) PROVE PreviewInv'
  BY <1>5, <1>8 DEF RunnerStep, LoadAuths, StartItem, StopOnCancel, EndLoop, Record, Finish, Cancel
<1>9. ASSUME NEW w \in Workers, ExecutorStep(w) PROVE PreviewInv'
  BY <1>5, <1>9 DEF ExecutorStep, LoadAuthFails, CallSite, SaveResult, SaveFails
<1>10. ASSUME NEW s \in Singles, NEW a \in Accounts, StartSingle(s, a) PROVE PreviewInv'
  BY <1>5, <1>10 DEF StartSingle
<1>11. ASSUME NEW a \in Accounts, AddAccount(a) \/ DeleteAccount(a) PROVE PreviewInv'
  BY <1>5, <1>11 DEF AddAccount, DeleteAccount
<1>12. CASE NewDay BY <1>5, <1>12 DEF NewDay
<1>13. CASE UNCHANGED vars BY <1>5, <1>13 DEF vars
<1> QED
  BY <1>1, <1>2, <1>3, <1>4, <1>6, <1>7, <1>8, <1>9, <1>10, <1>11, <1>12, <1>13
  DEF Next, Environment

\* One-time previews: however many start requests race for it, a preview starts at
\* most one task of the process.
THEOREM PreviewsUsedOnce == Spec => []PreviewUsedOnce
<1>1. Init => PreviewInv BY DEF Init, PreviewInv, ClaimedIsGone, PreviewUsedOnce
<1>2. TypeInv /\ PreviewInv /\ [Next]_vars => PreviewInv' BY PreviewInvStep
<1>3. PreviewInv => PreviewUsedOnce BY DEF PreviewInv
<1> QED BY <1>1, <1>2, <1>3, TypeInvariant, PTL DEF Spec

-------------------------------------------------------------------------------
(* Cancellation *)

\* A cancelled worker that has an account in hand had it when it was cancelled.
CancelInv ==
  \A w \in Runners : ctxDone[w] =>
    /\ Len(items[w]) <= atCancel[w] + 1
    /\ pc[w] \in InHand => Len(items[w]) <= atCancel[w]

\* A step that takes up no account and publishes none keeps CancelInv.
LEMMA NothingPublished ==
  ASSUME TypeInv, CancelInv, NEW v \in Workers, NEW step,
         pc' = [pc EXCEPT ![v] = step], step \in InHand => pc[v] \in InHand \/ v \in Singles,
         UNCHANGED <<items, ctxDone, atCancel>>
  PROVE  CancelInv'
<1> SUFFICES ASSUME NEW w \in Runners, ctxDone[w]
             PROVE  /\ Len(items[w]) <= atCancel[w] + 1
                    /\ pc'[w] \in InHand => Len(items[w]) <= atCancel[w]
  BY DEF CancelInv
<1>1. pc'[w] \in InHand => pc[w] \in InHand
  BY ConstantsAssumption DEF TypeInv, TypeOK, Workers, Runners, Batches
<1> QED BY <1>1 DEF CancelInv

\* A worker publishes the account it has in hand and goes back to its loop.
LEMMA OnePublished ==
  ASSUME TypeInv, CancelInv, NEW v \in Runners, pc[v] \in InHand,
         pc' = [pc EXCEPT ![v] = "loop"], items' = [items EXCEPT ![v] = PublishedItems(v)],
         UNCHANGED <<ctxDone, atCancel>>
  PROVE  CancelInv'
<1>1. v \in Workers BY DEF Workers
<1>2. /\ items \in [Workers -> Seq(Item)] /\ pc \in [Workers -> Steps]
      /\ atCancel \in [Workers -> Nat]
  BY DEF TypeInv, TypeOK
<1>3. Current(v) \in Accounts /\ answer[v] \in Results
  BY <1>1, CurrentIsAccount DEF TypeInv, TypeOK
<1>4. Len(PublishedItems(v)) = Len(items[v]) + 1
  <2>1. [id |-> Current(v), status |-> answer[v]] \in Item BY <1>3 DEF Item
  <2> QED BY <1>1, <1>2, <2>1, AppendProperties DEF PublishedItems
<1> SUFFICES ASSUME NEW w \in Runners, ctxDone[w]
             PROVE  /\ Len(items'[w]) <= atCancel[w] + 1
                    /\ pc'[w] \in InHand => Len(items'[w]) <= atCancel[w]
  BY DEF CancelInv
<1>5. w \in Workers /\ Len(items[w]) \in Nat /\ atCancel[w] \in Nat
  BY <1>2, LenProperties DEF Workers
<1>6. CASE w = v
  <2>1. Len(items[v]) <= atCancel[v] BY <1>6 DEF CancelInv
  <2>2. items'[w] = PublishedItems(v) /\ pc'[w] = "loop" BY <1>1, <1>2, <1>6
  <2> QED BY <1>4, <1>5, <1>6, <2>1, <2>2 DEF InHand
<1>7. CASE w # v
  <2>1. items'[w] = items[w] /\ pc'[w] = pc[w] BY <1>2, <1>5, <1>7
  <2> QED BY <2>1 DEF CancelInv
<1> QED BY <1>6, <1>7

LEMMA CancelInvStep ==
  ASSUME TypeInv, CancelInv, [Next]_vars
  PROVE  CancelInv'
<1> USE DEF storeVars, dbVars, workVars, taskVars, historyVars
<1>1. ASSUME UNCHANGED <<pc, items, ctxDone, atCancel>> PROVE CancelInv'
  BY <1>1 DEF CancelInv
<1>2. ASSUME NEW t \in Tasks, NEW p \in Previews, Claim(t, p) PROVE CancelInv'
  <2>1. t \in Workers BY DEF Workers, Runners
  <2> QED BY <1>2, <2>1, NothingPublished DEF Claim, Goto, InHand
<1>3. ASSUME NEW t \in Tasks, BeginTask(t) PROVE CancelInv'
  <2>1. t \in Workers BY DEF Workers, Runners
  <2> QED BY <1>3, <2>1, NothingPublished DEF BeginTask, Goto, InHand
<1>4. ASSUME NEW t \in Tasks, Update(t) PROVE CancelInv'
  <2>1. t \in Runners BY DEF Runners
  <2> QED BY <1>4, <2>1, OnePublished DEF Update, Goto, InHand
<1>5. ASSUME NEW b \in Batches, LoadDue(b) PROVE CancelInv'
  <2>1. b \in Workers BY DEF Workers, Runners
  <2> QED BY <1>5, <2>1, NothingPublished DEF LoadDue, Goto, InHand
<1>6. ASSUME NEW b \in Batches, BeginBatch(b) PROVE CancelInv'
  <2>1. b \in Workers BY DEF Workers, Runners
  <2>2. Ended(b) \notin InHand BY DEF Ended, InHand
  <2> QED BY <1>6, <2>1, <2>2, NothingPublished DEF BeginBatch, Goto, InHand
<1>7. ASSUME NEW w \in Runners, LoadAuths(w) \/ StopOnCancel(w) \/ EndLoop(w) PROVE CancelInv'
  <2>1. w \in Workers BY DEF Workers
  <2> QED BY <1>7, <2>1, NothingPublished DEF LoadAuths, StopOnCancel, EndLoop, Goto, InHand
<1>8. ASSUME NEW w \in Runners, StartItem(w) PROVE CancelInv'
  <2>1. w \in Workers BY DEF Workers
  <2>2. ~ctxDone[w] /\ pc' = [pc EXCEPT ![w] = "call"] /\ UNCHANGED <<items, ctxDone, atCancel>>
    BY <1>8 DEF StartItem, MayStart, Goto
  <2>3. \A v \in Runners : ctxDone[v] => v # w /\ pc'[v] = pc[v]
    BY <2>1, <2>2 DEF TypeInv, TypeOK, Workers
  <2> QED BY <2>2, <2>3 DEF CancelInv
<1>9. ASSUME NEW w \in Runners, Record(w) PROVE CancelInv'
  <2>1. w \in Workers BY DEF Workers
  <2>2. CASE w \in Tasks
    BY <1>9, <2>1, <2>2, NothingPublished DEF Record, Goto, InHand
  <2>3. CASE w \notin Tasks
    BY <1>9, <2>3, OnePublished DEF Record, Goto, InHand
  <2> QED BY <2>2, <2>3
<1>10. ASSUME NEW w \in Runners, Finish(w) PROVE CancelInv'
  <2>1. w \in Workers BY DEF Workers
  <2>2. Ended(w) \notin InHand /\ pc' = [pc EXCEPT ![w] = Ended(w)]
    BY <1>10 DEF Finish, Goto, Ended, InHand
  <2>3. CASE w \in Tasks BY <1>10, <2>1, <2>2, <2>3, NothingPublished DEF Finish
  <2>4. CASE w \notin Tasks
    <3>1. /\ ctxDone' = [ctxDone EXCEPT ![w] = FALSE]
          /\ items' = [items EXCEPT ![w] = <<>>]
          /\ atCancel' = [atCancel EXCEPT ![w] = 0]
      BY <1>10, <2>4 DEF Finish
    <3>2. \A v \in Runners : ctxDone'[v] => v # w
      BY <2>1, <3>1 DEF TypeInv, TypeOK
    <3>3. \A v \in Runners : v # w => /\ ctxDone'[v] = ctxDone[v] /\ items'[v] = items[v]
                                      /\ atCancel'[v] = atCancel[v] /\ pc'[v] = pc[v]
      BY <2>2, <3>1 DEF TypeInv, TypeOK, Workers
    <3> QED BY <3>2, <3>3 DEF CancelInv
  <2> QED BY <2>3, <2>4
<1>11. ASSUME NEW w \in Workers, ExecutorStep(w) PROVE CancelInv'
  <2>1. /\ pc[w] \in InHand /\ UNCHANGED <<items, ctxDone, atCancel>>
        /\ \E step : pc' = [pc EXCEPT ![w] = step]
    BY <1>11 DEF ExecutorStep, LoadAuthFails, CallSite, SaveResult, SaveFails, AfterSave, Goto, InHand
  <2> QED BY <2>1, NothingPublished
<1>12. ASSUME NEW s \in Singles, NEW a \in Accounts, StartSingle(s, a) PROVE CancelInv'
  <2>1. s \in Workers BY DEF Workers
  <2> QED BY <1>12, <2>1, NothingPublished DEF StartSingle, Goto
<1>13. ASSUME NEW w \in Runners, Cancel(w) PROVE CancelInv'
  <2>1. /\ w \in Workers /\ Len(items[w]) \in Nat /\ UNCHANGED <<pc, items>>
        /\ ctxDone' = [ctxDone EXCEPT ![w] = TRUE]
        /\ atCancel' = [atCancel EXCEPT ![w] = Len(items[w])]
    BY <1>13, LenProperties DEF Cancel, TypeInv, TypeOK, Workers
  <2>2. atCancel'[w] = Len(items[w]) BY <2>1 DEF TypeInv, TypeOK
  <2>3. \A v \in Runners : v # w => ctxDone'[v] = ctxDone[v] /\ atCancel'[v] = atCancel[v]
    BY <2>1 DEF TypeInv, TypeOK, Workers
  <2> QED BY <2>1, <2>2, <2>3 DEF CancelInv
<1>14. CASE Restart
  <2>1. \A w \in Runners : ~ctxDone'[w] BY <1>14 DEF Restart, Workers
  <2> QED BY <2>1 DEF CancelInv
<1>15. ASSUME NEW p \in Previews, BuildAllDue(p) \/ Expire(p) PROVE CancelInv'
  BY <1>1, <1>15 DEF BuildAllDue, BuildAllDueUncapped, Expire
<1>16. ASSUME NEW a \in Accounts, AddAccount(a) \/ DeleteAccount(a) PROVE CancelInv'
  BY <1>1, <1>16 DEF AddAccount, DeleteAccount
<1>17. CASE NewDay BY <1>1, <1>17 DEF NewDay
<1>18. CASE UNCHANGED vars BY <1>1, <1>18 DEF vars
<1> QED
  BY <1>2, <1>3, <1>4, <1>5, <1>6, <1>7, <1>8, <1>9, <1>10, <1>11, <1>12, <1>13, <1>14,
     <1>15, <1>16, <1>17, <1>18
  DEF Next, Environment, RunnerStep

\* The task endpoint's cancel, a closed request or the job's timeout may come at any
\* step of a batch: at most the account in hand is still finished.
THEOREM CancelStopsBatches == Spec => []CancelStopsTheRest
<1>1. Init => CancelInv
  <2> SUFFICES ASSUME Init PROVE CancelInv OBVIOUS
  <2>1. ctxDone = [w \in Workers |-> FALSE] BY Zenon DEF Init
  <2> QED BY <2>1 DEF CancelInv, Workers
<1>2. TypeInv /\ CancelInv /\ [Next]_vars => CancelInv' BY CancelInvStep
<1>3. CancelInv => CancelStopsTheRest BY DEF CancelInv, CancelStopsTheRest
<1> QED BY <1>1, <1>2, <1>3, TypeInvariant, PTL DEF Spec

-------------------------------------------------------------------------------
(* The frozen plan *)

\* The accounts of published items are a sequence of accounts.
LEMMA IdsAreAccounts ==
  ASSUME NEW s \in Seq(Item)
  PROVE  Ids(s) \in Seq(Accounts) /\ Len(Ids(s)) = Len(s)
<1>1. Len(s) \in Nat /\ \A i \in 1..Len(s) : s[i] \in Item OBVIOUS
<1>2. Ids(s) \in [1..Len(s) -> Accounts] BY <1>1 DEF Ids, Item
<1> QED BY <1>1, <1>2, SeqDef, LenProperties

\* Publishing the head of what is left moves it from the plan to the items.
LEMMA PublishedMoves ==
  ASSUME NEW s \in Seq(Item), NEW r \in Seq(Accounts), r # <<>>,
         NEW x \in Item, x.id = Head(r)
  PROVE  Ids(Append(s, x)) \o Tail(r) = Ids(s) \o r
<1> DEFINE a == Append(s, x)
<1>1. /\ a \in Seq(Item) /\ Len(a) = Len(s) + 1 /\ a[Len(s) + 1] = x
      /\ \A i \in 1..Len(s) : a[i] = s[i]
  BY AppendProperties
<1>2. /\ Tail(r) \in Seq(Accounts) /\ Len(Tail(r)) = Len(r) - 1 /\ Head(r) = r[1]
      /\ \A i \in 1..Len(Tail(r)) : Tail(r)[i] = r[i + 1]
  BY HeadTailProperties
<1>3. /\ Ids(s) \in Seq(Accounts) /\ Len(Ids(s)) = Len(s)
      /\ Ids(a) \in Seq(Accounts) /\ Len(Ids(a)) = Len(s) + 1
      /\ Len(s) \in Nat /\ Len(r) \in Nat
  BY <1>1, IdsAreAccounts, LenProperties
<1>4. /\ \A i \in 1..Len(s) : Ids(a)[i] = Ids(s)[i]
      /\ Ids(a)[Len(s) + 1] = r[1]
  BY <1>1, <1>2, <1>3 DEF Ids
<1> HIDE DEF a
<1>5. /\ Ids(a) \o Tail(r) \in Seq(Accounts) /\ Ids(s) \o r \in Seq(Accounts)
      /\ Len(Ids(a) \o Tail(r)) = Len(s) + Len(r)
      /\ Len(Ids(s) \o r) = Len(s) + Len(r)
  <2>1. /\ Ids(s) \o r \in Seq(Accounts) /\ Len(Ids(s) \o r) = Len(Ids(s)) + Len(r)
    BY <1>3, ConcatProperties
  <2>2. /\ Ids(a) \o Tail(r) \in Seq(Accounts)
        /\ Len(Ids(a) \o Tail(r)) = Len(Ids(a)) + Len(Tail(r))
    BY <1>2, <1>3, ConcatProperties
  <2> QED BY <1>2, <1>3, <2>1, <2>2
<1>6. ASSUME NEW i \in 1..(Len(s) + Len(r))
      PROVE  (Ids(a) \o Tail(r))[i] = (Ids(s) \o r)[i]
  <2>1. (Ids(a) \o Tail(r))[i] = IF i <= Len(s) + 1 THEN Ids(a)[i] ELSE Tail(r)[i - (Len(s) + 1)]
    BY <1>2, <1>3, <1>6, ConcatProperties
  <2>2. (Ids(s) \o r)[i] = IF i <= Len(s) THEN Ids(s)[i] ELSE r[i - Len(s)]
    BY <1>3, <1>6, ConcatProperties
  <2>3. CASE i <= Len(s) BY <1>3, <1>4, <1>6, <2>1, <2>2, <2>3
  <2>4. CASE i = Len(s) + 1 BY <1>3, <1>4, <1>6, <2>1, <2>2, <2>4
  <2>5. CASE i > Len(s) + 1
    <3>1. i - (Len(s) + 1) \in 1..Len(Tail(r)) BY <1>2, <1>3, <1>6, <2>5
    <3>2. Tail(r)[i - (Len(s) + 1)] = r[i - Len(s)] BY <1>2, <1>3, <3>1
    <3> QED BY <1>3, <1>6, <2>1, <2>2, <2>5, <3>2
  <2>6. i \in Nat BY <1>6
  <2>7. \A n \in Nat : i <= n \/ i = n + 1 \/ i > n + 1 BY <2>6
  <2> QED BY <1>3, <2>3, <2>4, <2>5, <2>7
<1>7. Ids(a) \o Tail(r) = Ids(s) \o r BY <1>5, <1>6, SeqEqual
<1> QED BY <1>7 DEF a

\* What a task has published and what it has left are its plan.
Frozen(t) ==
  /\ pc[t] = "idle" => items[t] = <<>>
  /\ pc[t] \in Held \cup {"claimed"} =>
       /\ claimed[t] # NoPreview
       /\ Ids(items[t]) \o todo[t] = plans[claimed[t]].accounts
  /\ status[t] = "done" =>
       /\ pc[t] \in {"release", "over"}
       /\ claimed[t] # NoPreview
       /\ Ids(items[t]) = plans[claimed[t]].accounts

FrozenInv == \A t \in Tasks : Frozen(t)

\* The accounts of a preview that is gone never change.
LEMMA GoneKeepsAccounts ==
  ASSUME TypeInv, [Next]_vars
  PROVE  \A q \in Previews : plans[q].state = "gone" => plans'[q].accounts = plans[q].accounts
<1> USE DEF storeVars, dbVars, workVars, taskVars, historyVars
<1>0. plans \in [Previews -> Plan]
      /\ \A q \in Previews : Purged[q].accounts = plans[q].accounts
  BY DEF TypeInv, TypeOK, Purged, Plan
<1>1. ASSUME NEW p \in Previews, BuildAllDue(p) PROVE \A q \in Previews : plans[q].state = "gone" => plans'[q].accounts = plans[q].accounts
  <2>1. plans[p].state = "unissued" BY <1>1 DEF BuildAllDue, BuildAllDueUncapped
  <2>2. PICK order : plans' = [Purged EXCEPT ![p] = [state |-> "fresh", accounts |-> order]]
    BY <1>1 DEF BuildAllDue, BuildAllDueUncapped
  <2> QED BY <1>0, <2>1, <2>2 DEF Purged
<1>2. ASSUME NEW p \in Previews, Expire(p) PROVE \A q \in Previews : plans'[q].accounts = plans[q].accounts
  BY <1>0, <1>2 DEF Expire, Plan
<1>3. ASSUME NEW t \in Tasks, NEW p \in Previews, Claim(t, p) PROVE \A q \in Previews : plans'[q].accounts = plans[q].accounts
  <2>1. plans' = [Purged EXCEPT ![p].state = "gone"] \/ plans' = Purged
    BY <1>3 DEF Claim, Consumed
  <2>2. Purged \in [Previews -> Plan] BY <1>0 DEF Purged, Plan
  <2> QED BY <1>0, <2>1, <2>2 DEF Plan
<1>4. CASE Restart
  <2>1. \A q \in Previews : plans'[q].accounts = plans[q].accounts
    BY <1>0, <1>4 DEF Restart, Plan
  <2> QED BY <2>1
<1>5. CASE UNCHANGED plans BY <1>5
<1>6. ASSUME NEW t \in Tasks, BeginTask(t) \/ Update(t) PROVE UNCHANGED plans
  BY <1>6 DEF BeginTask, Update
<1>7. ASSUME NEW b \in Batches, LoadDue(b) \/ BeginBatch(b) PROVE UNCHANGED plans
  BY <1>7 DEF LoadDue, BeginBatch
<1>8. ASSUME NEW w \in Runners, RunnerStep(w) \/ Cancel(w) PROVE UNCHANGED plans
  BY <1>8 DEF RunnerStep, LoadAuths, StartItem, StopOnCancel, EndLoop, Record, Finish, Cancel
<1>9. ASSUME NEW w \in Workers, ExecutorStep(w) PROVE UNCHANGED plans
  BY <1>9 DEF ExecutorStep, LoadAuthFails, CallSite, SaveResult, SaveFails
<1>10. ASSUME NEW s \in Singles, NEW a \in Accounts, StartSingle(s, a) PROVE UNCHANGED plans
  BY <1>10 DEF StartSingle
<1>11. ASSUME NEW a \in Accounts, AddAccount(a) \/ DeleteAccount(a) PROVE UNCHANGED plans
  BY <1>11 DEF AddAccount, DeleteAccount
<1>12. NewDay \/ UNCHANGED vars => UNCHANGED plans BY DEF NewDay, vars
<1> QED
  BY <1>1, <1>2, <1>3, <1>4, <1>5, <1>6, <1>7, <1>8, <1>9, <1>10, <1>11, <1>12
  DEF Next, Environment

\* A task whose own step it is not stays as it is.
LEMMA OthersFrozen ==
  ASSUME TypeInv, PreviewInv, FrozenInv, [Next]_vars, NEW t \in Tasks,
         UNCHANGED <<pc[t], items[t], todo[t], claimed[t], status[t]>>
  PROVE  Frozen(t)'
<1>1. claimed[t] # NoPreview => plans'[claimed[t]].accounts = plans[claimed[t]].accounts
  BY GoneKeepsAccounts DEF PreviewInv, ClaimedIsGone, TypeInv, TypeOK
<1> QED BY <1>1 DEF FrozenInv, Frozen

\* A step of worker w that touches nothing of what Frozen says of the others.
LEMMA FrozenButOne ==
  ASSUME TypeInv, PreviewInv, FrozenInv, [Next]_vars, NEW w \in Workers,
         \A v \in Workers \ {w} : pc'[v] = pc[v] /\ items'[v] = items[v] /\ todo'[v] = todo[v],
         \A t \in Tasks \ {w} : claimed'[t] = claimed[t] /\ status'[t] = status[t],
         w \in Tasks => Frozen(w)'
  PROVE  FrozenInv'
<1> SUFFICES ASSUME NEW t \in Tasks PROVE Frozen(t)' BY DEF FrozenInv
<1>1. CASE t = w BY <1>1
<1>2. CASE t # w
  <2>1. t \in Workers BY DEF Workers, Runners
  <2> QED BY <1>2, <2>1, OthersFrozen
<1> QED BY <1>1, <1>2

\* Steps of a task under the slot that publish nothing.
LEMMA StepUnderSlot ==
  ASSUME TypeInv, PreviewInv, FrozenInv, [Next]_vars, NEW w \in Workers, NEW step,
         pc' = [pc EXCEPT ![w] = step], UNCHANGED <<items, todo, claimed>>,
         \A t \in Tasks \ {w} : status'[t] = status[t],
         w \in Tasks => /\ pc[w] \in Held
                        /\ step \in Held
                        /\ status[w] # "done" \/ step = "release"
                        /\ \/ status'[w] = status[w]
                           \/ status'[w] = "cancelled"
                           \/ status'[w] = "done" /\ step = "release" /\ todo[w] = <<>>
  PROVE  FrozenInv'
<1>0. pc \in [Workers -> Steps] BY DEF TypeInv, TypeOK
<1>1. ASSUME w \in Tasks PROVE Frozen(w)'
  <2>1. /\ pc'[w] = step /\ step # "idle"
        /\ claimed[w] # NoPreview /\ claimed[w] \in Previews
        /\ Ids(items[w]) \o todo[w] = plans[claimed[w]].accounts
    BY <1>0, <1>1 DEF FrozenInv, Frozen, TypeInv, TypeOK, Held
  <2>2. plans'[claimed[w]].accounts = plans[claimed[w]].accounts
    BY <2>1, <1>1, GoneKeepsAccounts DEF PreviewInv, ClaimedIsGone
  <2>3. CASE status'[w] = status[w]
    BY <1>1, <2>1, <2>2, <2>3 DEF FrozenInv, Frozen
  <2>4. CASE status'[w] = "cancelled"
    BY <1>1, <2>1, <2>2, <2>4 DEF Frozen
  <2>5. CASE status'[w] = "done" /\ step = "release" /\ todo[w] = <<>>
    <3>1. Ids(items[w]) \in Seq(Accounts)
      BY IdsAreAccounts DEF TypeInv, TypeOK
    <3>2. Ids(items[w]) \o todo[w] = Ids(items[w]) BY <2>5, <3>1, ConcatEmptySeq
    <3> QED BY <1>1, <2>1, <2>2, <2>5, <3>2 DEF Frozen
  <2> QED BY <1>1, <2>3, <2>4, <2>5
<1>2. \A v \in Workers \ {w} : pc'[v] = pc[v] BY <1>0
<1> QED BY <1>1, <1>2, FrozenButOne

LEMMA FrozenInvStep ==
  ASSUME TypeInv, PreviewInv, FrozenInv, [Next]_vars
  PROVE  FrozenInv'
<1> USE DEF storeVars, dbVars, workVars, taskVars, historyVars
<1>0. /\ pc \in [Workers -> Steps] /\ items \in [Workers -> Seq(Item)]
      /\ todo \in [Workers -> Seq(Accounts)]
      /\ claimed \in [Tasks -> Previews \cup {NoPreview}]
      /\ status \in [Tasks -> {"none", "running", "done", "cancelled"}]
      /\ \A t \in Tasks : t \in Workers /\ t \in Runners
      /\ \A w \in Runners : w \in Workers
      /\ \A b \in Batches : b \in Workers /\ b \notin Tasks
      /\ \A s \in Singles : s \in Workers /\ s \notin Tasks
  BY ConstantsAssumption DEF TypeInv, TypeOK, Workers, Runners, Batches
<1>a. ASSUME NEW t \in Tasks, pc[t] \in Held, pc[t] # "release" PROVE status[t] # "done"
  BY <1>a DEF FrozenInv, Frozen, Held
<1>1. ASSUME UNCHANGED <<pc, items, todo, claimed, status>> PROVE FrozenInv'
  BY <1>1, OthersFrozen DEF FrozenInv
<1>2. ASSUME NEW t \in Tasks, NEW p \in Previews, Claim(t, p) PROVE FrozenInv'
  <2>1. /\ pc[t] = "idle" /\ items[t] = <<>> /\ status[t] # "done" /\ UNCHANGED <<items, status>>
    BY <1>2 DEF Claim, FrozenInv, Frozen
  <2>2. CASE plans[p].state = "fresh"
    <3>1. /\ plans' = [Purged EXCEPT ![p].state = "gone"] /\ pc' = [pc EXCEPT ![t] = "claimed"]
          /\ todo' = [todo EXCEPT ![t] = plans[p].accounts] /\ claimed' = [claimed EXCEPT ![t] = p]
      BY <1>2, <2>2 DEF Claim, Consumed, ClaimedAccounts, Goto
    <3>2. Purged \in [Previews -> Plan] /\ Purged[p].accounts = plans[p].accounts
          /\ plans[p].accounts \in Seq(Accounts)
      BY DEF TypeInv, TypeOK, Purged, Plan
    <3>3. plans'[p].accounts = plans[p].accounts BY <3>1, <3>2 DEF Plan
    <3>4. Ids(<<>>) \o plans[p].accounts = plans[p].accounts
      BY <3>2, ConcatEmptySeq DEF Ids
    <3>5. Frozen(t)'
      BY <1>0, <2>1, <3>1, <3>3, <3>4, ConstantsAssumption DEF Frozen, Held
    <3> QED BY <1>0, <2>1, <3>1, <3>5, FrozenButOne
  <2>3. CASE plans[p].state # "fresh"
    <3>1. pc' = [pc EXCEPT ![t] = "over"] /\ UNCHANGED <<todo, claimed>>
      BY <1>2, <2>3 DEF Claim, Goto
    <3>2. Frozen(t)' BY <1>0, <2>1, <3>1 DEF Frozen, Held
    <3> QED BY <1>0, <2>1, <3>1, <3>2, FrozenButOne
  <2> QED BY <2>2, <2>3
<1>3. ASSUME NEW t \in Tasks, BeginTask(t) PROVE FrozenInv'
  <2>1. /\ pc[t] = "claimed" /\ status[t] # "done" /\ UNCHANGED <<items, claimed, plans>>
        /\ claimed[t] # NoPreview /\ Ids(items[t]) \o todo[t] = plans[claimed[t]].accounts
    BY <1>3 DEF BeginTask, FrozenInv, Frozen
  <2>2. CASE MayBegin
    <3>1. /\ pc' = [pc EXCEPT ![t] = "auth"] /\ status' = [status EXCEPT ![t] = "running"]
          /\ UNCHANGED todo
      BY <1>3, <2>2 DEF BeginTask, Goto
    <3>2. Frozen(t)' BY <1>0, <2>1, <3>1 DEF Frozen, Held
    <3> QED BY <1>0, <2>1, <3>1, <3>2, FrozenButOne
  <2>3. CASE ~MayBegin
    <3>1. /\ pc' = [pc EXCEPT ![t] = "over"] /\ todo' = [todo EXCEPT ![t] = <<>>]
          /\ UNCHANGED status
      BY <1>3, <2>3 DEF BeginTask, Goto
    <3>2. Frozen(t)' BY <1>0, <2>1, <3>1 DEF Frozen, Held
    <3> QED BY <1>0, <2>1, <3>1, <3>2, FrozenButOne
  <2> QED BY <2>2, <2>3
<1>4. ASSUME NEW t \in Tasks, Update(t) PROVE FrozenInv'
  <2>1. /\ pc[t] = "update" /\ pc' = [pc EXCEPT ![t] = "loop"]
        /\ items' = [items EXCEPT ![t] = PublishedItems(t)]
        /\ todo' = [todo EXCEPT ![t] = Tail(todo[t])] /\ UNCHANGED <<plans, claimed, status>>
    BY <1>4 DEF Update, Goto
  <2>2. /\ claimed[t] # NoPreview /\ status[t] # "done"
        /\ Ids(items[t]) \o todo[t] = plans[claimed[t]].accounts
    BY <2>1 DEF FrozenInv, Frozen, Held
  <2>3. Ids(PublishedItems(t)) \o Tail(todo[t]) = Ids(items[t]) \o todo[t]
    <3>1. /\ todo[t] # <<>> /\ Current(t) \in Accounts /\ answer[t] \in Results
      BY <1>0, <2>1, CurrentIsAccount DEF TypeInv, TypeOK, HasCurrent, InHand
    <3> DEFINE x == [id |-> Current(t), status |-> answer[t]]
    <3>2. x \in Item /\ x.id = Head(todo[t]) BY <3>1 DEF Item, Current
    <3> HIDE DEF x
    <3>3. Ids(Append(items[t], x)) \o Tail(todo[t]) = Ids(items[t]) \o todo[t]
      BY <1>0, <3>1, <3>2, PublishedMoves
    <3> QED BY <3>3 DEF PublishedItems, x
  <2>4. Frozen(t)' BY <1>0, <2>1, <2>2, <2>3 DEF Frozen, Held
  <2> QED BY <1>0, <2>1, <2>4, FrozenButOne
<1>5. ASSUME NEW b \in Batches, LoadDue(b) PROVE FrozenInv'
  <2>1. /\ pc' = [pc EXCEPT ![b] = "loaded"] /\ UNCHANGED <<items, claimed, status>>
        /\ \E order : todo' = [todo EXCEPT ![b] = order]
    BY <1>5 DEF LoadDue, Goto
  <2> QED BY <1>0, <2>1, FrozenButOne
<1>6. ASSUME NEW b \in Batches, BeginBatch(b) PROVE FrozenInv'
  <2>1. /\ \E step : pc' = [pc EXCEPT ![b] = step]
        /\ UNCHANGED <<items, claimed, status>>
        /\ todo' = [todo EXCEPT ![b] = <<>>] \/ UNCHANGED todo
    BY <1>6 DEF BeginBatch, Goto
  <2> QED BY <1>0, <2>1, FrozenButOne
<1>7. ASSUME NEW w \in Runners, LoadAuths(w) \/ StartItem(w) PROVE FrozenInv'
  <2>1. /\ pc[w] \in {"auth", "loop"} /\ UNCHANGED <<items, todo, claimed, status>>
        /\ pc' = [pc EXCEPT ![w] = "loop"] \/ pc' = [pc EXCEPT ![w] = "call"]
    BY <1>7 DEF LoadAuths, StartItem, Goto
  <2> QED BY <1>0, <1>a, <2>1, StepUnderSlot DEF Held
<1>8. ASSUME NEW w \in Runners, StopOnCancel(w) PROVE FrozenInv'
  <2>1. /\ pc[w] = "loop" /\ pc' = [pc EXCEPT ![w] = "release"]
        /\ UNCHANGED <<items, todo, claimed>>
        /\ status' = IF w \in Tasks THEN [status EXCEPT ![w] = "cancelled"] ELSE status
    BY <1>8 DEF StopOnCancel, EndTask, Goto
  <2> QED BY <1>0, <1>a, <2>1, StepUnderSlot DEF Held
<1>9. ASSUME NEW w \in Runners, EndLoop(w) PROVE FrozenInv'
  <2>1. /\ pc[w] = "loop" /\ todo[w] = <<>> /\ pc' = [pc EXCEPT ![w] = "release"]
        /\ UNCHANGED <<items, todo, claimed>>
        /\ status' = IF w \in Tasks THEN [status EXCEPT ![w] = "done"] ELSE status
    BY <1>9 DEF EndLoop, EndTask, Goto
  <2> QED BY <1>0, <1>a, <2>1, StepUnderSlot DEF Held
<1>10. ASSUME NEW w \in Runners, Record(w) PROVE FrozenInv'
  <2>1. CASE w \in Tasks
    <3>1. /\ pc[w] = "record" /\ pc' = [pc EXCEPT ![w] = "update"]
          /\ UNCHANGED <<items, todo, claimed, status>>
      BY <1>10, <2>1 DEF Record, Goto
    <3> QED BY <1>0, <1>a, <3>1, StepUnderSlot DEF Held
  <2>2. CASE w \notin Tasks
    <3>1. /\ pc' = [pc EXCEPT ![w] = "loop"] /\ UNCHANGED <<claimed, status>>
          /\ items' = [items EXCEPT ![w] = PublishedItems(w)]
          /\ todo' = [todo EXCEPT ![w] = Tail(todo[w])]
      BY <1>10, <2>2 DEF Record, Goto
    <3> QED BY <1>0, <2>2, <3>1, FrozenButOne
  <2> QED BY <2>1, <2>2
<1>11. ASSUME NEW w \in Runners, Finish(w) PROVE FrozenInv'
  <2>1. /\ pc[w] = "release" /\ pc' = [pc EXCEPT ![w] = Ended(w)]
        /\ todo' = [todo EXCEPT ![w] = <<>>] /\ UNCHANGED <<plans, claimed, status>>
        /\ IF w \in Tasks THEN UNCHANGED items ELSE items' = [items EXCEPT ![w] = <<>>]
    BY <1>11 DEF Finish, Goto
  <2>2. ASSUME w \in Tasks PROVE Frozen(w)'
    <3>1. Ended(w) = "over" BY <2>2, ConstantsAssumption DEF Ended, Batches
    <3> QED BY <1>0, <2>1, <2>2, <3>1 DEF Frozen, FrozenInv, Held
  <2>3. \A v \in Workers \ {w} : pc'[v] = pc[v] /\ items'[v] = items[v] /\ todo'[v] = todo[v]
    BY <1>0, <2>1
  <2> QED BY <1>0, <2>1, <2>2, <2>3, FrozenButOne
<1>12. ASSUME NEW w \in Workers, ExecutorStep(w) PROVE FrozenInv'
  <2>1. /\ pc[w] \in {"call", "save"} /\ UNCHANGED <<items, todo, claimed, status>>
        /\ \E step \in {"record", "save", "over"} :
             pc' = [pc EXCEPT ![w] = step] /\ (w \notin Singles => step # "over")
    BY <1>12 DEF ExecutorStep, LoadAuthFails, CallSite, SaveResult, SaveFails, AfterSave, Goto
  <2>2. w \in Tasks => w \notin Singles BY <1>0
  <2> QED BY <1>0, <1>a, <2>1, <2>2, StepUnderSlot DEF Held
<1>13. ASSUME NEW s \in Singles, NEW a \in Accounts, StartSingle(s, a) PROVE FrozenInv'
  <2>1. /\ pc' = [pc EXCEPT ![s] = "call"] /\ todo' = [todo EXCEPT ![s] = <<a>>]
        /\ UNCHANGED <<items, claimed, status>>
    BY <1>13 DEF StartSingle, Goto
  <2> QED BY <1>0, <2>1, FrozenButOne
<1>14. CASE Restart
  <2>1. \A t \in Tasks : /\ items'[t] = <<>> /\ status'[t] = "none"
                         /\ pc'[t] \in {"idle", "over"}
    BY <1>0, <1>14 DEF Restart, Ended
  <2> QED BY <2>1 DEF FrozenInv, Frozen, Held
<1>15. ASSUME NEW p \in Previews, BuildAllDue(p) \/ Expire(p) PROVE FrozenInv'
  BY <1>1, <1>15 DEF BuildAllDue, BuildAllDueUncapped, Expire
<1>16. ASSUME NEW a \in Accounts, AddAccount(a) \/ DeleteAccount(a) PROVE FrozenInv'
  BY <1>1, <1>16 DEF AddAccount, DeleteAccount
<1>17. ASSUME NEW w \in Runners, Cancel(w) PROVE FrozenInv'
  BY <1>1, <1>17 DEF Cancel
<1>18. CASE NewDay \/ UNCHANGED vars BY <1>1, <1>18 DEF NewDay, vars
<1> QED
  BY <1>2, <1>3, <1>4, <1>5, <1>6, <1>7, <1>8, <1>9, <1>10, <1>11, <1>12, <1>13, <1>14,
     <1>15, <1>16, <1>17, <1>18
  DEF Next, Environment, RunnerStep

\* A task publishes exactly the accounts the user saw in its preview, in their order,
\* whatever is added, deleted or checked in after the preview was made.
THEOREM TasksFollowTheirPlan == Spec => []PlanIsFrozen
<1>1. Init => FrozenInv
  <2> SUFFICES ASSUME Init, NEW t \in Tasks PROVE Frozen(t) BY DEF FrozenInv
  <2>1. pc[t] = "idle" /\ items[t] = <<>> /\ status[t] = "none"
    BY Zenon DEF Init, Workers, Runners
  <2> QED BY <2>1 DEF Frozen, Held
<1>2. Init => PreviewInv BY DEF Init, PreviewInv, ClaimedIsGone, PreviewUsedOnce
<1>3. TypeInv /\ PreviewInv /\ FrozenInv /\ [Next]_vars => (PreviewInv /\ FrozenInv)'
  BY PreviewInvStep, FrozenInvStep
<1>4. FrozenInv => PlanIsFrozen BY DEF FrozenInv, Frozen, PlanIsFrozen
<1> QED BY <1>1, <1>2, <1>3, <1>4, TypeInvariant, PTL DEF Spec
-------------------------------------------------------------------------------
(* An account that counts as checked in has been checked in *)

\* A check-in the database knows of, or that a worker is about to save, has been made
\* at the site, or was under way at midnight.
DoneInv ==
  /\ DoneTodayIsReal
  /\ \A w \in Workers : pc[w] = "save" /\ answer[w] \in DoneStatuses =>
       Current(w) \in upstream \cup straddle

\* Workers that have an answer in hand keep it.
KeepsAnswers ==
  \A w \in Workers : pc'[w] = "save" =>
    pc[w] = "save" /\ todo'[w] = todo[w] /\ answer'[w] = answer[w]

\* Steps that make no check-in keep DoneInv.
LEMMA DoneInvFrame ==
  ASSUME DoneInv, KeepsAnswers, checked' \subseteq checked, UNCHANGED <<upstream, straddle>>
  PROVE  DoneInv'
BY DEF DoneInv, DoneTodayIsReal, KeepsAnswers, Current, DoneStatuses

\* A site that reports a check-in has made it.
LEMMA AnswersAreReal ==
  ASSUME NEW a \in Accounts, NEW r \in Answers(a)
  PROVE  upstream \subseteq r[2] /\ (r[1] \in DoneStatuses => a \in r[2])
BY ConstantsAssumption DEF Answers, SiteAnswers, DoneStatuses

LEMMA DoneInvStep == TypeInv /\ DoneInv /\ [Next]_vars => DoneInv'
<1> SUFFICES ASSUME TypeInv, DoneInv, [Next]_vars PROVE DoneInv'
  OBVIOUS
<1>. USE DEF storeVars, dbVars, workVars, taskVars, historyVars
<1>t. /\ pc \in [Workers -> Steps] /\ todo \in [Workers -> Seq(Accounts)]
      /\ answer \in [Workers -> Results]
  BY DEF TypeInv, TypeOK
<1>r. Runners \subseteq Workers /\ Tasks \subseteq Runners /\ Batches \subseteq Runners
      /\ Singles \subseteq Workers
  BY DEF Workers, Runners
<1>e. \A w : Ended(w) # "save" BY DEF Ended
<1>1. ASSUME NEW t \in Tasks,
             (\E p \in Previews : Claim(t, p)) \/ BeginTask(t) \/ Update(t)
      PROVE  DoneInv'
  <2>1. KeepsAnswers BY <1>1, <1>t, <1>r DEF KeepsAnswers, Claim, BeginTask, Update, Goto
  <2> QED BY <1>1, <2>1, DoneInvFrame DEF Claim, BeginTask, Update
<1>2. ASSUME NEW b \in Batches, LoadDue(b) \/ BeginBatch(b) PROVE DoneInv'
  <2>1. CASE LoadDue(b)
    <3>1. PICK order : todo' = [todo EXCEPT ![b] = order] BY <2>1 DEF LoadDue
    <3>2. KeepsAnswers BY <1>t, <1>r, <2>1, <3>1 DEF KeepsAnswers, LoadDue, Goto
    <3> QED BY <2>1, <3>2, DoneInvFrame DEF LoadDue
  <2>2. CASE BeginBatch(b)
    <3>1. KeepsAnswers BY <1>t, <1>r, <1>e, <2>2 DEF KeepsAnswers, BeginBatch, Goto
    <3> QED BY <2>2, <3>1, DoneInvFrame DEF BeginBatch
  <2> QED BY <1>2, <2>1, <2>2
<1>3. ASSUME NEW w \in Runners, RunnerStep(w) PROVE DoneInv'
  <2>1. KeepsAnswers
    BY <1>3, <1>t, <1>r, <1>e DEF KeepsAnswers, RunnerStep, LoadAuths, StartItem, StopOnCancel,
                                  EndLoop, Record, Finish, Goto
  <2>2. UNCHANGED <<checked, upstream, straddle>>
    BY <1>3 DEF RunnerStep, LoadAuths, StartItem, StopOnCancel, EndLoop, Record, Finish
  <2> QED BY <2>1, <2>2, DoneInvFrame
<1>4. ASSUME NEW w \in Workers, LoadAuthFails(w) \/ SaveFails(w) PROVE DoneInv'
  <2>1. KeepsAnswers BY <1>4, <1>t DEF KeepsAnswers, LoadAuthFails, SaveFails, AfterSave, Goto
  <2> QED BY <1>4, <2>1, DoneInvFrame DEF LoadAuthFails, SaveFails
<1>5. ASSUME NEW w \in Workers, CallSite(w) PROVE DoneInv'
  <2>1. Current(w) \in Accounts
    BY <1>5, CurrentIsAccount DEF CallSite, InHand
  <2>2. PICK r \in Answers(Current(w)) :
          answer' = [answer EXCEPT ![w] = r[1]] /\ upstream' = r[2]
    BY <1>5 DEF CallSite
  <2>3. /\ upstream \subseteq upstream'
        /\ answer'[w] \in DoneStatuses => Current(w) \in upstream'
    BY <1>t, <2>1, <2>2, AnswersAreReal
  <2>4. \A v \in Workers \ {w} : pc'[v] = pc[v] /\ answer'[v] = answer[v]
    BY <1>5, <1>t, <2>2 DEF CallSite, Goto
  <2>5. UNCHANGED <<todo, checked, straddle>> BY <1>5 DEF CallSite
  <2>6. \A v \in Workers : Current(v)' = Current(v) BY <2>5 DEF Current
  <2> QED BY <2>3, <2>4, <2>5, <2>6 DEF DoneInv, DoneTodayIsReal, DoneStatuses
<1>6. ASSUME NEW w \in Workers, SaveResult(w) PROVE DoneInv'
  <2>1. DoneTodayIsReal' BY <1>6 DEF SaveResult, DoneInv, DoneTodayIsReal
  <2>2. KeepsAnswers BY <1>6, <1>t DEF SaveResult, KeepsAnswers, AfterSave, Goto
  <2> QED BY <1>6, <2>1, <2>2 DEF SaveResult, DoneInv, KeepsAnswers, Current, DoneStatuses
<1>7. ASSUME NEW s \in Singles, NEW a \in Accounts, StartSingle(s, a) PROVE DoneInv'
  <2>1. KeepsAnswers BY <1>7, <1>t, <1>r DEF KeepsAnswers, StartSingle, Goto
  <2> QED BY <1>7, <2>1, DoneInvFrame DEF StartSingle
<1>8. ASSUME NEW p \in Previews, BuildAllDue(p) \/ Expire(p) PROVE DoneInv'
  BY <1>8, DoneInvFrame DEF KeepsAnswers, BuildAllDue, BuildAllDueUncapped, Expire
<1>9. ASSUME NEW a \in Accounts, AddAccount(a) \/ DeleteAccount(a) PROVE DoneInv'
  BY <1>9, DoneInvFrame DEF KeepsAnswers, AddAccount, DeleteAccount
<1>10. ASSUME NEW w \in Runners, Cancel(w) PROVE DoneInv'
  BY <1>10, DoneInvFrame DEF KeepsAnswers, Cancel
<1>11. CASE NewDay
  BY <1>11 DEF NewDay, DoneInv, DoneTodayIsReal, Current
<1>12. CASE Restart
  <2>1. KeepsAnswers BY <1>12, <1>e DEF KeepsAnswers, Restart
  <2> QED BY <1>12, <2>1, DoneInvFrame DEF Restart
<1>13. CASE UNCHANGED vars
  BY <1>13, DoneInvFrame DEF KeepsAnswers, vars
<1> QED
  BY <1>1, <1>2, <1>3, <1>4, <1>5, <1>6, <1>7, <1>8, <1>9, <1>10, <1>11, <1>12, <1>13
  DEF Next, ExecutorStep, Environment

\* The database never calls an account done for today that the site has not checked in
\* today: an answer that says so is saved after the check-in was made, whatever other
\* workers, failing saves, deletions and restarts do in between; what was under way at
\* midnight is excepted.
THEOREM DoneIsReal == Spec => []DoneTodayIsReal
<1>1. Init => DoneInv BY DEF Init, DoneInv, DoneTodayIsReal
<1>2. DoneInv => DoneTodayIsReal BY DEF DoneInv
<1> QED BY <1>1, <1>2, TypeInvariant, DoneInvStep, PTL DEF Spec
===============================================================================
