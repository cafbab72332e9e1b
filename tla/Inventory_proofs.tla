--------------------------- MODULE Inventory_proofs ---------------------------
(***************************************************************************)
(* Theorems about Inventory, for any number of tasks of any kinds that     *)
(* overlap, any tables to begin with, and any changes of the source.       *)
(***************************************************************************)
EXTENDS Inventory, SequenceTheorems, TLAPS

LEMMA FirstIdIsNumber == FirstId \in Nat /\ FirstId > 0
<1>1. FirstId \in Nat \ {0} BY InventoryAssumption DEF InventoryAssumption
<1>. QED BY <1>1

USE FirstIdIsNumber

-------------------------------------------------------------------------------
(* Shapes: tasks, rows and their keys *)

ChannelFields == {"id", "of", "sid", "url", "state", "kind", "key", "missing"}
SiteFields == {"id", "chan", "base", "login", "source", "kind", "checkin"}
AccountFields == {"id", "site", "who", "by"}
MemFields == {"todo", "page", "last", "seen", "rows", "chan", "kind", "base", "site", "from", "old", "det"}

\* Which steps a task has.
Pcs(what) ==
  CASE what = "sync" -> {"begin", "page", "upsert", "scan", "find", "store", "finish", "done", "panicked"}
    [] what = "mark" -> {"begin", "page", "existing", "marks", "done"}
    [] what = "detect" -> {"read", "scan", "write", "done"}
    [] what = "bulk" -> {"read", "scan", "reread", "write", "done"}
    [] what = "site" -> {"scan", "add", "done"}
    [] what = "account" -> {"look", "scan", "add", "bind", "done"}
    [] what = "edit" -> {"load", "look", "other", "address", "scan", "add", "meta", "move", "bind", "done"}
    [] what = "legacy" -> {"look", "put", "who", "bind", "done"}
    [] what = "chrome" -> {"match", "known", "insert", "done"}
    [] what = "delete" -> {"delete", "done"}

Tasks ==
  /\ task \in Meetings
  /\ DOMAIN pc = Ops /\ DOMAIN mem = Ops /\ DOMAIN clean = Ops
  /\ \A o \in Ops : DOMAIN mem[o] = MemFields /\ pc[o] \in Pcs(task[o].what)

\* What a step leaves of the others, and of its own task.
Frame(o) ==
  /\ task' = task
  /\ DOMAIN pc' = Ops /\ DOMAIN mem' = Ops
  /\ \A p \in Ops \ {o} : pc'[p] = pc[p] /\ mem'[p] = mem[p]
  /\ DOMAIN mem'[o] = MemFields

LEMMA TaskKinds ==
  ASSUME Tasks
  PROVE  DOMAIN task = Ops /\ \A o \in Ops : task[o].what \in Kinds
BY MeetingsAssumption DEF Tasks

LEMMA GoesFrame ==
  ASSUME Tasks, NEW o \in Ops, NEW step, Goes(o, step)
  PROVE  /\ DOMAIN pc' = Ops /\ pc'[o] = step
         /\ \A p \in Ops \ {o} : pc'[p] = pc[p]
BY DEF Tasks, Goes

LEMMA HoldingFrame ==
  ASSUME Tasks, NEW o \in Ops, NEW m, Holding(o, m)
  PROVE  /\ DOMAIN mem' = Ops /\ mem'[o] = m
         /\ \A p \in Ops \ {o} : mem'[p] = mem[p]
BY DEF Tasks, Holding

LEMMA HoldsFields == DOMAIN Holds = MemFields
BY DEF Holds, MemFields

LEMMA StepFrame ==
  ASSUME Tasks, NEW o \in Ops, Step(o)
  PROVE  Frame(o)
<1>. USE HoldsFields DEF Frame, Tasks, Steady, Fails, Goes, Holding, Ends, NextRecord
<1>1. CASE Begin(o)
  BY <1>1 DEF Begin
<1>2. CASE ReadPage(o)
  BY <1>2 DEF ReadPage
<1>3. CASE ImportFails(o)
  BY <1>3 DEF ImportFails
<1>4. CASE Upsert(o)
  BY <1>4 DEF Upsert
<1>5. CASE ImportScan(o)
  BY <1>5 DEF ImportScan
<1>6. CASE Find(o)
  BY <1>6 DEF Find
<1>7. CASE Store(o)
  BY <1>7 DEF Store
<1>8. CASE ReadExisting(o)
  BY <1>8 DEF ReadExisting
<1>9. CASE Mark(o)
  BY <1>9 DEF Mark
<1>10. CASE Read(o)
  BY <1>10 DEF Read
<1>11. CASE Scan(o)
  BY <1>11 DEF Scan
<1>12. CASE Reread(o)
  BY <1>12 DEF Reread
<1>13. CASE WriteDetection(o)
  BY <1>13 DEF WriteDetection
<1>14. CASE Look(o)
  BY <1>14 DEF Look
<1>15. CASE ScanNew(o)
  BY <1>15 DEF ScanNew
<1>16. CASE Bind(o)
  BY <1>16 DEF Bind
<1>17. CASE LoadAccount(o)
  BY <1>17 DEF LoadAccount
<1>18. CASE Other(o)
  BY <1>18 DEF Other
<1>19. CASE Meta(o)
  BY <1>19 DEF Meta
<1>20. CASE Move(o)
  BY <1>20 DEF Move
<1>21. CASE Address(o)
  BY <1>21 DEF Address
<1>22. CASE LookLegacy(o)
  BY <1>22 DEF LookLegacy
<1>23. CASE Put(o)
  BY <1>23 DEF Put
<1>24. CASE Who(o)
  BY <1>24 DEF Who
<1>25. CASE Match(o)
  BY <1>25 DEF Match
<1>26. CASE Known(o)
  BY <1>26 DEF Known
<1>27. CASE Insert(o)
  BY <1>27 DEF Insert
<1>28. CASE Delete(o)
  BY <1>28 DEF Delete
<1>29. ASSUME NEW ok \in BOOLEAN, Finish(o, ok) PROVE Frame(o)
  BY <1>29 DEF Finish
<1>30. ASSUME NEW ok \in BOOLEAN, Add(o, ok) PROVE Frame(o)
  BY <1>30 DEF Add
<1>. QED
  BY <1>1, <1>2, <1>3, <1>4, <1>5, <1>6, <1>7, <1>8, <1>9, <1>10, <1>11, <1>12, <1>13, <1>14,
     <1>15, <1>16, <1>17, <1>18, <1>19, <1>20, <1>21, <1>22, <1>23, <1>24, <1>25, <1>26, <1>27,
     <1>28, <1>29, <1>30 DEF Step

LEMMA StepCourse ==
  ASSUME Tasks, NEW o \in Ops, Step(o)
  PROVE  pc'[o] \in Pcs(task[o].what) /\ DOMAIN clean' = Ops
<1>. USE TaskKinds DEF Tasks, Goes, Ends, NextRecord, Disturbs, Undisturbed, Pcs, Kinds
<1>1. CASE Begin(o)
  BY <1>1 DEF Begin
<1>2. CASE ReadPage(o)
  BY <1>2 DEF ReadPage, AfterPages
<1>3. CASE ImportFails(o)
  BY <1>3 DEF ImportFails, AfterFailure
<1>4. CASE Upsert(o)
  BY <1>4 DEF Upsert, AfterRecord
<1>5. CASE ImportScan(o)
  BY <1>5 DEF ImportScan
<1>6. CASE Find(o)
  BY <1>6 DEF Find, AfterRecord
<1>7. CASE Store(o)
  BY <1>7 DEF Store, AfterRecord
<1>8. CASE ReadExisting(o)
  BY <1>8 DEF ReadExisting
<1>9. CASE Mark(o)
  BY <1>9 DEF Mark
<1>10. CASE Read(o)
  BY <1>10 DEF Read
<1>11. CASE Scan(o)
  BY <1>11 DEF Scan
<1>12. CASE Reread(o)
  BY <1>12 DEF Reread
<1>13. CASE WriteDetection(o)
  BY <1>13 DEF WriteDetection
<1>14. CASE Look(o)
  BY <1>14 DEF Look, AfterSite
<1>15. CASE ScanNew(o)
  BY <1>15 DEF ScanNew
<1>16. CASE Bind(o)
  BY <1>16 DEF Bind
<1>17. CASE LoadAccount(o)
  BY <1>17 DEF LoadAccount, EditStep
<1>18. CASE Other(o)
  BY <1>18 DEF Other
<1>19. CASE Meta(o)
  BY <1>19 DEF Meta
<1>20. CASE Move(o)
  BY <1>20 DEF Move
<1>21. CASE Address(o)
  BY <1>21 DEF Address
<1>22. CASE LookLegacy(o)
  BY <1>22 DEF LookLegacy
<1>23. CASE Put(o)
  BY <1>23 DEF Put
<1>24. CASE Who(o)
  BY <1>24 DEF Who, Crowds
<1>25. CASE Match(o)
  BY <1>25 DEF Match
<1>26. CASE Known(o)
  BY <1>26 DEF Known, Crowds
<1>27. CASE Insert(o)
  BY <1>27 DEF Insert
<1>28. CASE Delete(o)
  BY <1>28 DEF Delete
<1>29. ASSUME NEW ok \in BOOLEAN, Finish(o, ok) PROVE pc'[o] \in Pcs(task[o].what) /\ DOMAIN clean' = Ops
  BY <1>29 DEF Finish
<1>30. ASSUME NEW ok \in BOOLEAN, Add(o, ok) PROVE pc'[o] \in Pcs(task[o].what) /\ DOMAIN clean' = Ops
  BY <1>30 DEF Add, AfterSite
<1>. QED
  BY <1>1, <1>2, <1>3, <1>4, <1>5, <1>6, <1>7, <1>8, <1>9, <1>10, <1>11, <1>12, <1>13, <1>14,
     <1>15, <1>16, <1>17, <1>18, <1>19, <1>20, <1>21, <1>22, <1>23, <1>24, <1>25, <1>26, <1>27,
     <1>28, <1>29, <1>30 DEF Step

\* Steps that may fail.
Adds(o) == \E ok \in BOOLEAN : Add(o, ok)
Finishes(o) == \E ok \in BOOLEAN : Finish(o, ok)

\* Where a task must be for each step.
LEMMA Guards ==
  ASSUME NEW o \in Ops
  PROVE  /\ Begin(o) => pc[o] = "begin"
         /\ ReadPage(o) => pc[o] = "page"
         /\ Upsert(o) => pc[o] = "upsert"
         /\ Find(o) => pc[o] = "find"
         /\ Store(o) => pc[o] = "store"
         /\ ReadExisting(o) => pc[o] = "existing"
         /\ Mark(o) => pc[o] = "marks"
         /\ Read(o) => pc[o] = "read"
         /\ Reread(o) => pc[o] = "reread"
         /\ WriteDetection(o) => pc[o] = "write"
         /\ Bind(o) => pc[o] = "bind"
         /\ LoadAccount(o) => pc[o] = "load"
         /\ Other(o) => pc[o] = "other"
         /\ Meta(o) => pc[o] = "meta"
         /\ Move(o) => pc[o] = "move"
         /\ Address(o) => pc[o] = "address"
         /\ Put(o) => pc[o] = "put"
         /\ Who(o) => pc[o] = "who"
         /\ Match(o) => pc[o] = "match"
         /\ Known(o) => pc[o] = "known"
         /\ Insert(o) => pc[o] = "insert"
         /\ Delete(o) => pc[o] = "delete"
         /\ ImportFails(o) => pc[o] \in {"page", "upsert", "find", "store"} /\ task[o].what \in {"sync", "mark"}
         /\ ImportScan(o) => pc[o] = "scan" /\ task[o].what = "sync"
         /\ Scan(o) => pc[o] = "scan" /\ task[o].what \in {"detect", "bulk"}
         /\ Look(o) => pc[o] = "look" /\ task[o].what \in {"account", "edit"}
         /\ ScanNew(o) => pc[o] = "scan" /\ task[o].what \in {"site", "account", "edit"}
         /\ LookLegacy(o) => pc[o] = "look" /\ task[o].what = "legacy"
         /\ Finishes(o) => pc[o] = "finish"
         /\ Adds(o) => pc[o] = "add"
<1>1. Begin(o) => pc[o] = "begin" BY DEF Begin
<1>2. ReadPage(o) => pc[o] = "page" BY DEF ReadPage
<1>3. Upsert(o) => pc[o] = "upsert" BY DEF Upsert
<1>4. Find(o) => pc[o] = "find" BY DEF Find
<1>5. Store(o) => pc[o] = "store" BY DEF Store
<1>6. ReadExisting(o) => pc[o] = "existing" BY DEF ReadExisting
<1>7. Mark(o) => pc[o] = "marks" BY DEF Mark
<1>8. Read(o) => pc[o] = "read" BY DEF Read
<1>9. Reread(o) => pc[o] = "reread" BY DEF Reread
<1>10. WriteDetection(o) => pc[o] = "write" BY DEF WriteDetection
<1>11. Bind(o) => pc[o] = "bind" BY DEF Bind
<1>12. LoadAccount(o) => pc[o] = "load" BY DEF LoadAccount
<1>13. Other(o) => pc[o] = "other" BY DEF Other
<1>14. Meta(o) => pc[o] = "meta" BY DEF Meta
<1>15. Move(o) => pc[o] = "move" BY DEF Move
<1>16. Address(o) => pc[o] = "address" BY DEF Address
<1>17. Put(o) => pc[o] = "put" BY DEF Put
<1>18. Who(o) => pc[o] = "who" BY DEF Who
<1>19. Match(o) => pc[o] = "match" BY DEF Match
<1>20. Known(o) => pc[o] = "known" BY DEF Known
<1>21. Insert(o) => pc[o] = "insert" BY DEF Insert
<1>22. Delete(o) => pc[o] = "delete" BY DEF Delete
<1>23. ImportFails(o) => pc[o] \in {"page", "upsert", "find", "store"} /\ task[o].what \in {"sync", "mark"} BY DEF ImportFails
<1>24. ImportScan(o) => pc[o] = "scan" /\ task[o].what = "sync" BY DEF ImportScan
<1>25. Scan(o) => pc[o] = "scan" /\ task[o].what \in {"detect", "bulk"} BY DEF Scan
<1>26. Look(o) => pc[o] = "look" /\ task[o].what \in {"account", "edit"} BY DEF Look
<1>27. ScanNew(o) => pc[o] = "scan" /\ task[o].what \in {"site", "account", "edit"} BY DEF ScanNew
<1>28. LookLegacy(o) => pc[o] = "look" /\ task[o].what = "legacy" BY DEF LookLegacy
<1>29. Finishes(o) => pc[o] = "finish" BY DEF Finishes, Finish
<1>30. Adds(o) => pc[o] = "add" BY DEF Adds, Add
<1>. QED BY <1>1, <1>2, <1>3, <1>4, <1>5, <1>6, <1>7, <1>8, <1>9, <1>10, <1>11, <1>12, <1>13,
            <1>14, <1>15, <1>16, <1>17, <1>18, <1>19, <1>20, <1>21, <1>22, <1>23, <1>24, <1>25,
            <1>26, <1>27, <1>28, <1>29, <1>30

LEMMA Steps ==
  ASSUME Tasks, NEW o \in Ops, Step(o)
  PROVE  /\ task[o].what = "sync" => Begin(o) \/ ReadPage(o) \/ ImportFails(o) \/ Upsert(o) \/ ImportScan(o)
                                     \/ Find(o) \/ Store(o) \/ Finishes(o)
         /\ task[o].what = "mark" => Begin(o) \/ ReadPage(o) \/ ImportFails(o) \/ ReadExisting(o) \/ Mark(o)
         /\ task[o].what \in {"detect", "bulk"} => Read(o) \/ Scan(o) \/ Reread(o) \/ WriteDetection(o)
         /\ task[o].what = "site" => ScanNew(o) \/ Adds(o)
         /\ task[o].what = "account" => Look(o) \/ ScanNew(o) \/ Adds(o) \/ Bind(o)
         /\ task[o].what = "edit" => LoadAccount(o) \/ Look(o) \/ Other(o) \/ Address(o) \/ ScanNew(o)
                                     \/ Adds(o) \/ Meta(o) \/ Move(o) \/ Bind(o)
         /\ task[o].what = "legacy" => LookLegacy(o) \/ Put(o) \/ Who(o) \/ Bind(o)
         /\ task[o].what = "chrome" => Match(o) \/ Known(o) \/ Insert(o)
         /\ task[o].what = "delete" => Delete(o)
<1>1. pc[o] \in Pcs(task[o].what) /\ task[o].what \in Kinds BY TaskKinds DEF Tasks
<1>. QED BY <1>1, Guards DEF Step, Pcs, Kinds, Adds, Finishes

LEMMA TasksStep ==
  ASSUME Tasks, [Next]_vars
  PROVE  Tasks'
<1>1. ASSUME NEW o \in Ops, Step(o) PROVE Tasks'
  <2>1. Frame(o) /\ pc'[o] \in Pcs(task[o].what) /\ DOMAIN clean' = Ops
    BY <1>1, StepFrame, StepCourse
  <2>. QED BY <2>1 DEF Tasks, Frame
<1>2. CASE SourceChanges BY <1>2 DEF SourceChanges, Tasks
<1>3. CASE UNCHANGED vars BY <1>3 DEF vars, history, Tasks
<1>. QED BY <1>1, <1>2, <1>3 DEF Next

\* Which steps may change what.
WritesChannels(o) ==
  Upsert(o) \/ ImportScan(o) \/ Mark(o) \/ Adds(o) \/ Meta(o) \/ Address(o) \/ Put(o)
WritesSites(o) ==
  Store(o) \/ WriteDetection(o) \/ Look(o) \/ Adds(o) \/ Meta(o) \/ Address(o) \/ Put(o) \/ Delete(o)
WritesAccounts(o) == Bind(o) \/ Move(o) \/ Insert(o) \/ Delete(o)
TakesIds(o) == Upsert(o) \/ Store(o) \/ Adds(o) \/ Bind(o) \/ Put(o) \/ Insert(o)
LetsType(o) == Look(o) \/ Adds(o) \/ Meta(o) \/ Address(o) \/ Put(o)
SeeksSite(o) == Find(o) \/ Look(o) \/ Other(o) \/ LookLegacy(o) \/ Adds(o)

Footprint(o) ==
  /\ channels' = channels \/ WritesChannels(o)
  /\ sites' = sites \/ WritesSites(o)
  /\ accounts' = accounts \/ WritesAccounts(o)
  /\ next' = next \/ TakesIds(o)
  /\ (typed' = typed /\ excused' = excused) \/ LetsType(o)
  /\ doubles' = doubles \/ SeeksSite(o)
  /\ crowded' = crowded \/ Who(o) \/ Known(o)
  /\ source' = source
  /\ Undisturbed \/ Begin(o) \/ Finishes(o) \/ WritesChannels(o) \/ Who(o) \/ Known(o)

LEMMA StepFootprint ==
  ASSUME NEW o \in Ops, Step(o)
  PROVE  Footprint(o)
<1>. USE DEF tables, world, Steady, Fails, Undisturbed
<1>1. CASE Begin(o)
  BY <1>1 DEF Footprint, Begin
<1>2. CASE ReadPage(o)
  BY <1>2 DEF Footprint, ReadPage
<1>3. CASE ImportFails(o)
  BY <1>3 DEF Footprint, ImportFails
<1>4. CASE Upsert(o)
  <2>1. WritesChannels(o) /\ TakesIds(o)
    BY <1>4 DEF Footprint, WritesChannels, TakesIds
  <2>2. sites' = sites /\ accounts' = accounts /\ typed' = typed /\ excused' = excused /\ doubles' = doubles /\ source' = source /\ crowded' = crowded
    BY <1>4 DEF Footprint, Upsert, Disturbs
  <2>. QED BY <2>1, <2>2 DEF Footprint
<1>5. CASE ImportScan(o)
  <2>1. WritesChannels(o)
    BY <1>5 DEF Footprint, WritesChannels
  <2>2. sites' = sites /\ accounts' = accounts /\ next' = next /\ typed' = typed /\ excused' = excused /\ doubles' = doubles /\ source' = source /\ crowded' = crowded
    BY <1>5 DEF Footprint, ImportScan, Disturbs
  <2>. QED BY <2>1, <2>2 DEF Footprint
<1>6. CASE Find(o)
  BY <1>6 DEF Footprint, Find, SeeksSite
<1>7. CASE Store(o)
  BY <1>7 DEF Footprint, Store, WritesSites, TakesIds
<1>8. CASE ReadExisting(o)
  BY <1>8 DEF Footprint, ReadExisting
<1>9. CASE Mark(o)
  BY <1>9 DEF Footprint, Mark, WritesChannels
<1>10. CASE Read(o)
  BY <1>10 DEF Footprint, Read
<1>11. CASE Scan(o)
  BY <1>11 DEF Footprint, Scan
<1>12. CASE Reread(o)
  BY <1>12 DEF Footprint, Reread
<1>13. CASE WriteDetection(o)
  BY <1>13 DEF Footprint, WriteDetection, WritesSites
<1>14. CASE Look(o)
  BY <1>14 DEF Footprint, Look, WritesSites, LetsType, SeeksSite
<1>15. CASE ScanNew(o)
  BY <1>15 DEF Footprint, ScanNew
<1>16. CASE Bind(o)
  BY <1>16 DEF Footprint, Bind, WritesAccounts, TakesIds
<1>17. CASE LoadAccount(o)
  BY <1>17 DEF Footprint, LoadAccount
<1>18. CASE Other(o)
  BY <1>18 DEF Footprint, Other, SeeksSite
<1>19. CASE Meta(o)
  <2>1. WritesChannels(o) /\ WritesSites(o) /\ LetsType(o)
    BY <1>19 DEF Footprint, WritesChannels, WritesSites, LetsType
  <2>2. accounts' = accounts /\ next' = next /\ doubles' = doubles /\ source' = source /\ crowded' = crowded
    BY <1>19 DEF Footprint, Meta, Disturbs
  <2>. QED BY <2>1, <2>2 DEF Footprint
<1>20. CASE Move(o)
  BY <1>20 DEF Footprint, Move, WritesAccounts
<1>21. CASE Address(o)
  <2>1. WritesChannels(o) /\ WritesSites(o) /\ LetsType(o)
    BY <1>21 DEF Footprint, WritesChannels, WritesSites, LetsType
  <2>2. accounts' = accounts /\ next' = next /\ doubles' = doubles /\ source' = source /\ crowded' = crowded
    BY <1>21 DEF Footprint, Address, Disturbs
  <2>. QED BY <2>1, <2>2 DEF Footprint
<1>22. CASE LookLegacy(o)
  BY <1>22 DEF Footprint, LookLegacy, SeeksSite
<1>23. CASE Put(o)
  <2>1. WritesChannels(o) /\ WritesSites(o) /\ TakesIds(o) /\ LetsType(o)
    BY <1>23 DEF Footprint, WritesChannels, WritesSites, TakesIds, LetsType
  <2>2. accounts' = accounts /\ doubles' = doubles /\ source' = source /\ crowded' = crowded
    BY <1>23 DEF Footprint, Put, Disturbs
  <2>. QED BY <2>1, <2>2 DEF Footprint
<1>24. CASE Who(o)
  BY <1>24 DEF Footprint, Who, Crowds
<1>25. CASE Match(o)
  BY <1>25 DEF Footprint, Match
<1>26. CASE Known(o)
  BY <1>26 DEF Footprint, Known, Crowds
<1>27. CASE Insert(o)
  BY <1>27 DEF Footprint, Insert, WritesAccounts, TakesIds
<1>28. CASE Delete(o)
  BY <1>28 DEF Footprint, Delete, WritesSites, WritesAccounts
<1>29. ASSUME NEW ok \in BOOLEAN, Finish(o, ok) PROVE Footprint(o)
  BY <1>29 DEF Footprint, Finish, Finishes
<1>30. ASSUME NEW ok \in BOOLEAN, Add(o, ok) PROVE Footprint(o)
  <2>1. WritesChannels(o) /\ WritesSites(o) /\ TakesIds(o) /\ LetsType(o) /\ SeeksSite(o)
    BY <1>30 DEF Footprint, WritesChannels, WritesSites, TakesIds, LetsType, SeeksSite, Adds
  <2>2. accounts' = accounts /\ source' = source /\ crowded' = crowded
    BY <1>30 DEF Footprint, Add, Disturbs
  <2>. QED BY <2>1, <2>2 DEF Footprint
<1>. QED
  BY <1>1, <1>2, <1>3, <1>4, <1>5, <1>6, <1>7, <1>8, <1>9, <1>10, <1>11, <1>12, <1>13, <1>14,
     <1>15, <1>16, <1>17, <1>18, <1>19, <1>20, <1>21, <1>22, <1>23, <1>24, <1>25, <1>26, <1>27,
     <1>28, <1>29, <1>30 DEF Step

-------------------------------------------------------------------------------
(* Keys: fresh ids are fresh *)

LEMMA NextStep ==
  ASSUME NEW o \in Ops, Step(o), next \in Nat
  PROVE  next' \in Nat /\ next <= next'
<1>1. CASE Upsert(o)
  <2>. next' = next \/ next' = next + 1 BY <1>1 DEF Upsert
  <2>. QED OBVIOUS
<1>2. CASE Store(o)
  <2>. next' = next \/ next' = next + 1 BY <1>2 DEF Store
  <2>. QED OBVIOUS
<1>3. CASE Adds(o)
  <2>. next' = next + 2 BY <1>3 DEF Adds, Add
  <2>. QED OBVIOUS
<1>4. CASE Bind(o)
  <2>. next' = next \/ next' = next + 1 BY <1>4 DEF Bind
  <2>. QED OBVIOUS
<1>5. CASE Put(o)
  <2>. next' = next \/ next' = next + 2 BY <1>5 DEF Put
  <2>. QED OBVIOUS
<1>6. CASE Insert(o)
  <2>. next' = next \/ next' = next + 1 BY <1>6 DEF Insert
  <2>. QED OBVIOUS
<1>7. CASE next' = next BY <1>7
<1>. QED
  BY <1>1, <1>2, <1>3, <1>4, <1>5, <1>6, <1>7, StepFootprint DEF Footprint, TakesIds

\* The rows of a table after a step.
Good(set, fields, bound) ==
  Distinct(set) /\ \A x \in set : DOMAIN x = fields /\ x.id \in 1..(bound - 1)

LEMMA MappedRows ==
  ASSUME NEW set, NEW fields, NEW m \in Int, NEW n \in Int, m <= n, Good(set, fields, m), NEW f,
         \A x \in set : f[x].id = x.id /\ DOMAIN f[x] = fields
  PROVE  Good({f[x] : x \in set}, fields, n)
BY DEF Good, Distinct

LEMMA AddedRow ==
  ASSUME NEW set, NEW fields, NEW m \in Int, NEW n \in Int, m <= n, Good(set, fields, m), NEW y,
         DOMAIN y = fields, y.id \in m..(n - 1), 1 <= m
  PROVE  Good(set \cup {y}, fields, n)
BY DEF Good, Distinct

LEMMA FewerRows ==
  ASSUME NEW set, NEW fields, NEW m \in Int, NEW n \in Int, m <= n, Good(set, fields, m),
         NEW new \in SUBSET set
  PROVE  Good(new, fields, n)
BY DEF Good, Distinct

LEMMA ReplacedRow ==
  ASSUME NEW set, NEW fields, NEW m \in Int, NEW n \in Int, m <= n, Good(set, fields, m),
         NEW i, NEW y, y.id = i, DOMAIN y = fields
  PROVE  Good(Replaced(set, i, y), fields, n)
BY DEF Good, Distinct, Replaced

LEMMA NewRows ==
  ASSUME NEW a, NEW b, NEW c, NEW d, NEW e, NEW f
  PROVE  /\ NewChannel(a, b, c, d, e).id = a /\ DOMAIN NewChannel(a, b, c, d, e) = ChannelFields
         /\ SiteRow(a, b, c, d, e, f).id = a /\ DOMAIN SiteRow(a, b, c, d, e, f) = SiteFields
         /\ Account(a, b, c, d).id = a /\ DOMAIN Account(a, b, c, d) = AccountFields
BY DEF NewChannel, ChannelFields, SiteRow, SiteFields, Account, AccountFields

LEMMA ChannelsStep ==
  ASSUME NEW o \in Ops, Step(o), next \in Nat, 1 <= next, Good(channels, ChannelFields, next)
  PROVE  Good(channels', ChannelFields, next')
<1>n. next' \in Int /\ next \in Int /\ next <= next' BY NextStep
<1>1. CASE Upsert(o)
  <2>. DEFINE r == Head(mem[o].todo)
              fresh == Upserted(NewChannel(next, "instance", IF r.id = 0 THEN next ELSE r.id, r.url, r.kind),
                                r, task[o].keys)
              known == CHOOSE c \in Imported(r) : TRUE
              row == Upserted(Named1(channels, known.id), r, task[o].keys)
  <2>1. DOMAIN fresh = ChannelFields /\ fresh.id = next
    BY DEF Upserted, NewChannel, ChannelFields
  <2>2. ASSUME Imported(r) # {} PROVE DOMAIN row = ChannelFields /\ row.id = known.id
    <3>1. known \in channels BY <2>2 DEF Imported
    <3>2. Named1(channels, known.id) \in channels /\ Named1(channels, known.id).id = known.id
      BY <3>1 DEF Named1
    <3>3. DOMAIN Named1(channels, known.id) = ChannelFields BY <3>2 DEF Good
    <3>. QED BY <3>2, <3>3 DEF Upserted, ChannelFields
  <2>3. CASE channels' = channels BY <2>3, <1>n, FewerRows
  <2>4. CASE channels' = channels \cup {fresh} /\ next' = next + 1
    BY <2>1, <2>4, <1>n, AddedRow
  <2>5. CASE Imported(r) # {} /\ channels' = Replaced(channels, known.id, row)
    BY <2>2, <2>5, <1>n, ReplacedRow
  <2>. QED BY <1>1, <2>3, <2>4, <2>5 DEF Upsert
<1>2. CASE ImportScan(o)
  <2>1. PICK d \in Detections[mem[o].base] :
          channels' = {IF c.id = mem[o].chan THEN [c EXCEPT !.url = mem[o].base, !.kind = d.kind] ELSE c : c \in channels}
    BY <1>2 DEF ImportScan
  <2>. DEFINE f == [c \in channels |-> IF c.id = mem[o].chan THEN [c EXCEPT !.url = mem[o].base, !.kind = d.kind] ELSE c]
  <2>2. channels' = {f[c] : c \in channels} BY <2>1
  <2>3. \A c \in channels : f[c].id = c.id /\ DOMAIN f[c] = ChannelFields BY DEF Good, ChannelFields
  <2>. HIDE DEF f
  <2>. QED BY <2>2, <2>3, <1>n, MappedRows
<1>3. CASE Mark(o)
  <2>. DEFINE f == [c \in channels |-> Marked(c, mem[o])]
  <2>1. channels' = {f[c] : c \in channels} BY <1>3 DEF Mark
  <2>2. \A c \in channels : f[c].id = c.id /\ DOMAIN f[c] = ChannelFields
    BY DEF Good, ChannelFields, Marked
  <2>. HIDE DEF f
  <2>. QED BY <2>1, <2>2, <1>n, MappedRows
<1>4. CASE Adds(o)
  <2>. DEFINE row == NewChannel(next, "manual", next, mem[o].base, mem[o].det.kind)
  <2>1. channels' = channels \cup {row} /\ next' = next + 2
    BY <1>4 DEF Adds, Add
  <2>2. row.id = next /\ DOMAIN row = ChannelFields BY NewRows
  <2>. HIDE DEF row
  <2>. QED BY <2>1, <2>2, <1>n, AddedRow
<1>5. CASE Meta(o)
  <2>. DEFINE k == task[o].prefer
              f == [c \in channels |-> IF c.id \in LinkedTo(mem[o].site) /\ k # "unknown" THEN [c EXCEPT !.kind = k] ELSE c]
  <2>1. channels' = {f[c] : c \in channels} BY <1>5 DEF Meta
  <2>2. \A c \in channels : f[c].id = c.id /\ DOMAIN f[c] = ChannelFields BY DEF Good, ChannelFields
  <2>. HIDE DEF f
  <2>. QED BY <2>1, <2>2, <1>n, MappedRows
<1>6. CASE Address(o)
  <2>. DEFINE f == [c \in channels |-> IF c.id \in LinkedTo(mem[o].from) THEN [c EXCEPT !.url = mem[o].base] ELSE c]
  <2>1. channels' = {f[c] : c \in channels} BY <1>6 DEF Address
  <2>2. \A c \in channels : f[c].id = c.id /\ DOMAIN f[c] = ChannelFields BY DEF Good, ChannelFields
  <2>. HIDE DEF f
  <2>. QED BY <2>1, <2>2, <1>n, MappedRows
<1>7. CASE Put(o)
  <2>1. CASE channels' = channels BY <2>1, <1>n, FewerRows
  <2>2. CASE /\ channels' = channels \cup {NewChannel(next, "legacy", next, mem[o].base, "unknown")}
             /\ next' = next + 2
    BY <2>2, <1>n, NewRows, AddedRow
  <2>. QED BY <1>7, <2>1, <2>2 DEF Put
<1>8. CASE channels' = channels BY <1>8, <1>n, FewerRows
<1>. QED
  BY <1>1, <1>2, <1>3, <1>4, <1>5, <1>6, <1>7, <1>8, StepFootprint DEF Footprint, WritesChannels

\* What a step that deletes nothing leaves of the sites.
SitesAfter == Good(sites', SiteFields, next') /\ \A s \in sites : Exists(sites', s.id)

LEMMA SitesStep ==
  ASSUME NEW o \in Ops, Step(o), next \in Nat, 1 <= next, Good(sites, SiteFields, next)
  PROVE  Good(sites', SiteFields, next') /\ (Delete(o) \/ \A s \in sites : Exists(sites', s.id))
<1>. DEFINE m == mem[o]  t == task[o]
<1>n. next' \in Int /\ next \in Int /\ next <= next' BY NextStep
<1>m. ASSUME NEW f, sites' = {f[s] : s \in sites},
             \A s \in sites : f[s].id = s.id /\ DOMAIN f[s] = SiteFields
      PROVE  SitesAfter
  <2>1. Good(sites', SiteFields, next') BY <1>m, <1>n, MappedRows
  <2>2. \A s \in sites : Exists(sites', s.id) BY <1>m DEF Exists
  <2>. QED BY <2>1, <2>2 DEF SitesAfter
<1>a. ASSUME NEW y, sites' = sites \cup {y}, y.id \in next..(next' - 1), DOMAIN y = SiteFields
      PROVE  SitesAfter
  <2>1. Good(sites', SiteFields, next') BY <1>a, <1>n, AddedRow
  <2>2. \A s \in sites : Exists(sites', s.id) BY <1>a DEF Exists
  <2>. QED BY <2>1, <2>2 DEF SitesAfter
<1>s. ASSUME sites' = sites PROVE SitesAfter
  <2>. Good(sites', SiteFields, next') BY <1>s, <1>n, FewerRows
  <2>. QED BY <1>s DEF SitesAfter, Exists
<1>1. ASSUME Store(o) PROVE SitesAfter
  <2>. DEFINE login == StoredLogin(m.base, m.det, NoLogin, IF m.site = 0 THEN Unread ELSE m.old)
              kind == IF m.det = Nothing THEN m.kind ELSE m.det.kind
              row == SiteRow(next, m.chan, m.base, login, kind, m.det.checkin)
              f == [s \in sites |->
                      IF s.id # m.site THEN s
                      ELSE [s EXCEPT !.chan = IF @ = 0 THEN m.chan ELSE @,
                               !.login = login.login, !.source = login.source,
                               !.kind = IF @ = "unknown" THEN kind ELSE @,
                               !.checkin = @ \/ m.det.checkin]]
  <2>1. CASE m.site = 0
    <3>1. sites' = sites \cup {row} /\ next' = next + 1 BY <1>1, <2>1 DEF Store
    <3>2. row.id = next /\ DOMAIN row = SiteFields BY NewRows
    <3>. HIDE DEF row
    <3>. QED BY <3>1, <3>2, <1>a, <1>n
  <2>2. CASE m.site # 0
    <3>1. sites' = {f[s] : s \in sites} BY <1>1, <2>2 DEF Store
    <3>2. \A s \in sites : f[s].id = s.id /\ DOMAIN f[s] = SiteFields BY DEF Good, SiteFields
    <3>. HIDE DEF f
    <3>. QED BY <3>1, <3>2, <1>m
  <2>. QED BY <2>1, <2>2
<1>2. ASSUME WriteDetection(o) PROVE SitesAfter
  <2>. DEFINE login == StoredLogin(m.base, m.det, NoLogin, m.old)
              f == [s \in sites |->
                      IF s.id # m.site THEN s
                      ELSE [s EXCEPT !.base = m.base, !.login = login.login, !.source = login.source,
                              !.kind = m.det.kind, !.checkin = m.det.checkin]]
  <2>1. sites' = {f[s] : s \in sites} BY <1>2 DEF WriteDetection
  <2>2. \A s \in sites : f[s].id = s.id /\ DOMAIN f[s] = SiteFields BY DEF Good, SiteFields
  <2>. HIDE DEF f
  <2>. QED BY <2>1, <2>2, <1>m
<1>3. ASSUME Look(o) PROVE SitesAfter
  <2>1. ASSUME NEW s \in sites,
               sites' = Replaced(sites, s.id, [s EXCEPT !.login = t.login, !.source = "manual"])
        PROVE  SitesAfter
    <3>. DEFINE y == [s EXCEPT !.login = t.login, !.source = "manual"]
    <3>1. y.id = s.id /\ DOMAIN y = SiteFields BY DEF Good, SiteFields
    <3>2. sites' = Replaced(sites, s.id, y) BY <2>1
    <3>. HIDE DEF y
    <3>3. Good(sites', SiteFields, next') BY <3>1, <3>2, <1>n, ReplacedRow
    <3>. QED BY <3>1, <3>2, <3>3 DEF SitesAfter, Replaced, Exists
  <2>. QED BY <1>3, <2>1, <1>s DEF Look, Sought
<1>4. ASSUME Adds(o) PROVE SitesAfter
  <2>. DEFINE row == CreatedSite(m, t)
  <2>1. (sites' = sites \cup {row} \/ sites' = sites) /\ next' = next + 2
    BY <1>4 DEF Adds, Add
  <2>2. row.id = next + 1 /\ DOMAIN row = SiteFields BY DEF CreatedSite, SiteRow, SiteFields
  <2>. HIDE DEF row
  <2>. QED BY <2>1, <2>2, <1>a, <1>s, <1>n
<1>5. ASSUME Meta(o) PROVE SitesAfter
  <2>. DEFINE f == [s \in sites |->
                      IF s.id # m.site THEN s
                      ELSE [s EXCEPT !.login = IF t.login = NoLogin THEN @ ELSE t.login,
                                     !.source = IF t.login = NoLogin THEN @ ELSE "manual",
                                     !.kind = IF t.prefer = "unknown" THEN @ ELSE t.prefer]]
  <2>1. sites' = {f[s] : s \in sites} BY <1>5 DEF Meta
  <2>2. \A s \in sites : f[s].id = s.id /\ DOMAIN f[s] = SiteFields BY DEF Good, SiteFields
  <2>. HIDE DEF f
  <2>. QED BY <2>1, <2>2, <1>m
<1>6. ASSUME Address(o) PROVE SitesAfter
  <2>. DEFINE f == [s \in sites |->
                      IF s.id # m.from THEN s
                      ELSE [s EXCEPT !.base = m.base, !.login = IF t.login = NoLogin THEN @ ELSE t.login,
                                     !.source = IF t.login = NoLogin THEN @ ELSE "manual",
                                     !.kind = IF t.prefer = "unknown" THEN @ ELSE t.prefer]]
  <2>1. sites' = {f[s] : s \in sites} BY <1>6 DEF Address
  <2>2. \A s \in sites : f[s].id = s.id /\ DOMAIN f[s] = SiteFields BY DEF Good, SiteFields
  <2>. HIDE DEF f
  <2>. QED BY <2>1, <2>2, <1>m
<1>7. ASSUME Put(o) PROVE SitesAfter
  <2>. DEFINE row == SiteRow(next + 1, next, m.base, [login |-> t.login, source |-> ""], "unknown", t.rule)
              f == [s \in sites |->
                      IF s.id # m.site THEN s
                      ELSE [s EXCEPT !.login = IF t.login = NoLogin THEN @ ELSE t.login,
                                     !.checkin = @ \/ t.rule]]
  <2>1. CASE m.site = 0
    <3>1. sites' = sites \cup {row} /\ next' = next + 2 BY <1>7, <2>1 DEF Put
    <3>2. row.id = next + 1 /\ DOMAIN row = SiteFields BY DEF SiteRow, SiteFields
    <3>. HIDE DEF row
    <3>. QED BY <3>1, <3>2, <1>a, <1>n
  <2>2. CASE m.site # 0
    <3>1. sites' = {f[s] : s \in sites} BY <1>7, <2>2 DEF Put
    <3>2. \A s \in sites : f[s].id = s.id /\ DOMAIN f[s] = SiteFields BY DEF Good, SiteFields
    <3>. HIDE DEF f
    <3>. QED BY <3>1, <3>2, <1>m
  <2>. QED BY <2>1, <2>2
<1>8. ASSUME Delete(o) PROVE Good(sites', SiteFields, next')
  <2>. sites' \in SUBSET sites BY <1>8 DEF Delete
  <2>. QED BY <1>n, FewerRows
<1>. QED
  BY <1>s, <1>1, <1>2, <1>3, <1>4, <1>5, <1>6, <1>7, <1>8, StepFootprint
  DEF Footprint, WritesSites, SitesAfter

LEMMA AccountsStep ==
  ASSUME NEW o \in Ops, Step(o), next \in Nat, 1 <= next, Good(accounts, AccountFields, next)
  PROVE  Good(accounts', AccountFields, next')
<1>. DEFINE m == mem[o]  t == task[o]
<1>n. next' \in Int /\ next \in Int /\ next <= next' BY NextStep
<1>s. CASE accounts' = accounts BY <1>s, <1>n, FewerRows
<1>1. CASE Bind(o)
  <2>. DEFINE f == [a \in accounts |-> IF a.id = t.account /\ m.site # m.from
                                       THEN [a EXCEPT !.site = m.site, !.by = "user"] ELSE a]
              row == Account(next, m.site, t.who, IF t.what = "legacy" THEN "file" ELSE "user")
  <2>1. \/ accounts' = accounts
        \/ accounts' = {f[a] : a \in accounts}
        \/ accounts' = accounts \cup {row} /\ next' = next + 1
    BY <1>1 DEF Bind
  <2>2. \A a \in accounts : f[a].id = a.id /\ DOMAIN f[a] = AccountFields BY DEF Good, AccountFields
  <2>3. row.id = next /\ DOMAIN row = AccountFields BY NewRows
  <2>. HIDE DEF f, row
  <2>4. CASE accounts' = {f[a] : a \in accounts} BY <2>2, <2>4, <1>n, MappedRows
  <2>5. CASE accounts' = accounts \cup {row} /\ next' = next + 1 BY <2>3, <2>5, <1>n, AddedRow
  <2>. QED BY <2>1, <2>4, <2>5, <1>s
<1>2. CASE Move(o)
  <2>. DEFINE f == [a \in accounts |-> IF a.site = m.from THEN [a EXCEPT !.site = m.site, !.by = "user"] ELSE a]
  <2>1. accounts' = accounts \/ accounts' = {f[a] : a \in accounts} BY <1>2 DEF Move
  <2>2. \A a \in accounts : f[a].id = a.id /\ DOMAIN f[a] = AccountFields BY DEF Good, AccountFields
  <2>. HIDE DEF f
  <2>. QED BY <2>1, <2>2, <1>n, <1>s, MappedRows
<1>3. CASE Insert(o)
  <2>1. ASSUME NEW x \in m.rows, accounts' = accounts \cup {Account(next, x[1], x[2], "file")}, next' = next + 1
        PROVE  Good(accounts', AccountFields, next')
    <3>. DEFINE row == Account(next, x[1], x[2], "file")
    <3>1. row.id = next /\ DOMAIN row = AccountFields BY NewRows
    <3>. HIDE DEF row
    <3>. QED BY <2>1, <3>1, <1>n, AddedRow DEF row
  <2>. QED BY <1>3, <2>1, <1>s DEF Insert
<1>4. CASE Delete(o)
  <2>. accounts' \in SUBSET accounts BY <1>4 DEF Delete
  <2>. QED BY <1>n, FewerRows
<1>. QED BY <1>s, <1>1, <1>2, <1>3, <1>4, StepFootprint DEF Footprint, WritesAccounts

\* The site of every account exists, before a step and after.
Rooted == \A a \in accounts : Exists(sites, a.site)

LEMMA RootedStep ==
  ASSUME NEW o \in Ops, Step(o), next \in Nat, 1 <= next, Good(sites, SiteFields, next),
         Good(accounts, AccountFields, next), Rooted
  PROVE  Rooted'
<1>. DEFINE m == mem[o]  t == task[o]
<1>s. Delete(o) \/ \A i : Exists(sites, i) => Exists(sites', i)
  BY SitesStep DEF Exists
<1>1. CASE Delete(o)
  BY <1>1 DEF Delete, Rooted, Exists
<1>2. ASSUME accounts' = accounts, ~Delete(o) PROVE Rooted'
  BY <1>2, <1>s DEF Rooted
<1>3. ASSUME Bind(o), ~Delete(o) PROVE Rooted'
  <2>1. sites' = sites BY <1>3 DEF Bind
  <2>2. CASE accounts' = accounts BY <2>1, <2>2 DEF Rooted, Exists
  <2>3. CASE /\ Exists(sites, m.site)
             /\ accounts' = {IF a.id = t.account /\ m.site # m.from
                             THEN [a EXCEPT !.site = m.site, !.by = "user"] ELSE a : a \in accounts}
    BY <2>1, <2>3 DEF Rooted, Exists, Good, AccountFields
  <2>4. CASE /\ Exists(sites, m.site)
             /\ accounts' = accounts \cup {Account(next, m.site, t.who, IF t.what = "legacy" THEN "file" ELSE "user")}
    BY <2>1, <2>4 DEF Rooted, Exists, Account
  <2>. QED BY <1>3, <2>2, <2>3, <2>4 DEF Bind
<1>4. ASSUME Move(o), ~Delete(o) PROVE Rooted'
  <2>1. sites' = sites BY <1>4 DEF Move
  <2>2. CASE accounts' = accounts BY <2>1, <2>2 DEF Rooted, Exists
  <2>3. CASE /\ Exists(sites, m.site) \/ \A a \in accounts : a.site # m.from
             /\ accounts' = {IF a.site = m.from THEN [a EXCEPT !.site = m.site, !.by = "user"] ELSE a : a \in accounts}
    BY <2>1, <2>3 DEF Rooted, Exists, Good, AccountFields
  <2>. QED BY <1>4, <2>2, <2>3 DEF Move
<1>5. ASSUME Insert(o), ~Delete(o) PROVE Rooted'
  <2>1. sites' = sites BY <1>5 DEF Insert
  <2>2. CASE accounts' = accounts BY <2>1, <2>2 DEF Rooted, Exists
  <2>3. ASSUME NEW x \in m.rows, Exists(sites, x[1]), accounts' = accounts \cup {Account(next, x[1], x[2], "file")}
        PROVE  Rooted'
    BY <2>1, <2>3 DEF Rooted, Exists, Account
  <2>. QED BY <1>5, <2>2, <2>3 DEF Insert
<1>. QED BY <1>1, <1>2, <1>3, <1>4, <1>5, StepFootprint DEF Footprint, WritesAccounts

\* The sites a task refers to.
RefersTo(o) ==
  /\ \/ mem'[o].site \in {0, mem[o].site, mem[o].from} \cup {s.id : s \in sites}
     \/ mem'[o].site = next + 1 /\ next' = next + 2
  /\ mem'[o].from \in {0, mem[o].from} \cup {s.id : s \in sites}

LEMMA RefersStep ==
  ASSUME Tasks, Rooted, NEW o \in Ops, Step(o)
  PROVE  RefersTo(o)
<1>0. DOMAIN mem[o] = MemFields /\ DOMAIN mem = Ops BY DEF Tasks
<1>r. ASSUME NEW m, Holding(o, m), m.site \in {0, mem[o].site, mem[o].from} \cup {s.id : s \in sites},
             m.from \in {0, mem[o].from} \cup {s.id : s \in sites}
      PROVE  RefersTo(o)
  BY <1>0, <1>r DEF Holding, RefersTo
<1>h. ASSUME Holding(o, Holds) PROVE RefersTo(o)
  BY <1>h, <1>r DEF Holds
<1>k. ASSUME Holding(o, mem[o]) PROVE RefersTo(o)
  BY <1>k, <1>0 DEF Holding, RefersTo
<1>k2. ASSUME mem' = mem PROVE RefersTo(o)
  BY <1>k2 DEF RefersTo
<1>. USE <1>0 DEF Ends, NextRecord, Holding, Holds, MemFields, RefersTo, Sought
<1>1. CASE Begin(o)
  BY <1>1 DEF Begin
<1>2. CASE ReadPage(o)
  BY <1>2 DEF ReadPage
<1>3. CASE ImportFails(o)
  BY <1>3 DEF ImportFails
<1>4. CASE Upsert(o)
  BY <1>4 DEF Upsert
<1>5. CASE ImportScan(o)
  BY <1>5 DEF ImportScan
<1>6. CASE Find(o)
  <2>1. ASSUME NEW s \in sites, Holding(o, [mem[o] EXCEPT !.site = s.id, !.old = LoginRead(s)])
        PROVE  RefersTo(o)
    BY <2>1
  <2>2. CASE NextRecord(o, mem[o]) BY <2>2
  <2>3. CASE Holding(o, mem[o]) BY <2>3, <1>k
  <2>. QED BY ONLY <1>6, <2>1, <2>2, <2>3 DEF Find, Sought
<1>7. CASE Store(o)
  BY <1>7 DEF Store
<1>8. CASE ReadExisting(o)
  BY <1>8 DEF ReadExisting
<1>9. CASE Mark(o)
  BY <1>9 DEF Mark
<1>10. CASE Read(o)
  <2>1. ASSUME NEW s \in sites, NEW old, Holding(o, [mem[o] EXCEPT !.site = s.id, !.base = s.base, !.old = old])
        PROVE  RefersTo(o)
    BY <2>1
  <2>2. CASE ~Exists(sites, task[o].site) BY <1>10, <2>2, <1>h DEF Read
  <2>3. CASE Exists(sites, task[o].site)
    <3>. DEFINE s == Named1(sites, task[o].site)
    <3>1. s \in sites BY <2>3 DEF Exists, Named1
    <3>2. Holding(o, [mem[o] EXCEPT !.site = s.id, !.base = s.base,
                        !.old = IF task[o].what = "detect" THEN LoginRead(s) ELSE mem[o].old])
      BY ONLY <1>10, <2>3, <1>0 DEF Read, MemFields
    <3>. HIDE DEF s
    <3>. QED BY <2>1, <3>1, <3>2
  <2>. QED BY <2>2, <2>3
<1>11. CASE Scan(o)
  BY <1>11 DEF Scan
<1>12. CASE Reread(o)
  BY <1>12 DEF Reread
<1>13. CASE WriteDetection(o)
  BY <1>13 DEF WriteDetection
<1>14. CASE Look(o)
  <2>1. ASSUME NEW s \in sites, NEW b, Holding(o, [mem[o] EXCEPT !.base = b, !.site = s.id])
        PROVE  RefersTo(o)
    BY <2>1
  <2>2. ASSUME NEW b, Holding(o, [mem[o] EXCEPT !.base = b, !.site = 0]) PROVE RefersTo(o)
    BY <2>2
  <2>. QED BY ONLY <1>14, <2>1, <2>2, <1>h DEF Look, Sought, Ends
<1>15. CASE ScanNew(o)
  <2>1. ASSUME NEW b, NEW d, Holding(o, [mem[o] EXCEPT !.base = b, !.det = d]) PROVE RefersTo(o)
    BY <2>1
  <2>. QED BY ONLY <1>15, <2>1, <1>h DEF ScanNew, Ends
<1>16. CASE Bind(o)
  BY <1>16 DEF Bind
<1>17. CASE LoadAccount(o)
  <2>1. ASSUME NEW s \in sites, Holding(o, [mem[o] EXCEPT !.site = s.id, !.from = s.id])
        PROVE  RefersTo(o)
    BY <2>1
  <2>2. CASE ~Exists(accounts, task[o].account) \/ Excluded(task[o].url)
    BY ONLY <1>17, <2>2, <1>h DEF LoadAccount, Ends
  <2>3. CASE Exists(accounts, task[o].account) /\ ~Excluded(task[o].url)
    <3>. DEFINE s == Named1(sites, Named1(accounts, task[o].account).site)
    <3>1. s \in sites BY <2>3 DEF Exists, Named1, Rooted
    <3>2. Holding(o, [mem[o] EXCEPT !.site = s.id, !.from = s.id])
      BY ONLY <1>17, <2>3 DEF LoadAccount
    <3>. HIDE DEF s
    <3>. QED BY <2>1, <3>1, <3>2
  <2>. QED BY <2>2, <2>3
<1>18. CASE Other(o)
  <2>1. ASSUME NEW s \in sites, Holding(o, [mem[o] EXCEPT !.site = s.id]) PROVE RefersTo(o)
    BY <2>1
  <2>2. ASSUME NEW b, Holding(o, [mem[o] EXCEPT !.base = b, !.site = 0]) PROVE RefersTo(o)
    BY <2>2
  <2>. QED BY ONLY <1>18, <2>1, <2>2 DEF Other, Sought
<1>19. CASE Meta(o)
  BY <1>19 DEF Meta
<1>20. CASE Move(o)
  BY ONLY <1>20, <1>h, <1>k DEF Move, Ends
<1>21. CASE Address(o)
  BY <1>21 DEF Address
<1>22. CASE LookLegacy(o)
  <2>1. ASSUME NEW s \in sites, NEW b, Holding(o, [mem[o] EXCEPT !.base = b, !.site = s.id])
        PROVE  RefersTo(o)
    BY <2>1
  <2>2. ASSUME NEW b, Holding(o, [mem[o] EXCEPT !.base = b]) PROVE RefersTo(o)
    BY <2>2
  <2>. QED BY ONLY <1>22, <2>1, <2>2 DEF LookLegacy, Sought
<1>23. CASE Put(o)
  BY <1>23 DEF Put
<1>24. CASE Who(o)
  BY <1>24 DEF Who
<1>25. CASE Match(o)
  BY <1>25 DEF Match
<1>26. CASE Known(o)
  BY <1>26 DEF Known
<1>27. CASE Insert(o)
  BY <1>27 DEF Insert
<1>28. CASE Delete(o)
  BY <1>28 DEF Delete
<1>29. ASSUME NEW ok \in BOOLEAN, Finish(o, ok) PROVE RefersTo(o)
  BY <1>29 DEF Finish
<1>30. ASSUME NEW ok \in BOOLEAN, Add(o, ok) PROVE RefersTo(o)
  BY <1>30 DEF Add
<1>. QED
  BY <1>1, <1>2, <1>3, <1>4, <1>5, <1>6, <1>7, <1>8, <1>9, <1>10, <1>11, <1>12, <1>13, <1>14,
     <1>15, <1>16, <1>17, <1>18, <1>19, <1>20, <1>21, <1>22, <1>23, <1>24, <1>25, <1>26, <1>27,
     <1>28, <1>29, <1>30 DEF Step

Keys ==
  /\ next \in Nat /\ FirstId <= next
  /\ Good(channels, ChannelFields, next) /\ Good(sites, SiteFields, next) /\ Good(accounts, AccountFields, next)
  /\ Rooted
  /\ \A o \in Ops : mem[o].site \in 0..(next - 1) /\ mem[o].from \in 0..(next - 1)

LEMMA KeysStep ==
  ASSUME Tasks, Keys, [Next]_vars
  PROVE  Keys'
<1>1. ASSUME NEW o \in Ops, Step(o) PROVE Keys'
  <2>1. next' \in Nat /\ next <= next' /\ FirstId <= next /\ next \in Nat BY <1>1, NextStep DEF Keys
  <2>2. /\ Good(channels', ChannelFields, next') /\ Good(sites', SiteFields, next')
        /\ Good(accounts', AccountFields, next')
    BY <1>1, <2>1, ChannelsStep, SitesStep, AccountsStep DEF Keys
  <2>3. Rooted' BY <1>1, <2>1, RootedStep DEF Keys
  <2>4. ASSUME NEW p \in Ops PROVE mem'[p].site \in 0..(next' - 1) /\ mem'[p].from \in 0..(next' - 1)
    <3>1. CASE p # o
      <4>1. mem'[p] = mem[p] BY <1>1, <3>1, StepFrame DEF Frame
      <4>. QED BY <4>1, <2>1 DEF Keys
    <3>2. CASE p = o
      <4>1. RefersTo(o) BY <1>1, RefersStep DEF Keys
      <4>2. \A s \in sites : s.id \in 1..(next - 1) BY DEF Keys, Good
      <4>. QED BY <3>2, <4>1, <4>2, <2>1 DEF RefersTo, Keys
    <3>. QED BY <3>1, <3>2
  <2>. QED BY <2>1, <2>2, <2>3, <2>4 DEF Keys
<1>2. CASE SourceChanges
  BY <1>2 DEF SourceChanges, tables, Keys, Rooted, Exists
<1>3. CASE UNCHANGED vars
  BY <1>3 DEF vars, tables, Keys, Rooted, Exists
<1>. QED BY <1>1, <1>2, <1>3 DEF Next

Basics == Tasks /\ Keys

LEMMA BasicsInit == Init => Basics
<1>. SUFFICES ASSUME Init PROVE Basics OBVIOUS
<1>1. Tasks
  <2>1. DOMAIN pc = Ops /\ DOMAIN mem = Ops /\ DOMAIN clean = Ops /\ task \in Meetings
        /\ \A o \in Ops : mem[o] = Holds /\ pc[o] = FirstStep(task[o].what)
    BY DEF Init
  <2>2. \A o \in Ops : pc[o] \in Pcs(task[o].what)
    BY <2>1, MeetingsAssumption DEF FirstStep, Pcs, Kinds
  <2>. QED BY <2>1, <2>2, HoldsFields DEF Tasks
<1>2. Keys
  <2>1. PICK start \in Starts :
          channels = start.channels /\ sites = start.sites /\ accounts = start.accounts
    BY DEF Init
  <2>2. next = FirstId /\ \A o \in Ops : mem[o].site = 0 /\ mem[o].from = 0 BY DEF Init, Holds
  <2>3. /\ Good(channels, ChannelFields, next) /\ Good(sites, SiteFields, next)
        /\ Good(accounts, AccountFields, next)
    BY <2>1, <2>2, StartsAssumption DEF Good, ChannelFields, SiteFields, AccountFields
  <2>4. Rooted BY <2>1, StartsAssumption DEF Rooted, Exists
  <2>. QED BY <2>2, <2>3, <2>4 DEF Keys
<1>. QED BY <1>1, <1>2 DEF Basics

LEMMA AlwaysBasics == Spec => []Basics
<1>1. Basics /\ [Next]_vars => Basics' BY TasksStep, KeysStep DEF Basics
<1>. QED BY <1>1, BasicsInit, PTL DEF Spec

-------------------------------------------------------------------------------
(* Accounts from files *)

\* Tasks that have found an account of a file to be new, and will insert it.
FromFile(o) == task[o].what \in {"legacy", "chrome"} /\ pc[o] \in {"bind", "insert"}

NotYetThere(site, who) == \A a \in accounts : a.site = site /\ a.by = "file" => a.who # who

RowsArePairs ==
  \A o \in Ops : task[o].what = "chrome" => \A x \in mem[o].rows : x = <<x[1], x[2]>>

\* While no two of them have overlapped, there is one at most, and what it will insert
\* is still new.
FileInv ==
  ~crowded =>
    /\ NoAccountTwice
    /\ \A o, p \in Ops : FromFile(o) /\ FromFile(p) => o = p
    /\ \A o \in Ops :
         /\ task[o].what = "legacy" /\ pc[o] = "bind" => NotYetThere(mem[o].site, task[o].who)
         /\ task[o].what = "chrome" /\ pc[o] = "insert" => \A x \in mem[o].rows : NotYetThere(x[1], x[2])

LEMMA PairsStep ==
  ASSUME Tasks, RowsArePairs, NEW o \in Ops, Step(o)
  PROVE  RowsArePairs'
<1>1. Frame(o) BY StepFrame
<1>2. ASSUME task[o].what = "chrome" PROVE \A x \in mem'[o].rows : x = <<x[1], x[2]>>
  <2>. USE DEF Tasks, MemFields, Holding, Ends, Holds
  <2>1. CASE Match(o)
    <3>. DEFINE hits == {<<x[1].id, x[2][2]>> : x \in {y \in sites \X task[o].rows : BaseOf[y[2][1]] = y[1].base}}
    <3>1. Holding(o, [mem[o] EXCEPT !.rows = hits]) BY <2>1 DEF Match
    <3>2. mem'[o].rows = hits BY <3>1
    <3>. QED BY ONLY <3>2
  <2>2. CASE Known(o)
    <3>1. PICK u : u \subseteq mem[o].rows /\ Holding(o, [mem[o] EXCEPT !.rows = u])
      BY <2>2 DEF Known
    <3>2. mem'[o].rows = u BY <3>1
    <3>. QED BY <3>1, <3>2, <1>2 DEF RowsArePairs
  <2>3. CASE Insert(o)
    <3>1. Ends(o) \/ \E x \in mem[o].rows : Holding(o, [mem[o] EXCEPT !.rows = mem[o].rows \ {x}])
      BY <2>3 DEF Insert
    <3>2. Ends(o) => mem'[o].rows = {} OBVIOUS
    <3>3. ASSUME NEW x, Holding(o, [mem[o] EXCEPT !.rows = mem[o].rows \ {x}])
          PROVE  mem'[o].rows \subseteq mem[o].rows
      BY <3>3
    <3>. QED BY <3>1, <3>2, <3>3, <1>2 DEF RowsArePairs
  <2>. QED BY <1>2, <2>1, <2>2, <2>3, Steps
<1>. QED BY <1>1, <1>2 DEF RowsArePairs, Frame

\* An account of a file is there since before the step, but for one the step inserts.
LEMMA NoNewFileAccounts ==
  ASSUME Basics, NEW o \in Ops, Step(o), ~FromFile(o)
  PROVE  \A a \in accounts' : a.by = "file" => a \in accounts
<1>1. CASE Bind(o)
  <2>1. task[o].what # "legacy" BY <1>1, Guards DEF FromFile
  <2>2. CASE accounts' = accounts BY <2>2
  <2>3. CASE accounts' = {IF a.id = task[o].account /\ mem[o].site # mem[o].from
                          THEN [a EXCEPT !.site = mem[o].site, !.by = "user"] ELSE a : a \in accounts}
    BY <2>3 DEF Basics, Keys, Good, AccountFields
  <2>4. CASE accounts' = accounts \cup {Account(next, mem[o].site, task[o].who, "user")}
    BY <2>4 DEF Account
  <2>. QED BY <1>1, <2>1, <2>2, <2>3, <2>4 DEF Bind
<1>2. CASE Move(o)
  <2>1. CASE accounts' = accounts BY <2>1
  <2>2. CASE accounts' = {IF a.site = mem[o].from THEN [a EXCEPT !.site = mem[o].site, !.by = "user"] ELSE a : a \in accounts}
    BY <2>2 DEF Basics, Keys, Good, AccountFields
  <2>. QED BY <1>2, <2>1, <2>2 DEF Move
<1>3. ~Insert(o)
  <2>1. pc[o] = "insert" => task[o].what = "chrome"
    BY TaskKinds DEF Basics, Tasks, Pcs, Kinds
  <2>. QED BY <2>1, Guards DEF FromFile
<1>4. CASE Delete(o) BY <1>4 DEF Delete
<1>5. CASE accounts' = accounts BY <1>5
<1>. QED BY <1>1, <1>2, <1>3, <1>4, <1>5, StepFootprint DEF Footprint, WritesAccounts

\* A task that found something new in a step met no other that was about to insert.
LEMMA FileFound ==
  ASSUME Basics, FileInv, ~crowded', NEW o \in Ops, Step(o), ~FromFile(o), FromFile(o)'
  PROVE  /\ \A p \in Ops \ {o} : ~FromFile(p)
         /\ task[o].what = "legacy" => NotYetThere(mem[o].site, task[o].who) /\ mem'[o] = mem[o]
         /\ task[o].what = "chrome" => \A x \in mem'[o].rows : NotYetThere(x[1], x[2])
         /\ accounts' = accounts
<1>1. task' = task BY StepFrame DEF Frame, Basics
<1>2. Who(o) \/ Known(o)
  <2>1. CASE task[o].what = "legacy"
    <3>1. pc'[o] = "bind" \/ pc'[o] = "insert" BY <1>1 DEF FromFile
    <3>2. CASE LookLegacy(o)
      <4>. pc'[o] = "put" BY <3>2 DEF LookLegacy, Goes, Basics, Tasks
      <4>. QED BY <3>1
    <3>3. CASE Put(o)
      <4>. pc'[o] = "who" BY <3>3 DEF Put, Goes, Basics, Tasks
      <4>. QED BY <3>1
    <3>. QED BY <2>1, <3>2, <3>3, Steps, Guards DEF Basics, FromFile
  <2>2. CASE task[o].what = "chrome"
    <3>1. pc'[o] = "bind" \/ pc'[o] = "insert" BY <1>1 DEF FromFile
    <3>2. CASE Match(o)
      <4>. pc'[o] = "known" BY <3>2 DEF Match, Goes, Basics, Tasks
      <4>. QED BY <3>1
    <3>. QED BY <2>2, <3>2, Steps, Guards DEF Basics, FromFile
  <2>. QED BY <1>1, <2>1, <2>2 DEF FromFile
<1>3. \A p \in Ops \ {o} : ~FromFile(p)
  BY <1>2 DEF Who, Known, Crowds, InFile, FromFile
<1>4. accounts' = accounts BY <1>2 DEF Who, Known, tables
<1>5. ASSUME task[o].what = "legacy" PROVE NotYetThere(mem[o].site, task[o].who) /\ mem'[o] = mem[o]
  <2>1. Who(o) /\ pc'[o] # "done"
    <3>1. ~Known(o) BY <1>5, Guards DEF Basics, Tasks, Pcs
    <3>. QED BY <1>2, <3>1 DEF FromFile
  <2>2. ~Ends(o)
    BY <2>1 DEF Ends, Goes, Basics, Tasks
  <2>3. (\A a \in accounts : ~(a.site = mem[o].site /\ Lower[a.who] = Lower[task[o].who])) /\ mem' = mem
    BY <2>1, <2>2 DEF Who
  <2>. QED BY <2>3 DEF NotYetThere
<1>6. ASSUME task[o].what = "chrome" PROVE \A x \in mem'[o].rows : NotYetThere(x[1], x[2])
  <2>1. Known(o) BY <1>2, <1>6, Guards DEF Basics, Tasks, Pcs
  <2>2. PICK u : u \subseteq {x \in mem[o].rows : ~HasAccount(x)} /\ Holding(o, [mem[o] EXCEPT !.rows = u])
    BY <2>1 DEF Known
  <2>3. mem'[o].rows = u BY <2>2 DEF Holding, Basics, Tasks, MemFields
  <2>. QED BY <2>2, <2>3 DEF HasAccount, NotYetThere
<1>. QED BY <1>3, <1>4, <1>5, <1>6

\* What a task that found something new does next.
LEMMA FileInserts ==
  ASSUME Basics, RowsArePairs, FileInv, ~crowded, NEW o \in Ops, Step(o), FromFile(o)
  PROVE  /\ NoAccountTwice'
         /\ FromFile(o)' /\ task[o].what = "chrome" => \A x \in mem'[o].rows : NotYetThere(x[1], x[2])'
         /\ task[o].what = "legacy" => ~FromFile(o)'
<1>. DEFINE Added(site, who) == accounts' = accounts \cup {Account(next, site, who, "file")}
<1>1. Distinct(accounts) /\ \A a \in accounts : a.id # next
  BY DEF Basics, Keys, Good
<1>2. ASSUME NEW site, NEW who, Added(site, who), NotYetThere(site, who) PROVE NoAccountTwice'
  <2>1. NoAccountTwice BY DEF FileInv
  <2>2. \A a, b \in accounts' : a.id # b.id /\ a.site = b.site /\ a.by = "file" /\ b.by = "file" => a.who # b.who
    BY <1>2, <2>1 DEF NoAccountTwice, NotYetThere, Account
  <2>. QED BY <2>2 DEF NoAccountTwice
<1>3. ASSUME accounts' = accounts PROVE NoAccountTwice'
  BY <1>3 DEF FileInv, NoAccountTwice
<1>4. CASE task[o].what = "legacy"
  <2>1. Bind(o) /\ pc[o] = "bind"
    BY <1>4, Steps, Guards DEF Basics, FromFile, LookLegacy, Put, Who
  <2>2. accounts' = accounts \/ Added(mem[o].site, task[o].who)
    BY <2>1, <1>4 DEF Bind
  <2>3. NoAccountTwice' BY <1>2, <1>3, <1>4, <2>1, <2>2 DEF FileInv
  <2>4. pc'[o] = "done" BY <2>1 DEF Bind, Ends, Goes, Basics, Tasks
  <2>. QED BY <1>4, <2>3, <2>4 DEF FromFile
<1>5. CASE task[o].what = "chrome"
  <2>1. Insert(o) /\ pc[o] = "insert"
    BY <1>5, Steps, Guards DEF Basics, FromFile
  <2>n. \A x \in mem[o].rows : NotYetThere(x[1], x[2]) BY <1>5, <2>1 DEF FileInv
  <2>2. CASE Ends(o) /\ accounts' = accounts
    <3>1. pc'[o] = "done" BY <2>2 DEF Ends, Goes, Basics, Tasks
    <3>2. task' = task BY StepFrame DEF Frame, Basics
    <3>. QED BY <1>3, <1>5, <2>2, <3>1, <3>2 DEF FromFile
  <2>3. ASSUME NEW x \in mem[o].rows, Added(x[1], x[2]), Holding(o, [mem[o] EXCEPT !.rows = @ \ {x}])
        PROVE  NoAccountTwice' /\ \A y \in mem'[o].rows : NotYetThere(y[1], y[2])'
    <3>1. NoAccountTwice' BY <1>2, <2>n, <2>3
    <3>2. mem'[o].rows = mem[o].rows \ {x} BY <2>3 DEF Holding, Basics, Tasks, MemFields
    <3>3. ASSUME NEW y \in mem[o].rows \ {x} PROVE NotYetThere(y[1], y[2])'
      <4>1. y[1] # x[1] \/ y[2] # x[2] BY <1>5, <3>3 DEF RowsArePairs
      <4>2. NotYetThere(y[1], y[2]) BY <2>n
      <4>. QED BY <4>1, <4>2, <2>3 DEF NotYetThere, Account
    <3>. QED BY <3>1, <3>2, <3>3
  <2>. QED BY <1>5, <2>1, <2>2, <2>3 DEF Insert
<1>. QED BY <1>4, <1>5 DEF FromFile

LEMMA FileStep ==
  ASSUME Basics, RowsArePairs, FileInv, NEW o \in Ops, Step(o)
  PROVE  FileInv'
<1>. SUFFICES ASSUME ~crowded' PROVE FileInv' BY DEF FileInv
<1>1. Frame(o) BY StepFrame DEF Basics
<1>2. ~crowded BY StepFootprint DEF Footprint, Who, Known, Crowds
<1>3. /\ NoAccountTwice
      /\ \A p, q \in Ops : FromFile(p) /\ FromFile(q) => p = q
      /\ \A p \in Ops :
           /\ task[p].what = "legacy" /\ pc[p] = "bind" => NotYetThere(mem[p].site, task[p].who)
           /\ task[p].what = "chrome" /\ pc[p] = "insert" => \A x \in mem[p].rows : NotYetThere(x[1], x[2])
  BY <1>2 DEF FileInv
<1>4. \A p \in Ops \ {o} : /\ task'[p] = task[p] /\ pc'[p] = pc[p] /\ mem'[p] = mem[p]
                           /\ FromFile(p)' <=> FromFile(p)
  BY <1>1 DEF Frame, FromFile
<1>5. task'[o] = task[o] BY <1>1 DEF Frame
<1>6. CASE FromFile(o)
  <2>1. \A p \in Ops \ {o} : ~FromFile(p)' BY <1>3, <1>4, <1>6
  <2>2. /\ NoAccountTwice'
        /\ FromFile(o)' /\ task[o].what = "chrome" => \A x \in mem'[o].rows : NotYetThere(x[1], x[2])'
        /\ task[o].what = "legacy" => ~FromFile(o)'
    BY <1>2, <1>6, FileInserts
  <2>3. ASSUME NEW p \in Ops, FromFile(p)'
        PROVE  /\ p = o
               /\ task[o].what = "chrome" /\ \A x \in mem'[o].rows : NotYetThere(x[1], x[2])'
    BY <2>1, <2>2, <2>3, <1>5 DEF FromFile
  <2>4. ASSUME NEW p \in Ops, task'[p].what = "legacy", pc'[p] = "bind" PROVE FALSE
    BY <2>3, <2>4, <1>5 DEF FromFile
  <2>5. ASSUME NEW p \in Ops, task'[p].what = "chrome", pc'[p] = "insert"
        PROVE  \A x \in mem'[p].rows : NotYetThere(x[1], x[2])'
    BY <2>3, <2>5 DEF FromFile
  <2>. QED BY <2>2, <2>3, <2>4, <2>5 DEF FileInv
<1>7. CASE ~FromFile(o)
  <2>1. \A a \in accounts' : a.by = "file" => a \in accounts BY <1>7, NoNewFileAccounts
  <2>2. NoAccountTwice'
    <3>1. \A a, b \in accounts' : a.id # b.id /\ a.site = b.site /\ a.by = "file" /\ b.by = "file" => a.who # b.who
      BY <1>2, <1>3, <2>1 DEF NoAccountTwice
    <3>. QED BY <3>1 DEF NoAccountTwice
  <2>3. ASSUME NEW site, NEW who, NotYetThere(site, who) PROVE NotYetThere(site, who)'
    BY <2>1, <2>3 DEF NotYetThere
  <2>4. FromFile(o)' =>
          /\ \A p \in Ops \ {o} : ~FromFile(p)
          /\ task[o].what = "legacy" => NotYetThere(mem[o].site, task[o].who) /\ mem'[o] = mem[o]
          /\ task[o].what = "chrome" => \A x \in mem'[o].rows : NotYetThere(x[1], x[2])
    BY <1>7, FileFound
  <2>5. \A p, q \in Ops : FromFile(p)' /\ FromFile(q)' => p = q BY <1>3, <1>4, <2>4
  <2>6. ASSUME NEW p \in Ops, task'[p].what = "legacy", pc'[p] = "bind"
        PROVE  NotYetThere(mem[p].site, task[p].who)'
    <3>1. FromFile(p)' BY <2>6 DEF FromFile
    <3>2. mem'[p] = mem[p] /\ task'[p] = task[p] /\ NotYetThere(mem[p].site, task[p].who)
      BY <1>3, <1>4, <1>5, <2>4, <2>6, <3>1
    <3>3. PICK site, who : site = mem[p].site /\ who = task[p].who OBVIOUS
    <3>4. NotYetThere(site, who)' BY <2>3, <3>2, <3>3
    <3>. QED BY <3>2, <3>3, <3>4
  <2>7. ASSUME NEW p \in Ops, task'[p].what = "chrome", pc'[p] = "insert", NEW x \in mem'[p].rows
        PROVE  NotYetThere(x[1], x[2])'
    <3>1. FromFile(p)' BY <2>7 DEF FromFile
    <3>2. NotYetThere(x[1], x[2]) BY <1>3, <1>4, <1>5, <2>4, <2>7, <3>1
    <3>. QED BY <2>3, <3>2
  <2>. QED BY <2>2, <2>5, <2>6, <2>7 DEF FileInv
<1>. QED BY <1>6, <1>7

LEMMA FileUnchanged ==
  ASSUME RowsArePairs, FileInv, SourceChanges \/ UNCHANGED vars
  PROVE  RowsArePairs' /\ FileInv'
<1>1. task' = task /\ pc' = pc /\ mem' = mem /\ accounts' = accounts /\ crowded' = crowded
  BY DEF SourceChanges, vars, tables, history
<1>. QED BY <1>1 DEF RowsArePairs, FileInv, NoAccountTwice, FromFile, NotYetThere

\* Files of accounts that are imported again, or one after the other, add no account
\* twice, whatever else happens meanwhile to the sites and the accounts.
THEOREM ImportsAddOnce ==
  ASSUME \A s \in Starts : \A a, b \in s.accounts :
           a.id # b.id /\ a.site = b.site /\ a.by = "file" /\ b.by = "file" => a.who # b.who
  PROVE  Spec => []NoAccountTwice
<1>1. Init => RowsArePairs /\ FileInv
  <2>. SUFFICES ASSUME Init PROVE RowsArePairs /\ FileInv OBVIOUS
  <2>1. \A p \in Ops : mem[p].rows = {} /\ pc[p] = FirstStep(task[p].what) /\ task[p].what \in Kinds
    BY MeetingsAssumption DEF Init, Holds
  <2>2. \A p \in Ops : ~FromFile(p) /\ pc[p] \notin {"bind", "insert"}
    BY <2>1 DEF FromFile, FirstStep, Kinds
  <2>3. NoAccountTwice BY DEF Init, NoAccountTwice
  <2>. QED BY <2>1, <2>2, <2>3 DEF RowsArePairs, FileInv
<1>2. Basics /\ RowsArePairs /\ FileInv /\ [Next]_vars => RowsArePairs' /\ FileInv'
  BY FileStep, PairsStep, FileUnchanged DEF Next, Basics
<1>3. FileInv => NoAccountTwice BY DEF FileInv, NoAccountTwice
<1>. QED BY <1>1, <1>2, <1>3, AlwaysBasics, PTL DEF Spec

-------------------------------------------------------------------------------
(* What users type *)

\* An edit that moves a site has an address for it.
EditsHaveAddress ==
  \A o \in Ops : /\ pc[o] = "other" => task[o].url # NoUrl
                 /\ pc[o] = "address" => mem[o].base # NoUrl

\* The login page and the address of a site are those that were typed.
Kept(s) ==
  s.id \notin excused =>
    /\ TypedOf(s.id).login # NoLogin => s.login = TypedOf(s.id).login /\ s.source = "manual"
    /\ TypedOf(s.id).base # NoUrl => s.base = TypedOf(s.id).base

\* What a task has read of a site that it will write is still so.
HasReadLogin(o) == task[o].what = "bulk" => pc[o] = "write"

ReadStill(o, s) ==
  WillOverwrite(o, s.id) /\ s.id \notin excused =>
    /\ task[o].what \in {"detect", "bulk"} => s.base = mem[o].base
    /\ HasReadLogin(o) /\ TypedOf(s.id).login # NoLogin =>
         mem[o].old.login = TypedOf(s.id).login /\ mem[o].old.source = "manual"

TypedShape ==
  /\ DOMAIN typed \subseteq 0..(next - 1)
  /\ \A i \in DOMAIN typed : DOMAIN typed[i] = {"login", "base"}

\* A task that has no site for what it is at.
Unfound(o) ==
  \/ pc[o] \in {"begin", "page", "upsert", "find", "add", "address"}
  \/ pc[o] = "scan" /\ task[o].what \notin {"detect", "bulk"}
  \/ pc[o] = "look" /\ task[o].what = "legacy"
  => mem[o].site = 0

TypedInv ==
  /\ TypedShape /\ EditsHaveAddress /\ \A o \in Ops : Unfound(o)
  /\ \A s \in sites : Kept(s)
  /\ \A o \in Ops : \A s \in sites : ReadStill(o, s)

\* A detection never replaces a login page that was typed.
LEMMA TypedLoginStays ==
  ASSUME NEW b, NEW det, NEW old, old.login # NoLogin, old.source = "manual"
  PROVE  StoredLogin(b, det, NoLogin, old) = [login |-> old.login, source |-> "manual"]
BY DEF StoredLogin, ShouldPreserveExistingLogin

LEMMA EditsStep ==
  ASSUME Tasks, EditsHaveAddress, NEW o \in Ops, Step(o)
  PROVE  EditsHaveAddress'
<1>1. Frame(o) BY StepFrame
<1>2. pc'[o] = "other" => task[o].url # NoUrl
  <2>1. SUFFICES ASSUME pc'[o] = "other" PROVE LoadAccount(o) /\ task[o].url # NoUrl OBVIOUS
  <2>2. task[o].what = "edit"
    <3>1. pc'[o] \in Pcs(task[o].what) /\ task[o].what \in Kinds BY StepCourse, TaskKinds
    <3>. QED BY <2>1, <3>1 DEF Pcs, Kinds
  <2>. USE <2>1 DEF Goes, Ends, Tasks
  <2>3. CASE LoadAccount(o) BY <2>3 DEF LoadAccount, EditStep
  <2>4. CASE Look(o) BY <2>4 DEF Look, AfterSite
  <2>5. CASE Other(o) BY <2>5 DEF Other
  <2>6. CASE Address(o) BY <2>6 DEF Address
  <2>7. CASE ScanNew(o) BY <2>7 DEF ScanNew
  <2>8. CASE Adds(o) BY <2>8 DEF Adds, Add, AfterSite
  <2>9. CASE Meta(o) BY <2>9 DEF Meta
  <2>10. CASE Move(o) BY <2>10 DEF Move
  <2>11. CASE Bind(o) BY <2>11 DEF Bind
  <2>. QED BY ONLY Steps, Tasks, Step(o), <2>2, <2>3, <2>4, <2>5, <2>6, <2>7, <2>8, <2>9, <2>10,
                   <2>11
<1>3. pc'[o] = "address" => mem'[o].base # NoUrl
  <2>1. SUFFICES ASSUME pc'[o] = "address" PROVE Other(o) /\ mem'[o].base # NoUrl OBVIOUS
  <2>2. task[o].what = "edit"
    <3>1. pc'[o] \in Pcs(task[o].what) /\ task[o].what \in Kinds BY StepCourse, TaskKinds
    <3>. QED BY <2>1, <3>1 DEF Pcs, Kinds
  <2>3. ASSUME Other(o) PROVE mem'[o].base # NoUrl
    <3>1. BaseOf[task[o].url] # NoUrl
      BY <2>2, <2>3, MeetingsAssumption, Guards DEF Tasks, EditsHaveAddress, NoUrl
    <3>2. Holding(o, [mem[o] EXCEPT !.base = BaseOf[task[o].url], !.site = 0]) \/ pc'[o] = "meta"
      BY <2>3 DEF Other, Goes, Tasks
    <3>. QED BY <2>1, <3>1, <3>2 DEF Holding, Tasks, MemFields
  <2>. USE <2>1 DEF Goes, Ends, Tasks
  <2>4. CASE LoadAccount(o) BY <2>4 DEF LoadAccount, EditStep
  <2>5. CASE Look(o) BY <2>5 DEF Look, AfterSite
  <2>6. CASE Address(o) BY <2>6 DEF Address
  <2>7. CASE ScanNew(o) BY <2>7 DEF ScanNew
  <2>8. CASE Adds(o) BY <2>8 DEF Adds, Add, AfterSite
  <2>9. CASE Meta(o) BY <2>9 DEF Meta
  <2>10. CASE Move(o) BY <2>10 DEF Move
  <2>11. CASE Bind(o) BY <2>11 DEF Bind
  <2>. QED BY ONLY Steps, Tasks, Step(o), <2>2, <2>3, <2>4, <2>5, <2>6, <2>7, <2>8, <2>9, <2>10,
                   <2>11
<1>. QED BY <1>1, <1>2, <1>3 DEF Frame, EditsHaveAddress

LEMMA UnfoundStep ==
  ASSUME Tasks, \A p \in Ops : Unfound(p), NEW o \in Ops, Step(o)
  PROVE  \A p \in Ops : Unfound(p)'
<1>1. Frame(o) BY StepFrame
<1>2. \A p \in Ops \ {o} : Unfound(p)' BY <1>1 DEF Frame, Unfound
<1>3. Unfound(o)'
  <2>a. Unfound(o) OBVIOUS
  <2>b. pc[o] \in Pcs(task[o].what) /\ pc'[o] \in Pcs(task[o].what) /\ task[o].what \in Kinds
    BY StepCourse, TaskKinds DEF Tasks
  <2>c. DOMAIN mem[o] = MemFields /\ DOMAIN mem = Ops /\ DOMAIN pc = Ops BY DEF Tasks
  <2>d. /\ pc[o] \in {"begin", "page", "upsert", "find", "add"} => mem[o].site = 0
        /\ pc[o] = "scan" /\ task[o].what \notin {"detect", "bulk"} => mem[o].site = 0
    BY <2>a DEF Unfound
  <2>k. Begin(o) \/ ReadPage(o) \/ Upsert(o) \/ ImportScan(o) \/ ScanNew(o) => mem[o].site = 0
    BY <2>d, Guards
  <2>h. ASSUME NEW m, Holding(o, m), m.site = 0 PROVE Unfound(o)'
    BY <2>h, <2>c DEF Holding, Unfound
  <2>u. ASSUME mem' = mem, mem[o].site = 0 PROVE Unfound(o)' BY <2>u DEF Unfound
  <2>n. ASSUME NEW m, NextRecord(o, m), DOMAIN m = MemFields PROVE Unfound(o)'
    BY <2>n, <2>h DEF NextRecord, MemFields
  <2>e. ASSUME Ends(o) PROVE Unfound(o)' BY <2>e, <2>h DEF Ends, Holds
  <2>g. ASSUME NEW step, Goes(o, step), step \notin {"begin", "page", "upsert", "find", "add", "address", "scan", "look"}
        PROVE  Unfound(o)'
    BY <2>g, <2>c DEF Goes, Unfound
  <2>1. CASE Begin(o) BY <2>1, <2>k, <2>u DEF Begin
  <2>2. CASE ReadPage(o) BY <2>2, <2>c, <2>k, <2>h DEF ReadPage, MemFields
  <2>3. CASE ImportFails(o) BY <2>3, <2>h DEF ImportFails, Holds
  <2>4. CASE Upsert(o)
    <3>1. mem[o].site = 0 BY <2>4, <2>k
    <3>2. \/ NextRecord(o, mem[o])
          \/ \E c, k, b : Holding(o, [mem[o] EXCEPT !.chan = c, !.kind = k, !.base = b])
      BY <2>4 DEF Upsert
    <3>. QED BY <3>1, <3>2, <2>c, <2>n, <2>h DEF MemFields
  <2>5. CASE ImportScan(o) BY <2>5, <2>c, <2>k, <2>h DEF ImportScan, MemFields
  <2>6. CASE Find(o) BY <2>6, <2>c, <2>n, <2>g DEF Find
  <2>7. CASE Store(o) BY <2>7, <2>c, <2>n DEF Store
  <2>8. CASE Finishes(o) BY <2>8, <2>e DEF Finishes, Finish
  <2>9. CASE ReadExisting(o) BY <2>9, <2>g DEF ReadExisting
  <2>10. CASE Mark(o) BY <2>10, <2>e DEF Mark
  <2>11. CASE ScanNew(o) BY <2>11, <2>c, <2>k, <2>e, <2>h DEF ScanNew, MemFields
  <2>12. CASE Adds(o) BY <2>12, <2>c, <2>e, <2>g DEF Adds, Add, AfterSite
  <2>13. CASE Look(o) BY <2>13, <2>c, <2>e, <2>g, <2>h DEF Look, AfterSite, MemFields
  <2>14. CASE Bind(o) BY <2>14, <2>e DEF Bind
  <2>15. CASE LoadAccount(o)
    <3>1. task[o].what = "edit"
      BY <2>15, <2>b, Guards DEF Pcs, Kinds
    <3>2. Ends(o) \/ pc'[o] \in {"bind", "meta", "other", "look"}
      BY <2>15, <2>c DEF LoadAccount, EditStep, Goes
    <3>. QED BY <3>1, <3>2, <2>e, <1>1 DEF Unfound, Frame
  <2>16. CASE Other(o) BY <2>16, <2>c, <2>g, <2>h DEF Other, MemFields
  <2>17. CASE Address(o) BY <2>17, <2>g DEF Address
  <2>18. CASE Meta(o) BY <2>18, <2>g DEF Meta
  <2>19. CASE Move(o) BY <2>19, <2>e, <2>g DEF Move
  <2>20. CASE LookLegacy(o) BY <2>20, <2>g DEF LookLegacy
  <2>21. CASE Put(o) BY <2>21, <2>g DEF Put
  <2>22. CASE Who(o) BY <2>22, <2>e, <2>g DEF Who
  <2>23. CASE task[o].what \in {"detect", "bulk", "chrome", "delete"}
    BY <2>23, <2>b, <1>1 DEF Pcs, Unfound, Frame
  <2>. QED
    BY ONLY <2>b, Steps, Tasks, Step(o), <2>1, <2>2, <2>3, <2>4, <2>5, <2>6, <2>7, <2>8, <2>9,
            <2>10, <2>11, <2>12,
       <2>13, <2>14, <2>15, <2>16, <2>17, <2>18, <2>19, <2>20, <2>21, <2>22, <2>23 DEF Kinds
<1>. QED BY <1>2, <1>3

\* Typing is recorded, on that site only.
LEMMA TypedOnly ==
  ASSUME NEW o \in Ops, NEW id, NEW login, NEW base, Types(o, id, login, base)
  PROVE  /\ DOMAIN typed' = DOMAIN typed \cup {id}
         /\ excused \subseteq excused'
         /\ \A i : i # id => TypedOf(i)' = TypedOf(i)
<1>1. DOMAIN typed' = DOMAIN typed \cup {id} /\ excused \subseteq excused' BY DEF Types
<1>2. \A i \in DOMAIN typed : i # id => typed'[i] = typed[i] BY DEF Types
<1>. QED BY <1>1, <1>2 DEF TypedOf

LEMMA TypedRecords ==
  ASSUME TypedShape, NEW o \in Ops, NEW id, NEW login, NEW base, Types(o, id, login, base)
  PROVE  \A i \in DOMAIN typed' : DOMAIN typed'[i] = {"login", "base"}
BY DEF Types, TypedShape

LEMMA TypesRecords ==
  ASSUME NEW o \in Ops, NEW id, NEW login, NEW base, Types(o, id, login, base)
  PROVE  /\ TypedOf(id)'.login = (IF login = NoLogin THEN TypedOf(id).login ELSE login)
         /\ TypedOf(id)'.base = (IF base = NoUrl THEN TypedOf(id).base ELSE base)
         /\ id \in excused' \/ \A p \in Ops \ {o} : ~WillOverwrite(p, id)
<1>1. TypedOf(id)' = [login |-> IF login = NoLogin THEN TypedOf(id).login ELSE login,
                      base |-> IF base = NoUrl THEN TypedOf(id).base ELSE base]
  BY DEF Types, TypedOf
<1>2. id \in excused' \/ \A p \in Ops \ {o} : ~WillOverwrite(p, id) BY DEF Types
<1>. QED BY <1>1, <1>2

\* What other tasks have read of a site stays so in a step, unless they are excused.
Respected(o, y) ==
  \E s \in sites :
    /\ s.id = y.id
    /\ \/ s.base = y.base /\ (TypedOf(y.id)' = TypedOf(y.id) \/ TypedOf(y.id)'.login = NoLogin)
       \/ y.id \in excused'
       \/ \A p \in Ops \ {o} : ~WillOverwrite(p, y.id)

Lawful(o) ==
  /\ TypedShape' /\ excused \subseteq excused'
  /\ \A y \in sites' : Kept(y)' /\ (Respected(o, y) \/ y.id >= next)

LEMMA UntouchedIsLawful ==
  ASSUME Basics, TypedInv, NEW o \in Ops, Step(o), sites' \in SUBSET sites, typed' = typed, excused' = excused
  PROVE  Lawful(o)
<1>1. next \in Nat /\ next' \in Nat /\ next <= next' BY NextStep DEF Basics, Keys
<1>2. TypedShape' BY <1>1 DEF TypedInv, TypedShape
<1>3. \A i : TypedOf(i)' = TypedOf(i) BY DEF TypedOf
<1>4. \A y \in sites' : Kept(y)' /\ Respected(o, y)
  <2>. TAKE y \in sites'
  <2>1. Kept(y) /\ y \in sites BY DEF TypedInv
  <2>2. Kept(y)' BY <2>1, <1>3 DEF Kept
  <2>3. Respected(o, y) BY <2>1, <1>3 DEF Respected
  <2>. QED BY <2>2, <2>3
<1>. QED BY <1>2, <1>4 DEF Lawful

\* A site that a step writes, if what was typed of it is not touched.
LEMMA WrittenIsKept ==
  ASSUME Basics, TypedInv, NEW o \in Ops, NEW s \in sites, NEW y, y.id = s.id,
         typed' = typed, excused' = excused,
         \/ y.login = s.login /\ y.source = s.source
         \/ s.id \in excused
         \/ TypedOf(s.id).login # NoLogin => y.login = TypedOf(s.id).login /\ y.source = "manual",
         y.base = s.base \/ s.id \in excused
  PROVE  Kept(y)' /\ Respected(o, y)
<1>1. TypedOf(y.id)' = TypedOf(y.id) BY DEF TypedOf
<1>2. Kept(s) BY DEF TypedInv
<1>3. Kept(y)' BY <1>1, <1>2 DEF Kept
<1>. QED BY <1>1, <1>3 DEF Respected

LEMMA StoreIsLawful ==
  ASSUME Basics, TypedInv, NEW o \in Ops, Step(o), Store(o)
  PROVE  Lawful(o)
<1>. DEFINE m == mem[o]
            kind == IF m.det = Nothing THEN m.kind ELSE m.det.kind
            login == StoredLogin(m.base, m.det, NoLogin, IF m.site = 0 THEN Unread ELSE m.old)
            row == SiteRow(next, m.chan, m.base, login, kind, m.det.checkin)
            F(s) == IF s.id # m.site THEN s
                    ELSE [s EXCEPT !.chan = IF @ = 0 THEN m.chan ELSE @,
                             !.login = login.login, !.source = login.source,
                             !.kind = IF @ = "unknown" THEN kind ELSE @,
                             !.checkin = @ \/ m.det.checkin]
<1>1. next \in Nat /\ next' \in Nat /\ next <= next' BY NextStep DEF Basics, Keys
<1>2. typed' = typed /\ excused' = excused BY DEF Store
<1>3. TypedShape' BY <1>1, <1>2 DEF TypedInv, TypedShape
<1>4. task[o].what = "sync" /\ pc[o] = "store"
  <2>1. pc[o] = "store" BY Guards
  <2>. QED BY <2>1, TaskKinds DEF Basics, Tasks, Pcs, Kinds
<1>5. ASSUME NEW y \in sites' PROVE Kept(y)' /\ (Respected(o, y) \/ y.id >= next)
  <2>1. CASE y \in sites BY <2>1, <1>2, WrittenIsKept
  <2>2. CASE y = row
    <3>1. y.id = next BY <2>2 DEF SiteRow
    <3>2. TypedOf(y.id)' = NotTyped BY <1>1, <1>2, <3>1 DEF TypedOf, TypedInv, TypedShape
    <3>3. Kept(y)' BY <3>2 DEF Kept, NotTyped
    <3>. QED BY <3>1, <3>3, <1>1
  <2>3. ASSUME NEW s \in sites, y = F(s), s.id = m.site, m.site # 0
        PROVE  Kept(y)' /\ Respected(o, y)
    <3>1. DOMAIN s = SiteFields BY DEF Basics, Keys, Good
    <3>2. y.id = s.id /\ y.base = s.base /\ y.login = login.login /\ y.source = login.source
      BY <2>3, <3>1 DEF SiteFields
    <3>3. WillOverwrite(o, s.id) BY <1>4, <2>3 DEF WillOverwrite
    <3>4. s.id \notin excused /\ TypedOf(s.id).login # NoLogin =>
            m.old.login = TypedOf(s.id).login /\ m.old.source = "manual"
      BY <1>4, <3>3 DEF TypedInv, ReadStill, HasReadLogin
    <3>5. s.id \notin excused /\ TypedOf(s.id).login # NoLogin =>
            login.login = TypedOf(s.id).login /\ login.source = "manual"
      BY <3>4, <2>3, TypedLoginStays
    <3>. QED BY <3>2, <3>5, <1>2, WrittenIsKept
  <2>4. y \in sites \/ y = row \/ \E s \in sites : y = F(s) /\ s.id = m.site /\ m.site # 0
    <3>1. CASE m.site = 0
      <4>. sites' = sites \cup {row} BY <3>1 DEF Store
      <4>. QED OBVIOUS
    <3>2. CASE m.site # 0
      <4>. sites' = {F(s) : s \in sites} BY <3>2 DEF Store
      <4>. QED BY <3>2
    <3>. QED BY <3>1, <3>2
  <2>. QED BY <2>1, <2>2, <2>3, <2>4
<1>. QED BY <1>2, <1>3, <1>5 DEF Lawful

LEMMA WriteDetectionIsLawful ==
  ASSUME Basics, TypedInv, NEW o \in Ops, Step(o), WriteDetection(o)
  PROVE  Lawful(o)
<1>. DEFINE m == mem[o]
            login == StoredLogin(m.base, m.det, NoLogin, m.old)
            F(s) == IF s.id # m.site THEN s
                    ELSE [s EXCEPT !.base = m.base, !.login = login.login, !.source = login.source,
                            !.kind = m.det.kind, !.checkin = m.det.checkin]
<1>1. next' = next /\ typed' = typed /\ excused' = excused BY DEF WriteDetection
<1>2. TypedShape' BY <1>1 DEF TypedInv, TypedShape
<1>3. task[o].what \in {"detect", "bulk"} /\ pc[o] = "write"
  <2>1. pc[o] = "write" BY Guards
  <2>. QED BY <2>1, TaskKinds DEF Basics, Tasks, Pcs, Kinds
<1>4. ASSUME NEW y \in sites' PROVE Kept(y)' /\ Respected(o, y)
  <2>1. PICK s \in sites : y = F(s) BY DEF WriteDetection
  <2>2. CASE s.id # m.site BY <2>1, <2>2, <1>1, WrittenIsKept
  <2>3. CASE s.id = m.site
    <3>1. DOMAIN s = SiteFields BY DEF Basics, Keys, Good
    <3>2. y.id = s.id /\ y.base = m.base /\ y.login = login.login /\ y.source = login.source
      BY <2>1, <2>3, <3>1 DEF SiteFields
    <3>3. WillOverwrite(o, s.id) BY <1>3, <2>3 DEF WillOverwrite
    <3>4. s.id \notin excused => /\ s.base = m.base
                                 /\ TypedOf(s.id).login # NoLogin =>
                                      m.old.login = TypedOf(s.id).login /\ m.old.source = "manual"
      BY <1>3, <3>3 DEF TypedInv, ReadStill, HasReadLogin
    <3>5. s.id \notin excused /\ TypedOf(s.id).login # NoLogin =>
            login.login = TypedOf(s.id).login /\ login.source = "manual"
      BY <3>4, TypedLoginStays
    <3>. QED BY <3>2, <3>4, <3>5, <1>1, WrittenIsKept
  <2>. QED BY <2>2, <2>3
<1>. QED BY <1>1, <1>2, <1>4 DEF Lawful

\* A site whose login page is typed, in the step that records it.
LEMMA TypedOnIsKept ==
  ASSUME Basics, TypedInv, NEW o \in Ops, NEW s \in sites, NEW y, NEW login, NEW base, y.id = s.id,
         Types(o, s.id, login, base),
         y.login = (IF login = NoLogin THEN s.login ELSE login),
         y.source = (IF login = NoLogin THEN s.source ELSE "manual"),
         y.base = (IF base = NoUrl THEN s.base ELSE base)
  PROVE  Kept(y)' /\ Respected(o, y)
<1>1. /\ TypedOf(y.id)'.login = (IF login = NoLogin THEN TypedOf(s.id).login ELSE login)
      /\ TypedOf(y.id)'.base = (IF base = NoUrl THEN TypedOf(s.id).base ELSE base)
      /\ excused \subseteq excused'
      /\ y.id \in excused' \/ \A p \in Ops \ {o} : ~WillOverwrite(p, y.id)
  <2>1. /\ TypedOf(s.id)'.login = (IF login = NoLogin THEN TypedOf(s.id).login ELSE login)
        /\ TypedOf(s.id)'.base = (IF base = NoUrl THEN TypedOf(s.id).base ELSE base)
        /\ s.id \in excused' \/ \A p \in Ops \ {o} : ~WillOverwrite(p, s.id)
    BY TypesRecords
  <2>2. excused \subseteq excused' BY TypedOnly
  <2>. QED BY <2>1, <2>2 DEF TypedOf
<1>2. Kept(s) BY DEF TypedInv
<1>3. Kept(y)' BY <1>1, <1>2 DEF Kept
<1>. QED BY <1>1, <1>3 DEF Respected

\* A site that is not the one typed on, and that a step leaves as it is.
LEMMA OthersAreKept ==
  ASSUME Basics, TypedInv, NEW o \in Ops, NEW y \in sites, NEW id, NEW login, NEW base, y.id # id,
         Types(o, id, login, base)
  PROVE  Kept(y)' /\ Respected(o, y)
<1>1. TypedOf(y.id)' = TypedOf(y.id) /\ excused \subseteq excused' BY TypedOnly
<1>2. Kept(y) BY DEF TypedInv
<1>3. Kept(y)' BY <1>1, <1>2 DEF Kept
<1>. QED BY <1>1, <1>3 DEF Respected

LEMMA TypedShapeKept ==
  ASSUME Basics, TypedInv, NEW o \in Ops, Step(o), NEW id, id \in 0..(next' - 1), NEW login, NEW base,
         Types(o, id, login, base)
  PROVE  TypedShape' /\ excused \subseteq excused'
<1>1. next \in Nat /\ next' \in Nat /\ next <= next' BY NextStep DEF Basics, Keys
<1>2. DOMAIN typed' = DOMAIN typed \cup {id} /\ excused \subseteq excused' BY TypedOnly
<1>3. \A i \in DOMAIN typed' : DOMAIN typed'[i] = {"login", "base"}
  BY TypedRecords DEF TypedInv
<1>4. DOMAIN typed \subseteq 0..(next - 1) BY DEF TypedInv, TypedShape
<1>5. \A i \in DOMAIN typed' : i \in 0..(next' - 1)
  <2>. TAKE i \in DOMAIN typed'
  <2>1. CASE i = id BY <2>1
  <2>2. CASE i \in DOMAIN typed
    <3>1. i \in 0..(next - 1) BY <2>2, <1>4
    <3>. QED BY <3>1, <1>1
  <2>. QED BY <1>2, <2>1, <2>2
<1>. QED BY <1>2, <1>3, <1>5 DEF TypedShape

LEMMA LookIsLawful ==
  ASSUME Basics, TypedInv, NEW o \in Ops, Step(o), Look(o)
  PROVE  Lawful(o)
<1>. DEFINE t == task[o]
<1>1. CASE sites' = sites /\ typed' = typed /\ excused' = excused BY <1>1, UntouchedIsLawful
<1>2. ASSUME NEW s \in sites, t.login # NoLogin,
             sites' = Replaced(sites, s.id, [s EXCEPT !.login = t.login, !.source = "manual"]),
             Types(o, s.id, t.login, NoUrl)
      PROVE  Lawful(o)
  <2>1. s.id \in 0..(next' - 1) /\ DOMAIN s = SiteFields
    BY NextStep DEF Basics, Keys, Good
  <2>2. TypedShape' /\ excused \subseteq excused' BY <1>2, <2>1, TypedShapeKept
  <2>3. ASSUME NEW y \in sites' PROVE Kept(y)' /\ Respected(o, y)
    <3>1. CASE y \in sites /\ y.id # s.id BY <3>1, <1>2, OthersAreKept
    <3>2. CASE y = [s EXCEPT !.login = t.login, !.source = "manual"]
      <4>1. y.id = s.id /\ y.login = t.login /\ y.source = "manual" /\ y.base = s.base
        BY <3>2, <2>1 DEF SiteFields
      <4>. QED BY <4>1, <1>2, TypedOnIsKept
    <3>. QED BY <3>1, <3>2, <1>2 DEF Replaced
  <2>. QED BY <2>2, <2>3 DEF Lawful
<1>. QED BY <1>1, <1>2 DEF Look, Sought, TypesLogin

LEMMA MetaIsLawful ==
  ASSUME Basics, TypedInv, NEW o \in Ops, Step(o), Meta(o)
  PROVE  Lawful(o)
<1>. DEFINE t == task[o]  m == mem[o]
            F(s) == IF s.id # m.site THEN s
                    ELSE [s EXCEPT !.login = IF t.login = NoLogin THEN @ ELSE t.login,
                                   !.source = IF t.login = NoLogin THEN @ ELSE "manual",
                                   !.kind = IF t.prefer = "unknown" THEN @ ELSE t.prefer]
<1>1. \A y \in sites' : \E s \in sites : y = F(s) BY DEF Meta
<1>2. \A s \in sites : DOMAIN s = SiteFields BY DEF Basics, Keys, Good
<1>3. CASE t.login = NoLogin
  <2>1. typed' = typed /\ excused' = excused BY <1>3 DEF Meta, TypesLogin
  <2>2. next' = next BY DEF Meta
  <2>3. TypedShape' BY <2>1, <2>2 DEF TypedInv, TypedShape
  <2>4. ASSUME NEW y \in sites' PROVE Kept(y)' /\ Respected(o, y)
    <3>1. PICK s \in sites : y = F(s) BY <1>1
    <3>2. y.id = s.id /\ y.login = s.login /\ y.source = s.source /\ y.base = s.base
      BY <3>1, <1>2, <1>3 DEF SiteFields
    <3>. QED BY <3>2, <2>1, WrittenIsKept
  <2>. QED BY <2>1, <2>3, <2>4 DEF Lawful
<1>4. CASE t.login # NoLogin
  <2>1. Types(o, m.site, t.login, NoUrl) BY <1>4 DEF Meta, TypesLogin
  <2>2. next' = next BY DEF Meta
  <2>3. TypedShape' /\ excused \subseteq excused'
    BY <2>1, <2>2, TypedShapeKept DEF Basics, Keys
  <2>4. ASSUME NEW y \in sites' PROVE Kept(y)' /\ Respected(o, y)
    <3>1. PICK s \in sites : y = F(s) BY <1>1
    <3>2. CASE s.id # m.site BY <3>1, <3>2, <2>1, OthersAreKept
    <3>3. CASE s.id = m.site
      <4>1. y.id = s.id /\ y.login = t.login /\ y.source = "manual" /\ y.base = s.base
        BY <3>1, <3>3, <1>2, <1>4 DEF SiteFields
      <4>. QED BY <4>1, <3>3, <1>4, <2>1, TypedOnIsKept
    <3>. QED BY <3>2, <3>3
  <2>. QED BY <2>3, <2>4 DEF Lawful
<1>. QED BY <1>3, <1>4

LEMMA AddressIsLawful ==
  ASSUME Basics, TypedInv, NEW o \in Ops, Step(o), Address(o)
  PROVE  Lawful(o)
<1>. DEFINE t == task[o]  m == mem[o]
            F(s) == IF s.id # m.from THEN s
                    ELSE [s EXCEPT !.base = m.base, !.login = IF t.login = NoLogin THEN @ ELSE t.login,
                                   !.source = IF t.login = NoLogin THEN @ ELSE "manual",
                                   !.kind = IF t.prefer = "unknown" THEN @ ELSE t.prefer]
<1>1. \A y \in sites' : \E s \in sites : y = F(s) BY DEF Address
<1>2. \A s \in sites : DOMAIN s = SiteFields BY DEF Basics, Keys, Good
<1>3. Types(o, m.from, t.login, m.base) /\ next' = next BY DEF Address
<1>4. m.base # NoUrl BY Guards DEF TypedInv, EditsHaveAddress
<1>5. TypedShape' /\ excused \subseteq excused' BY <1>3, TypedShapeKept DEF Basics, Keys
<1>6. ASSUME NEW y \in sites' PROVE Kept(y)' /\ Respected(o, y)
  <2>1. PICK s \in sites : y = F(s) BY <1>1
  <2>2. CASE s.id # m.from BY <2>1, <2>2, <1>3, OthersAreKept
  <2>3. CASE s.id = m.from
    <3>1. /\ y.id = s.id /\ y.base = m.base
          /\ y.login = (IF t.login = NoLogin THEN s.login ELSE t.login)
          /\ y.source = (IF t.login = NoLogin THEN s.source ELSE "manual")
      BY <2>1, <2>3, <1>2 DEF SiteFields
    <3>. QED BY <3>1, <2>3, <1>3, <1>4, TypedOnIsKept
  <2>. QED BY <2>2, <2>3
<1>. QED BY <1>5, <1>6 DEF Lawful

LEMMA AddsIsLawful ==
  ASSUME Basics, TypedInv, NEW o \in Ops, Step(o), Adds(o)
  PROVE  Lawful(o)
<1>. DEFINE t == task[o]  row == CreatedSite(mem[o], t)
<1>1. CASE sites' = sites /\ typed' = typed /\ excused' = excused BY <1>1, UntouchedIsLawful
<1>2. ASSUME sites' = sites \cup {row}, next' = next + 2, TypesLogin(o, next + 1, t.login)
      PROVE  Lawful(o)
  <2>0. PICK n : n = next + 1 OBVIOUS
  <2>1. next \in Nat BY DEF Basics, Keys
  <2>2. /\ row.id = n
        /\ t.login # NoLogin => row.login = t.login /\ row.source = "manual"
    BY <2>0 DEF CreatedSite, SiteRow, StoredLogin
  <2>3. n \notin DOMAIN typed /\ TypedOf(n) = NotTyped
    BY <2>0, <2>1 DEF TypedOf, TypedInv, TypedShape
  <2>4. \A s \in sites : s.id # n
    BY <2>0, <2>1 DEF Basics, Keys, Good
  <2>5. CASE t.login = NoLogin
    <3>1. typed' = typed /\ excused' = excused BY <1>2, <2>5 DEF TypesLogin
    <3>2. TypedShape' BY <3>1, <2>1, <1>2 DEF TypedInv, TypedShape
    <3>3. TypedOf(n)' = NotTyped BY <3>1, <2>3 DEF TypedOf
    <3>4. ASSUME NEW y \in sites' PROVE Kept(y)' /\ (Respected(o, y) \/ y.id >= next)
      <4>1. CASE y \in sites BY <4>1, <3>1, WrittenIsKept
      <4>2. CASE y = row
        <5>1. TypedOf(y.id)' = NotTyped BY <4>2, <2>2, <3>3 DEF TypedOf
        <5>2. Kept(y)' BY <5>1 DEF Kept, NotTyped
        <5>. QED BY <5>2, <4>2, <2>0, <2>1, <2>2
      <4>. QED BY <4>1, <4>2, <1>2
    <3>. QED BY <3>1, <3>2, <3>4 DEF Lawful
  <2>6. CASE t.login # NoLogin
    <3>1. Types(o, n, t.login, NoUrl) BY <1>2, <2>0, <2>6 DEF TypesLogin
    <3>2. TypedShape' /\ excused \subseteq excused'
      BY <3>1, <2>0, <2>1, <1>2, TypedShapeKept
    <3>3. ASSUME NEW y \in sites' PROVE Kept(y)' /\ (Respected(o, y) \/ y.id >= next)
      <4>1. CASE y \in sites BY <4>1, <2>4, <3>1, OthersAreKept
      <4>2. CASE y = row
        <5>1. TypedOf(n)' = [login |-> t.login, base |-> NoUrl]
          BY <3>1, <2>3, <2>6 DEF Types, TypedOf, NotTyped
        <5>2. TypedOf(y.id)' = [login |-> t.login, base |-> NoUrl]
          BY <5>1, <4>2, <2>2 DEF TypedOf
        <5>3. y.login = t.login /\ y.source = "manual" BY <4>2, <2>2, <2>6
        <5>4. Kept(y)' BY <5>2, <5>3 DEF Kept
        <5>. QED BY <5>4, <4>2, <2>0, <2>1, <2>2
      <4>. QED BY <4>1, <4>2, <1>2
    <3>. QED BY <3>2, <3>3 DEF Lawful
  <2>. QED BY <2>5, <2>6
<1>. QED BY <1>1, <1>2 DEF Adds, Add

\* A legacy config's login page ends what was typed of it.
LEMMA PutIsLawful ==
  ASSUME Basics, TypedInv, NEW o \in Ops, Step(o), Put(o)
  PROVE  Lawful(o)
<1>. DEFINE t == task[o]  m == mem[o]
            row == SiteRow(next + 1, next, m.base, [login |-> t.login, source |-> ""], "unknown", t.rule)
            F(s) == IF s.id # m.site THEN s
                    ELSE [s EXCEPT !.login = IF t.login = NoLogin THEN @ ELSE t.login,
                                   !.checkin = @ \/ t.rule]
<1>1. next \in Nat BY DEF Basics, Keys
<1>2. CASE m.site = 0
  <2>0. sites' = sites \cup {row} BY <1>2 DEF Put
  <2>1. typed' = typed /\ excused' = excused /\ next' = next + 2 BY <1>2 DEF Put
  <2>2. TypedShape' BY <2>1, <1>1 DEF TypedInv, TypedShape
  <2>3. ASSUME NEW y \in sites' PROVE Kept(y)' /\ (Respected(o, y) \/ y.id >= next)
    <3>1. CASE y \in sites BY <3>1, <2>1, WrittenIsKept
    <3>2. CASE y = row
      <4>1. y.id = next + 1 BY <3>2 DEF SiteRow
      <4>2. y.id \notin DOMAIN typed BY <1>1, <4>1 DEF TypedInv, TypedShape
      <4>. TypedOf(y.id)' = NotTyped BY <2>1, <4>2 DEF TypedOf
      <4>3. Kept(y)' BY DEF Kept, NotTyped
      <4>. QED BY <4>1, <4>3, <1>1
    <3>. QED BY <2>0, <3>1, <3>2
  <2>. QED BY <2>1, <2>2, <2>3 DEF Lawful
<1>3. CASE m.site # 0
  <2>1. /\ excused' = excused /\ next' = next
        /\ typed' = [i \in DOMAIN typed |-> IF i = m.site /\ t.login # NoLogin
                                            THEN [typed[i] EXCEPT !.login = NoLogin] ELSE typed[i]]
    BY <1>3 DEF Put
  <2>2. \A y \in sites' : \E s \in sites : y = F(s)
    <3>. sites' = {F(s) : s \in sites} BY <1>3 DEF Put
    <3>. QED OBVIOUS
  <2>3. TypedShape' BY <2>1 DEF TypedInv, TypedShape
  <2>4. \A i : i # m.site \/ t.login = NoLogin => TypedOf(i)' = TypedOf(i) BY <2>1 DEF TypedOf
  <2>. PICK id : id = m.site OBVIOUS
  <2>5. t.login # NoLogin => /\ TypedOf(id)'.login = NoLogin
                             /\ TypedOf(id)'.base = TypedOf(id).base
    BY <2>1 DEF TypedOf, NotTyped, TypedInv, TypedShape
  <2>6. ASSUME NEW y \in sites' PROVE Kept(y)' /\ Respected(o, y)
    <3>1. PICK s \in sites : y = F(s) BY <2>2
    <3>2. DOMAIN s = SiteFields BY DEF Basics, Keys, Good
    <3>3. y.id = s.id /\ y.base = s.base BY <3>1, <3>2 DEF SiteFields
    <3>4. Kept(s) BY DEF TypedInv
    <3>5. CASE s.id # m.site \/ t.login = NoLogin
      <4>1. y.login = s.login /\ y.source = s.source BY <3>1, <3>2, <3>5 DEF SiteFields
      <4>2. TypedOf(y.id)' = TypedOf(y.id) BY <2>4, <3>3, <3>5
      <4>3. Kept(y)' BY ONLY <4>1, <4>2, <3>3, <3>4, <2>1 DEF Kept
      <4>. QED BY <4>2, <4>3, <3>3 DEF Respected
    <3>6. CASE s.id = m.site /\ t.login # NoLogin
      <4>1. TypedOf(y.id)'.login = NoLogin /\ TypedOf(y.id)'.base = TypedOf(y.id).base
        BY <2>5, <3>3, <3>6 DEF TypedOf
      <4>2. Kept(y)' BY <4>1, <3>3, <3>4, <2>1 DEF Kept
      <4>. QED BY <4>1, <4>2, <3>3 DEF Respected
    <3>. QED BY <3>5, <3>6
  <2>. QED BY <2>1, <2>3, <2>6 DEF Lawful
<1>. QED BY <1>2, <1>3

\* Every step is lawful.
LEMMA StepIsLawful ==
  ASSUME Basics, TypedInv, NEW o \in Ops, Step(o)
  PROVE  Lawful(o)
<1>1. CASE Store(o) BY <1>1, StoreIsLawful
<1>2. CASE WriteDetection(o) BY <1>2, WriteDetectionIsLawful
<1>3. CASE Look(o) BY <1>3, LookIsLawful
<1>4. CASE Adds(o) BY <1>4, AddsIsLawful
<1>5. CASE Meta(o) BY <1>5, MetaIsLawful
<1>6. CASE Address(o) BY <1>6, AddressIsLawful
<1>7. CASE Put(o) BY <1>7, PutIsLawful
<1>8. CASE Delete(o)
  <2>1. typed' = typed /\ excused' = excused /\ sites' \in SUBSET sites BY <1>8 DEF Delete
  <2>. QED BY <2>1, UntouchedIsLawful
<1>9. CASE sites' = sites /\ typed' = typed /\ excused' = excused BY <1>9, UntouchedIsLawful
<1>. QED BY <1>1, <1>2, <1>3, <1>4, <1>5, <1>6, <1>7, <1>8, <1>9, StepFootprint
         DEF Footprint, WritesSites, LetsType

\* The row of an id.
LEMMA NamedRow ==
  ASSUME NEW set, NEW fields, NEW bound, Good(set, fields, bound), NEW id, Exists(set, id)
  PROVE  /\ Named1(set, id) \in set /\ Named1(set, id).id = id
         /\ \A x \in set : x.id = id => x = Named1(set, id)
<1>1. Named1(set, id) \in set /\ Named1(set, id).id = id BY DEF Named1, Exists
<1>. QED BY <1>1 DEF Good, Distinct

\* A task keeps what it read when others step.
LEMMA OthersReadStill ==
  ASSUME Basics, TypedInv, NEW o \in Ops, Step(o), NEW p \in Ops, p # o, NEW y \in sites'
  PROVE  ReadStill(p, y)'
<1>1. task' = task /\ mem'[p] = mem[p] /\ pc'[p] = pc[p] BY StepFrame DEF Basics, Frame
<1>2. Lawful(o) BY StepIsLawful
<1>3. WillOverwrite(p, y.id)' <=> WillOverwrite(p, y.id) BY <1>1 DEF WillOverwrite
<1>4. HasReadLogin(p)' <=> HasReadLogin(p) BY <1>1 DEF HasReadLogin
<1>5. CASE y.id >= next
  <2>1. mem[p].site # y.id
    <3>1. mem[p].site \in 0..(next - 1) /\ next \in Nat BY DEF Basics, Keys
    <3>2. y.id \in 1..(next' - 1) BY KeysStep DEF Basics, Keys, Good, Next
    <3>. QED BY <3>1, <3>2, <1>5
  <2>. QED BY <2>1, <1>3 DEF ReadStill, WillOverwrite
<1>6. CASE Respected(o, y)
  <2>1. PICK s \in sites :
          /\ s.id = y.id
          /\ \/ s.base = y.base /\ (TypedOf(y.id)' = TypedOf(y.id) \/ TypedOf(y.id)'.login = NoLogin)
             \/ y.id \in excused'
             \/ ~WillOverwrite(p, y.id)
    BY <1>6 DEF Respected
  <2>2. CASE y.id \in excused' \/ ~WillOverwrite(p, y.id) BY <2>2, <1>3 DEF ReadStill
  <2>3. CASE s.base = y.base /\ (TypedOf(y.id)' = TypedOf(y.id) \/ TypedOf(y.id)'.login = NoLogin)
    <3>1. SUFFICES ASSUME WillOverwrite(p, y.id), y.id \notin excused'
                   PROVE  /\ task[p].what \in {"detect", "bulk"} => y.base = mem[p].base
                          /\ HasReadLogin(p) /\ TypedOf(y.id)'.login # NoLogin =>
                               mem[p].old.login = TypedOf(y.id)'.login /\ mem[p].old.source = "manual"
      BY <1>1, <1>3, <1>4 DEF ReadStill
    <3>2. ReadStill(p, s) BY DEF TypedInv
    <3>3. s.id \notin excused /\ WillOverwrite(p, s.id) /\ TypedOf(s.id) = TypedOf(y.id)
      BY <3>1, <2>1, <1>2 DEF Lawful
    <3>. QED BY <3>2, <3>3, <2>3 DEF ReadStill
  <2>. QED BY <2>1, <2>2, <2>3
<1>. QED BY <1>2, <1>5, <1>6 DEF Lawful

\* What a task reads is so.
LEMMA OwnReadStill ==
  ASSUME Basics, TypedInv, NEW o \in Ops, Step(o), NEW y \in sites'
  PROVE  ReadStill(o, y)'
<1>1. Frame(o) /\ DOMAIN mem[o] = MemFields BY StepFrame DEF Basics, Tasks
<1>2. SUFFICES ASSUME WillOverwrite(o, y.id)', y.id \notin excused'
               PROVE  /\ task[o].what \in {"detect", "bulk"} => y.base = mem'[o].base
                      /\ HasReadLogin(o)' /\ TypedOf(y.id)'.login # NoLogin =>
                           mem'[o].old.login = TypedOf(y.id)'.login /\ mem'[o].old.source = "manual"
  BY <1>1 DEF ReadStill, Frame
<1>3. \/ task[o].what \in {"detect", "bulk"} /\ pc'[o] \in {"scan", "reread", "write"}
      \/ task[o].what = "sync" /\ pc'[o] = "store"
  BY <1>1, <1>2 DEF WillOverwrite, Frame
<1>4. mem'[o].site = y.id BY <1>2 DEF WillOverwrite
<1>5. \/ (Read(o) \/ Scan(o) \/ Reread(o)) /\ task[o].what \in {"detect", "bulk"}
      \/ Find(o) /\ task[o].what = "sync"
  <2>. USE DEF Goes, Ends, Basics, Tasks
  <2>1. CASE WriteDetection(o) BY <2>1, <1>3 DEF WriteDetection
  <2>2. CASE Begin(o)
    <3>1. task[o].what \notin {"detect", "bulk"} BY <2>2, Guards, TaskKinds DEF Pcs, Kinds
    <3>2. pc'[o] \in {"done", "page"} BY <2>2 DEF Begin
    <3>. QED BY <3>1, <3>2, <1>3
  <2>3. CASE ReadPage(o) BY <2>3, <1>3 DEF ReadPage, AfterPages
  <2>4. CASE ImportFails(o) BY <2>4, <1>3 DEF ImportFails, AfterFailure
  <2>5. CASE Upsert(o)
    <3>1. task[o].what \notin {"detect", "bulk"} BY <2>5, Guards, TaskKinds DEF Pcs, Kinds
    <3>2. pc'[o] \in {"scan", "find", "upsert", "finish", "page"}
      BY <2>5 DEF Upsert, NextRecord, AfterRecord
    <3>. QED BY <3>1, <3>2, <1>3
  <2>6. CASE ImportScan(o) BY <2>6, <1>3 DEF ImportScan
  <2>7. CASE Store(o) BY <2>7, <1>3 DEF Store, NextRecord, AfterRecord
  <2>8. CASE Finishes(o) BY <2>8, <1>3 DEF Finishes, Finish
  <2>. QED BY <1>3, <2>1, <2>2, <2>3, <2>4, <2>5, <2>6, <2>7, <2>8, Steps
<1>6. sites' = sites /\ typed' = typed /\ excused' = excused
  BY <1>5 DEF Read, Scan, Reread, Find, tables
<1>7. TypedOf(y.id)' = TypedOf(y.id) BY <1>6 DEF TypedOf
<1>8. Kept(y) /\ ReadStill(o, y) /\ y \in sites /\ y.id \notin excused BY <1>2, <1>6 DEF TypedInv
<1>9. ASSUME NEW s, s = y PROVE /\ TypedOf(s.id)'.login # NoLogin =>
                                     LoginRead(s).login = TypedOf(s.id)'.login /\ LoginRead(s).source = "manual"
  BY <1>9, <1>7, <1>8 DEF Kept, LoginRead
<1>10. Good(sites, SiteFields, next) BY DEF Basics, Keys
<1>11. CASE Read(o) /\ task[o].what \in {"detect", "bulk"}
  <2>1. Exists(sites, task[o].site) BY <1>3, <1>11 DEF Read, Ends, Goes, Basics, Tasks
  <2>2. PICK s \in sites : s = Named1(sites, task[o].site) BY <2>1, <1>10, NamedRow
  <2>3. Holding(o, [mem[o] EXCEPT !.site = s.id, !.base = s.base,
                           !.old = IF task[o].what = "detect" THEN LoginRead(s) ELSE @]) /\ Goes(o, "scan")
    BY <2>1, <2>2, <1>11 DEF Read
  <2>4. mem'[o].site = s.id /\ mem'[o].base = s.base /\ pc'[o] = "scan"
        /\ (task[o].what = "detect" => mem'[o].old = LoginRead(s))
    BY <2>3, <1>1 DEF Holding, Goes, Basics, Tasks, MemFields
  <2>5. s = y BY <2>4, <1>4, <1>8, <1>10 DEF Good, Distinct
  <2>6. HasReadLogin(o)' => task[o].what = "detect" BY <2>4, <1>1, <1>11 DEF HasReadLogin, Frame
  <2>. QED BY <2>4, <2>5, <2>6, <1>7, <1>9
<1>12. CASE Reread(o) /\ task[o].what \in {"detect", "bulk"}
  <2>1. mem'[o].site = mem[o].site /\ mem'[o].base = mem[o].base
        /\ mem'[o].old = IF Exists(sites, mem[o].site) THEN LoginRead(Named1(sites, mem[o].site)) ELSE Unread
    BY <1>12, <1>1 DEF Reread, Holding, Basics, Tasks, MemFields
  <2>2. Exists(sites, mem[o].site) /\ Named1(sites, mem[o].site) = y
    <3>1. Exists(sites, mem[o].site) BY <2>1, <1>4, <1>8 DEF Exists
    <3>. QED BY <3>1, <2>1, <1>4, <1>8, <1>10, NamedRow
  <2>3. mem'[o].old = LoginRead(y) BY <2>1, <2>2
  <2>4. WillOverwrite(o, y.id) BY <1>12, <1>4, <2>1, Guards DEF WillOverwrite
  <2>. QED BY <2>1, <2>3, <2>4, <1>8, <1>9, <1>12 DEF ReadStill
<1>13. CASE Scan(o) /\ task[o].what \in {"detect", "bulk"}
  <2>1. mem'[o].site = mem[o].site /\ mem'[o].base = mem[o].base /\ mem'[o].old = mem[o].old
    BY <1>13, <1>1 DEF Scan, Holding, Basics, Tasks, MemFields
  <2>2. pc'[o] = (IF task[o].what = "bulk" THEN "reread" ELSE "write")
    BY <1>13 DEF Scan, Goes, Basics, Tasks
  <2>3. WillOverwrite(o, y.id) BY <1>13, <1>4, <2>1, Guards DEF WillOverwrite
  <2>4. HasReadLogin(o)' => HasReadLogin(o) BY <2>2, <1>1 DEF HasReadLogin, Frame
  <2>. QED BY <2>1, <2>3, <2>4, <1>7, <1>8 DEF ReadStill
<1>14. CASE Find(o) /\ task[o].what = "sync"
  <2>1. PICK s \in sites : Holding(o, [mem[o] EXCEPT !.site = s.id, !.old = LoginRead(s)])
    <3>1. pc'[o] = "store" BY <1>3, <1>14
    <3>2. mem'[o].site # 0 BY <1>4, <1>8, <1>10 DEF Good
    <3>3. \/ \E s \in sites : Holding(o, [mem[o] EXCEPT !.site = s.id, !.old = LoginRead(s)])
          \/ Holding(o, mem[o]) /\ Sought(SiteKey(mem[o])) = {}
          \/ NextRecord(o, mem[o])
      BY <1>14 DEF Find, Sought
    <3>4. ~NextRecord(o, mem[o])
      BY <3>1, <1>1 DEF NextRecord, Goes, AfterRecord, Basics, Tasks
    <3>5. mem[o].site = 0 BY <1>14, Guards DEF TypedInv, Unfound
    <3>6. ~Holding(o, mem[o]) BY <3>2, <3>5, <1>1 DEF Holding, Basics, Tasks
    <3>. QED BY <3>3, <3>4, <3>6
  <2>2. mem'[o].site = s.id /\ mem'[o].old = LoginRead(s)
    BY <2>1, <1>1 DEF Holding, Basics, Tasks, MemFields
  <2>3. s = y BY <2>2, <1>4, <1>8, <1>10 DEF Good, Distinct
  <2>. QED BY <2>2, <2>3, <1>9, <1>14
<1>. QED BY <1>5, <1>11, <1>12, <1>13, <1>14

LEMMA TypedStep ==
  ASSUME Basics, TypedInv, [Next]_vars
  PROVE  TypedInv'
<1>1. ASSUME NEW o \in Ops, Step(o) PROVE TypedInv'
  <2>1. EditsHaveAddress' BY <1>1, EditsStep DEF Basics, TypedInv
  <2>2. TypedShape' /\ \A y \in sites' : Kept(y)' BY <1>1, StepIsLawful DEF Lawful
  <2>3. \A p \in Ops : \A y \in sites' : ReadStill(p, y)' BY <1>1, OthersReadStill, OwnReadStill
  <2>4. \A p \in Ops : Unfound(p)' BY <1>1, UnfoundStep DEF Basics, TypedInv
  <2>. QED BY <2>1, <2>2, <2>3, <2>4 DEF TypedInv
<1>2. ASSUME UNCHANGED <<next, sites, task, pc, mem, typed, excused>> PROVE TypedInv'
  <2>1. EditsHaveAddress' BY <1>2 DEF TypedInv, EditsHaveAddress
  <2>2. TypedShape' BY <1>2 DEF TypedInv, TypedShape
  <2>3. \A i : TypedOf(i)' = TypedOf(i) BY <1>2 DEF TypedOf
  <2>4. \A y \in sites' : Kept(y)' BY <1>2, <2>3 DEF TypedInv, Kept
  <2>5. \A p \in Ops : \A y \in sites' : ReadStill(p, y)'
    BY <1>2, <2>3 DEF TypedInv, ReadStill, WillOverwrite, HasReadLogin
  <2>6. \A p \in Ops : Unfound(p)' BY <1>2 DEF TypedInv, Unfound
  <2>. QED BY <2>1, <2>2, <2>4, <2>5, <2>6 DEF TypedInv
<1>3. CASE SourceChanges BY <1>3, <1>2 DEF SourceChanges, tables
<1>4. CASE UNCHANGED vars BY <1>4, <1>2 DEF vars, tables, history
<1>. QED BY <1>1, <1>3, <1>4 DEF Next

LEMMA InitTyped == Init => TypedInv
<1>. SUFFICES ASSUME Init PROVE TypedInv OBVIOUS
<1>1. DOMAIN typed = {}
  <2>1. <<>> \in Seq({}) /\ Len(<<>>) = 0 BY EmptySeq
  <2>2. DOMAIN <<>> = {} BY <2>1, LenProperties
  <2>. QED BY <2>2 DEF Init
<1>2. TypedShape BY <1>1 DEF TypedShape
<1>3. \A i : TypedOf(i) = NotTyped BY <1>1 DEF TypedOf
<1>4. \A s \in sites : Kept(s) BY <1>3 DEF Kept, NotTyped
<1>5. \A o \in Ops : pc[o] = FirstStep(task[o].what) /\ task[o].what \in Kinds
  BY MeetingsAssumption DEF Init
<1>6. \A o \in Ops : pc[o] \notin {"store", "write", "reread", "other", "address"}
  BY <1>5 DEF FirstStep, Kinds
<1>7. \A o \in Ops : task[o].what \in {"detect", "bulk"} => pc[o] = "read"
  BY <1>5 DEF FirstStep
<1>8. \A o \in Ops : \A s \in sites : ReadStill(o, s)
  BY <1>6, <1>7 DEF ReadStill, WillOverwrite
<1>. QED BY <1>2, <1>4, <1>6, <1>8 DEF TypedInv, EditsHaveAddress, Unfound, Init, Holds

\* A login page or an address a user typed stays until typed again, whatever tasks run in
\* whatever order, on every site that no task had read before and wrote later
\* (shouldPreserveExistingLogin, DetectUpstreamSite, UpdateAddress).
THEOREM TypedPagesStay == Spec => []TypedIsKept
<1>1. TypedInv => TypedIsKept BY DEF TypedInv, TypedIsKept, Kept
<1>. QED BY <1>1, InitTyped, TypedStep, AlwaysBasics, PTL DEF Spec

-------------------------------------------------------------------------------
(* One site for a base URL *)

\* A task that found no site with the base URL it holds, and will give one to a site.
LookedFor(o) ==
  /\ mem[o].site = 0 /\ task[o].what \in {"sync", "account", "edit", "legacy"}
  /\ \/ pc[o] \in {"store", "add", "put", "address"}
     \/ pc[o] = "scan" /\ task[o].what # "sync"

\* An edit that moves a site that is excused, and two that move the same site.
MovesExcused(o) == pc[o] = "address" /\ mem[o].from \in excused
MoveTheSame(o, p) == pc[o] = "address" /\ pc[p] = "address" /\ mem[o].from = mem[p].from

\* A site that may have the base URL the task holds.
Spared(o, s) == s.id \in excused \/ (pc[o] = "address" /\ s.id = mem[o].from)

NoneFound(o) ==
  \/ MovesExcused(o) \/ mem[o].base \in doubles
  \/ \A s \in sites : s.base = mem[o].base => Spared(o, s)

OneLooks(o, p) ==
  mem[o].base = mem[p].base =>
    mem[o].base \in doubles \/ MovesExcused(o) \/ MovesExcused(p) \/ MoveTheSame(o, p)

\* A task scans the address it was given.
ScansItsUrl(o) ==
  pc[o] = "scan" /\ task[o].what \in {"account", "edit"} => mem[o].base = BaseOf[task[o].url]

LookInv ==
  /\ OneSitePerBase
  /\ \A o \in Ops : ScansItsUrl(o)
  /\ \A o \in Ops : LookedFor(o) => NoneFound(o)
  /\ \A o, p \in Ops : o # p /\ LookedFor(o) /\ LookedFor(p) => OneLooks(o, p)

\* Where a site after a step has its base URL from.
KeptBase(y) == \E s \in sites : s.id = y.id /\ (s.base = y.base \/ s.id \in excused)
NewBase(o, y) ==
  /\ y.base = mem[o].base
  /\ \/ Address(o) /\ y.id = mem[o].from
     \/ Store(o) /\ y.id = next /\ mem[o].site = 0
     \/ (Adds(o) \/ Put(o)) /\ y.id = next + 1 /\ mem[o].site = 0

\* Doubles are not forgotten.
LEMMA DoublesStay ==
  ASSUME NEW o \in Ops, Step(o)
  PROVE  doubles \subseteq doubles'
<1>1. CASE Find(o) BY <1>1 DEF Find, LooksFor
<1>2. CASE Look(o) BY <1>2 DEF Look, LooksFor
<1>3. CASE Other(o) BY <1>3 DEF Other, LooksFor
<1>4. CASE LookLegacy(o) BY <1>4 DEF LookLegacy, LooksFor
<1>5. CASE Adds(o) BY <1>5 DEF Adds, Add
<1>. QED BY <1>1, <1>2, <1>3, <1>4, <1>5, StepFootprint DEF Footprint, SeeksSite

LEMMA BasesStep ==
  ASSUME Basics, TypedInv, NEW o \in Ops, Step(o), NEW y \in sites'
  PROVE  KeptBase(y) \/ NewBase(o, y)
<1>. DEFINE m == mem[o]  t == task[o]
<1>1. \A s \in sites : DOMAIN s = SiteFields BY DEF Basics, Keys, Good
<1>2. next \in Nat BY DEF Basics, Keys
<1>3. CASE y \in sites BY <1>3 DEF KeptBase
<1>4. CASE Store(o) /\ y \notin sites
  <2>. DEFINE kind == IF m.det = Nothing THEN m.kind ELSE m.det.kind
              login == StoredLogin(m.base, m.det, NoLogin, IF m.site = 0 THEN Unread ELSE m.old)
              row == SiteRow(next, m.chan, m.base, login, kind, m.det.checkin)
              F(s) == IF s.id # m.site THEN s
                      ELSE [s EXCEPT !.chan = IF @ = 0 THEN m.chan ELSE @,
                               !.login = login.login, !.source = login.source,
                               !.kind = IF @ = "unknown" THEN kind ELSE @,
                               !.checkin = @ \/ m.det.checkin]
  <2>1. CASE m.site = 0
    <3>. sites' = sites \cup {row} BY <1>4, <2>1 DEF Store
    <3>. y = row BY <1>4
    <3>. QED BY <1>4, <2>1, <1>2 DEF SiteRow, NewBase
  <2>2. CASE m.site # 0
    <3>. sites' = {F(s) : s \in sites} BY <1>4, <2>2 DEF Store
    <3>. PICK s \in sites : y = F(s) OBVIOUS
    <3>. y.id = s.id /\ y.base = s.base BY <1>1 DEF SiteFields
    <3>. QED BY DEF KeptBase
  <2>. QED BY <2>1, <2>2
<1>5. CASE WriteDetection(o)
  <2>. DEFINE login == StoredLogin(m.base, m.det, NoLogin, m.old)
              F(s) == IF s.id # m.site THEN s
                      ELSE [s EXCEPT !.base = m.base, !.login = login.login, !.source = login.source,
                              !.kind = m.det.kind, !.checkin = m.det.checkin]
  <2>1. PICK s \in sites : y = F(s) BY <1>5 DEF WriteDetection
  <2>2. CASE s.id # m.site BY <2>1, <2>2 DEF KeptBase
  <2>3. CASE s.id = m.site
    <3>1. task[o].what \in {"detect", "bulk"} /\ pc[o] = "write"
      <4>1. pc[o] = "write" BY <1>5, Guards
      <4>. QED BY <4>1, TaskKinds DEF Basics, Tasks, Pcs, Kinds
    <3>2. s.id \notin excused => s.base = m.base
      BY <3>1, <2>3 DEF TypedInv, ReadStill, WillOverwrite
    <3>3. y.id = s.id /\ y.base = m.base BY <2>1, <2>3, <1>1 DEF SiteFields
    <3>. QED BY <3>2, <3>3 DEF KeptBase
  <2>. QED BY <2>2, <2>3
<1>6. CASE Look(o) /\ y \notin sites
  <2>1. PICK s \in sites : sites' = Replaced(sites, s.id, [s EXCEPT !.login = t.login, !.source = "manual"])
    BY <1>6 DEF Look, Sought
  <2>2. y = [s EXCEPT !.login = t.login, !.source = "manual"] BY <2>1, <1>6 DEF Replaced
  <2>3. y.id = s.id /\ y.base = s.base BY <2>2, <1>1 DEF SiteFields
  <2>. QED BY <2>3 DEF KeptBase
<1>7. CASE Adds(o) /\ y \notin sites
  <2>1. sites' = sites \cup {CreatedSite(m, t)} BY <1>7 DEF Adds, Add
  <2>2. y.id = next + 1 /\ y.base = m.base BY <2>1, <1>7 DEF CreatedSite, SiteRow
  <2>3. m.site = 0 BY <1>7, Guards DEF TypedInv, Unfound
  <2>. QED BY <2>2, <2>3, <1>2, <1>7 DEF NewBase
<1>8. CASE Meta(o)
  <2>. DEFINE F(s) == IF s.id # m.site THEN s
                      ELSE [s EXCEPT !.login = IF t.login = NoLogin THEN @ ELSE t.login,
                                     !.source = IF t.login = NoLogin THEN @ ELSE "manual",
                                     !.kind = IF t.prefer = "unknown" THEN @ ELSE t.prefer]
  <2>1. PICK s \in sites : y = F(s) BY <1>8 DEF Meta
  <2>2. y.id = s.id /\ y.base = s.base BY <2>1, <1>1 DEF SiteFields
  <2>. QED BY <2>2 DEF KeptBase
<1>9. CASE Address(o)
  <2>. DEFINE F(s) == IF s.id # m.from THEN s
                      ELSE [s EXCEPT !.base = m.base, !.login = IF t.login = NoLogin THEN @ ELSE t.login,
                                     !.source = IF t.login = NoLogin THEN @ ELSE "manual",
                                     !.kind = IF t.prefer = "unknown" THEN @ ELSE t.prefer]
  <2>1. PICK s \in sites : y = F(s) BY <1>9 DEF Address
  <2>2. CASE s.id # m.from BY <2>1, <2>2 DEF KeptBase
  <2>3. CASE s.id = m.from
    <3>. y.id = s.id /\ y.base = m.base BY <2>1, <2>3, <1>1 DEF SiteFields
    <3>. QED BY <2>3, <1>9 DEF NewBase
  <2>. QED BY <2>2, <2>3
<1>10. CASE Put(o) /\ y \notin sites
  <2>. DEFINE row == SiteRow(next + 1, next, m.base, [login |-> t.login, source |-> ""], "unknown", t.rule)
              F(s) == IF s.id # m.site THEN s
                      ELSE [s EXCEPT !.login = IF t.login = NoLogin THEN @ ELSE t.login,
                                     !.checkin = @ \/ t.rule]
  <2>1. CASE m.site = 0
    <3>. sites' = sites \cup {row} BY <1>10, <2>1 DEF Put
    <3>1. y = row BY <1>10
    <3>2. y.id = next + 1 /\ y.base = m.base BY <3>1 DEF SiteRow
    <3>. QED BY <1>10, <2>1, <3>2 DEF NewBase
  <2>2. CASE m.site # 0
    <3>. sites' = {F(s) : s \in sites} BY <1>10, <2>2 DEF Put
    <3>. PICK s \in sites : y = F(s) OBVIOUS
    <3>. y.id = s.id /\ y.base = s.base BY <1>1 DEF SiteFields
    <3>. QED BY DEF KeptBase
  <2>. QED BY <2>1, <2>2
<1>11. CASE Delete(o) BY <1>11, <1>3 DEF Delete
<1>. QED BY <1>3, <1>4, <1>5, <1>6, <1>7, <1>8, <1>9, <1>10, <1>11, StepFootprint
         DEF Footprint, WritesSites

\* How a task comes to hold a base URL that it found no site with.
Begins(o) ==
  /\ sites' = sites /\ excused' = excused
  /\ \E b : /\ mem'[o].base = b /\ LooksFor(o, b)
            /\ \A s \in sites : s.base = b => pc'[o] = "address" /\ s.id = mem'[o].from
GoesOn(o) ==
  /\ sites' = sites /\ excused' = excused /\ doubles' = doubles
  /\ LookedFor(o) /\ mem'[o].base = mem[o].base /\ pc[o] = "scan" /\ pc'[o] = "add"

LEMMA LookingStep ==
  ASSUME Basics, TypedInv, NEW o \in Ops, ScansItsUrl(o), Step(o), LookedFor(o)'
  PROVE  Begins(o) \/ GoesOn(o)
<1>. DEFINE m == mem[o]  t == task[o]
<1>1. Frame(o) /\ DOMAIN m = MemFields /\ DOMAIN mem = Ops /\ DOMAIN pc = Ops BY StepFrame DEF Basics, Tasks
<1>2. /\ mem'[o].site = 0 /\ t.what \in {"sync", "account", "edit", "legacy"}
      /\ \/ pc'[o] \in {"store", "add", "put", "address"}
         \/ pc'[o] = "scan" /\ t.what # "sync"
  BY <1>1 DEF LookedFor, Frame
<1>3. ASSUME NEW step, Goes(o, step) PROVE pc'[o] = step BY <1>1, <1>3 DEF Goes
<1>4. \A s \in sites : s.id # 0 BY DEF Basics, Keys, Good
<1>5. CASE Find(o)
  <2>1. pc'[o] = "store" \/ NextRecord(o, m) BY <1>5, <1>3 DEF Find
  <2>2. ~NextRecord(o, m)
    <3>1. NextRecord(o, m) => Goes(o, AfterRecord(m)) BY DEF NextRecord
    <3>2. Find(o) => task[o].what = "sync"
      <4>1. Find(o) => pc[o] = "find" BY Guards
      <4>. QED BY <4>1, TaskKinds DEF Basics, Tasks, Pcs, Kinds
    <3>. QED BY <3>1, <3>2, <1>2, <1>3, <1>5 DEF AfterRecord
  <2>3. /\ sites' = sites /\ excused' = excused /\ LooksFor(o, m.base)
        /\ \/ Sought(m.base) = {} /\ Holding(o, m)
           \/ \E s \in Sought(m.base) : Holding(o, [m EXCEPT !.site = s.id, !.old = LoginRead(s)])
    BY <1>5, <2>2 DEF Find, SiteKey, tables
  <2>4. Sought(m.base) = {} /\ mem'[o] = m
    <3>1. ASSUME NEW s \in Sought(m.base), Holding(o, [m EXCEPT !.site = s.id, !.old = LoginRead(s)])
          PROVE  FALSE
      <4>1. mem'[o].site = s.id BY <3>1, <1>1 DEF Holding, MemFields
      <4>. QED BY <4>1, <1>2, <1>4, <3>1 DEF Sought
    <3>. QED BY <2>3, <3>1, <1>1 DEF Holding
  <2>. QED BY <2>3, <2>4 DEF Begins, Sought
<1>6. CASE Look(o)
  <2>. DEFINE b == BaseOf[t.url]
  <2>1. pc'[o] \notin {"bind", "meta", "done"} BY <1>2
  <2>2. ~Ends(o) /\ ~Goes(o, AfterSite(o)) BY <2>1, <1>3 DEF Ends, AfterSite
  <2>3. /\ Sought(b) = {} /\ Holding(o, [m EXCEPT !.base = b, !.site = 0])
        /\ sites' = sites /\ excused' = excused /\ LooksFor(o, b)
    BY <1>6, <2>2 DEF Look
  <2>4. mem'[o].base = b BY <2>3, <1>1 DEF Holding, MemFields
  <2>. QED BY <2>3, <2>4 DEF Begins, Sought
<1>7. CASE LookLegacy(o)
  <2>. DEFINE b == BaseOf[t.url]
  <2>1. sites' = sites /\ excused' = excused /\ LooksFor(o, b) BY <1>7 DEF LookLegacy, tables
  <2>2. Sought(b) = {} /\ Holding(o, [m EXCEPT !.base = b])
    <3>1. ASSUME NEW s \in Sought(b), Holding(o, [m EXCEPT !.base = b, !.site = s.id])
          PROVE  FALSE
      <4>1. mem'[o].site = s.id BY <3>1, <1>1 DEF Holding, MemFields
      <4>. QED BY <4>1, <1>2, <1>4, <3>1 DEF Sought
    <3>. QED BY <3>1, <1>7 DEF LookLegacy
  <2>3. mem'[o].base = b BY <2>2, <1>1 DEF Holding, MemFields
  <2>. QED BY <2>1, <2>2, <2>3 DEF Begins, Sought
<1>8. CASE Other(o)
  <2>. DEFINE b == BaseOf[t.url]  others == {s \in Sought(b) : s.id # m.from}
  <2>1. ~Goes(o, "meta") BY <1>2, <1>3
  <2>2. /\ others = {} /\ Goes(o, "address") /\ Holding(o, [m EXCEPT !.base = b, !.site = 0])
        /\ LooksFor(o, b) /\ sites' = sites /\ excused' = excused
    BY <1>8, <2>1 DEF Other, tables
  <2>3. mem'[o].base = b /\ mem'[o].from = m.from /\ pc'[o] = "address"
    BY <2>2, <1>1, <1>3 DEF Holding, MemFields
  <2>4. \A s \in sites : s.base = b => s.id = m.from BY <2>2 DEF Sought
  <2>. QED BY <2>2, <2>3, <2>4 DEF Begins
<1>9. CASE ScanNew(o)
  <2>1. ~Ends(o) BY <1>2, <1>3 DEF Ends
  <2>2. PICK d : /\ Goes(o, "add")
                 /\ Holding(o, [m EXCEPT !.base = BaseOf[t.url], !.det = d])
    BY <1>9, <2>1 DEF ScanNew
  <2>3. pc[o] = "scan" /\ t.what \in {"account", "edit"} BY <1>9, <1>2, Guards
  <2>4. m.base = BaseOf[t.url] BY <2>3 DEF ScansItsUrl
  <2>5. mem'[o].base = m.base /\ pc'[o] = "add" BY <2>2, <2>4, <1>1, <1>3 DEF Holding, MemFields
  <2>6. m.site = 0 BY <2>3 DEF TypedInv, Unfound
  <2>7. LookedFor(o) BY <2>3, <2>6 DEF LookedFor
  <2>8. sites' = sites /\ excused' = excused /\ doubles' = doubles BY <1>9 DEF ScanNew, tables
  <2>. QED BY <2>3, <2>5, <2>7, <2>8 DEF GoesOn
<1>10. ASSUME \/ Begin(o) \/ ReadPage(o) \/ ImportFails(o) \/ Upsert(o) \/ ImportScan(o) \/ Store(o) \/ Finishes(o)
       PROVE  FALSE
  <2>1. pc[o] \in {"begin", "page", "upsert", "find", "store", "scan", "finish"} BY <1>10, Guards
  <2>2. t.what = "sync"
    BY <2>1, <1>2, <1>10, Guards, TaskKinds DEF Basics, Tasks, Pcs
  <2>3. pc'[o] # "store" /\ (pc'[o] = "scan" => t.what = "sync")
    <3>. USE <1>3 DEF Ends, NextRecord
    <3>1. CASE Begin(o) BY <2>2, <3>1 DEF Begin
    <3>2. CASE ReadPage(o) BY <2>2, <3>2 DEF ReadPage, AfterPages
    <3>3. CASE ImportFails(o) BY <2>2, <3>3 DEF ImportFails, AfterFailure
    <3>4. CASE Upsert(o) BY <2>2, <3>4 DEF Upsert, AfterRecord
    <3>5. CASE ImportScan(o) BY <2>2, <3>5 DEF ImportScan
    <3>6. CASE Store(o) BY <2>2, <3>6 DEF Store, AfterRecord
    <3>7. CASE Finishes(o) BY <2>2, <3>7 DEF Finishes, Finish
    <3>. QED BY <1>10, <3>1, <3>2, <3>3, <3>4, <3>5, <3>6, <3>7
  <2>4. pc'[o] \in Pcs(t.what) BY StepCourse DEF Basics
  <2>. QED BY <2>2, <2>3, <2>4, <1>2 DEF Pcs
<1>11. ASSUME Adds(o) \/ Bind(o) \/ LoadAccount(o) \/ Address(o) \/ Meta(o) \/ Move(o) \/ Put(o) \/ Who(o)
       PROVE  pc'[o] \notin {"store", "add", "put", "address", "scan"}
  <2>. USE <1>3 DEF Ends
  <2>1. CASE Adds(o) BY <2>1 DEF Adds, Add, AfterSite
  <2>2. CASE Bind(o) BY <2>2 DEF Bind
  <2>3. CASE LoadAccount(o) BY <2>3 DEF LoadAccount, EditStep
  <2>4. CASE Address(o) BY <2>4 DEF Address
  <2>5. CASE Meta(o) BY <2>5 DEF Meta
  <2>6. CASE Move(o) BY <2>6 DEF Move
  <2>7. CASE Put(o) BY <2>7 DEF Put
  <2>8. CASE Who(o)
    <3>1. pc[o] = "who" BY <2>8, Guards
    <3>. QED BY <2>8, <3>1 DEF Who
  <2>. QED BY <1>11, <2>1, <2>2, <2>3, <2>4, <2>5, <2>6, <2>7, <2>8
<1>. QED BY <1>2, <1>5, <1>6, <1>7, <1>8, <1>9, <1>10, <1>11, Steps DEF Basics

\* A site gets a base URL from a task that looked for it, or when it is added by hand.
LEMMA LooksOrAdds ==
  ASSUME Basics, TypedInv, NEW o \in Ops, NEW y, NewBase(o, y)
  PROVE  LookedFor(o) \/ (Adds(o) /\ task[o].what = "site")
<1>1. pc[o] \in Pcs(task[o].what) /\ task[o].what \in Kinds BY TaskKinds DEF Basics, Tasks
<1>2. \/ Address(o) /\ pc[o] = "address"
      \/ Store(o) /\ pc[o] = "store"
      \/ Adds(o) /\ pc[o] = "add"
      \/ Put(o) /\ pc[o] = "put"
  BY Guards DEF NewBase
<1>3. mem[o].site = 0 BY <1>2, Guards DEF NewBase, TypedInv, Unfound
<1>4. CASE pc[o] \in {"address", "store", "put"}
  <2>. task[o].what \in {"sync", "edit", "legacy"} BY <1>1, <1>4 DEF Pcs, Kinds
  <2>. QED BY <1>3, <1>4 DEF LookedFor
<1>5. CASE Adds(o) /\ pc[o] = "add"
  <2>. task[o].what \in {"site", "account", "edit"} BY <1>1, <1>5 DEF Pcs, Kinds
  <2>. QED BY <1>3, <1>5 DEF LookedFor
<1>. QED BY <1>2, <1>4, <1>5

\* Two sites have a base URL after a step only if they may.
LEMMA PairsOfSites ==
  ASSUME Basics, TypedInv, LookInv, NEW o \in Ops, Step(o), NEW y \in sites', NEW z \in sites',
         y.id # z.id, y.base = z.base
  PROVE  y.base \in doubles' \/ y.id \in excused' \/ z.id \in excused'
<1>1. excused \subseteq excused' /\ doubles \subseteq doubles'
  BY StepIsLawful, DoublesStay DEF Lawful
<1>2. \A s \in sites : s.id \in 1..(next - 1) /\ next \in Nat BY DEF Basics, Keys, Good
\* What is new, and a site that keeps its base URL.
<1>3. ASSUME NEW u \in sites', NEW v \in sites', u.id # v.id, u.base = v.base, NewBase(o, u), KeptBase(v)
      PROVE  u.base \in doubles' \/ u.id \in excused' \/ v.id \in excused'
  <2>1. PICK s \in sites : s.id = v.id /\ (s.base = v.base \/ s.id \in excused) BY <1>3 DEF KeptBase
  <2>2. CASE s.id \in excused BY <2>1, <2>2, <1>1
  <2>3. CASE s.base = mem[o].base /\ LookedFor(o)
    <3>1. NoneFound(o) BY <2>3 DEF LookInv
    <3>2. MovesExcused(o) => Address(o)
      <4>1. pc[o] = "address" => ~(Store(o) \/ Adds(o) \/ Put(o)) BY Guards
      <4>. QED BY <4>1, <1>3 DEF NewBase, MovesExcused
    <3>3. MovesExcused(o) => u.id \in excused
      <4>1. pc[o] = "address" => ~(Store(o) \/ Adds(o) \/ Put(o)) BY Guards
      <4>. QED BY <4>1, <1>3 DEF NewBase, MovesExcused
    <3>4. Spared(o, s) => s.id \in excused
      <4>1. pc[o] = "address" => ~(Store(o) \/ Adds(o) \/ Put(o)) BY Guards
      <4>. QED BY <4>1, <1>3, <2>1 DEF NewBase, Spared
    <3>. QED BY <3>1, <3>3, <3>4, <2>1, <2>3, <1>1, <1>3 DEF NoneFound, NewBase
  <2>4. CASE ~LookedFor(o)
    <3>1. Adds(o) /\ task[o].what = "site" BY <2>4, <1>3, LooksOrAdds
    <3>2. u.base \in doubles'
      <4>1. sites' = sites => FALSE
        <5>1. ~Address(o) /\ ~Store(o) BY <3>1, Guards
        <5>2. u.id = next + 1 BY <5>1, <1>3 DEF NewBase
        <5>. QED BY <5>2, <1>2
      <4>2. doubles' = doubles \cup {mem[o].base} BY <3>1 DEF Adds, Add
      <4>. QED BY <4>2, <1>3 DEF NewBase
    <3>. QED BY <3>2
  <2>. QED BY <2>1, <2>2, <2>3, <2>4, <1>3 DEF NewBase
<1>4. CASE KeptBase(y) /\ KeptBase(z)
  <2>1. PICK s \in sites : s.id = y.id /\ (s.base = y.base \/ s.id \in excused) BY <1>4 DEF KeptBase
  <2>2. PICK t \in sites : t.id = z.id /\ (t.base = z.base \/ t.id \in excused) BY <1>4 DEF KeptBase
  <2>3. CASE s.id \in excused \/ t.id \in excused BY <2>1, <2>2, <2>3, <1>1
  <2>4. CASE s.base = y.base /\ t.base = z.base
    <3>1. s.base \in doubles \/ {s.id, t.id} \cap excused # {}
      BY <2>1, <2>2, <2>4 DEF LookInv, OneSitePerBase
    <3>. QED BY <3>1, <2>1, <2>2, <2>4, <1>1
  <2>. QED BY <2>1, <2>2, <2>3, <2>4
<1>5. CASE NewBase(o, y) /\ NewBase(o, z)
  <2>1. /\ Address(o) => ~(Store(o) \/ Adds(o) \/ Put(o))
        /\ Store(o) => ~(Adds(o) \/ Put(o))
    BY Guards
  <2>. QED BY <2>1, <1>5 DEF NewBase
<1>. QED BY <1>3, <1>4, <1>5, BasesStep

\* What a task that looked for a base URL found, stays so until it writes.
LEMMA NoneFoundStep ==
  ASSUME Basics, TypedInv, LookInv, NEW o \in Ops, Step(o), NEW p \in Ops, LookedFor(p)'
  PROVE  NoneFound(p)'
<1>1. Frame(o) BY StepFrame DEF Basics
<1>2. excused \subseteq excused' /\ doubles \subseteq doubles'
  BY StepIsLawful, DoublesStay DEF Lawful
<1>3. CASE p = o
  <2>1. CASE Begins(o) BY <1>3, <2>1 DEF Begins, NoneFound, Spared
  <2>2. CASE GoesOn(o)
    <3>1. NoneFound(o) BY <2>2 DEF LookInv, GoesOn
    <3>2. pc[o] = "scan" /\ mem'[o].base = mem[o].base /\ sites' = sites
          /\ excused' = excused /\ doubles' = doubles
      BY <2>2 DEF GoesOn
    <3>3. mem[o].base \in doubles \/ \A s \in sites : s.base = mem[o].base => s.id \in excused
      BY <3>1, <3>2 DEF NoneFound, Spared, MovesExcused
    <3>. QED BY <3>2, <3>3, <1>3 DEF NoneFound, Spared
  <2>. QED BY <1>3, <2>1, <2>2, LookingStep DEF LookInv
<1>4. CASE p # o
  <2>1. mem'[p] = mem[p] /\ pc'[p] = pc[p] /\ task' = task BY <1>1, <1>4 DEF Frame
  <2>2. LookedFor(p) BY <2>1 DEF LookedFor
  <2>3. NoneFound(p) BY <2>2 DEF LookInv
  <2>4. SUFFICES ASSUME ~MovesExcused(p)', mem[p].base \notin doubles',
                        NEW y \in sites', y.base = mem[p].base
                 PROVE  Spared(p, y)'
    BY <2>1 DEF NoneFound
  <2>5. ~MovesExcused(p) /\ mem[p].base \notin doubles BY <2>1, <2>4, <1>2 DEF MovesExcused
  <2>6. CASE KeptBase(y)
    <3>1. PICK s \in sites : s.id = y.id /\ (s.base = y.base \/ s.id \in excused)
      BY <2>6 DEF KeptBase
    <3>2. Spared(p, s)
      <4>1. CASE s.id \in excused BY <4>1 DEF Spared
      <4>2. CASE s.base = mem[p].base BY <4>2, <2>3, <2>5 DEF NoneFound
      <4>. QED BY <3>1, <2>4, <4>1, <4>2
    <3>. QED BY <3>1, <3>2, <2>1, <1>2 DEF Spared
  <2>7. CASE NewBase(o, y) /\ LookedFor(o)
    <3>1. OneLooks(o, p) /\ mem[o].base = mem[p].base
      BY <1>4, <2>2, <2>4, <2>7 DEF LookInv, NewBase
    <3>2. MovesExcused(o) \/ MoveTheSame(o, p) BY <3>1, <2>5 DEF OneLooks
    <3>3. Address(o) /\ y.id = mem[o].from
      <4>1. pc[o] = "address" => ~(Store(o) \/ Adds(o) \/ Put(o)) BY Guards
      <4>. QED BY <4>1, <3>2, <2>7 DEF NewBase, MovesExcused, MoveTheSame
    <3>4. CASE MovesExcused(o) BY <3>3, <3>4, <1>2 DEF MovesExcused, Spared
    <3>5. CASE MoveTheSame(o, p) BY <3>3, <3>5, <2>1 DEF MoveTheSame, Spared
    <3>. QED BY <3>2, <3>4, <3>5
  <2>8. CASE NewBase(o, y) /\ ~LookedFor(o)
    <3>1. Adds(o) /\ task[o].what = "site" BY <2>8, LooksOrAdds
    <3>2. ~Address(o) /\ ~Store(o) BY <3>1, Guards
    <3>3. y.id = next + 1 /\ next \in Nat BY <3>2, <2>8 DEF NewBase, Basics, Keys
    <3>4. sites' # sites BY <3>3 DEF Basics, Keys, Good
    <3>5. doubles' = doubles \cup {mem[o].base} BY <3>1, <3>4 DEF Adds, Add
    <3>. QED BY <3>5, <2>4, <2>8 DEF NewBase
  <2>. QED BY <2>6, <2>7, <2>8, BasesStep
<1>. QED BY <1>3, <1>4

\* Two tasks that look for the same base URL are noticed.
LEMMA OneLooksStep ==
  ASSUME Basics, TypedInv, LookInv, NEW o \in Ops, Step(o),
         NEW p \in Ops, p # o, LookedFor(o)', LookedFor(p)'
  PROVE  OneLooks(o, p)' /\ OneLooks(p, o)'
<1>1. Frame(o) BY StepFrame DEF Basics
<1>2. mem'[p] = mem[p] /\ pc'[p] = pc[p] /\ task' = task BY <1>1 DEF Frame
<1>3. LookedFor(p) BY <1>2 DEF LookedFor
<1>4. SUFFICES ASSUME mem'[o].base = mem[p].base,
                      mem[p].base \notin doubles', ~MovesExcused(o)', ~MovesExcused(p)'
               PROVE  MoveTheSame(o, p)'
  BY <1>2 DEF OneLooks, MoveTheSame
<1>5. CASE Begins(o)
  <2>1. PICK b : /\ mem'[o].base = b /\ LooksFor(o, b)
                 /\ \A s \in sites : s.base = b => pc'[o] = "address" /\ s.id = mem'[o].from
    BY <1>5 DEF Begins
  <2>2. Seeks(p, b) BY <1>3, <1>4, <2>1 DEF Seeks, LookedFor
  <2>3. PICK s \in sites : s.base = b
    <3>1. Sought(b) # {}
      <4>1. SUFFICES ASSUME Sought(b) = {} PROVE FALSE OBVIOUS
      <4>2. doubles' = doubles \cup {b} BY <4>1, <2>1, <2>2 DEF LooksFor
      <4>. QED BY <4>2, <2>1, <1>4
    <3>. QED BY <3>1 DEF Sought
  <2>4. pc'[o] = "address" /\ s.id = mem'[o].from BY <2>1, <2>3
  <2>5. s.id \notin excused /\ excused' = excused /\ doubles \subseteq doubles'
    BY <1>4, <1>5, <2>4, DoublesStay DEF MovesExcused, Begins
  <2>6. NoneFound(p) BY <1>3 DEF LookInv
  <2>7. ~MovesExcused(p) /\ mem[p].base \notin doubles BY <1>2, <1>4, <2>5 DEF MovesExcused
  <2>8. Spared(p, s) BY <2>1, <2>3, <2>6, <2>7, <1>4 DEF NoneFound
  <2>. QED BY <2>4, <2>5, <2>8, <1>2 DEF Spared, MoveTheSame
<1>6. CASE GoesOn(o)
  <2>1. OneLooks(o, p) BY <1>3, <1>6 DEF LookInv, GoesOn
  <2>2. ~MovesExcused(o) /\ ~MoveTheSame(o, p) BY <1>6 DEF GoesOn, MovesExcused, MoveTheSame
  <2>. QED BY <2>1, <2>2, <1>2, <1>4, <1>6 DEF GoesOn, OneLooks, MovesExcused
<1>. QED BY <1>5, <1>6, LookingStep DEF LookInv

LEMMA ScansStep ==
  ASSUME Basics, TypedInv, \A p \in Ops : ScansItsUrl(p), NEW o \in Ops, Step(o)
  PROVE  \A p \in Ops : ScansItsUrl(p)'
<1>1. Frame(o) BY StepFrame DEF Basics
<1>2. \A p \in Ops \ {o} : ScansItsUrl(p)' BY <1>1 DEF Frame, ScansItsUrl
<1>3. ScansItsUrl(o)'
  <2>1. SUFFICES ASSUME pc'[o] = "scan", task[o].what \in {"account", "edit"}
                 PROVE  mem'[o].base = BaseOf[task[o].url]
    BY <1>1 DEF Frame, ScansItsUrl
  <2>2. DOMAIN mem[o] = MemFields /\ DOMAIN mem = Ops /\ DOMAIN pc = Ops BY DEF Basics, Tasks
  <2>3. ASSUME NEW step, Goes(o, step) PROVE step = "scan" BY <2>1, <2>2, <2>3 DEF Goes
  <2>4. CASE Look(o)
    <3>1. ~Ends(o) /\ ~Goes(o, AfterSite(o)) BY <2>3 DEF Ends, AfterSite
    <3>2. Holding(o, [mem[o] EXCEPT !.base = BaseOf[task[o].url], !.site = 0])
      BY <2>4, <3>1 DEF Look
    <3>. QED BY <3>2, <2>2 DEF Holding, MemFields
  <2>5. CASE ScanNew(o) BY <2>5, <2>3 DEF ScanNew, Ends
  <2>6. CASE Adds(o) BY <2>6, <2>3 DEF Adds, Add, AfterSite, Ends
  <2>7. CASE Bind(o) BY <2>7, <2>3 DEF Bind, Ends
  <2>8. CASE LoadAccount(o) BY <2>8, <2>3 DEF LoadAccount, EditStep, Ends
  <2>9. CASE Other(o) BY <2>9, <2>3 DEF Other
  <2>10. CASE Address(o) BY <2>10, <2>3 DEF Address
  <2>11. CASE Meta(o) BY <2>11, <2>3 DEF Meta
  <2>12. CASE Move(o) BY <2>12, <2>3 DEF Move, Ends
  <2>. QED BY ONLY <2>1, Steps, Basics, Step(o), <2>4, <2>5, <2>6, <2>7, <2>8, <2>9, <2>10, <2>11,
                   <2>12 DEF Basics
<1>. QED BY <1>2, <1>3

LEMMA LookStep ==
  ASSUME Basics, TypedInv, LookInv, [Next]_vars
  PROVE  LookInv'
<1>1. ASSUME NEW o \in Ops, Step(o) PROVE LookInv'
  <2>1. Frame(o) BY <1>1, StepFrame DEF Basics
  <2>2. excused \subseteq excused' /\ doubles \subseteq doubles'
    BY <1>1, StepIsLawful, DoublesStay DEF Lawful
  <2>3. OneSitePerBase' BY <1>1, PairsOfSites DEF OneSitePerBase
  <2>4. \A p \in Ops : ScansItsUrl(p)' BY <1>1, ScansStep DEF LookInv
  <2>5. \A p \in Ops : LookedFor(p)' => NoneFound(p)' BY <1>1, NoneFoundStep
  <2>6. ASSUME NEW p \in Ops, NEW q \in Ops, p # q, LookedFor(p)', LookedFor(q)'
        PROVE  OneLooks(p, q)'
    <3>1. CASE p = o \/ q = o BY <1>1, <2>6, <3>1, OneLooksStep
    <3>2. CASE p # o /\ q # o
      <4>1. mem'[p] = mem[p] /\ pc'[p] = pc[p] /\ mem'[q] = mem[q] /\ pc'[q] = pc[q] /\ task' = task
        BY <2>1, <3>2 DEF Frame
      <4>2. LookedFor(p) /\ LookedFor(q) BY <4>1, <2>6 DEF LookedFor
      <4>3. OneLooks(p, q) BY <4>2, <2>6 DEF LookInv
      <4>. QED BY <4>1, <4>3, <2>2 DEF OneLooks, MovesExcused, MoveTheSame
    <3>. QED BY <3>1, <3>2
  <2>. QED BY <2>3, <2>4, <2>5, <2>6 DEF LookInv
<1>2. ASSUME UNCHANGED <<sites, task, pc, mem, excused, doubles>> PROVE LookInv'
  <2>. USE <1>2 DEF LookInv
  <2>1. OneSitePerBase' BY DEF OneSitePerBase
  <2>2. \A o \in Ops : ScansItsUrl(o)' BY DEF ScansItsUrl
  <2>3. \A o \in Ops : LookedFor(o)' <=> LookedFor(o) BY DEF LookedFor
  <2>4. \A o \in Ops : NoneFound(o)' <=> NoneFound(o) BY DEF NoneFound, MovesExcused, Spared
  <2>5. \A o, p \in Ops : OneLooks(o, p)' <=> OneLooks(o, p) BY DEF OneLooks, MovesExcused, MoveTheSame
  <2>. QED BY <2>1, <2>2, <2>3, <2>4, <2>5
<1>3. CASE SourceChanges BY <1>2, <1>3 DEF SourceChanges, tables
<1>4. CASE UNCHANGED vars BY <1>2, <1>4 DEF vars, tables, history
<1>. QED BY <1>1, <1>3, <1>4 DEF Next

\* If no two sites have the same base URL to begin with, two have one later only where
\* tasks looked for it at once, one was added by hand, or an address was edited while a
\* task that had read the site was to write (EnsureUpstreamSiteForChannel,
\* EnsureManualSite, LegacyConfigImporter).
THEOREM ImportsDoubleNoSite ==
  ASSUME \A start \in Starts : \A s, t \in start.sites : s.base = t.base => s = t
  PROVE  Spec => []OneSitePerBase
<1>1. Init => TypedInv BY InitTyped
<1>2. Init => LookInv
  <2>. SUFFICES ASSUME Init PROVE LookInv OBVIOUS
  <2>1. \A o \in Ops : pc[o] = FirstStep(task[o].what) /\ task[o].what \in Kinds
    BY MeetingsAssumption DEF Init
  <2>2. \A o \in Ops : ~LookedFor(o) /\ ScansItsUrl(o)
    BY <2>1 DEF LookedFor, ScansItsUrl, FirstStep, Kinds
  <2>3. OneSitePerBase BY DEF Init, OneSitePerBase
  <2>. QED BY <2>2, <2>3 DEF LookInv
<1>3. LookInv => OneSitePerBase BY DEF LookInv
<1>. QED BY <1>1, <1>2, <1>3, TypedStep, LookStep, AlwaysBasics, PTL DEF Spec

-------------------------------------------------------------------------------
(* Reading what the NewAPI lists, page by page *)

AllRecords == UNION {{s[i] : i \in DOMAIN s} : s \in Sources}
RecordsOf(s) == {s[i] : i \in DOMAIN s}

\* The sources that a task reads to their end: it stops after MaxPages full pages.
SourcesFit == \A s \in Sources : Len(s) <= MaxPages * PageSize

\* The records that a task that has read n pages has not read yet.
Later(o, n, i) == IF task[o].api THEN i > n * PageSize ELSE n = 0

Batch(o) == IF task[o].api THEN Page(mem[o].page) ELSE Table(mem[o].page)
Last(o) == LastPage(o, Len(Batch(o))) \/ mem[o].page + 1 >= MaxPages

\* A task has records to take at these steps, and only there.
InRecord == {"upsert", "scan", "find", "store"}

Reading ==
  /\ source \in Sources
  /\ \A o \in Ops : task[o].what \in {"sync", "mark"} =>
       /\ mem[o].page \in Nat /\ mem[o].todo \in Seq(AllRecords)
       /\ mem[o].todo = <<>> <=> pc[o] \notin InRecord
       /\ pc[o] = "begin" => mem[o] = Holds

LEMMA SourceRecords ==
  ASSUME NEW s \in Sources
  PROVE  /\ s \in Seq(AllRecords) /\ Len(s) \in Nat /\ DOMAIN s = 1..Len(s)
         /\ \A i, j \in DOMAIN s : s[i].id = s[j].id /\ s[i].id # 0 => i = j
         /\ \A i \in DOMAIN s : s[i].id \in 0..(FirstId - 1)
<1>1. s \in Seq({s[i] : i \in DOMAIN s}) BY SourcesAssumption
<1>2. {s[i] : i \in DOMAIN s} \subseteq AllRecords BY DEF AllRecords
<1>3. s \in Seq(AllRecords) BY <1>1, <1>2, SeqMonotonic
<1>. QED BY <1>3, LenProperties, SourcesAssumption

LEMMA MonotonicProduct ==
  ASSUME NEW a \in Nat, NEW b \in Nat, a <= b, NEW c \in Nat
  PROVE  a * c <= b * c
<1>1. b - a \in Nat /\ b = a + (b - a) OBVIOUS
<1>2. PICK d \in Nat : b = a + d BY <1>1
<1>3. b * c = a * c + d * c BY <1>2
<1>4. d * c \in Nat /\ a * c \in Nat OBVIOUS
<1>. QED BY <1>3, <1>4

LEMMA NextProduct ==
  ASSUME NEW n \in Nat, NEW c \in Nat
  PROVE  (n + 1) * c = n * c + c /\ n * c \in Nat
OBVIOUS

LEMMA AtMostBounds ==
  ASSUME NEW a \in Nat, NEW b \in Nat
  PROVE  /\ AtMost(a, b) \in Nat /\ AtMost(a, b) <= a /\ AtMost(a, b) <= b
         /\ AtMost(a, b) = a \/ AtMost(a, b) = b
BY DEF AtMost

\* u is the part of s after its first a elements, as far as size elements go.
PartOf(u, s, a, size) ==
  /\ RecordsOf(u) \subseteq RecordsOf(s)
  /\ \A i \in DOMAIN s : i > a => s[i] \in RecordsOf(u) \/ i > a + size
  /\ Len(u) < size => \A i \in DOMAIN s : ~(i > a + size)

LEMMA PartHolds ==
  ASSUME NEW R, NEW s \in Seq(R), NEW a \in Nat, NEW size \in Nat, NEW b \in Nat,
         b <= Len(s), b <= a + size, b = Len(s) \/ b = a + size, NEW u, u = SubSeq(s, a + 1, b)
  PROVE  u \in Seq(R) /\ PartOf(u, s, a, size)
<1>1. Len(s) \in Nat /\ DOMAIN s = 1..Len(s) BY LenProperties
<1>2. PICK l \in Nat : l = Len(s) BY <1>1
<1>3. PICK m \in Nat : m = a + 1 OBVIOUS
<1>4. u = SubSeq(s, m, b) BY <1>3
<1>5. \A i \in m..b : s[i] \in R
  <2>. TAKE i \in m..b
  <2>. i \in 1..Len(s) BY <1>2, <1>3
  <2>. QED BY ElementOfSeq
<1>6. /\ u \in Seq(R)
      /\ Len(u) = IF m <= b THEN b - m + 1 ELSE 0
      /\ \A i \in 1..(b - m + 1) : u[i] = s[m + i - 1]
  BY <1>3, <1>4, <1>5, SubSeqProperties
<1>7. DOMAIN u = 1..Len(u) BY <1>6, LenProperties
<1>8. RecordsOf(u) \subseteq RecordsOf(s)
  <2>1. SUFFICES ASSUME NEW i \in DOMAIN u PROVE u[i] \in RecordsOf(s) BY DEF RecordsOf
  <2>2. m <= b /\ i \in 1..(b - m + 1) BY <2>1, <1>6, <1>7
  <2>3. i + a \in 1..l /\ m + i - 1 = i + a
    BY ONLY <2>2, <1>2, <1>3, a \in Nat, b \in Nat, b <= Len(s)
  <2>4. u[i] = s[i + a] BY <2>2, <2>3, <1>6
  <2>. QED BY <2>3, <2>4, <1>1, <1>2 DEF RecordsOf
<1>9. ASSUME NEW i \in DOMAIN s, i > a, ~(i > a + size) PROVE s[i] \in RecordsOf(u)
  <2>1. i \in 1..l BY <1>1, <1>2, <1>9
  <2>2. i <= b BY <2>1, <1>2, <1>9
  <2>3. PICK k : k = i - a OBVIOUS
  <2>4. m <= b /\ k \in 1..(b - m + 1) /\ m + k - 1 = i
    BY <2>1, <2>2, <2>3, <1>2, <1>3, <1>9
  <2>5. u[k] = s[i] /\ k \in DOMAIN u BY <2>4, <1>6, <1>7
  <2>. QED BY <2>5 DEF RecordsOf
<1>10. ASSUME Len(u) < size, NEW i \in DOMAIN s PROVE ~(i > a + size)
  <2>1. i \in 1..l BY <1>1, <1>2, <1>10
  <2>2. CASE b = l BY <2>1, <2>2
  <2>3. CASE b = a + size BY <1>10, <2>3, <1>3, <1>6
  <2>. QED BY <2>2, <2>3, <1>2
<1>. QED BY <1>6, <1>8, <1>9, <1>10 DEF PartOf

\* A page holds the records of the source from its first on, as many as it can.
LEMMA PageHolds ==
  ASSUME source \in Sources, NEW n \in Nat
  PROVE  /\ Page(n) \in Seq(AllRecords) /\ RecordsOf(Page(n)) \subseteq RecordsOf(source)
         /\ \A i \in DOMAIN source :
              i > n * PageSize => source[i] \in RecordsOf(Page(n)) \/ i > (n + 1) * PageSize
         /\ Len(Page(n)) < PageSize => \A i \in DOMAIN source : ~(i > (n + 1) * PageSize)
<1>1. PICK a \in Nat : a = n * PageSize /\ (n + 1) * PageSize = a + PageSize
  BY InventoryAssumption, NextProduct
<1>2. PICK s \in Sources : s = source OBVIOUS
<1>3. s \in Seq(AllRecords) /\ Len(s) \in Nat /\ PageSize \in Nat
  BY <1>2, SourceRecords, InventoryAssumption
<1>4. PICK b : b = AtMost(a + PageSize, Len(s)) OBVIOUS
<1>5. b \in Nat /\ b <= Len(s) /\ b <= a + PageSize /\ (b = Len(s) \/ b = a + PageSize)
  <2>. a + PageSize \in Nat BY <1>3
  <2>. QED BY <1>3, <1>4, AtMostBounds
<1>6. PICK u : u = SubSeq(s, a + 1, b) OBVIOUS
<1>7. Page(n) = u BY <1>1, <1>2, <1>4, <1>6 DEF Page
<1>a. a \in Nat /\ PageSize \in Nat /\ b \in Nat /\ s \in Seq(AllRecords) BY <1>1, <1>3, <1>5
<1>8. u \in Seq(AllRecords) /\ PartOf(u, s, a, PageSize) BY ONLY <1>a, <1>5, <1>6, PartHolds
<1>. QED BY <1>1, <1>2, <1>7, <1>8 DEF PartOf

\* What one batch leaves for later, and that nothing is left after the last.
LEMMA BatchHolds ==
  ASSUME SourcesFit, Reading, NEW o \in Ops, task[o].what \in {"sync", "mark"}
  PROVE  /\ Batch(o) \in Seq(AllRecords) /\ RecordsOf(Batch(o)) \subseteq RecordsOf(source)
         /\ \A i \in DOMAIN source : Later(o, mem[o].page, i) =>
              source[i] \in RecordsOf(Batch(o)) \/ Later(o, mem[o].page + 1, i)
         /\ Last(o) => \A i \in DOMAIN source : ~Later(o, mem[o].page + 1, i)
         /\ Batch(o) = <<>> => \A i \in DOMAIN source : ~Later(o, mem[o].page, i)
<1>. DEFINE n == mem[o].page
<1>1. source \in Sources /\ n \in Nat BY DEF Reading
<1>2. source \in Seq(AllRecords) /\ Len(source) \in Nat /\ DOMAIN source = 1..Len(source)
  BY <1>1, SourceRecords
<1>3. CASE task[o].api
  <2>1. Batch(o) = Page(n) /\ \A k, i : Later(o, k, i) <=> i > k * PageSize
    BY <1>3 DEF Batch, Later
  <2>2. Last(o) => Len(Page(n)) < PageSize \/ n + 1 >= MaxPages
    BY <1>3, <2>1 DEF Last, LastPage
  <2>3. n + 1 >= MaxPages => \A i \in DOMAIN source : ~(i > (n + 1) * PageSize)
    <3>1. SUFFICES ASSUME n + 1 >= MaxPages PROVE Len(source) <= (n + 1) * PageSize
      <4>1. (n + 1) * PageSize \in Nat BY <1>1, InventoryAssumption
      <4>. QED BY <1>2, <4>1
    <3>2. MaxPages * PageSize <= (n + 1) * PageSize
      BY <3>1, <1>1, InventoryAssumption, MonotonicProduct
    <3>3. MaxPages * PageSize \in Nat /\ (n + 1) * PageSize \in Nat BY <1>1, InventoryAssumption
    <3>. QED BY <3>2, <3>3, <1>1, <1>2 DEF SourcesFit
  <2>4. Page(n) = <<>> => \A i \in DOMAIN source : ~(i > n * PageSize)
    <3>1. SUFFICES ASSUME Page(n) = <<>>, NEW i \in DOMAIN source, i > n * PageSize PROVE FALSE
      OBVIOUS
    <3>2. Len(Page(n)) = 0 /\ DOMAIN Page(n) = {}
      <4>1. <<>> \in Seq(AllRecords) /\ Len(<<>>) = 0 BY EmptySeq
      <4>2. DOMAIN <<>> = {} BY <4>1, LenProperties
      <4>. QED BY <3>1, <4>1, <4>2
    <3>3. RecordsOf(Page(n)) = {} BY <3>2 DEF RecordsOf
    <3>4. i > (n + 1) * PageSize BY <3>1, <3>3, <1>1, PageHolds
    <3>5. Len(Page(n)) < PageSize BY <3>2, InventoryAssumption
    <3>. QED BY <3>1, <3>4, <3>5, <1>1, PageHolds
  <2>. QED BY <2>1, <2>2, <2>3, <2>4, <1>1, PageHolds
<1>4. CASE ~task[o].api
  <2>1. Batch(o) = (IF n = 0 THEN source ELSE <<>>) /\ \A k, i : Later(o, k, i) <=> k = 0
    BY <1>4 DEF Batch, Later, Table
  <2>2. <<>> \in Seq(AllRecords) /\ DOMAIN <<>> = {}
    <3>1. <<>> \in Seq(AllRecords) /\ Len(<<>>) = 0 BY EmptySeq
    <3>. QED BY <3>1, LenProperties
  <2>3. RecordsOf(<<>>) = {} BY <2>2 DEF RecordsOf
  <2>4. n = 0 => \A i \in DOMAIN source : source[i] \in RecordsOf(Batch(o)) BY <2>1 DEF RecordsOf
  <2>5. n + 1 # 0 BY <1>1
  <2>6. source = <<>> => DOMAIN source = {} BY <2>2
  <2>7. Batch(o) \in Seq(AllRecords) /\ RecordsOf(Batch(o)) \subseteq RecordsOf(source)
    BY <2>1, <2>2, <2>3, <1>2
  <2>8. Batch(o) = <<>> => \A i \in DOMAIN source : ~Later(o, n, i) BY <2>1, <2>6
  <2>. QED BY <2>1, <2>4, <2>5, <2>7, <2>8
<1>. QED BY <1>3, <1>4

\* What a step of a sync or a marking does with what it has read.
KeepsRead(o) ==
  /\ mem'[o].page = mem[o].page /\ mem'[o].last = mem[o].last
  /\ mem'[o].seen = mem[o].seen /\ mem'[o].todo = mem[o].todo
ReadsBatch(o) ==
  /\ ReadPage(o)
  /\ mem'[o].page = mem[o].page + 1 /\ mem'[o].last = Last(o)
  /\ mem'[o].seen = mem[o].seen \cup {Batch(o)[i].id : i \in DOMAIN Batch(o)}
  /\ mem'[o].todo = IF task[o].what = "sync" THEN Batch(o) ELSE <<>>

LEMMA ReadPageReads ==
  ASSUME Tasks, NEW o \in Ops, ReadPage(o)
  PROVE  /\ ReadsBatch(o)
         /\ pc'[o] = IF Batch(o) = <<>> THEN AfterPages(o) ELSE IF task[o].what = "sync" THEN "upsert"
                     ELSE IF Last(o) THEN "existing" ELSE "page"
<1>. DEFINE m == [mem[o] EXCEPT !.todo = IF task[o].what = "sync" THEN Batch(o) ELSE <<>>,
                    !.page = @ + 1, !.last = Last(o),
                    !.seen = @ \cup {Batch(o)[i].id : i \in DOMAIN Batch(o)}]
<1>1. Holding(o, m) BY DEF ReadPage, Batch, Last
<1>2. mem'[o] = m /\ DOMAIN mem[o] = MemFields BY <1>1, HoldingFrame DEF Tasks
<1>3. Goes(o, IF Batch(o) = <<>> THEN AfterPages(o) ELSE IF task[o].what = "sync" THEN "upsert"
              ELSE IF Last(o) THEN "existing" ELSE "page")
  BY DEF ReadPage, Batch, Last
<1>4. /\ m.page = mem[o].page + 1 /\ m.last = Last(o)
      /\ m.seen = mem[o].seen \cup {Batch(o)[i].id : i \in DOMAIN Batch(o)}
      /\ m.todo = IF task[o].what = "sync" THEN Batch(o) ELSE <<>>
  BY <1>2 DEF MemFields
<1>5. ReadsBatch(o) BY <1>2, <1>4 DEF ReadsBatch
<1>. QED BY <1>3, <1>5, GoesFrame

LEMMA ReadStep ==
  ASSUME Tasks, NEW o \in Ops, Step(o), task[o].what \in {"sync", "mark"}
  PROVE  \/ KeepsRead(o) /\ pc'[o] # "begin" /\ (pc[o] \in InRecord <=> pc'[o] \in InRecord)
         \/ mem'[o] = Holds /\ pc'[o] \in {"done", "panicked"}
         \/ ReadsBatch(o)
         \/ NextRecord(o, mem[o]) /\ task[o].what = "sync" /\ pc[o] \in InRecord
<1>0. DOMAIN mem[o] = MemFields /\ DOMAIN mem = Ops BY DEF Tasks
<1>k. ASSUME NEW m, Holding(o, m), m.page = mem[o].page, m.last = mem[o].last, m.seen = mem[o].seen,
             m.todo = mem[o].todo
      PROVE  KeepsRead(o)
  BY <1>0, <1>k DEF Holding, KeepsRead
<1>h. ASSUME Holding(o, Holds) PROVE mem'[o] = Holds BY <1>0, <1>h DEF Holding
<1>g. \A step : Goes(o, step) => pc'[o] = step BY GoesFrame
<1>r. pc[o] \in Pcs(task[o].what) BY DEF Tasks
<1>1. CASE Begin(o)
  <2>1. pc[o] = "begin" /\ KeepsRead(o) BY <1>1 DEF Begin, KeepsRead
  <2>2. pc'[o] \in {"done", "page"} BY <1>1, <1>g DEF Begin
  <2>. QED BY <2>1, <2>2 DEF InRecord
<1>2. CASE ReadPage(o) BY <1>2, ReadPageReads
<1>3. CASE ImportFails(o)
  <2>1. mem'[o] = Holds BY <1>3, <1>h DEF ImportFails
  <2>2. pc'[o] \in {"done", "panicked"} BY <1>3, <1>g DEF ImportFails, AfterFailure
  <2>. QED BY <2>1, <2>2
<1>4. CASE Upsert(o)
  <2>1. ASSUME NEW c, NEW k, NEW b, Holding(o, [mem[o] EXCEPT !.chan = c, !.kind = k, !.base = b])
        PROVE  KeepsRead(o)
    BY <2>1, <1>0, <1>k DEF MemFields
  <2>2. pc[o] = "upsert" BY <1>4, Guards
  <2>3. NextRecord(o, mem[o]) \/ (KeepsRead(o) /\ pc'[o] \in {"scan", "find"})
    BY <1>4, <2>1, <1>g DEF Upsert
  <2>4. task[o].what = "sync" BY <1>r, <2>2 DEF Pcs
  <2>. QED BY <2>2, <2>3, <2>4 DEF InRecord
<1>5. CASE ImportScan(o)
  <2>1. ASSUME NEW d, Holding(o, [mem[o] EXCEPT !.det = d]) PROVE KeepsRead(o)
    BY <2>1, <1>0, <1>k DEF MemFields
  <2>2. pc[o] = "scan" BY <1>5, Guards
  <2>3. KeepsRead(o) /\ pc'[o] = "find" BY <1>5, <2>1, <1>g DEF ImportScan
  <2>. QED BY <2>2, <2>3 DEF InRecord
<1>6. CASE Find(o)
  <2>1. ASSUME NEW s, NEW l, Holding(o, [mem[o] EXCEPT !.site = s, !.old = l]) PROVE KeepsRead(o)
    BY <2>1, <1>0, <1>k DEF MemFields
  <2>2. pc[o] = "find" BY <1>6, Guards
  <2>3. NextRecord(o, mem[o]) \/ (KeepsRead(o) /\ pc'[o] = "store")
    BY <1>6, <2>1, <1>k, <1>g DEF Find
  <2>4. task[o].what = "sync" BY <1>r, <2>2 DEF Pcs
  <2>. QED BY <2>2, <2>3, <2>4 DEF InRecord
<1>7. CASE Store(o)
  <2>1. pc[o] = "store" BY <1>7, Guards
  <2>2. task[o].what = "sync" BY <1>r, <2>1 DEF Pcs
  <2>. QED BY <1>7, <2>1, <2>2 DEF Store, InRecord
<1>8. CASE Finishes(o)
  <2>1. mem'[o] = Holds /\ pc'[o] = "done" BY <1>8, <1>h, <1>g DEF Finishes, Finish, Ends
  <2>. QED BY <2>1
<1>9. CASE ReadExisting(o)
  <2>1. ASSUME NEW r, Holding(o, [mem[o] EXCEPT !.rows = r]) PROVE KeepsRead(o)
    BY <2>1, <1>0, <1>k DEF MemFields
  <2>2. pc[o] = "existing" BY <1>9, Guards
  <2>3. KeepsRead(o) /\ pc'[o] = "marks" BY <1>9, <2>1, <1>g DEF ReadExisting
  <2>. QED BY <2>2, <2>3 DEF InRecord
<1>10. CASE Mark(o)
  <2>1. mem'[o] = Holds /\ pc'[o] = "done" BY <1>10, <1>h, <1>g DEF Mark, Ends
  <2>. QED BY <2>1
<1>. QED BY <1>1, <1>2, <1>3, <1>4, <1>5, <1>6, <1>7, <1>8, <1>9, <1>10, Steps

\* The records a task still has to take.
LEMMA NextRecordTakes ==
  ASSUME Tasks, NEW o \in Ops, NextRecord(o, mem[o])
  PROVE  /\ mem'[o].page = mem[o].page /\ mem'[o].last = mem[o].last /\ mem'[o].seen = mem[o].seen
         /\ mem'[o].todo = Tail(mem[o].todo) /\ pc'[o] = AfterRecord(mem[o])
<1>1. DOMAIN mem[o] = MemFields BY DEF Tasks
<1>2. mem'[o] = [mem[o] EXCEPT !.todo = Tail(@), !.det = Nothing, !.site = 0, !.chan = 0]
  BY HoldingFrame DEF NextRecord
<1>3. pc'[o] = AfterRecord(mem[o]) BY GoesFrame DEF NextRecord
<1>. QED BY <1>1, <1>2, <1>3 DEF MemFields

\* What is left of a sequence once its first record is taken.
LEMMA TailTakes ==
  ASSUME NEW R, NEW s \in Seq(R), s # <<>>
  PROVE  /\ Head(s) \in R /\ Tail(s) \in Seq(R)
         /\ Tail(s) = <<>> <=> ~(Len(s) > 1)
         /\ RecordsOf(Tail(s)) \subseteq RecordsOf(s)
         /\ Head(s) \in RecordsOf(s)
         /\ RecordsOf(s) \subseteq RecordsOf(Tail(s)) \cup {Head(s)}
<1>1. /\ Head(s) \in R /\ Tail(s) \in Seq(R) /\ Len(Tail(s)) = Len(s) - 1
      /\ \A i \in 1..Len(Tail(s)) : Tail(s)[i] = s[i + 1]
  BY HeadTailProperties
<1>2. Len(s) \in Nat \ {0} /\ DOMAIN s = 1..Len(s) BY EmptySeq, LenProperties
<1>3. Len(Tail(s)) \in Nat /\ DOMAIN Tail(s) = 1..Len(Tail(s)) BY <1>1, LenProperties
<1>4. Tail(s) = <<>> <=> Len(Tail(s)) = 0 BY <1>1, EmptySeq
<1>5. Tail(s) = <<>> <=> ~(Len(s) > 1) BY <1>1, <1>2, <1>4
<1>6. Head(s) = s[1] BY <1>1
<1>7. RecordsOf(Tail(s)) \subseteq RecordsOf(s) BY <1>1, <1>2, <1>3 DEF RecordsOf
<1>8. Head(s) \in RecordsOf(s) BY <1>2, <1>6 DEF RecordsOf
<1>9. ASSUME NEW i \in DOMAIN s, i # 1 PROVE s[i] \in RecordsOf(Tail(s))
  <2>1. PICK k : k = i - 1 OBVIOUS
  <2>2. k \in 1..Len(Tail(s)) /\ k + 1 = i BY <2>1, <1>1, <1>2, <1>9
  <2>3. Tail(s)[k] = s[i] BY <2>2, <1>1
  <2>. QED BY <2>2, <2>3, <1>3 DEF RecordsOf
<1>10. RecordsOf(s) \subseteq RecordsOf(Tail(s)) \cup {Head(s)} BY <1>6, <1>9 DEF RecordsOf
<1>. QED BY <1>1, <1>5, <1>7, <1>8, <1>10

LEMMA ReadingStep ==
  ASSUME SourcesFit, Basics, Reading, [Next]_vars
  PROVE  Reading'
<1>1. ASSUME NEW o \in Ops, Step(o) PROVE Reading'
  <2>1. Frame(o) /\ Tasks BY <1>1, StepFrame DEF Basics
  <2>2. source' = source BY <1>1, StepFootprint DEF Footprint
  <2>. DEFINE Reads(p) == /\ mem'[p].page \in Nat /\ mem'[p].todo \in Seq(AllRecords)
                          /\ mem'[p].todo = <<>> <=> pc'[p] \notin InRecord
                          /\ pc'[p] = "begin" => mem'[p] = Holds
  <2>3. ASSUME NEW p \in Ops \ {o}, task[p].what \in {"sync", "mark"} PROVE Reads(p)
    BY <2>1, <2>3 DEF Frame, Reading
  <2>4. ASSUME task[o].what \in {"sync", "mark"} PROVE Reads(o)
    <3>1. /\ mem[o].page \in Nat /\ mem[o].todo \in Seq(AllRecords)
          /\ mem[o].todo = <<>> <=> pc[o] \notin InRecord
      BY <2>4 DEF Reading
    <3>2. <<>> \in Seq(AllRecords) BY EmptySeq
    <3>3. CASE KeepsRead(o) /\ pc'[o] # "begin" /\ (pc[o] \in InRecord <=> pc'[o] \in InRecord)
      BY <3>1, <3>3 DEF KeepsRead
    <3>4. CASE mem'[o] = Holds /\ pc'[o] \in {"done", "panicked"}
      BY <3>2, <3>4 DEF Holds, InRecord
    <3>5. CASE ReadsBatch(o)
      <4>1. Batch(o) \in Seq(AllRecords) BY <2>4, BatchHolds
      <4>2. ReadPage(o) BY <3>5 DEF ReadsBatch
      <4>3. pc'[o] = IF Batch(o) = <<>> THEN AfterPages(o) ELSE IF task[o].what = "sync" THEN "upsert"
                     ELSE IF Last(o) THEN "existing" ELSE "page"
        BY <2>1, <4>2, ReadPageReads
      <4>4. /\ mem'[o].page = mem[o].page + 1
            /\ mem'[o].todo = IF task[o].what = "sync" THEN Batch(o) ELSE <<>>
        BY <3>5 DEF ReadsBatch
      <4>. QED BY <3>1, <3>2, <4>1, <4>3, <4>4, <2>4 DEF AfterPages, InRecord
    <3>6. CASE NextRecord(o, mem[o]) /\ task[o].what = "sync" /\ pc[o] \in InRecord
      <4>1. mem[o].todo # <<>> BY <3>1, <3>6
      <4>2. PICK s : s = mem[o].todo OBVIOUS
      <4>3. Tail(s) \in Seq(AllRecords) /\ (Tail(s) = <<>> <=> ~(Len(s) > 1))
        BY <3>1, <4>1, <4>2, TailTakes
      <4>4. mem'[o].page = mem[o].page /\ mem'[o].todo = Tail(s) /\ pc'[o] = AfterRecord(mem[o])
        BY <2>1, <3>6, <4>2, NextRecordTakes
      <4>. QED BY <3>1, <4>2, <4>3, <4>4 DEF AfterRecord, InRecord
    <3>. QED BY <1>1, <2>1, <2>4, <3>3, <3>4, <3>5, <3>6, ReadStep
  <2>. QED BY <2>1, <2>2, <2>3, <2>4 DEF Reading, Frame
<1>2. CASE SourceChanges BY <1>2 DEF SourceChanges, Reading
<1>3. CASE UNCHANGED vars BY <1>3 DEF vars, world, Reading
<1>. QED BY <1>1, <1>2, <1>3 DEF Next

LEMMA ReadingInit == Init => Reading
<1>. SUFFICES ASSUME Init PROVE Reading OBVIOUS
<1>1. source \in Sources /\ \A o \in Ops : mem[o] = Holds /\ pc[o] = FirstStep(task[o].what) BY DEF Init
<1>2. <<>> \in Seq(AllRecords) BY EmptySeq
<1>3. \A o \in Ops : task[o].what \in {"sync", "mark"} => pc[o] = "begin" BY <1>1 DEF FirstStep
<1>4. Holds.page = 0 /\ Holds.todo = <<>> BY DEF Holds
<1>5. ASSUME NEW o \in Ops, task[o].what \in {"sync", "mark"}
      PROVE  /\ mem[o].page \in Nat /\ mem[o].todo \in Seq(AllRecords)
             /\ mem[o].todo = <<>> <=> pc[o] \notin InRecord
             /\ pc[o] = "begin" => mem[o] = Holds
  <2>1. mem[o] = Holds /\ pc[o] = "begin" BY <1>1, <1>3, <1>5
  <2>a. mem[o].page = 0 /\ mem[o].todo = <<>> BY <1>4, <2>1
  <2>b. mem[o].page \in Nat BY ONLY <2>a
  <2>2. mem[o].page \in Nat /\ mem[o].todo \in Seq(AllRecords) BY ONLY <1>2, <2>a, <2>b
  <2>3. mem[o].todo = <<>> <=> pc[o] \notin InRecord BY <1>4, <2>1 DEF InRecord
  <2>. QED BY <2>1, <2>2, <2>3
<1>. QED BY <1>1, <1>5 DEF Reading

\* What ends a clean sync or marking, and what was settled by one.
CleanFrame(o) ==
  /\ \A p \in Ops \ {o} : clean'[p] => clean[p] /\ channels' = channels
  /\ clean'[o] => clean[o] \/ Begin(o)
  /\ reconciled' => (reconciled /\ channels' = channels) \/ Mark(o)
  /\ settled' => (settled /\ channels' = channels) \/ Finishes(o)

LEMMA CleanStep ==
  ASSUME Tasks, NEW o \in Ops, Step(o)
  PROVE  CleanFrame(o)
<1>0. DOMAIN clean = Ops BY DEF Tasks
<1>1. CASE Disturbs(o) BY <1>0, <1>1 DEF Disturbs, CleanFrame
<1>2. CASE channels' = channels /\ clean' = clean /\ settled' = settled /\ reconciled' = reconciled
  BY <1>2 DEF CleanFrame
<1>3. CASE Mark(o) BY <1>0, <1>3 DEF Mark, CleanFrame
<1>4. CASE Begin(o)
  <2>1. /\ channels' = channels /\ settled' = settled /\ reconciled' = reconciled
        /\ \A p \in Ops \ {o} : clean'[p] = clean[p]
    BY <1>4, <1>0 DEF Begin, tables
  <2>. QED BY <2>1, <1>4 DEF CleanFrame
<1>5. CASE Finishes(o) BY <1>5 DEF Finishes, Finish, CleanFrame
<1>6. WritesChannels(o) => Disturbs(o) \/ Mark(o) \/ (Undisturbed /\ channels' = channels)
  <2>1. CASE Upsert(o) BY <2>1 DEF Upsert
  <2>2. CASE ImportScan(o) BY <2>2 DEF ImportScan
  <2>3. CASE Adds(o) BY <2>3 DEF Adds, Add
  <2>4. CASE Meta(o) BY <2>4 DEF Meta
  <2>5. CASE Address(o) BY <2>5 DEF Address
  <2>6. CASE Put(o) BY <2>6 DEF Put
  <2>. QED BY <2>1, <2>2, <2>3, <2>4, <2>5, <2>6 DEF WritesChannels
<1>7. Who(o) \/ Known(o) =>
        channels' = channels /\ clean' = clean /\ settled' = settled /\ reconciled' = reconciled
  BY DEF Who, Known, Crowds, tables
<1>8. Undisturbed => clean' = clean /\ settled' = settled /\ reconciled' = reconciled BY DEF Undisturbed
<1>. QED BY <1>1, <1>2, <1>3, <1>4, <1>5, <1>6, <1>7, <1>8, StepFootprint DEF Footprint

-------------------------------------------------------------------------------
(* Marking what is gone *)

Ids == {source[i].id : i \in DOMAIN source}

\* What a marking that nothing came between has seen, and what it has read of the rows.
Marks(o) ==
  /\ pc[o] = "page" => \A i \in DOMAIN source : source[i].id \in mem[o].seen \/ Later(o, mem[o].page, i)
  /\ pc[o] \in {"page", "existing", "marks"} => mem[o].seen \subseteq Ids
  /\ pc[o] \in {"existing", "marks"} => Ids \subseteq mem[o].seen
  /\ pc[o] = "marks" => mem[o].rows = {c.sid : c \in {x \in channels : x.of = "instance"}}

MarkInv == MarksAreTrue /\ \A o \in Ops : task[o].what = "mark" /\ clean[o] => Marks(o)

\* The ids of the records of a batch are those of the source, and conversely.
LEMMA BatchIds ==
  ASSUME SourcesFit, Reading, NEW o \in Ops, task[o].what = "mark", NEW new,
         new = mem[o].seen \cup {Batch(o)[i].id : i \in DOMAIN Batch(o)},
         mem[o].seen \subseteq Ids,
         \A i \in DOMAIN source : source[i].id \in mem[o].seen \/ Later(o, mem[o].page, i)
  PROVE  /\ new \subseteq Ids
         /\ \A i \in DOMAIN source : source[i].id \in new \/ Later(o, mem[o].page + 1, i)
         /\ Last(o) \/ Batch(o) = <<>> => Ids \subseteq new
<1>1. {Batch(o)[i].id : i \in DOMAIN Batch(o)} \subseteq Ids
  <2>1. SUFFICES ASSUME NEW i \in DOMAIN Batch(o) PROVE Batch(o)[i].id \in Ids OBVIOUS
  <2>2. Batch(o)[i] \in RecordsOf(source) BY BatchHolds DEF RecordsOf
  <2>. QED BY <2>2 DEF RecordsOf, Ids
<1>2. ASSUME NEW i \in DOMAIN source PROVE source[i].id \in new \/ Later(o, mem[o].page + 1, i)
  <2>1. CASE source[i].id \in mem[o].seen BY <2>1
  <2>2. CASE Later(o, mem[o].page, i)
    <3>1. source[i] \in RecordsOf(Batch(o)) \/ Later(o, mem[o].page + 1, i) BY <2>2, BatchHolds
    <3>2. source[i] \in RecordsOf(Batch(o)) => source[i].id \in new BY DEF RecordsOf
    <3>. QED BY <3>1, <3>2
  <2>. QED BY <2>1, <2>2
<1>3. Last(o) => Ids \subseteq new
  <2>1. Last(o) => \A i \in DOMAIN source : ~Later(o, mem[o].page + 1, i) BY BatchHolds
  <2>. QED BY <1>2, <2>1 DEF Ids
<1>4. Batch(o) = <<>> => Ids \subseteq new
  <2>1. Batch(o) = <<>> => \A i \in DOMAIN source : ~Later(o, mem[o].page, i) BY BatchHolds
  <2>. QED BY <2>1 DEF Ids
<1>. QED BY <1>1, <1>2, <1>3, <1>4

LEMMA MarksStep ==
  ASSUME SourcesFit, Basics, Reading, MarkInv, NEW o \in Ops, Step(o),
         NEW p \in Ops, task[p].what = "mark", clean'[p]
  PROVE  Marks(p)'
<1>1. Frame(o) /\ Tasks BY StepFrame DEF Basics
<1>2. source' = source /\ task' = task BY <1>1, StepFootprint DEF Footprint, Frame
<1>l. \A n, i : Later(p, n, i)' <=> Later(p, n, i) BY <1>2 DEF Later
<1>i. Ids' = Ids BY <1>2 DEF Ids
<1>c. CleanFrame(o) BY <1>1, CleanStep
<1>3. ASSUME p # o \/ (channels' = channels /\ pc'[p] = pc[p] /\ mem'[p] = mem[p]), clean[p] PROVE Marks(p)'
  <2>1. Marks(p) BY <1>3 DEF MarkInv
  <2>2. channels' = channels /\ pc'[p] = pc[p] /\ mem'[p] = mem[p]
    BY <1>1, <1>3, <1>c DEF Frame, CleanFrame
  <2>. QED BY <1>2, <1>l, <1>i, <2>1, <2>2 DEF Marks
<1>4. CASE p # o
  <2>. clean[p] BY <1>4, <1>c DEF CleanFrame
  <2>. QED BY <1>3, <1>4
<1>5. CASE p = o
  <2>1. ASSUME pc'[p] \in {"done", "panicked"} PROVE Marks(p)' BY <2>1 DEF Marks
  <2>2. CASE Begin(o)
    <3>1. pc[o] = "begin" /\ mem' = mem BY <2>2 DEF Begin
    <3>2. mem[p] = Holds BY <1>5, <3>1 DEF Reading
    <3>3. Holds.page = 0 /\ Holds.seen = {} BY DEF Holds
    <3>4. mem'[p].page = 0 /\ mem'[p].seen = {} BY <3>1, <3>2, <3>3
    <3>5. \A i \in DOMAIN source : Later(p, 0, i)
      <4>1. source \in Sources BY DEF Reading
      <4>2. DOMAIN source = 1..Len(source) /\ Len(source) \in Nat BY <4>1, SourceRecords
      <4>3. 0 * PageSize = 0 BY InventoryAssumption
      <4>. QED BY <4>2, <4>3 DEF Later
    <3>6. pc'[p] \in {"page", "done"} BY <1>1, <1>5, <2>2, GoesFrame DEF Begin
    <3>. QED BY <1>2, <1>l, <3>4, <3>5, <3>6 DEF Marks
  <2>3. CASE ReadPage(o)
    <3>1. pc[o] = "page" BY <2>3, Guards
    <3>b. ~Begin(o) BY <3>1, Guards
    <3>2. clean[p] BY <1>5, <1>c, <3>b DEF CleanFrame
    <3>3. Marks(p) BY <3>2 DEF MarkInv
    <3>4. ReadsBatch(o) /\ pc'[o] = IF Batch(o) = <<>> THEN AfterPages(o) ELSE IF task[o].what = "sync" THEN "upsert"
                                    ELSE IF Last(o) THEN "existing" ELSE "page"
      BY <1>1, <2>3, ReadPageReads
    <3>5. /\ mem'[o].page = mem[o].page + 1
          /\ mem'[o].seen = mem[o].seen \cup {Batch(o)[i].id : i \in DOMAIN Batch(o)}
      BY <3>4 DEF ReadsBatch
    <3>6. pc'[o] = IF Batch(o) = <<>> \/ Last(o) THEN "existing" ELSE "page"
      BY <1>5, <3>4 DEF AfterPages
    <3>7. mem[o].seen \subseteq Ids
          /\ \A i \in DOMAIN source : source[i].id \in mem[o].seen \/ Later(o, mem[o].page, i)
      BY <1>5, <3>1, <3>3 DEF Marks
    <3>8. PICK new : new = mem[o].seen \cup {Batch(o)[i].id : i \in DOMAIN Batch(o)} OBVIOUS
    <3>9. /\ new \subseteq Ids
          /\ \A i \in DOMAIN source : source[i].id \in new \/ Later(o, mem[o].page + 1, i)
          /\ Last(o) \/ Batch(o) = <<>> => Ids \subseteq new
      BY <1>5, <3>7, <3>8, BatchIds
    <3>10. mem'[o].seen = new BY <3>5, <3>8
    <3>. QED BY <1>2, <1>5, <1>l, <1>i, <3>5, <3>6, <3>9, <3>10 DEF Marks
  <2>4. CASE ImportFails(o)
    <3>1. pc'[o] = AfterFailure(task[o]) BY <1>1, <2>4, GoesFrame DEF ImportFails
    <3>. QED BY <1>5, <2>1, <3>1 DEF AfterFailure
  <2>5. CASE ReadExisting(o)
    <3>1. pc[o] = "existing" BY <2>5, Guards
    <3>2. clean'[p] = clean[p] /\ channels' = channels BY <2>5 DEF ReadExisting, Undisturbed, tables
    <3>3. Marks(p) BY <3>2 DEF MarkInv
    <3>4. PICK r : r = {c.sid : c \in {x \in channels : x.of = "instance"}} OBVIOUS
    <3>5. Holding(o, [mem[o] EXCEPT !.rows = r]) BY <2>5, <3>4 DEF ReadExisting
    <3>6. mem'[o] = [mem[o] EXCEPT !.rows = r] /\ DOMAIN mem[o] = MemFields
      BY <1>1, <3>5, HoldingFrame DEF Tasks
    <3>7. mem'[o].rows = r /\ mem'[o].seen = mem[o].seen BY <3>6 DEF MemFields
    <3>8. pc'[o] = "marks" BY <1>1, <2>5, GoesFrame DEF ReadExisting
    <3>9. r = {c.sid : c \in {x \in channels' : x.of = "instance"}} BY <3>2, <3>4
    <3>. QED BY <1>5, <1>i, <3>1, <3>3, <3>7, <3>8, <3>9 DEF Marks
  <2>6. CASE Mark(o)
    <3>1. pc'[o] = "done" BY <1>1, <2>6, GoesFrame DEF Mark, Ends
    <3>. QED BY <1>5, <2>1, <3>1
  <2>. QED BY <1>1, <1>5, <2>2, <2>3, <2>4, <2>5, <2>6, Steps
<1>. QED BY <1>4, <1>5

\* A marking that nothing came between marks the rows it read by what it has seen.
LEMMA MarkingIsTrue ==
  ASSUME Basics, MarkInv, NEW o \in Ops, Mark(o), clean[o], source' = source
  PROVE  MarksAreTrue'
<1>1. pc[o] = "marks" BY Guards
<1>2. task[o].what = "mark"
  <2>1. pc[o] \in Pcs(task[o].what) /\ task[o].what \in Kinds BY TaskKinds DEF Basics, Tasks
  <2>. QED BY <1>1, <2>1 DEF Pcs, Kinds
<1>3. /\ mem[o].seen = Ids
      /\ mem[o].rows = {c.sid : c \in {x \in channels : x.of = "instance"}}
  BY <1>1, <1>2 DEF MarkInv, Marks
<1>4. channels' = {Marked(c, mem[o]) : c \in channels} BY DEF Mark
<1>5. SUFFICES ASSUME NEW x \in channels', x.of = "instance"
               PROVE  x.missing <=> x.sid \notin Ids
  <2>1. \A x \in channels' : x.of = "instance" => (x.missing <=> x.sid \notin Ids) BY <1>5
  <2>2. \A n : n \notin Ids <=> ~\E i \in DOMAIN source' : source'[i].id = n BY DEF Ids
  <2>. QED BY <2>1, <2>2 DEF MarksAreTrue
<1>6. PICK c \in channels : x = Marked(c, mem[o]) BY <1>4
<1>7. DOMAIN c = ChannelFields BY DEF Basics, Keys, Good
<1>8. x.of = c.of /\ x.sid = c.sid BY <1>6, <1>7 DEF Marked, ChannelFields
<1>9. c.sid \in mem[o].rows BY <1>3, <1>5, <1>8
<1>10. x.missing = (c.sid \notin mem[o].seen) BY <1>5, <1>6, <1>7, <1>8, <1>9 DEF Marked,
                                                 ChannelFields
<1>. QED BY <1>3, <1>8, <1>10

LEMMA MarkInvStep ==
  ASSUME SourcesFit, Basics, Reading, MarkInv, [Next]_vars
  PROVE  MarkInv'
<1>1. ASSUME NEW o \in Ops, Step(o) PROVE MarkInv'
  <2>1. source' = source /\ task' = task /\ CleanFrame(o) /\ Tasks
    BY <1>1, StepFootprint, StepFrame, CleanStep DEF Footprint, Frame, Basics
  <2>2. ASSUME NEW p \in Ops, task'[p].what = "mark", clean'[p] PROVE Marks(p)'
    BY <1>1, <2>1, <2>2, MarksStep
  <2>3. MarksAreTrue'
    <3>1. CASE ~reconciled' BY <3>1 DEF MarksAreTrue
    <3>2. CASE reconciled /\ channels' = channels BY <2>1, <3>2 DEF MarkInv, MarksAreTrue
    <3>3. CASE reconciled' /\ Mark(o)
      <4>1. clean[o] BY <3>3 DEF Mark
      <4>. QED BY <2>1, <3>3, <4>1, MarkingIsTrue
    <3>. QED BY <2>1, <3>1, <3>2, <3>3 DEF CleanFrame
  <2>. QED BY <2>2, <2>3 DEF MarkInv
<1>2. CASE SourceChanges BY <1>2 DEF SourceChanges, MarkInv, MarksAreTrue
<1>3. CASE UNCHANGED vars
  <2>1. UNCHANGED <<source, channels, task, pc, mem, clean, reconciled>>
    BY <1>3 DEF vars, world, tables, history
  <2>. QED BY <2>1 DEF MarkInv, MarksAreTrue, Marks, Ids, Later
<1>. QED BY <1>1, <1>2, <1>3 DEF Next

LEMMA MarkInvInit == Init => MarkInv
BY DEF Init, MarkInv, MarksAreTrue

\* After a marking that nothing came between, exactly the channels that the NewAPI no
\* longer lists are marked as missing (ReconcileMissingLocalNewAPIInstance), provided that
\* what it lists fits in the pages that are read.
THEOREM MarkingsAreTrue ==
  ASSUME SourcesFit
  PROVE  Spec => []MarksAreTrue
<1>1. Basics /\ Reading /\ [Next]_vars => Reading' BY ReadingStep
<1>2. Basics /\ Reading /\ MarkInv /\ [Next]_vars => MarkInv' BY MarkInvStep
<1>3. MarkInv => MarksAreTrue BY DEF MarkInv
<1>. QED BY <1>1, <1>2, <1>3, ReadingInit, MarkInvInit, AlwaysBasics, PTL DEF Spec

-------------------------------------------------------------------------------
(* Synchronising *)

UpToDate(r) == r.id # 0 => PreviewAction(r) \in {"skipped", "unchanged"}
FullSync(o) == task[o].what = "sync" /\ task[o].keys /\ ~task[o].detect

\* What a full sync that nothing came between has done, with what is still to come.
Syncs(o) ==
  /\ pc[o] # "scan"
  /\ pc[o] \in InRecord \cup {"page", "finish"} =>
       \A i \in DOMAIN source : \/ UpToDate(source[i])
                                \/ source[i] \in RecordsOf(mem[o].todo)
                                \/ pc[o] # "finish" /\ Later(o, mem[o].page, i)
  /\ pc[o] \in InRecord /\ mem[o].last => \A i \in DOMAIN source : ~Later(o, mem[o].page, i)
  /\ pc[o] \in InRecord => RecordsOf(mem[o].todo) \subseteq RecordsOf(source)
  /\ pc[o] \in {"find", "store"} => UpToDate(Head(mem[o].todo))

\* A channel of the NewAPI has one row, and fresh ids are not among theirs.
RowsFit(set, bound) ==
  SidsDistinct(set) /\ \A c \in set : c.of = "instance" => c.sid \in 0..(bound - 1)

SyncInv ==
  /\ SyncSettles
  /\ RowsFit(channels, next)
  /\ \A o \in Ops : FullSync(o) /\ clean[o] => Syncs(o)

LEMMA MappedFit ==
  ASSUME NEW set, NEW m \in Int, NEW n \in Int, m <= n, RowsFit(set, m), NEW f,
         \A x \in set : f[x].of = x.of /\ f[x].sid = x.sid
  PROVE  RowsFit({f[x] : x \in set}, n)
BY DEF RowsFit, SidsDistinct

LEMMA AddedFit ==
  ASSUME NEW set, NEW m \in Int, NEW n \in Int, m <= n, RowsFit(set, m), NEW y,
         y.of = "instance" => y.sid \in 0..(n - 1) /\ \A x \in set : x.of = "instance" => x.sid # y.sid
  PROVE  RowsFit(set \cup {y}, n)
BY DEF RowsFit, SidsDistinct

\* What Upsert writes: nothing, a new row, or the row there is.
Takes(r, y, keys) == y.of = "instance" /\ (keys => Same(y, r))
NewRow(o, r) ==
  /\ Imported(r) = {} /\ next' = next + 1
  /\ \E y : /\ channels' = channels \cup {y} /\ Takes(r, y, TRUE)
            /\ y.sid = IF r.id = 0 THEN next ELSE r.id
OldRow(o, r) ==
  /\ next' = next
  /\ \E c \in Imported(r) : \E y :
       /\ channels' = Replaced(channels, c.id, y) /\ Takes(r, y, task[o].keys)
       /\ y.id = c.id /\ y.sid = c.sid

LEMMA UpsertWrites ==
  ASSUME Basics, NEW o \in Ops, Upsert(o), NEW r, r = Head(mem[o].todo)
  PROVE  \/ Excluded(r.url) /\ channels' = channels /\ next' = next /\ NextRecord(o, mem[o])
         \/ NewRow(o, r)
         \/ OldRow(o, r)
<1>1. CASE Excluded(r.url) BY <1>1 DEF Upsert
<1>2. CASE ~Excluded(r.url) /\ Imported(r) = {}
  <2>1. PICK n : n = NewChannel(next, "instance", IF r.id = 0 THEN next ELSE r.id, r.url, r.kind) OBVIOUS
  <2>2. PICK y : y = Upserted(n, r, task[o].keys) OBVIOUS
  <2>3. channels' = channels \cup {y} /\ next' = next + 1 BY <1>2, <2>1, <2>2 DEF Upsert
  <2>4. /\ DOMAIN n = ChannelFields /\ n.of = "instance" /\ n.key = ""
        /\ n.sid = IF r.id = 0 THEN next ELSE r.id
    BY <2>1 DEF NewChannel, ChannelFields
  <2>5. /\ y.of = "instance" /\ y.sid = n.sid /\ y.url = r.url /\ y.state = r.state /\ y.kind = r.kind
        /\ y.key = IF task[o].keys /\ r.key # "" THEN r.key ELSE n.key
    BY <2>2, <2>4 DEF Upserted, ChannelFields
  <2>6. Same(y, r) BY <2>4, <2>5 DEF Same
  <2>. QED BY <1>2, <2>3, <2>4, <2>5, <2>6 DEF NewRow, Takes
<1>3. CASE ~Excluded(r.url) /\ Imported(r) # {}
  <2>1. PICK c : c = CHOOSE x \in Imported(r) : TRUE OBVIOUS
  <2>2. c \in Imported(r) /\ c \in channels /\ c.of = "instance" BY <1>3, <2>1 DEF Imported
  <2>3. Named1(channels, c.id) = c
    <3>1. Named1(channels, c.id) \in channels /\ Named1(channels, c.id).id = c.id BY <2>2 DEF Named1
    <3>. QED BY <2>2, <3>1 DEF Basics, Keys, Good, Distinct
  <2>4. PICK y : y = Upserted(c, r, task[o].keys) OBVIOUS
  <2>5. channels' = Replaced(channels, c.id, y) /\ next' = next BY <1>3, <2>1, <2>3, <2>4 DEF Upsert
  <2>6. DOMAIN c = ChannelFields BY <2>2 DEF Basics, Keys, Good
  <2>7. /\ y.of = c.of /\ y.id = c.id /\ y.sid = c.sid /\ y.url = r.url /\ y.state = r.state /\ y.kind = r.kind
        /\ y.key = IF task[o].keys /\ r.key # "" THEN r.key ELSE c.key
    BY <2>4, <2>6 DEF Upserted, ChannelFields
  <2>8. task[o].keys => Same(y, r) BY <2>7 DEF Same
  <2>. QED BY <2>2, <2>5, <2>7, <2>8 DEF OldRow, Takes
<1>. QED BY <1>1, <1>2, <1>3

\* The row that is replaced is the only one of its channel.
LEMMA OldRowFits ==
  ASSUME Basics, RowsFit(channels, next), NEW o \in Ops, NEW r, OldRow(o, r)
  PROVE  /\ RowsFit(channels', next')
         /\ task[o].keys => \A x \in channels' : x.of = "instance" /\ x.sid = r.id => Same(x, r)
         /\ \E x \in channels' : x.of = "instance" /\ x.sid = r.id
         /\ \A n : n # r.id => {x \in channels' : x.of = "instance" /\ x.sid = n}
                               = {x \in channels : x.of = "instance" /\ x.sid = n}
<1>c. PICK c \in Imported(r) : \E y : /\ channels' = Replaced(channels, c.id, y) /\ Takes(r, y, task[o].keys)
                                      /\ y.id = c.id /\ y.sid = c.sid
  BY DEF OldRow
<1>1. PICK y : /\ channels' = Replaced(channels, c.id, y) /\ Takes(r, y, task[o].keys)
               /\ y.id = c.id /\ y.sid = c.sid
  BY <1>c
<1>2. c \in channels /\ c.of = "instance" /\ c.sid = r.id BY DEF Imported
<1>3. next' = next /\ next \in Nat BY DEF OldRow, Basics, Keys
<1>4. channels' = {IF x.id = c.id THEN y ELSE x : x \in channels} BY <1>1 DEF Replaced
<1>5. \A x \in channels : x.id = c.id <=> x = c BY <1>2 DEF Basics, Keys, Good, Distinct
<1>6. \A x : x \in channels' <=> x = y \/ (x \in channels /\ x # c) BY <1>2, <1>4, <1>5
<1>7. y.of = "instance" /\ y.sid = r.id /\ (task[o].keys => Same(y, r)) BY <1>1, <1>2 DEF Takes
<1>8. \A x \in channels : x.of = "instance" /\ x.sid = r.id => x = c
  BY <1>2 DEF RowsFit, SidsDistinct
<1>9. RowsFit(channels', next')
  <2>1. \A x \in channels' : x.of = "instance" => x.sid \in 0..(next' - 1)
    BY <1>2, <1>3, <1>6, <1>7 DEF RowsFit
  <2>2. SidsDistinct(channels')
    <3>1. SUFFICES ASSUME NEW d \in channels', NEW e \in channels', d.of = "instance", e.of = "instance",
                          d.sid = e.sid
                   PROVE  d = e
      BY DEF SidsDistinct
    <3>2. CASE d = y BY <1>6, <1>7, <1>8, <3>1, <3>2
    <3>3. CASE e = y BY <1>6, <1>7, <1>8, <3>1, <3>3
    <3>4. CASE d # y /\ e # y BY <1>6, <3>1, <3>4 DEF RowsFit, SidsDistinct
    <3>. QED BY <3>2, <3>3, <3>4
  <2>. QED BY <2>1, <2>2 DEF RowsFit
<1>10. task[o].keys => \A x \in channels' : x.of = "instance" /\ x.sid = r.id => Same(x, r)
  BY <1>6, <1>7, <1>8
<1>11. \E x \in channels' : x.of = "instance" /\ x.sid = r.id BY <1>6, <1>7
<1>12. ASSUME NEW n, n # r.id
       PROVE  {x \in channels' : x.of = "instance" /\ x.sid = n}
              = {x \in channels : x.of = "instance" /\ x.sid = n}
  BY <1>2, <1>6, <1>7, <1>12
<1>. QED BY <1>9, <1>10, <1>11, <1>12

LEMMA NewRowFits ==
  ASSUME Basics, RowsFit(channels, next), NEW o \in Ops, NEW r, r.id \in 0..(FirstId - 1), NewRow(o, r)
  PROVE  /\ RowsFit(channels', next')
         /\ r.id # 0 => \A x \in channels' : x.of = "instance" /\ x.sid = r.id => Same(x, r)
         /\ r.id # 0 => \E x \in channels' : x.of = "instance" /\ x.sid = r.id
         /\ \A n \in 0..(FirstId - 1) : n # r.id =>
              {x \in channels' : x.of = "instance" /\ x.sid = n}
              = {x \in channels : x.of = "instance" /\ x.sid = n}
<1>1. PICK y : /\ channels' = channels \cup {y} /\ Takes(r, y, TRUE)
               /\ y.sid = IF r.id = 0 THEN next ELSE r.id
  BY DEF NewRow
<1>2. y.of = "instance" /\ Same(y, r) BY <1>1 DEF Takes
<1>3. next \in Nat /\ FirstId <= next /\ next' = next + 1 BY DEF NewRow, Basics, Keys
<1>4. \A x \in channels : x.of = "instance" => x.sid \in 0..(next - 1) BY DEF RowsFit
<1>5. r.id # 0 => \A x \in channels : x.of = "instance" => x.sid # r.id
  BY DEF NewRow, Imported
<1>6. y.sid \in 0..next BY <1>1, <1>3
<1>7. \A x \in channels : x.of = "instance" => x.sid # y.sid BY <1>1, <1>3, <1>4, <1>5
<1>8. RowsFit(channels', next') BY <1>1, <1>3, <1>6, <1>7, AddedFit
<1>9. r.id # 0 => \A x \in channels' : x.of = "instance" /\ x.sid = r.id => Same(x, r)
  BY <1>1, <1>2, <1>5
<1>10. r.id # 0 => \E x \in channels' : x.of = "instance" /\ x.sid = r.id BY <1>1, <1>2
<1>11. ASSUME NEW n \in 0..(FirstId - 1), n # r.id
       PROVE  {x \in channels' : x.of = "instance" /\ x.sid = n}
              = {x \in channels : x.of = "instance" /\ x.sid = n}
  <2>1. y.sid # n BY <1>1, <1>3, <1>11
  <2>. QED BY <1>1, <2>1
<1>. QED BY <1>8, <1>9, <1>10, <1>11

LEMMA UpToDateStays ==
  ASSUME NEW r, {x \in channels' : x.of = "instance" /\ x.sid = r.id}
                = {x \in channels : x.of = "instance" /\ x.sid = r.id},
         UpToDate(r)
  PROVE  UpToDate(r)'
<1>1. \A x : x \in channels' /\ x.of = "instance" /\ x.sid = r.id
             <=> x \in channels /\ x.of = "instance" /\ x.sid = r.id
  OBVIOUS
<1>. QED BY <1>1 DEF UpToDate, PreviewAction, Imported

\* Writing a record brings it up to date, and leaves the others as they were.
LEMMA UpsertSyncs ==
  ASSUME Basics, Reading, RowsFit(channels, next), NEW o \in Ops, Upsert(o), FullSync(o),
         NEW r \in RecordsOf(source), r = Head(mem[o].todo)
  PROVE  /\ RowsFit(channels', next')
         /\ UpToDate(r)'
         /\ \A q \in RecordsOf(source) : UpToDate(q) => UpToDate(q)'
<1>1. source \in Sources BY DEF Reading
<1>2. \A q \in RecordsOf(source) : q.id \in 0..(FirstId - 1) BY <1>1, SourceRecords DEF RecordsOf
<1>3. \A q \in RecordsOf(source) : q.id = r.id /\ q.id # 0 => q = r
  BY <1>1, SourceRecords DEF RecordsOf
<1>4. task[o].keys BY DEF FullSync
<1>5. CASE Excluded(r.url) /\ channels' = channels /\ next' = next
  <2>1. UpToDate(r)' BY <1>5 DEF UpToDate, PreviewAction, Excluded
  <2>2. \A q : UpToDate(q) => UpToDate(q)' BY <1>5, UpToDateStays
  <2>. QED BY <1>5, <2>1, <2>2
<1>6. ASSUME RowsFit(channels', next'),
             r.id # 0 => \A x \in channels' : x.of = "instance" /\ x.sid = r.id => Same(x, r),
             r.id # 0 => \E x \in channels' : x.of = "instance" /\ x.sid = r.id,
             \A n \in 0..(FirstId - 1) : n # r.id =>
               {x \in channels' : x.of = "instance" /\ x.sid = n}
               = {x \in channels : x.of = "instance" /\ x.sid = n}
      PROVE  UpToDate(r)' /\ \A q \in RecordsOf(source) : UpToDate(q) => UpToDate(q)'
  <2>1. UpToDate(r)' BY <1>6 DEF UpToDate, PreviewAction, Imported
  <2>2. ASSUME NEW q \in RecordsOf(source), UpToDate(q) PROVE UpToDate(q)'
    <3>1. CASE q.id = r.id /\ q.id # 0 BY <1>3, <2>1, <3>1
    <3>2. CASE q.id = 0 BY <3>2 DEF UpToDate
    <3>3. CASE q.id # r.id /\ q.id # 0
      <4>1. {x \in channels' : x.of = "instance" /\ x.sid = q.id}
            = {x \in channels : x.of = "instance" /\ x.sid = q.id}
        BY <1>2, <1>6, <3>3
      <4>. QED BY <2>2, <4>1, UpToDateStays
    <3>. QED BY <3>1, <3>2, <3>3
  <2>. QED BY <2>1, <2>2
<1>7. CASE NewRow(o, r)
  <2>1. r.id \in 0..(FirstId - 1) BY <1>2
  <2>. QED BY <1>6, <1>7, <2>1, NewRowFits
<1>8. CASE OldRow(o, r)
  BY <1>4, <1>6, <1>8, OldRowFits
<1>. QED BY <1>5, <1>7, <1>8, UpsertWrites

\* Every step leaves the channels of the NewAPI one row each.
LEMMA FitStep ==
  ASSUME Basics, Reading, RowsFit(channels, next), NEW o \in Ops, Step(o)
  PROVE  RowsFit(channels', next')
<1>n. next' \in Int /\ next \in Int /\ next <= next' BY NextStep DEF Basics, Keys
<1>s. CASE channels' = channels BY <1>n, <1>s DEF RowsFit, SidsDistinct
<1>1. CASE Upsert(o)
  <2>1. pc[o] = "upsert" /\ task[o].what = "sync"
    <3>1. pc[o] = "upsert" BY <1>1, Guards
    <3>. QED BY <3>1, TaskKinds DEF Basics, Tasks, Pcs, Kinds
  <2>2. mem[o].todo \in Seq(AllRecords) /\ mem[o].todo # <<>> BY <2>1 DEF Reading, InRecord
  <2>3. PICK r : r = Head(mem[o].todo) OBVIOUS
  <2>4. r \in AllRecords BY <2>2, <2>3, HeadTailProperties
  <2>5. r.id \in 0..(FirstId - 1)
    <3>1. PICK s \in Sources : r \in {s[i] : i \in DOMAIN s} BY <2>4 DEF AllRecords
    <3>. QED BY <3>1, SourceRecords
  <2>. QED BY <1>1, <1>s, <2>3, <2>5, UpsertWrites, NewRowFits, OldRowFits
<1>2. CASE ImportScan(o)
  <2>1. PICK d \in Detections[mem[o].base] :
          channels' = {IF c.id = mem[o].chan THEN [c EXCEPT !.url = mem[o].base, !.kind = d.kind] ELSE c : c \in channels}
    BY <1>2 DEF ImportScan
  <2>. DEFINE f == [c \in channels |-> IF c.id = mem[o].chan THEN [c EXCEPT !.url = mem[o].base, !.kind = d.kind] ELSE c]
  <2>2. channels' = {f[c] : c \in channels} BY <2>1
  <2>3. \A c \in channels : f[c].of = c.of /\ f[c].sid = c.sid BY DEF Basics, Keys, Good, ChannelFields
  <2>. HIDE DEF f
  <2>. QED BY <2>2, <2>3, <1>n, MappedFit
<1>3. CASE Mark(o)
  <2>. DEFINE f == [c \in channels |-> Marked(c, mem[o])]
  <2>1. channels' = {f[c] : c \in channels} BY <1>3 DEF Mark
  <2>2. \A c \in channels : f[c].of = c.of /\ f[c].sid = c.sid
    BY DEF Basics, Keys, Good, ChannelFields, Marked
  <2>. HIDE DEF f
  <2>. QED BY <2>1, <2>2, <1>n, MappedFit
<1>4. CASE Adds(o)
  <2>1. PICK y : y = NewChannel(next, "manual", next, mem[o].base, mem[o].det.kind) OBVIOUS
  <2>2. channels' = channels \cup {y} BY <1>4, <2>1 DEF Adds, Add
  <2>3. y.of = "manual" BY <2>1 DEF NewChannel
  <2>. QED BY <2>2, <2>3, <1>n, AddedFit
<1>5. CASE Meta(o)
  <2>. DEFINE k == task[o].prefer
              f == [c \in channels |-> IF c.id \in LinkedTo(mem[o].site) /\ k # "unknown" THEN [c EXCEPT !.kind = k] ELSE c]
  <2>1. channels' = {f[c] : c \in channels} BY <1>5 DEF Meta
  <2>2. \A c \in channels : f[c].of = c.of /\ f[c].sid = c.sid BY DEF Basics, Keys, Good, ChannelFields
  <2>. HIDE DEF f
  <2>. QED BY <2>1, <2>2, <1>n, MappedFit
<1>6. CASE Address(o)
  <2>. DEFINE f == [c \in channels |-> IF c.id \in LinkedTo(mem[o].from) THEN [c EXCEPT !.url = mem[o].base] ELSE c]
  <2>1. channels' = {f[c] : c \in channels} BY <1>6 DEF Address
  <2>2. \A c \in channels : f[c].of = c.of /\ f[c].sid = c.sid BY DEF Basics, Keys, Good, ChannelFields
  <2>. HIDE DEF f
  <2>. QED BY <2>1, <2>2, <1>n, MappedFit
<1>7. CASE Put(o)
  <2>1. PICK y : y = NewChannel(next, "legacy", next, mem[o].base, "unknown") OBVIOUS
  <2>2. channels' = channels \/ channels' = channels \cup {y} BY <1>7, <2>1 DEF Put
  <2>3. y.of = "legacy" BY <2>1 DEF NewChannel
  <2>. QED BY <1>s, <2>2, <2>3, <1>n, AddedFit
<1>. QED BY <1>s, <1>1, <1>2, <1>3, <1>4, <1>5, <1>6, <1>7, StepFootprint DEF Footprint,
            WritesChannels

\* The record that was taken is up to date, and the others are to come.
LEMMA NextSyncs ==
  ASSUME Basics, Reading, NEW o \in Ops, FullSync(o), Syncs(o), pc[o] \in InRecord,
         NextRecord(o, mem[o]), source' = source, task' = task,
         NEW r, r = Head(mem[o].todo), UpToDate(r)',
         \A q \in RecordsOf(source) : UpToDate(q) => UpToDate(q)'
  PROVE  Syncs(o)'
<1>1. mem[o].todo \in Seq(AllRecords) /\ mem[o].todo # <<>> BY DEF Reading, FullSync
<1>2. PICK s : s = mem[o].todo OBVIOUS
<1>3. /\ Tail(s) = <<>> <=> ~(Len(s) > 1)
      /\ RecordsOf(Tail(s)) \subseteq RecordsOf(s)
      /\ RecordsOf(s) \subseteq RecordsOf(Tail(s)) \cup {r}
  BY <1>1, <1>2, TailTakes
<1>4. /\ mem'[o].page = mem[o].page /\ mem'[o].last = mem[o].last
      /\ mem'[o].todo = Tail(s) /\ pc'[o] = AfterRecord(mem[o])
  BY <1>2, NextRecordTakes DEF Basics
<1>5. pc'[o] = IF Len(s) > 1 THEN "upsert" ELSE IF mem[o].last THEN "finish" ELSE "page"
  BY <1>2, <1>4 DEF AfterRecord
<1>l. \A n, i : Later(o, n, i)' <=> Later(o, n, i) BY DEF Later
<1>6. ASSUME NEW i \in DOMAIN source
      PROVE  UpToDate(source[i])' \/ source[i] \in RecordsOf(Tail(s)) \/ Later(o, mem[o].page, i)
  <2>1. PICK q : q = source[i] OBVIOUS
  <2>2. q \in RecordsOf(source) BY <2>1 DEF RecordsOf
  <2>3. UpToDate(q) \/ q \in RecordsOf(s) \/ Later(o, mem[o].page, i) BY <1>2, <2>1 DEF Syncs
  <2>4. UpToDate(q)' \/ q \in RecordsOf(Tail(s)) \/ Later(o, mem[o].page, i) BY <1>3, <2>2, <2>3
  <2>5. q' = q OBVIOUS
  <2>. QED BY <2>1, <2>4
<1>7. RecordsOf(s) \subseteq RecordsOf(source) BY <1>2 DEF Syncs
<1>8. mem[o].last => \A i \in DOMAIN source : ~Later(o, mem[o].page, i) BY DEF Syncs
<1>9. RecordsOf(mem[o].todo)' = RecordsOf(Tail(s)) /\ RecordsOf(source)' = RecordsOf(source)
  BY <1>4 DEF RecordsOf
<1>. QED BY <1>3, <1>4, <1>5, <1>6, <1>7, <1>8, <1>9, <1>l DEF Syncs, InRecord

\* A step that keeps what was read, and leaves no record behind.
LEMMA KeepSyncs ==
  ASSUME NEW o \in Ops, Syncs(o), pc[o] \in InRecord, pc'[o] \in {"find", "store"}, KeepsRead(o),
         source' = source, task' = task,
         NEW r, r = Head(mem[o].todo), UpToDate(r)',
         \A q \in RecordsOf(source) : UpToDate(q) => UpToDate(q)'
  PROVE  Syncs(o)'
<1>l. \A n, i : Later(o, n, i)' <=> Later(o, n, i) BY DEF Later
<1>1. mem'[o].page = mem[o].page /\ mem'[o].last = mem[o].last /\ mem'[o].todo = mem[o].todo
  BY DEF KeepsRead
<1>2. ASSUME NEW i \in DOMAIN source
      PROVE  UpToDate(source[i])' \/ source[i] \in RecordsOf(mem[o].todo) \/ Later(o, mem[o].page, i)
  <2>1. PICK q : q = source[i] OBVIOUS
  <2>2. q \in RecordsOf(source) BY <2>1 DEF RecordsOf
  <2>3. UpToDate(q) \/ q \in RecordsOf(mem[o].todo) \/ Later(o, mem[o].page, i) BY <2>1 DEF Syncs
  <2>. QED BY <2>1, <2>2, <2>3
<1>3. RecordsOf(mem[o].todo) \subseteq RecordsOf(source) BY DEF Syncs
<1>4. mem[o].last => \A i \in DOMAIN source : ~Later(o, mem[o].page, i) BY DEF Syncs
<1>5. RecordsOf(mem[o].todo)' = RecordsOf(mem[o].todo) /\ RecordsOf(source)' = RecordsOf(source)
  BY <1>1 DEF RecordsOf
<1>6. UpToDate(Head(mem[o].todo))' BY <1>1 DEF UpToDate, PreviewAction, Imported
<1>. QED BY <1>1, <1>2, <1>3, <1>4, <1>5, <1>6, <1>l DEF Syncs, InRecord

LEMMA SyncsStep ==
  ASSUME SourcesFit, Basics, Reading, SyncInv, NEW o \in Ops, Step(o), FullSync(o), clean'[o]
  PROVE  Syncs(o)'
<1>1. Frame(o) /\ Tasks BY StepFrame DEF Basics
<1>2. source' = source /\ task' = task BY <1>1, StepFootprint DEF Footprint, Frame
<1>l. \A n, i : Later(o, n, i)' <=> Later(o, n, i) BY <1>2 DEF Later
<1>c. CleanFrame(o) BY <1>1, CleanStep
<1>s. task[o].what = "sync" BY DEF FullSync
<1>p. pc[o] \in Pcs("sync") BY <1>1, <1>s DEF Tasks
<1>k. ASSUME pc[o] # "begin" PROVE Syncs(o)
  <2>1. ~Begin(o) BY <1>k, Guards
  <2>2. clean[o] BY <1>c, <2>1 DEF CleanFrame
  <2>. QED BY <2>2 DEF SyncInv
<1>u. \A q : channels' = channels /\ UpToDate(q) => UpToDate(q)' BY UpToDateStays
<1>h. ASSUME pc[o] \in InRecord
      PROVE  mem[o].todo \in Seq(AllRecords) /\ mem[o].todo # <<>> /\ Head(mem[o].todo) \in RecordsOf(source)
  <2>1. mem[o].todo \in Seq(AllRecords) /\ mem[o].todo # <<>> BY <1>h, <1>s DEF Reading
  <2>2. pc[o] # "begin" BY <1>h DEF InRecord
  <2>3. RecordsOf(mem[o].todo) \subseteq RecordsOf(source) BY <1>h, <1>k, <2>2 DEF Syncs
  <2>. QED BY <2>1, <2>3, TailTakes
<1>3. CASE Begin(o)
  <2>1. pc[o] = "begin" /\ mem' = mem BY <1>3 DEF Begin
  <2>2. mem[o] = Holds BY <1>s, <2>1 DEF Reading
  <2>3. mem'[o].page = 0 BY <2>1, <2>2 DEF Holds
  <2>4. \A i \in DOMAIN source : Later(o, 0, i)
    <3>1. source \in Sources BY DEF Reading
    <3>2. DOMAIN source = 1..Len(source) /\ Len(source) \in Nat BY <3>1, SourceRecords
    <3>3. 0 * PageSize = 0 BY InventoryAssumption
    <3>. QED BY <3>2, <3>3 DEF Later
  <2>5. pc'[o] \in {"page", "done"} BY <1>1, <1>3, GoesFrame DEF Begin
  <2>. QED BY <1>2, <1>l, <2>3, <2>4, <2>5 DEF Syncs, InRecord
<1>4. CASE ReadPage(o)
  <2>1. pc[o] = "page" BY <1>4, Guards
  <2>2. Syncs(o) BY <1>k, <2>1
  <2>3. ReadsBatch(o) /\ pc'[o] = IF Batch(o) = <<>> THEN AfterPages(o) ELSE IF task[o].what = "sync" THEN "upsert"
                                  ELSE IF Last(o) THEN "existing" ELSE "page"
    BY <1>1, <1>4, ReadPageReads
  <2>4. pc'[o] = IF Batch(o) = <<>> THEN "finish" ELSE "upsert" BY <1>s, <2>3 DEF AfterPages
  <2>5. mem'[o].page = mem[o].page + 1 /\ mem'[o].last = Last(o) /\ mem'[o].todo = Batch(o)
    BY <1>s, <2>3 DEF ReadsBatch
  <2>6. RecordsOf(mem[o].todo) = {}
    <3>1. mem[o].todo = <<>> BY <1>s, <2>1 DEF Reading, InRecord
    <3>2. DOMAIN <<>> = {} BY <3>1, EmptySeq, LenProperties
    <3>. QED BY <3>1, <3>2 DEF RecordsOf
  <2>7. channels' = channels BY <1>4 DEF ReadPage, tables
  <2>8. ASSUME NEW i \in DOMAIN source
        PROVE  /\ \/ UpToDate(source[i])' \/ source[i] \in RecordsOf(Batch(o))
                  \/ Later(o, mem[o].page + 1, i)
               /\ Batch(o) = <<>> => UpToDate(source[i])'
    <3>1. PICK q : q = source[i] OBVIOUS
    <3>2. UpToDate(q) \/ Later(o, mem[o].page, i) BY <2>1, <2>2, <2>6, <3>1 DEF Syncs
    <3>3. UpToDate(q) => UpToDate(source[i])' BY <1>2, <1>u, <2>7, <3>1
    <3>4. Later(o, mem[o].page, i) => source[i] \in RecordsOf(Batch(o)) \/ Later(o, mem[o].page + 1, i)
      BY <1>s, BatchHolds
    <3>5. Batch(o) = <<>> => ~Later(o, mem[o].page, i) BY <1>s, BatchHolds
    <3>. QED BY <3>2, <3>3, <3>4, <3>5
  <2>9. /\ Last(o) => \A i \in DOMAIN source : ~Later(o, mem[o].page + 1, i)
        /\ RecordsOf(Batch(o)) \subseteq RecordsOf(source)
    BY <1>s, BatchHolds
  <2>10. RecordsOf(mem[o].todo)' = RecordsOf(Batch(o)) /\ RecordsOf(source)' = RecordsOf(source)
    BY <1>2, <2>5 DEF RecordsOf
  <2>. QED BY <1>2, <1>l, <2>4, <2>5, <2>8, <2>9, <2>10 DEF Syncs, InRecord
<1>5. CASE ImportFails(o)
  <2>1. pc'[o] = AfterFailure(task[o]) BY <1>1, <1>5, GoesFrame DEF ImportFails
  <2>. QED BY <2>1 DEF Syncs, AfterFailure, InRecord
<1>6. CASE Upsert(o)
  <2>1. pc[o] = "upsert" BY <1>6, Guards
  <2>2. Syncs(o) BY <1>k, <2>1
  <2>3. PICK r : r = Head(mem[o].todo) OBVIOUS
  <2>4. r \in RecordsOf(source) BY <1>h, <2>1, <2>3 DEF InRecord
  <2>5. RowsFit(channels, next) BY DEF SyncInv
  <2>6. UpToDate(r)' /\ \A q \in RecordsOf(source) : UpToDate(q) => UpToDate(q)'
    BY <1>6, <2>3, <2>4, <2>5, UpsertSyncs
  <2>7. CASE NextRecord(o, mem[o]) BY <1>2, <2>1, <2>2, <2>3, <2>6, <2>7, NextSyncs DEF InRecord
  <2>8. CASE KeepsRead(o) /\ pc'[o] = "find" BY <1>2, <2>1, <2>2, <2>3, <2>6, <2>8,
                                                KeepSyncs DEF InRecord
  <2>9. NextRecord(o, mem[o]) \/ pc'[o] = "find"
    <3>1. ~task[o].detect BY DEF FullSync
    <3>2. \A step : Goes(o, step) => pc'[o] = step BY <1>1, GoesFrame
    <3>. QED BY <1>6, <3>1, <3>2 DEF Upsert
  <2>10. NextRecord(o, mem[o]) \/ KeepsRead(o)
    <3>1. ~ReadsBatch(o)
      <4>1. ~ReadPage(o) BY <2>1, Guards
      <4>. QED BY <4>1 DEF ReadsBatch
    <3>. QED BY <1>1, <1>s, <2>9, <3>1, ReadStep
  <2>. QED BY <2>7, <2>8, <2>9, <2>10
<1>7. CASE ImportScan(o)
  <2>1. pc[o] = "scan" BY <1>7, Guards
  <2>. QED BY <1>k, <2>1 DEF Syncs
<1>8. CASE Find(o) \/ Store(o)
  <2>1. pc[o] \in {"find", "store"} BY <1>8, Guards
  <2>2. Syncs(o) BY <1>k, <2>1
  <2>3. PICK r : r = Head(mem[o].todo) OBVIOUS
  <2>4. channels' = channels BY <1>8 DEF Find, Store, tables
  <2>5. UpToDate(r) BY <2>1, <2>2, <2>3 DEF Syncs
  <2>6. UpToDate(r)' /\ \A q \in RecordsOf(source) : UpToDate(q) => UpToDate(q)' BY <1>u, <2>4, <2>5
  <2>7. CASE NextRecord(o, mem[o]) BY <1>2, <2>1, <2>2, <2>3, <2>6, <2>7, NextSyncs DEF InRecord
  <2>8. CASE KeepsRead(o) /\ pc'[o] = "store" BY <1>2, <2>1, <2>2, <2>3, <2>6, <2>8,
                                                 KeepSyncs DEF InRecord
  <2>9. NextRecord(o, mem[o]) \/ pc'[o] = "store"
    <3>2. \A step : Goes(o, step) => pc'[o] = step BY <1>1, GoesFrame
    <3>3. Find(o) => NextRecord(o, mem[o]) \/ pc'[o] = "store" BY <3>2 DEF Find
    <3>4. Store(o) => NextRecord(o, mem[o]) BY DEF Store
    <3>. QED BY <1>8, <3>3, <3>4
  <2>10. NextRecord(o, mem[o]) \/ KeepsRead(o)
    <3>1. ~ReadsBatch(o)
      <4>1. ~ReadPage(o) BY <2>1, Guards
      <4>. QED BY <4>1 DEF ReadsBatch
    <3>. QED BY <1>1, <1>s, <2>9, <3>1, ReadStep
  <2>. QED BY <2>7, <2>8, <2>9, <2>10
<1>9. CASE Finishes(o)
  <2>1. pc'[o] = "done" BY <1>1, <1>9, GoesFrame DEF Finishes, Finish, Ends
  <2>. QED BY <2>1 DEF Syncs, InRecord
<1>. QED BY <1>1, <1>s, <1>3, <1>4, <1>5, <1>6, <1>7, <1>8, <1>9, Steps

\* A full sync that nothing came between ends with every record up to date.
LEMMA SettlesHolds ==
  ASSUME \A i \in DOMAIN source : UpToDate(source[i])
  PROVE  SyncSettles
BY DEF SyncSettles, UpToDate

LEMMA FinishSettles ==
  ASSUME Basics, Reading, SyncInv, NEW o \in Ops, Finishes(o), settled', source' = source
  PROVE  SyncSettles'
<1>1. channels' = channels /\ clean[o] /\ ~task[o].detect /\ task[o].keys BY DEF Finishes, Finish
<1>2. pc[o] = "finish" BY Guards
<1>3. task[o].what = "sync" BY <1>2, TaskKinds DEF Basics, Tasks, Pcs, Kinds
<1>4. Syncs(o) BY <1>1, <1>3 DEF SyncInv, FullSync
<1>5. RecordsOf(mem[o].todo) = {}
  <2>1. mem[o].todo = <<>> BY <1>2, <1>3 DEF Reading, InRecord
  <2>2. DOMAIN <<>> = {} BY EmptySeq, LenProperties
  <2>. QED BY <2>1, <2>2 DEF RecordsOf
<1>6. \A i \in DOMAIN source : UpToDate(source[i]) BY <1>2, <1>4, <1>5 DEF Syncs
<1>7. (\A i \in DOMAIN source : UpToDate(source[i]))'
  BY <1>1, <1>6 DEF UpToDate, PreviewAction, Imported, Excluded
<1>. QED BY <1>7, SettlesHolds, PTL

LEMMA SyncInvStep ==
  ASSUME SourcesFit, Basics, Reading, SyncInv, [Next]_vars
  PROVE  SyncInv'
<1>1. ASSUME NEW o \in Ops, Step(o) PROVE SyncInv'
  <2>1. source' = source /\ CleanFrame(o) /\ Frame(o)
    BY <1>1, StepFootprint, StepFrame, CleanStep DEF Footprint, Basics
  <2>2. RowsFit(channels, next)' BY <1>1, FitStep DEF SyncInv, RowsFit, SidsDistinct
  <2>3. ASSUME NEW p \in Ops, FullSync(p)', clean'[p] PROVE Syncs(p)'
    <3>1. FullSync(p) BY <2>1, <2>3 DEF FullSync, Frame
    <3>2. CASE p = o BY <1>1, <2>3, <3>1, <3>2, SyncsStep
    <3>3. CASE p # o
      <4>1. clean[p] /\ channels' = channels BY <2>1, <2>3, <3>3 DEF CleanFrame
      <4>2. Syncs(p) BY <3>1, <4>1 DEF SyncInv
      <4>3. task' = task /\ pc'[p] = pc[p] /\ mem'[p] = mem[p] BY <2>1, <3>3 DEF Frame
      <4>4. \A q : UpToDate(q)' <=> UpToDate(q)
        BY <4>1 DEF UpToDate, PreviewAction, Imported, Excluded
      <4>. QED BY <2>1, <4>2, <4>3, <4>4 DEF Syncs, RecordsOf, Later
    <3>. QED BY <3>2, <3>3
  <2>4. SyncSettles'
    <3>1. CASE ~settled' BY <3>1 DEF SyncSettles
    <3>2. CASE settled /\ channels' = channels
      BY <2>1, <3>2 DEF SyncInv, SyncSettles, PreviewAction, Imported, Excluded
    <3>3. CASE settled' /\ Finishes(o) BY <2>1, <3>3, FinishSettles
    <3>. QED BY <2>1, <3>1, <3>2, <3>3 DEF CleanFrame
  <2>. QED BY <2>2, <2>3, <2>4 DEF SyncInv
<1>2. CASE SourceChanges
  <2>1. channels' = channels /\ next' = next /\ ~settled' /\ \A o \in Ops : ~clean'[o]
    BY <1>2 DEF SourceChanges, tables
  <2>. QED BY <2>1 DEF SyncInv, SyncSettles, RowsFit, SidsDistinct
<1>3. CASE UNCHANGED vars
  <2>1. UNCHANGED <<source, channels, next, task, pc, mem, clean, settled>>
    BY <1>3 DEF vars, world, tables, history
  <2>2. \A q : UpToDate(q)' <=> UpToDate(q) BY <2>1 DEF UpToDate, PreviewAction, Imported, Excluded
  <2>3. SyncSettles' BY <2>1 DEF SyncInv, SyncSettles, PreviewAction, Imported, Excluded
  <2>4. RowsFit(channels, next)' BY <2>1 DEF SyncInv, RowsFit, SidsDistinct
  <2>5. ASSUME NEW p \in Ops, (FullSync(p) /\ clean[p])' PROVE Syncs(p)'
    <3>1. Syncs(p) BY <2>1, <2>5 DEF SyncInv, FullSync
    <3>. QED BY <2>1, <2>2, <3>1 DEF Syncs, RecordsOf, Later
  <2>. QED BY <2>3, <2>4, <2>5 DEF SyncInv
<1>. QED BY <1>1, <1>2, <1>3 DEF Next

LEMMA SyncInvInit == Init => SyncInv
<1>. SUFFICES ASSUME Init PROVE SyncInv OBVIOUS
<1>1. ~settled /\ next = FirstId /\ \A o \in Ops : ~clean[o] BY DEF Init
<1>2. PICK start \in Starts : channels = start.channels BY DEF Init
<1>3. SidsDistinct(channels) /\ \A c \in channels : c.sid \in 0..(FirstId - 1)
  BY <1>2, StartsAssumption
<1>. QED BY <1>1, <1>3 DEF SyncInv, SyncSettles, RowsFit

\* After a sync that took over all, and that nothing came between, the preview finds
\* nothing to do for any record with an id (BuildLocalNewAPISyncPreview,
\* importChannelRecordOutcome), provided that what the NewAPI lists fits in the pages that
\* are read: over pages, failed syncs before, rows that others edited, and other tasks.
THEOREM FullSyncsSettle ==
  ASSUME SourcesFit
  PROVE  Spec => []SyncSettles
<1>1. Basics /\ Reading /\ [Next]_vars => Reading' BY ReadingStep
<1>2. Basics /\ Reading /\ SyncInv /\ [Next]_vars => SyncInv' BY SyncInvStep
<1>3. SyncInv => SyncSettles BY DEF SyncInv
<1>. QED BY <1>1, <1>2, <1>3, ReadingInit, SyncInvInit, AlwaysBasics, PTL DEF Spec
===============================================================================
