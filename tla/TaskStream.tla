----------------------------- MODULE TaskStream -----------------------------
(***************************************************************************)
(* One batch task of the TaskRunner and the streams that follow it.  The   *)
(* worker goroutine updates the progress under a lock and broadcasts a     *)
(* copy after releasing it; every stream is a request with a buffered      *)
(* channel of its own, fed without ever blocking the worker.               *)
(***************************************************************************)
EXTENDS Naturals, Sequences, FiniteSets

CONSTANTS
  Streams,       \* GET /api/tasks/{id}/stream requests
  Total,         \* items of the task
  Buffer,        \* capacity of a subscriber's channel
  MaxSubs,       \* maxSSESubscribers
  Nothing,       \* no event written yet
  Watched        \* the stream that ImplementsFeed speaks of: any of them

Progress == [status : {"running", "done", "cancelled"}, current : 0..Total]

ASSUME StreamAssumption ==
  /\ IsFiniteSet(Streams)
  /\ Total \in Nat /\ Buffer \in Nat \ {0} /\ MaxSubs \in Nat
  /\ Watched \in Streams /\ Nothing \notin Progress

VARIABLES
  entry,          \* the task in TaskRunner.tasks: "absent", "present", "gone"
  progress,       \* runningTask.progress
  done,           \* runningTask.done is closed
  ctxDone,        \* the task's context is cancelled
  worker,         \* where the task's goroutine is
  copy,           \* the copy of progress it is about to broadcast
  subs,           \* runningTask.subs
  chan,           \* the channels, by stream
  closed,         \* streams whose channel is closed
  count,          \* TaskRunner.sseSubscribers
  pc,             \* where each stream handler is
  last,           \* the last event each has written
  left            \* streams whose client has gone away

taskVars   == <<entry, progress, done, ctxDone, worker, copy>>
streamVars == <<subs, chan, closed, count, pc, last, left>>
vars == <<taskVars, streamVars>>

Final(p) == p.status # "running"

Init ==
  /\ entry = "absent"
  /\ progress = [status |-> "running", current |-> 0]
  /\ copy = progress
  /\ done = FALSE /\ ctxDone = FALSE
  /\ worker = "load"
  /\ subs = {} /\ closed = {} /\ count = 0
  /\ chan = [s \in Streams |-> <<>>]
  /\ pc = [s \in Streams |-> "idle"]
  /\ last = [s \in Streams |-> Nothing]
  /\ left = {}

-------------------------------------------------------------------------------
(* The worker *)

\* TaskRunner.start; the handler may have answered with the task's id before.
Start ==
  /\ worker = "load"
  /\ entry' = "present"
  /\ worker' = "loop"
  /\ UNCHANGED <<progress, done, ctxDone, copy, streamVars>>

ItemsLeft == progress.current < Total

\* The loop looks at the context before it takes the next item.
StartItem ==
  /\ worker = "loop" /\ ItemsLeft /\ ~ctxDone
  /\ worker' = "item"
  /\ UNCHANGED <<entry, progress, done, ctxDone, copy, streamVars>>

\* runningTask.update, up to the unlock; a cancellation does not stop the item in hand.
Update ==
  /\ worker = "item"
  /\ progress' = [progress EXCEPT !.current = @ + 1]
  /\ copy' = progress'
  /\ worker' = "broadcast"
  /\ UNCHANGED <<entry, done, ctxDone, streamVars>>

\* runningTask.finish, up to the unlock: all items are done, the context is
\* cancelled, or the jobs could not be loaded and none was tried.
Finish ==
  /\ worker = "loop"
  /\ \E final \in (IF progress.current = Total THEN {"done"} ELSE {})
                  \cup (IF ctxDone \/ progress.current = 0 THEN {"cancelled"} ELSE {}) :
       progress' = [progress EXCEPT !.status = final]
  /\ copy' = progress'
  /\ worker' = "last broadcast"
  /\ UNCHANGED <<entry, done, ctxDone, streamVars>>

\* Mutant: a full channel is no reason not to send.
Delivered_Always(ch) == Append(ch, copy)

\* A full channel loses the event.
Delivered(ch) == IF Len(ch) < Buffer THEN Append(ch, copy) ELSE ch

Broadcast ==
  /\ worker \in {"broadcast", "last broadcast"}
  /\ chan' = [s \in Streams |-> IF s \in subs THEN Delivered(chan[s]) ELSE chan[s]]
  /\ worker' = IF worker = "broadcast" THEN "loop" ELSE "close"
  /\ UNCHANGED <<entry, progress, done, ctxDone, copy, subs, closed, count,
                 pc, last, left>>

\* Mutant: the update of the final status is all that ends a task.
DoneAfterFinish_Open == done

DoneAfterFinish == TRUE

CloseDone ==
  /\ worker = "close"
  /\ done' = DoneAfterFinish
  /\ worker' = "over"
  /\ UNCHANGED <<entry, progress, ctxDone, copy, streamVars>>

\* POST /api/tasks/{id}/cancel, or the end of the process's context
Cancel ==
  /\ entry = "present" /\ ~ctxDone
  /\ ctxDone' = TRUE
  /\ UNCHANGED <<entry, progress, done, worker, copy, streamVars>>

\* taskCleanupTTL after done
Cleanup ==
  /\ done /\ entry = "present"
  /\ entry' = "gone"
  /\ UNCHANGED <<progress, done, ctxDone, worker, copy, streamVars>>

-------------------------------------------------------------------------------
(* A stream *)

Goto(s, step) == pc' = [pc EXCEPT ![s] = step]

\* Mutant: the handler subscribes before it takes the snapshot.
Order_SubscribeFirst == <<"subscribe", "snapshot", "select">>

\* The handler's steps between the lookup and the loop.
Order == <<"snapshot", "subscribe", "select">>

After(step) == LET i == CHOOSE k \in 1..2 : Order[k] = step IN Order[i + 1]

Admit(s) ==
  /\ pc[s] = "idle"
  /\ count' = count + 1
  /\ Goto(s, IF count + 1 > MaxSubs THEN "refuse" ELSE "lookup")
  /\ UNCHANGED <<taskVars, subs, chan, closed, last, left>>

\* 503
Refuse(s) ==
  /\ pc[s] = "refuse"
  /\ count' = count - 1
  /\ Goto(s, "over")
  /\ UNCHANGED <<taskVars, subs, chan, closed, last, left>>

Lookup(s) ==
  /\ pc[s] = "lookup"
  /\ Goto(s, IF entry = "present" THEN Order[1] ELSE "leave")
  /\ UNCHANGED <<taskVars, subs, chan, closed, count, last, left>>

Snapshot(s) ==
  /\ pc[s] = "snapshot"
  /\ last' = [last EXCEPT ![s] = progress]
  /\ Goto(s, After("snapshot"))
  /\ UNCHANGED <<taskVars, subs, chan, closed, count, left>>

Subscribe(s) ==
  /\ pc[s] = "subscribe"
  /\ subs' = subs \cup {s}
  /\ Goto(s, After("subscribe"))
  /\ UNCHANGED <<taskVars, chan, closed, count, last, left>>

AfterEvent(p) == IF Final(p) THEN "unsubscribe" ELSE "select"

Receive(s) ==
  /\ pc[s] = "select" /\ chan[s] # <<>>
  /\ last' = [last EXCEPT ![s] = Head(chan[s])]
  /\ chan' = [chan EXCEPT ![s] = Tail(@)]
  /\ Goto(s, AfterEvent(Head(chan[s])))
  /\ UNCHANGED <<taskVars, subs, closed, count, left>>

\* Mutant: done closes the stream without a last snapshot.
EventAtDone_None(s) == last[s]

EventAtDone(s) == progress

SeeDone(s) ==
  /\ pc[s] = "select" /\ done
  /\ last' = [last EXCEPT ![s] = EventAtDone(s)]
  /\ Goto(s, "unsubscribe")
  /\ UNCHANGED <<taskVars, subs, chan, closed, count, left>>

\* The request's context ends or a heartbeat cannot be written.
ClientLeaves(s) ==
  /\ pc[s] = "select"
  /\ left' = left \cup {s}
  /\ Goto(s, "unsubscribe")
  /\ UNCHANGED <<taskVars, subs, chan, closed, count, last>>

\* Mutant: the channel is closed but stays in the list.
SubsWithout_Kept(s) == subs

SubsWithout(s) == subs \ {s}

Unsubscribe(s) ==
  /\ pc[s] = "unsubscribe"
  /\ subs' = SubsWithout(s) /\ closed' = closed \cup {s}
  /\ Goto(s, "leave")
  /\ UNCHANGED <<taskVars, chan, count, last, left>>

\* The deferred decrement
Leave(s) ==
  /\ pc[s] = "leave"
  /\ count' = count - 1
  /\ Goto(s, "over")
  /\ UNCHANGED <<taskVars, subs, chan, closed, last, left>>

Worker == Start \/ StartItem \/ Update \/ Finish \/ Broadcast \/ CloseDone

Serve(s) ==
  \/ Refuse(s) \/ Lookup(s) \/ Snapshot(s) \/ Subscribe(s)
  \/ Receive(s) \/ SeeDone(s) \/ Unsubscribe(s) \/ Leave(s)

Next ==
  \/ Worker \/ Cancel \/ Cleanup
  \/ \E s \in Streams : Admit(s) \/ Serve(s) \/ ClientLeaves(s)

Spec == Init /\ [][Next]_vars

\* Goroutines are scheduled; each item of a task ends by its own timeout.
Fairness == WF_vars(Worker) /\ \A s \in Streams : WF_vars(Serve(s))

FairSpec == Spec /\ Fairness

-------------------------------------------------------------------------------
(* Properties *)

\* Every variable stays in its type.
TypeOK ==
  /\ entry \in {"absent", "present", "gone"}
  /\ progress \in Progress /\ copy \in Progress
  /\ done \in BOOLEAN /\ ctxDone \in BOOLEAN
  /\ worker \in {"load", "loop", "item", "broadcast", "last broadcast", "close", "over"}
  /\ subs \subseteq Streams /\ closed \subseteq Streams /\ left \subseteq Streams
  /\ chan \in [Streams -> Seq(Progress)]
  /\ count \in Nat
  /\ pc \in [Streams -> {"idle", "refuse", "lookup", "snapshot", "subscribe", "select",
                         "unsubscribe", "leave", "over"}]
  /\ last \in [Streams -> Progress \cup {Nothing}]

\* A broadcast never sends on a closed channel, which would panic, and a channel
\* never holds more than its capacity.
NoSendOnClosed == subs \cap closed = {} /\ \A s \in Streams : Len(chan[s]) <= Buffer

Admitted == {s \in Streams : pc[s] \in {"lookup", "snapshot", "subscribe", "select",
                                         "unsubscribe", "leave"}}

\* The counter is what it counts, so that the cap holds and never fills up with
\* requests that have ended: no path out of the handler forgets the decrement.
CapHolds ==
  /\ Cardinality(Admitted) <= MaxSubs
  /\ count = Cardinality(Admitted) + Cardinality({s \in Streams : pc[s] = "refuse"})

\* A stream the server closes has shown the final state, even when its channel was
\* full or the task ended between the snapshot and the subscription.
FinalStateShown ==
  \A s \in Streams :
    s \notin left /\ last[s] # Nothing /\ pc[s] \in {"unsubscribe", "leave", "over"}
      => last[s] = progress /\ Final(progress)

Feed == INSTANCE TaskFeed
          WITH seen <- last[Watched], open <- pc[Watched] \notin {"leave", "over"},
               gone <- Watched \in left

\* A stream implements TaskFeed: its client sees states of the task in order, whatever
\* the buffer drops and the other streams do, and is shown the end and let go.
ImplementsFeed == Feed!Spec
=============================================================================
