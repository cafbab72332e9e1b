------------------------------ MODULE TaskFeed ------------------------------
(***************************************************************************)
(* What /api/tasks/{id}/stream promises one client, with the channels and  *)
(* the fan-out left out: the client sees states the task has been in, in   *)
(* their order and possibly not all of them, and nothing after the final   *)
(* one; a stream that has begun is closed after the final state, or when   *)
(* its client is gone.                                                     *)
(***************************************************************************)
EXTENDS Naturals

CONSTANTS Total,     \* items of the task
          Nothing    \* the client has seen nothing

VARIABLES progress,  \* the task: status and number of items done
          seen,      \* the last state the client was shown
          open,      \* is the client still being served?
          gone       \* has the client gone away by itself?

feed == <<progress, seen, open, gone>>

Final(p) == p.status # "running"

Init ==
  /\ progress = [status |-> "running", current |-> 0]
  /\ seen = Nothing /\ open = TRUE /\ gone = FALSE

\* One item is done.
Item ==
  /\ ~Final(progress) /\ progress.current < Total
  /\ progress' = [progress EXCEPT !.current = @ + 1]
  /\ UNCHANGED <<seen, open, gone>>

End ==
  /\ ~Final(progress)
  /\ \E s \in {"done", "cancelled"} : progress' = [progress EXCEPT !.status = s]
  /\ UNCHANGED <<seen, open, gone>>

\* A state the task has been in, not older than the last one shown.
Shown ==
  {p \in [status : {"running"}, current : 0..progress.current] :
     seen # Nothing => p.current >= seen.current}
  \cup (IF Final(progress) THEN {progress} ELSE {})

See ==
  /\ open /\ (seen # Nothing => ~Final(seen))
  /\ seen' \in Shown
  /\ UNCHANGED <<progress, open, gone>>

\* The client has been shown the end.
Complete == seen # Nothing /\ Final(seen)

Go == ~gone /\ gone' = TRUE /\ UNCHANGED <<progress, seen, open>>

\* The stream closes because it was never begun, because it is complete, or
\* because its client is gone.
Close ==
  /\ open /\ (seen = Nothing \/ Complete \/ gone)
  /\ open' = FALSE
  /\ UNCHANGED <<progress, seen, gone>>

Next == Item \/ End \/ See \/ Go \/ Close

\* A client that has been shown something is shown the end.
Conclude == seen # Nothing /\ Final(progress) /\ See /\ seen' = progress

\* The stream of a client who has seen the end, or is gone, is closed.
CloseEnded == Close /\ (Complete \/ gone)

Fairness == WF_feed(Conclude) /\ WF_feed(CloseEnded)

Safety == Init /\ [][Next]_feed

Spec == Safety /\ Fairness
=============================================================================
