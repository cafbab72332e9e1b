------------------------------- MODULE RunSlot -------------------------------
(***************************************************************************)
(* What CheckinRunStore promises to its callers, with every detail of the  *)
(* progress it publishes left out: one process-wide slot for batch         *)
(* check-ins.  A manual task, the scheduler and the run-all handler are    *)
(* all "workers"; begin takes the slot when nobody has it, finish gives it *)
(* back, and a process restart empties it.                                 *)
(***************************************************************************)
EXTENDS Naturals, FiniteSets

CONSTANT Workers       \* everyone who may run a batch of check-ins

VARIABLE holders       \* the workers between a successful begin and finish

Init == holders = {}

Acquire(w) == holders = {} /\ holders' = {w}

Release(w) == w \in holders /\ holders' = holders \ {w}

Reset == holders' = {}

Next == (\E w \in Workers : Acquire(w) \/ Release(w)) \/ Reset

Fairness == \A w \in Workers : WF_holders(Release(w))

Safety == Init /\ [][Next]_holders

Spec == Safety /\ Fairness
===============================================================================
