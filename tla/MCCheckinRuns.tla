---------------------------- MODULE MCCheckinRuns ----------------------------
(* Small instances of CheckinRuns for TLC. *)
EXTENDS CheckinRuns, TLC

CONSTANTS a1, a2, s1, s2

\* One site, every account able to check in: the accounts are interchangeable.
MCOneSite == [a \in Accounts |-> s1]
MCReady == [a \in Accounts |-> "ready"]

\* Two sites, and the second account cannot check in at all.
MCTwoSites == (a1 :> s1) @@ (a2 :> s2)
MCMixed == (a1 :> "ready") @@ (a2 :> "unsupported")

MCSymmetry == Permutations(Accounts) \cup Permutations(Tasks) \cup Permutations(Previews)
===============================================================================
