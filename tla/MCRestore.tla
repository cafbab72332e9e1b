------------------------------ MODULE MCRestore ------------------------------
(* Small instances of Restore for TLC. *)
EXTENDS Restore

\* The image a stale preview would do most harm to.
MCImages == {[a \in Accounts |-> "unsupported"]}
=============================================================================
