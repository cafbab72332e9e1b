--------------------------- MODULE AccountCleanup ---------------------------
(***************************************************************************)
(* The deletion of accounts whose site has no check-in.  A request         *)
(* previews it: the candidates are frozen under a one-time id.  Another    *)
(* confirms it: the id is consumed, the frozen accounts are checked again  *)
(* and deleted in one transaction.  Both hold dbMu for reading, so that    *)
(* RebindDB, which a restore calls, waits for them.                        *)
(***************************************************************************)
EXTENDS DatabaseFiles, FiniteSets

CONSTANTS
  Requests,      \* previews and confirmations
  Previews,      \* ids of previews
  Cap,           \* maxPendingAccountCleanupPreviews
  Limit          \* accounts a preview may hold

ASSUME CleanupAssumption == Cap \in Nat /\ Limit \in Nat \ {0} /\ IsFiniteSet(Accounts)

VARIABLES
  cleanup,       \* AccountCleanupService.db
  store,         \* AccountCleanupService.previews
  issued,        \* ids given to clients
  pc,            \* where each request is
  held,          \* the preview it froze or claimed
  on,            \* the file its transaction is on
  clean          \* nobody else has committed there since it read

cleanupVars == <<cleanup, store, issued, pc, held, on, clean>>

\* items are accounts, file the data set they were read from.
Preview == [items : SUBSET Accounts, file : Files \cup {NoFile}]
NoPreview == [items |-> {}, file |-> NoFile]

CleanupType ==
  /\ cleanup \in Handles
  /\ store \in [Previews -> Preview]
  /\ issued \in SUBSET Previews
  /\ pc \in [Requests -> {"idle", "read", "claimed", "checked", "over"}]
  /\ held \in [Requests -> Preview]
  /\ on \in [Requests -> Files \cup {NoFile}]
  /\ clean \in [Requests -> BOOLEAN]

CleanupInit ==
  /\ cleanup = 0
  /\ store = [p \in Previews |-> NoPreview]
  /\ issued = {}
  /\ pc = [r \in Requests |-> "idle"]
  /\ held = [r \in Requests |-> NoPreview]
  /\ on = [r \in Requests |-> NoFile]
  /\ clean = [r \in Requests |-> FALSE]

Stored == {p \in Previews : store[p] # NoPreview}

\* Mutant: dbMu.RUnlock is not deferred.
Readers_Leaked == {r \in Requests : pc[r] # "idle"}

\* Requests that hold dbMu for reading.
Readers == {r \in Requests : pc[r] \in {"read", "claimed", "checked"}}

\* unsupportedCheckinEligibilitySQL, of the accounts in S.
Eligible(f, S) == {a \in S : rows[f][a] = "unsupported"}

\* The candidates a query with LIMIT returns: all, or any Limit of them.
Candidates(f) ==
  LET all == Eligible(f, Accounts)
  IN IF Cardinality(all) <= Limit
     THEN {all}
     ELSE {S \in SUBSET all : Cardinality(S) = Limit}

\* After a commit on f every other transaction that read f has an old snapshot.
Overtaken(f) == [r \in Requests |-> clean[r] /\ on[r] # f]

\* The request goes on; it lets go of its preview when it is over.
Go(r, to, preview) ==
  /\ pc' = [pc EXCEPT ![r] = to]
  /\ held' = [held EXCEPT ![r] = preview]

Leave(r) == Go(r, "over", NoPreview)

-------------------------------------------------------------------------------
(* Preview *)

\* The query of PreviewUnsupportedCheckinAccounts.  Without candidates no id is given.
LoadCandidates(r) ==
  /\ pc[r] = "idle"
  /\ \E f \in Reach(cleanup) : \E S \in Candidates(f) :
       /\ Connect(cleanup, f)
       /\ IF S = {} THEN Leave(r) ELSE Go(r, "read", [items |-> S, file |-> f])
  /\ UNCHANGED <<fileVars, handle, kept, open, cleanup, store, issued, on, clean>>

\* putPreview, and the answer; at the limit the request is refused.
Put(r) ==
  /\ pc[r] = "read"
  /\ IF Cardinality(Stored) >= Cap
     THEN UNCHANGED <<store, issued>>
     ELSE \E p \in Previews \ issued :
            /\ store' = [store EXCEPT ![p] = held[r]]
            /\ issued' = issued \cup {p}
  /\ Leave(r)
  /\ UNCHANGED <<fileVars, handleVars, cleanup, on, clean>>

\* accountCleanupPreviewTTL passes; the purge that precedes every use removes the entry.
Expire(p) ==
  /\ p \in Stored
  /\ store' = [store EXCEPT ![p] = NoPreview]
  /\ UNCHANGED <<fileVars, handleVars, cleanup, issued, pc, held, on, clean>>

-------------------------------------------------------------------------------
(* Confirmation *)

\* claimPreview, which forgets the preview.
Claim(r, p) ==
  /\ pc[r] = "idle" /\ p \in Stored
  /\ store' = [store EXCEPT ![p] = NoPreview]
  /\ Go(r, "claimed", store[p])
  /\ UNCHANGED <<fileVars, handleVars, cleanup, issued, on, clean>>

\* Mutant: it is enough that some are left.
AllEligible_Some(f, S) == Eligible(f, S) # {}

\* All of the frozen accounts are still candidates: sameUnsupportedCheckinAccounts
\* in the transaction, and the number of rows the DELETE affects.
AllEligible(f, S) == Eligible(f, S) = S

\* BeginTx and the query in it.
Recheck(r) ==
  /\ pc[r] = "claimed"
  /\ \E f \in Reach(cleanup) :
       /\ Connect(cleanup, f)
       /\ IF AllEligible(f, held[r].items)
          THEN /\ on' = [on EXCEPT ![r] = f]
               /\ clean' = [clean EXCEPT ![r] = TRUE]
               /\ Go(r, "checked", held[r])
          ELSE Leave(r) /\ UNCHANGED <<on, clean>>
  /\ UNCHANGED <<fileVars, handle, kept, open, cleanup, store, issued>>

\* The accounts the DELETE takes away.
Deleted(r) == Eligible(on[r], held[r].items)

\* The three DELETEs and the commit.  SQLite refuses the first when its snapshot is
\* old, and the transaction is rolled back.
Delete(r) ==
  /\ pc[r] = "checked"
  /\ IF clean[r] /\ AllEligible(on[r], held[r].items)
     THEN /\ rows' = [rows EXCEPT ![on[r]] =
                        [a \in Accounts |-> IF a \in Deleted(r) THEN "gone" ELSE @[a]]]
          /\ clean' = Overtaken(on[r])
     ELSE clean' = [clean EXCEPT ![r] = FALSE] /\ UNCHANGED rows
  /\ on' = [on EXCEPT ![r] = NoFile]
  /\ Leave(r)
  /\ UNCHANGED <<path, created, handleVars, cleanup, store, issued>>

\* A statement fails, the handle is closed, or the client is gone: deferred Rollback.
Fail(r) ==
  /\ r \in Readers
  /\ on' = [on EXCEPT ![r] = NoFile]
  /\ clean' = [clean EXCEPT ![r] = FALSE]
  /\ Leave(r)
  /\ UNCHANGED <<fileVars, handleVars, cleanup, store, issued>>

\* Mutant: the previews outlive the database they were read from.
RebindDB_KeepsPreviews ==
  /\ Readers = {}
  /\ cleanup' = handle
  /\ UNCHANGED <<store, issued, pc, held, on, clean>>

\* Mutant: dbMu is not taken for writing.
RebindDB_NoWait ==
  /\ cleanup' = handle
  /\ store' = [p \in Previews |-> NoPreview]
  /\ UNCHANGED <<issued, pc, held, on, clean>>

\* What reopenDatabase calls when it has the new handle.
RebindDB ==
  /\ Readers = {}
  /\ cleanup' = handle
  /\ store' = [p \in Previews |-> NoPreview]
  /\ UNCHANGED <<issued, pc, held, on, clean>>

\* What a request does once it has dbMu.
Advance(r) == Put(r) \/ Recheck(r) \/ Delete(r) \/ Fail(r)
=============================================================================
