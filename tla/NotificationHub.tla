---------------------------- MODULE NotificationHub ----------------------------
(***************************************************************************)
(* The hub: saves of the configuration, reloads of it, the dispatch of     *)
(* notices to the channels, the digest loops and Close.  Reload and Close  *)
(* hold h.mu for a step only, and several may run at once; Dispatch reads  *)
(* the maps of the hub under no lock.                                      *)
(***************************************************************************)
EXTENDS NotificationChannels

CONSTANTS
  Notices,       \* notices, each dispatched at most once
  KindOf, LevelOf,  \* functions on Notices
  Reloads,       \* calls of Reload; positive integers, for each starts its own loops
  Configs,       \* what users save, secrets as typed
  Readable,      \* secrets that the data key decrypts
  QueueCap,      \* entries a digest channel buffers; 100 in the code
  Window, MaxTime \* the rate limits' window, and the bound of the clock

ASSUME HubAssumption ==
  /\ Configs \subseteq ChannelsConfig
  /\ Reloads \subseteq Nat \ {0}
  /\ QueueCap \in Nat \ {0} /\ Window \in Nat \ {0} /\ MaxTime \in Nat

VARIABLES
  stored,        \* notification.channels in system_settings
  config,        \* h.config
  digest,        \* h.digestChannels: name -> the reload that made the channel
  limiter,       \* h.channelRateLimits: name -> times of the sends allowed
  cancel,        \* h.digestCancel: the reload whose loops it stops, or 0
  stopped,       \* reloads whose loops were told to stop
  loops,         \* running digest loops: [made, name, ctx]
  queue, held,   \* of a digest channel <<made, name>>: buffered, and collected
  sends,         \* goroutines that send: [to, notices, left, ctx]; ctx 0 is h.sendCtx
  reached,       \* how often a channel acknowledged a notice
  rpc, draft,    \* of a reload: its next step; what it writes or has loaded
  todo,          \* of a notice: entries Dispatch has still to look at
  begun,         \* notices whose dispatch has begun
  closing,       \* Close: "no", "digests", "sends", "closed"
  missed,        \* history: reloads whose loops Close has no cancel function for
  crashed,       \* the runtime stopped the program
  clock

vars == <<stored, config, digest, limiter, cancel, stopped, loops, queue, held,
             sends, reached, rpc, draft, todo, begun, closing, missed, crashed, clock>>
mapVars == <<digest, limiter, cancel, loops>>
lifeVars == <<closing, missed, crashed, clock, begun>>
flowVars == <<queue, held, sends, reached>>

Names == UNION {{c.channels[i].name : i \in DOMAIN c.channels} : c \in Configs}
Boxes == Reloads \X Names
NoMap == [x \in {} |-> <<>>]

Init ==
  /\ stored = DefaultChannelsConfig /\ config = DefaultChannelsConfig
  /\ digest = NoMap /\ limiter = NoMap
  /\ cancel = 0 /\ stopped = {} /\ loops = {}
  /\ queue = [b \in Boxes |-> <<>>] /\ held = [b \in Boxes |-> <<>>]
  /\ sends = {} /\ reached = [x \in Names \X Notices |-> 0]
  /\ rpc = [r \in Reloads |-> "idle"]
  /\ draft = [r \in Reloads |-> DefaultChannelsConfig]
  /\ todo = [n \in Notices |-> <<>>] /\ begun = {}
  /\ closing = "no" /\ missed = {} /\ crashed = FALSE /\ clock = 0

TypeOK ==
  /\ DOMAIN digest \subseteq Names /\ DOMAIN limiter \subseteq Names
  /\ cancel \in Reloads \cup {0} /\ stopped \subseteq Reloads
  /\ loops \subseteq [made : Reloads, name : Names, ctx : Reloads]
  /\ \A b \in Boxes : Len(queue[b]) <= QueueCap
  /\ rpc \in [Reloads -> {"idle", "draft", "saved", "wait", "load", "fill", "filling", "done"}]
  /\ closing \in {"no", "digests", "sends", "closed"}
  /\ clock \in 0..MaxTime

\* Fill holds h.mu over its writes; the other critical sections are single steps.
Locked == \E r \in Reloads : rpc[r] = "filling"

-------------------------------------------------------------------------------
(* Saving the configuration, and Reload *)

\* A user saves c: what is stored is read outside the transaction and merged.
DraftSettings(r, c) ==
  /\ rpc[r] = "idle"
  /\ draft' = [draft EXCEPT ![r] = SavedConfig(c, stored)]
  /\ rpc' = [rpc EXCEPT ![r] = "draft"]
  /\ UNCHANGED <<stored, config, mapVars, flowVars, stopped, todo, lifeVars>>

CommitSettings(r) ==
  /\ rpc[r] = "draft"
  /\ stored' = draft[r]
  /\ rpc' = [rpc EXCEPT ![r] = "saved"]
  /\ UNCHANGED <<config, mapVars, flowVars, stopped, draft, todo, lifeVars>>

\* After a save, at start-up or after an import: new maps, and the running loops are
\* told to stop.
BeginReload(r) ==
  /\ rpc[r] \in {"idle", "saved"} /\ ~Locked
  /\ digest' = NoMap /\ limiter' = NoMap
  /\ cancel' = 0
  /\ stopped' = stopped \cup ({cancel} \ {0})
  /\ rpc' = [rpc EXCEPT ![r] = IF cancel # 0 THEN "wait" ELSE "load"]
  /\ UNCHANGED <<stored, config, loops, flowVars, draft, todo, lifeVars>>

\* h.digestWG.Wait(): until no loop runs, of whichever reload.
Waited(r) ==
  /\ rpc[r] = "wait" /\ loops = {}
  /\ rpc' = [rpc EXCEPT ![r] = "load"]
  /\ UNCHANGED <<stored, config, mapVars, flowVars, stopped, draft, todo, lifeVars>>

\* A configuration that cannot be read is the default one.
LoadConfig(r, ok) ==
  /\ rpc[r] = "load"
  /\ draft' = [draft EXCEPT ![r] =
                 IF ok THEN LoadedConfig(stored, Readable) ELSE DefaultChannelsConfig]
  /\ rpc' = [rpc EXCEPT ![r] = "fill"]
  /\ UNCHANGED <<stored, config, mapVars, flowVars, stopped, todo, lifeVars>>

Enabled(c) == {c.channels[i] : i \in {j \in DOMAIN c.channels : c.channels[j].enabled}}
DigestNames(c) == {e.name : e \in {x \in Enabled(c) : Digest(x) /\ Validate(x)}}
LimitedNames(c) == {e.name : e \in {x \in Enabled(c) : x.rate > 0}}

LockToFill(r) ==
  /\ rpc[r] = "fill" /\ ~Locked
  /\ rpc' = [rpc EXCEPT ![r] = "filling"]
  /\ UNCHANGED <<stored, config, mapVars, flowVars, stopped, draft, todo, lifeVars>>

\* The maps are filled, whatever is in them already; every channel that is in the map
\* then gets a loop, and cancel stops the loops of this reload only: the cancel function
\* of a reload that overlapped is overwritten, and a Close under way has taken another.
Fill(r) ==
  /\ rpc[r] = "filling"
  /\ config' = draft[r]
  /\ LET all == [n \in DOMAIN digest \cup DigestNames(draft[r]) |->
                   IF n \in DigestNames(draft[r]) THEN r ELSE digest[n]]
     IN /\ digest' = all
        /\ loops' = loops \cup {[made |-> all[n], name |-> n, ctx |-> r] : n \in DOMAIN all}
        /\ cancel' = IF DOMAIN all # {} THEN r ELSE cancel
        /\ missed' = IF DOMAIN all = {} THEN missed
                     ELSE missed \cup ({cancel} \ {0}) \cup {x \in {r} : closing # "no"}
  /\ limiter' = [n \in DOMAIN limiter \cup LimitedNames(draft[r]) |->
                   IF n \in LimitedNames(draft[r]) THEN <<>> ELSE limiter[n]]
  /\ rpc' = [rpc EXCEPT ![r] = "done"]
  /\ UNCHANGED <<stored, flowVars, stopped, draft, todo, closing, crashed, clock, begun>>

-------------------------------------------------------------------------------
(* Dispatch *)

\* The snapshot of h.config, under the lock; one that is off has nothing to send.
DispatchBegin(n) ==
  /\ n \notin begun /\ ~Locked
  /\ begun' = begun \cup {n}
  /\ todo' = [todo EXCEPT ![n] =
                IF config.enabled THEN config.channels ELSE <<>>]
  /\ UNCHANGED <<stored, config, mapVars, flowVars, stopped, rpc, draft, closing, missed, crashed, clock>>

\* A goroutine runs Send, which looks at the mode; a desktop channel sends nothing.
SendTo(e, n) ==
  sends \cup IF Builds(e) /\ e.type # "desktop" /\ LevelMatchesMode(e.mode, LevelOf[n])
             THEN {[to |-> e, notices |-> <<n>>, left |-> Retries(e), ctx |-> 0]} ELSE {}

\* A digest channel that is full drops the notice.
Queued(box, n) ==
  IF Len(queue[box]) < QueueCap THEN [queue EXCEPT ![box] = Append(@, n)] ELSE queue

\* The next entry of the snapshot.  Its limiter and its digest channel are looked up in
\* the maps of the moment: an entry whose limiter is gone is skipped, one whose digest
\* channel is gone is sent at once.
DispatchTo(n) ==
  /\ todo[n] # <<>> /\ ~crashed
  /\ todo' = [todo EXCEPT ![n] = Tail(@)]
  /\ LET e == Head(todo[n])
         limited == e.rate > 0
         allowed == e.name \in DOMAIN limiter /\ Allows(limiter[e.name], clock, Window, e.rate)
         wanted == /\ e.enabled /\ ShouldSendToChannel(e, KindOf[n], LevelOf[n])
                   /\ limited => allowed
         queued == wanted /\ Digest(e) /\ e.name \in DOMAIN digest
     IN /\ limiter' = IF wanted /\ limited
                      THEN [limiter EXCEPT ![e.name] = Append(Recent(@, clock, Window), clock)]
                      ELSE limiter
        /\ queue' = IF queued THEN Queued(<<digest[e.name], e.name>>, n) ELSE queue
        /\ sends' = IF wanted /\ ~queued THEN SendTo(e, n) ELSE sends
  /\ UNCHANGED <<stored, config, digest, cancel, stopped, loops, held, reached, rpc, draft,
                 lifeVars>>

\* The lookup runs while Fill writes the maps: the runtime may stop the program.
DispatchRace(n) ==
  /\ todo[n] # <<>> /\ ~crashed
  /\ LET e == Head(todo[n])
     IN /\ e.enabled /\ ShouldSendToChannel(e, KindOf[n], LevelOf[n])
        /\ \E r \in Reloads :
             /\ rpc[r] = "filling"
             /\ \/ e.rate > 0 /\ LimitedNames(draft[r]) # {}
                \/ Digest(e) /\ DigestNames(draft[r]) # {}
  /\ crashed' = TRUE
  /\ UNCHANGED <<stored, config, mapVars, flowVars, stopped, rpc, draft, todo,
                 closing, missed, clock, begun>>

\* How a request of a webhook can end, the URL check and the retries included.
WebhookResults(left) == {"ok", "refused", "failed"} \cup IF left > 0 THEN {"again"} ELSE {}

\* A digest, and a telegram or ServerChan message: one request.
DigestResults == {"ok", "failed"}
MessageResults == {"ok", "failed"}

\* A Bark message: its URL is checked first.
BarkResults == {"ok", "refused", "failed"}

\* A mail may have been accepted though Quit fails.
MailResults == {"ok", "noQuit", "failed"}

Mail(s) == s.to.type = "email"

Results(s) ==
  CASE s.ctx # 0 -> DigestResults
    [] s.to.type = "webhook" -> WebhookResults(s.left)
    [] s.to.type = "bark" -> BarkResults
    [] Mail(s) -> MailResults
    [] OTHER -> MessageResults

\* An attempt of a send ends.  One whose context was cancelled fails, and is the last;
\* a mail has no context.
Attempt(s, result) ==
  /\ s \in sends /\ result \in Results(s)
  /\ /\ ~Mail(s)
     /\ IF s.ctx = 0 THEN closing = "sends" ELSE s.ctx \in stopped
     => result = "failed"
  /\ sends' = (sends \ {s}) \cup IF result = "again" THEN {[s EXCEPT !.left = @ - 1]} ELSE {}
  /\ reached' = [x \in DOMAIN reached |->
                   IF /\ result \in {"ok", "noQuit"}
                      /\ x[1] = s.to.name /\ x[2] \in {s.notices[i] : i \in DOMAIN s.notices}
                   THEN reached[x] + 1 ELSE reached[x]]
  /\ UNCHANGED <<stored, config, mapVars, stopped, queue, held, rpc, draft, todo, lifeVars>>

-------------------------------------------------------------------------------
(* Digest loops *)

Box(l) == <<l.made, l.name>>

\* The entry of the configuration that the channel was made from.
Entry(l) == CHOOSE e \in Enabled(draft[l.made]) : e.name = l.name /\ Digest(e)

LoopCollects(l) ==
  /\ l \in loops /\ queue[Box(l)] # <<>>
  /\ held' = [held EXCEPT ![Box(l)] = Append(@, Head(queue[Box(l)]))]
  /\ queue' = [queue EXCEPT ![Box(l)] = Tail(@)]
  /\ UNCHANGED <<stored, config, mapVars, stopped, sends, reached, rpc, draft, todo, lifeVars>>

\* Mutant: the entries stay for the next tick.
Taken_Kept(l) == held

Taken(l) == [held EXCEPT ![Box(l)] = <<>>]

\* The ticker: what was collected is sent in one request, in a goroutine nobody waits for.
LoopTicks(l) ==
  /\ l \in loops /\ held[Box(l)] # <<>>
  /\ held' = Taken(l)
  /\ sends' = sends \cup {[to |-> Entry(l), notices |-> held[Box(l)], left |-> 0, ctx |-> l.ctx]}
  /\ UNCHANGED <<stored, config, mapVars, stopped, queue, reached, rpc, draft, todo, lifeVars>>

\* What was collected and not yet sent is left where it is.
LoopStops(l) ==
  /\ l \in loops /\ l.ctx \in stopped
  /\ loops' = loops \ {l}
  /\ UNCHANGED <<stored, config, digest, limiter, cancel, flowVars, stopped, rpc, draft, todo,
                 lifeVars>>

-------------------------------------------------------------------------------
(* Close *)

\* Mutant: the loops are not told to stop.
StoppedByClose_None == stopped

StoppedByClose == stopped \cup ({cancel} \ {0})

BeginClose ==
  /\ closing = "no" /\ ~Locked
  /\ stopped' = StoppedByClose
  /\ cancel' = 0
  /\ closing' = IF cancel # 0 THEN "digests" ELSE "sends"
  /\ UNCHANGED <<stored, config, digest, limiter, loops, flowVars, rpc, draft, todo, missed, crashed, clock, begun>>

\* h.digestWG.Wait(), then sendCancel().
CloseDigests ==
  /\ closing = "digests" /\ loops = {}
  /\ closing' = "sends"
  /\ UNCHANGED <<stored, config, mapVars, flowVars, stopped, rpc, draft, todo, missed, crashed, clock, begun>>

\* h.sendWG.Wait().
CloseSends ==
  /\ closing = "sends" /\ \A s \in sends : s.ctx # 0
  /\ closing' = "closed"
  /\ UNCHANGED <<stored, config, mapVars, flowVars, stopped, rpc, draft, todo, missed, crashed, clock, begun>>

Tick ==
  /\ clock < MaxTime
  /\ clock' = clock + 1
  /\ UNCHANGED <<stored, config, mapVars, flowVars, stopped, rpc, draft, todo, closing, missed, crashed, begun>>

-------------------------------------------------------------------------------
Reloading(r) ==
  \/ \E c \in Configs : DraftSettings(r, c)
  \/ CommitSettings(r) \/ BeginReload(r) \/ Waited(r)
  \/ \E ok \in BOOLEAN : LoadConfig(r, ok)
  \/ LockToFill(r) \/ Fill(r)

Looping(l) == LoopCollects(l) \/ LoopTicks(l) \/ LoopStops(l)

Closing == BeginClose \/ CloseDigests \/ CloseSends

Next ==
  /\ ~crashed
  /\ \/ \E r \in Reloads : Reloading(r)
     \/ \E n \in Notices : DispatchBegin(n) \/ DispatchTo(n) \/ DispatchRace(n)
     \/ \E s \in sends : \E result \in Results(s) : Attempt(s, result)
     \/ \E l \in loops : Looping(l)
     \/ Closing \/ Tick

\* Goroutines run, and a request ends: its context is cancelled or it has a timeout.
\* Nothing obliges a mail to end, for tls.Dial and smtp.SendMail take neither.
Fairness ==
  /\ \A r \in Reloads : WF_vars(~crashed /\ (BeginReload(r) \/ Waited(r) \/ LoadConfig(r, TRUE) \/ LockToFill(r) \/ Fill(r))
       /\ rpc[r] # "idle")
  /\ \A r \in Reloads, n \in Names, c \in Reloads :
       WF_vars(~crashed /\ LoopStops([made |-> r, name |-> n, ctx |-> c]))
  /\ WF_vars(~crashed /\ \E s \in sends : /\ ~Mail(s)
                                       /\ \E result \in Results(s) : Attempt(s, result))
  /\ WF_vars(~crashed /\ (CloseDigests \/ CloseSends))

Spec == Init /\ [][Next]_vars /\ Fairness

-------------------------------------------------------------------------------
(* Properties *)

\* A channel with a name of its own acknowledges a notice at most once, over reloads that
\* overlap, two loops on one digest channel, and failed attempts (StartDigestLoop, Reload).
DeliveredOnce == \A x \in DOMAIN reached : reached[x] <= 1

\* Saving the settings page as it was shown, secrets redacted, changes nothing the hub
\* uses: neither a lost secret nor one encrypted twice (handleUpdateSystemSettings).
RedactedSaveKeepsSecrets ==
  \A c \in Configs :
    LET saved == SavedConfig(c, stored)
    IN LoadedConfig(SavedConfig(ShownConfig(saved), saved), Readable) = LoadedConfig(saved, Readable)

\* Once Close has begun it returns, however reloads overlap with it and with each other,
\* unless one of two things holds it up: a digest loop that it has no cancel function for,
\* or a mail under way.  No other loop, send or retry does (Close, StartDigestLoop, Send).
CloseReturns ==
  closing # "no" ~>
    \/ closing = "closed" \/ crashed
    \/ closing = "digests" /\ \E l \in loops : l.ctx \in missed
    \/ closing = "sends" /\ \E s \in sends : s.ctx = 0 /\ Mail(s)

===============================================================================
