--------------------------------- MODULE Catalog ---------------------------------
(***************************************************************************)
(* Channels, the models and prices they offer, and the lists that show     *)
(* them: batches that sync models, a sync of prices, the health probe, the *)
(* user's changes of a channel, sites made and deleted, and reads through  *)
(* a cache that runs its queries one by one and stores what they gave.     *)
(***************************************************************************)
EXTENDS ModelCatalog

CONSTANTS
  Channels, Bases, BaseOf,   \* the base URL of each channel; sites have one each
  Manual,                    \* channels that a site made by hand gets for its own
  Raw, Keyed,                \* the raw JSON of each channel, and those with a key
  Answers, Pricings,         \* what /v1/models and /api/pricing may say
  Records,                   \* the accounts with a key, of the first site of a base URL
  Starts,                    \* the rows of channels to begin with
  Batches, Loaders,
  Limit,                     \* rows a batch takes
  MaxRequests, MaxFaults     \* bounds on requests and failed writes

ASSUME CatalogAssumption ==
  /\ IsFiniteSet(Channels) /\ BaseOf \in [Channels -> Bases] /\ Keyed \subseteq Channels
  /\ Manual \subseteq Channels \ Keyed /\ Channels \cap (Batches \cup {"probe"}) = {}
  /\ Limit \in Nat \ {0} /\ MaxRequests \in Nat /\ MaxFaults \in Nat

VARIABLES
  channels,   \* rows of imported_channels: [state, since, kind, models]
  synced,     \* the channels whose models were synced, by models_last_synced_at, and
              \* the batches and the probe that are syncing one, by the time they took
  sites,      \* rows of upstream_sites: [health, channel]
  updated,    \* the sites, the last updated first
  checked,    \* the sites whose health was checked, the longest ago first
  prices,     \* rows of site_pricing_cache: [status, sources] of a site
  cache,      \* the read cache: the value of a key
  loads,      \* of a loader: what it loads and what its queries gave
  batches,    \* of a batch: the channels it has still to sync
  pricing,    \* the sites whose prices are still to sync
  probe,      \* what the health probe has still to do
  detecting,  \* channels detected, with the kind found, whose site is to be ensured
  clearing,   \* what changed and is not yet cleared from the cache
  requests, faults,
  deleted,    \* sites deleted
  late,       \* history: of a key, what changed unseen by the load that stored it
  saved,      \* history: of a sync in progress, the channels saved since it began
  passed      \* history: of a channel, those whose last sync began after its own was saved

tables == <<channels, synced, sites, updated, checked, prices>>
tasks == <<batches, pricing, probe, detecting>>
history == <<deleted, saved, passed>>
reading == <<cache, loads, late>>
catalog == <<tables, reading, tasks, clearing, requests, faults, history>>

\* Sites and channels, as the history names them.
Id(b, n) == <<b, n>>
Chan(c) == Id(c, 0)

Workers == Batches \cup {"probe"}

Managed == {"newapi"}   \* one kind stands for newapi, oneapi, sub2api and modified_relay
NotMissing == 0         \* no source_missing_at; a time is the number of the request
Never == [status |-> "unchecked", models |-> {}]
NoProbe == [on |-> FALSE, sites |-> <<>>, channels |-> <<>>]
Idle == [key |-> NoText, at |-> 0, got |-> <<>>, late |-> {}]
Row(state, since) == [state |-> state, since |-> since, kind |-> "newapi", models |-> Never]

ASSUME StartsAssumption ==
  \A start \in Starts :
    DOMAIN start = Channels /\ \A c \in Channels : DOMAIN start[c] = DOMAIN Row(NoText, NotMissing)

\* A channel that is not there yet has a row of its own kind.
Exists(c) == channels[c].state # "none"

SitesAt(b) == {i \in DOMAIN sites : i[1] = b}
NewId(b) == Id(b, 1 + Cardinality(SitesAt(b) \cup {i \in deleted : i[1] = b}))
\* ORDER BY updated_at DESC LIMIT 1.
SiteAt(b) == IF SitesAt(b) = {} THEN NewId(b) ELSE Head(SelectSeq(updated, LAMBDA i : i[1] = b))
\* The channels of a site: the one it was made for, or all of its base URL.
Joined(i, c) == IF sites[i].channel = NoText THEN BaseOf[c] = i[1] ELSE sites[i].channel = c

\* What of a sequence is in set, in its order.
Kept(seq, set) ==
  LET kept[n \in 0..Len(seq)] ==
        IF n = 0 THEN <<>>
        ELSE IF seq[n] \in set THEN Append(kept[n - 1], seq[n]) ELSE kept[n - 1]
  IN kept[Len(seq)]

Without(seq, x) == Kept(seq, Range(seq) \ {x})
Replaced(seq, x, y) == [n \in DOMAIN seq |-> IF seq[n] = x THEN y ELSE seq[n]]
Moved(seq, x) == Append(Without(seq, x), x)
First(seq, n) == SubSeq(seq, 1, IF Len(seq) < n THEN Len(seq) ELSE n)
Less(f, xs) == [x \in DOMAIN f \ xs |-> f[x]]
With(f, x, v) == [y \in DOMAIN f \cup {x} |-> IF y = x THEN v ELSE f[y]]

CatalogInit ==
  /\ channels \in Starts /\ synced = <<>>
  /\ sites = [i \in {Id(b, 1) : b \in Bases} |-> [health |-> "unknown", channel |-> NoText]]
  /\ updated = SetToSeq(DOMAIN sites) /\ checked = <<>> /\ prices = <<>>
  /\ cache = <<>> /\ loads = [l \in Loaders |-> Idle]
  /\ batches = [b \in Batches |-> <<>>] /\ pricing = <<>>
  /\ probe = NoProbe /\ detecting = {} /\ clearing = {}
  /\ requests = 0 /\ faults = 0
  /\ deleted = {} /\ late = <<>>
  /\ saved = [w \in Workers |-> {}] /\ passed = [c \in Channels |-> {}]

Asked == requests < MaxRequests /\ requests' = requests + 1
\* What a change does to reads: those that have run a query may have missed it.
Missed(things) == loads' = [l \in Loaders |->
  IF loads[l].at = 0 THEN loads[l] ELSE [loads[l] EXCEPT !.late = @ \cup things]]
\* The request clears the cache before it answers, or never does.
Changes(things) == Missed(things) /\ clearing' = clearing \cup things /\ UNCHANGED <<cache, late>>
Unclear(things) ==
  /\ Missed(things) /\ late' = [k \in DOMAIN late |-> late[k] \cup things]
  /\ UNCHANGED <<cache, clearing>>

-------------------------------------------------------------------------------
(* Syncing models *)

Syncable(c) == Exists(c) /\ channels[c].state # "archived" /\ channels[c].kind \in Managed

\* Those never synced in any order (that of updated_at), then the longest ago.
\* Mutant: in any order.
SyncOrders_Any == SetToSeqs({c \in Channels : Syncable(c)})

SyncOrders ==
  LET fresh == {c \in Channels : Syncable(c) /\ ~Contains(synced, c)}
  IN {o \o Kept(synced, {c \in Channels : Syncable(c)}) : o \in SetToSeqs(fresh)}

StartModelSync(b) ==
  /\ batches[b] = <<>> /\ Asked
  /\ \E o \in SyncOrders : batches' = [batches EXCEPT ![b] = First(o, Limit)]
  /\ UNCHANGED <<tables, reading, pricing, probe, detecting, clearing, faults, history>>

\* A sync takes the time that it will save, then asks.
BeginSync(w) ==
  /\ ~Contains(synced, w)
  /\ (IF w = "probe" THEN probe.channels ELSE batches[w]) # <<>>
  /\ synced' = Append(synced, w)
  /\ UNCHANGED <<channels, sites, updated, checked, prices, reading, tasks, clearing, requests,
                 faults, history>>

\* The update is by id, with the time taken; when it fails the channel keeps its turn.
SaveModels(w, c) ==
  /\ Contains(synced, w)
  /\ \/ /\ \E answer \in Answers :
             channels' = [channels EXCEPT ![c].models = SyncModels(Raw[c], c \in Keyed, answer)]
        /\ synced' = Replaced(Without(synced, c), w, c)
        /\ saved' = [v \in Workers |-> IF v # w /\ Contains(synced, v) THEN saved[v] \cup {c} ELSE {}]
        /\ passed' = [d \in Channels |-> IF d = c THEN {}
                                         ELSE IF d \in saved[w] THEN passed[d] \ {c}
                                         ELSE passed[d] \cup {c}]
        /\ UNCHANGED faults
     \/ /\ faults < MaxFaults /\ faults' = faults + 1
        /\ synced' = Without(synced, w) /\ saved' = [saved EXCEPT ![w] = {}]
        /\ UNCHANGED <<channels, passed>>

SyncChannel(b) ==
  /\ batches[b] # <<>> /\ SaveModels(b, Head(batches[b]))
  /\ batches' = [batches EXCEPT ![b] = Tail(@)]
  /\ UNCHANGED <<sites, updated, checked, prices, reading, pricing, probe, detecting, clearing, requests, deleted>>

-------------------------------------------------------------------------------
(* Syncing prices *)

PricingSites ==
  SelectSeq(updated, LAMBDA i : ~Contains(checked, i)) \o checked

StartPricingSync ==
  /\ pricing = <<>> /\ Asked
  /\ pricing' = First(PricingSites, Limit)
  /\ UNCHANGED <<tables, reading, batches, probe, detecting, clearing, faults, history>>

SavePrices_NoKey(i, row) == prices' = With(prices, i, row)

\* A site that is gone fails the foreign key, and the error is only logged.
SavePrices(i, row) ==
  IF i \in DOMAIN sites THEN prices' = With(prices, i, row) ELSE UNCHANGED prices

SyncSitePricing ==
  /\ pricing # <<>> /\ pricing' = Tail(pricing)
  /\ \E answer \in Pricings : LET row == SyncPricing(answer) IN
       \E settled \in Settlements(row.sources) :
         SavePrices(Head(pricing), [row EXCEPT !.sources = settled])
  /\ UNCHANGED <<channels, synced, sites, updated, checked, reading, batches, probe, detecting,
                 clearing, requests, faults, history>>

-------------------------------------------------------------------------------
(* The health probe *)

\* Sites at risk: not healthy, or with a channel of no models, or a key not known valid.
Risky(i) ==
  \/ sites[i].health \in Down \cup {"unknown"}
  \/ \E c \in Channels : Syncable(c) /\ Joined(i, c) /\ channels[c].models.status \in Unfetched \cup {"unchecked"}
  \/ \E r \in Records : r.site = i /\ r.status # "valid"

StartProbe(onlyRisky) ==
  /\ probe = NoProbe /\ Asked
  /\ probe' = [NoProbe EXCEPT !.on = TRUE,
       !.sites = First(SelectSeq(updated, LAMBDA i : onlyRisky => Risky(i)), Limit)]
  /\ UNCHANGED <<tables, reading, batches, pricing, detecting, clearing, faults, history>>

Healths == {"healthy", "unreachable"}

\* A site that is gone is written nowhere; its channels are synced all the same,
\* being found by the base URL; a failed write leaves the models alone.
ProbeSite ==
  /\ probe.channels = <<>> /\ probe.sites # <<>>
  /\ LET i == Head(probe.sites)
         rest == [probe EXCEPT !.sites = Tail(@)] IN
       \/ /\ IF i \in DOMAIN sites
               THEN /\ \E h \in Healths : sites' = [sites EXCEPT ![i].health = h]
                    /\ updated' = <<i>> \o Without(updated, i) /\ checked' = Moved(checked, i)
               ELSE UNCHANGED <<sites, updated, checked>>
          /\ \E o \in SetToSeqs({c \in Channels : Syncable(c) /\ BaseOf[c] = i[1]}) :
               probe' = [rest EXCEPT !.channels = o]
          /\ UNCHANGED faults
       \/ /\ faults < MaxFaults /\ faults' = faults + 1 /\ probe' = rest
          /\ UNCHANGED <<sites, updated, checked>>
  /\ UNCHANGED <<channels, synced, prices, reading, batches, pricing, detecting, clearing, requests, history>>

ProbeChannel ==
  /\ probe.channels # <<>> /\ SaveModels("probe", Head(probe.channels))
  /\ probe' = [probe EXCEPT !.channels = Tail(@)]
  /\ UNCHANGED <<sites, updated, checked, prices, reading, batches, pricing, detecting, clearing, requests, deleted>>

\* The task ends, or is cancelled; a sync that it was at fails first.
EndProbe ==
  /\ probe.on /\ ~Contains(synced, "probe") /\ probe' = NoProbe
  /\ cache' = Less(cache, {"channel-health-overview", "channels-list"})
  /\ late' = Less(late, {"channel-health-overview", "channels-list"})
  /\ UNCHANGED <<tables, loads, batches, pricing, detecting, clearing, requests, faults, history>>

-------------------------------------------------------------------------------
(* What the user changes *)

\* An archived channel keeps the time from which it was missing.
WithState(row, state) ==
  [row EXCEPT !.state = state,
     !.since = IF state = "active" THEN NotMissing ELSE IF @ = NotMissing THEN requests + 1 ELSE @]

SetStatus(c, state) ==
  /\ Exists(c) /\ Asked /\ channels' = [channels EXCEPT ![c] = WithState(@, state)]
  /\ Changes({Chan(c)})
  /\ UNCHANGED <<synced, sites, updated, checked, prices, tasks, faults, history>>

SafeTransitions == {<<"missing", "archived">>, <<"missing", "active">>, <<"archived", "active">>}

BulkSetStatus(from, to) ==
  /\ Asked
  /\ channels' = [c \in Channels |->
       IF channels[c].state = from THEN WithState(channels[c], to) ELSE channels[c]]
  /\ Changes({Chan(c) : c \in {d \in Channels : channels[d].state = from}})
  /\ UNCHANGED <<synced, sites, updated, checked, prices, tasks, faults, history>>

\* A preview marks what the source lists; archived channels too.  It clears nothing.
Reconcile(seen) ==
  /\ Asked
  /\ channels' = [c \in Channels |->
       IF c \in Manual \/ ~Exists(c) THEN channels[c]
       ELSE WithState(channels[c], IF c \in seen THEN "active" ELSE "missing")]
  /\ Unclear({Chan(c) : c \in Channels})
  /\ UNCHANGED <<synced, sites, updated, checked, prices, tasks, faults, history>>

DetectChannel(c) ==
  /\ Exists(c) /\ Asked
  /\ \E kind \in Managed \cup {"unknown"} :
       /\ channels' = [channels EXCEPT ![c].kind = kind]
       /\ detecting' = detecting \cup {<<c, kind>>}
  /\ UNCHANGED <<synced, sites, updated, checked, prices, reading, batches, pricing, probe,
                 clearing, faults, history>>

\* EnsureUpstreamSiteForChannel (the search and the insert are split in Inventory).
SiteOf(c, i, h) ==
  /\ sites' = With(sites, i,
       [health |-> IF h = "unknown" /\ i \in DOMAIN sites THEN sites[i].health ELSE h,
        channel |-> IF i \in DOMAIN sites /\ sites[i].channel # NoText THEN sites[i].channel ELSE c])
  /\ updated' = <<i>> \o Without(updated, i) /\ checked' = Moved(checked, i)

\* A managed kind makes sure of a site.
EnsureSite(c, kind) ==
  /\ <<c, kind>> \in detecting /\ detecting' = detecting \ {<<c, kind>>}
  /\ IF kind \notin Managed
       THEN UNCHANGED <<sites, updated, checked>> /\ Changes({Chan(c)})
     ELSE \E h \in Healths, i \in {SiteAt(BaseOf[c])} : SiteOf(c, i, h) /\ Changes({i, Chan(c)})
  /\ UNCHANGED <<channels, synced, prices, batches, pricing, probe, requests, faults, history>>

\* A record of the source: the import it belongs to clears the cache at its end, a sync
\* of the source does not.
ImportChannel(c) ==
  /\ c \notin Manual /\ Asked
  /\ channels' = [channels EXCEPT ![c] = [WithState(@, "active") EXCEPT !.kind = "newapi"]]
  /\ \E i \in {SiteAt(BaseOf[c])} :
       SiteOf(c, i, "unknown") /\ (Changes({i, Chan(c)}) \/ Unclear({i, Chan(c)}))
  /\ UNCHANGED <<synced, prices, tasks, faults, history>>

\* A site by hand, with a channel of its own; the second insert may fail.
Insert(c, i, kind, h) ==
  /\ c \in Manual /\ ~Exists(c)
  /\ channels' = [channels EXCEPT ![c] = [Row("active", NotMissing) EXCEPT !.kind = kind]]
  /\ \/ /\ sites' = With(sites, i, [health |-> h, channel |-> c])
        /\ updated' = <<i>> \o updated
        /\ checked' = IF h = "unknown" THEN checked ELSE Append(checked, i)
        /\ UNCHANGED faults
     \/ /\ faults < MaxFaults /\ faults' = faults + 1
        /\ UNCHANGED <<sites, updated, checked>>

\* The form for a site makes one in any case, and clears nothing.
CreateUpstreamSite(c) ==
  /\ Asked
  /\ \E h \in Healths, i \in {NewId(BaseOf[c])} :
       Insert(c, i, "newapi", h) /\ Unclear({i, Chan(c)})
  /\ UNCHANGED <<synced, prices, tasks, history>>

\* The form for an account looks for a site first; it clears the cache once the account is
\* made.  One that moves an account, or fails after the site is made, does not.
EnsureManualSite(c) ==
  /\ SitesAt(BaseOf[c]) = {} /\ Asked
  /\ \E h \in Healths, i \in {NewId(BaseOf[c])} :
       Insert(c, i, "newapi", h) /\ (Changes({i, Chan(c)}) \/ Unclear({i, Chan(c)}))
  /\ UNCHANGED <<synced, prices, tasks, history>>

\* An old configuration names a site nothing is known of.
UpsertLegacySite(c) ==
  /\ SitesAt(BaseOf[c]) = {} /\ Asked
  /\ \E i \in {NewId(BaseOf[c])} : Insert(c, i, "unknown", "unknown") /\ Unclear({i, Chan(c)})
  /\ UNCHANGED <<synced, prices, tasks, history>>

\* Either finds the site of the base URL and writes the login page that was typed.
UpdateManualSite(b) ==
  /\ SitesAt(b) # {} /\ Asked
  /\ updated' = <<SiteAt(b)>> \o Without(updated, SiteAt(b))
  /\ UNCHANGED <<channels, synced, sites, checked, prices, reading, tasks, clearing, faults, history>>

\* In one transaction, with all that hangs on the site.
DeleteSite(i) ==
  /\ Asked /\ i \in DOMAIN sites
  /\ sites' = Less(sites, {i}) /\ prices' = Less(prices, {i})
  /\ updated' = Without(updated, i) /\ checked' = Without(checked, i)
  /\ deleted' = deleted \cup {i} /\ Changes({i})
  /\ UNCHANGED <<channels, synced, tasks, faults, saved, passed>>

-------------------------------------------------------------------------------
(* Reading through the cache *)

\* Mutant: only the list of sites.
Cleared_List == {"upstream-sites-list"}

Cleared == DOMAIN cache

\* The end of each of these requests.
ClearCache(x) ==
  /\ x \in clearing /\ clearing' = clearing \ {x}
  /\ cache' = Less(cache, Cleared) /\ late' = Less(late, Cleared)
  /\ UNCHANGED <<tables, loads, tasks, requests, faults, history>>

Queries ==
  [k \in {"upstream-sites-list", "channels-list", "channel-health-overview", "models-pricing", "models-overview"} |->
     CASE k = "upstream-sites-list" -> <<"sites">>
       [] k = "channels-list" -> <<"channels">>
       [] k = "channel-health-overview" -> <<"sites", "models">>
       [] k = "models-pricing" -> <<"raw", "prices", "accounts">>
       [] k = "models-overview" -> <<"accounts">>]

SiteRows ==
  {[site |-> i, base |-> i[1], health |-> sites[i].health,
    valid |-> Count(Records, LAMBDA r : r.site = i /\ r.status = "valid"),
    invalid |-> Count(Records, LAMBDA r : r.site = i /\ r.status \notin {"valid", "unchecked"}),
    keys |-> Count(Records, LAMBDA r : r.site = i /\ r.status = "unchecked")] : i \in DOMAIN sites}

\* A row for every site of a channel, or one of none.
ModelRows ==
  LET homes(c) == {i \in DOMAIN sites : Joined(i, c)}
      row(c, i) == [channel |-> c, base |-> BaseOf[c], status |-> channels[c].models.status,
                    models |-> channels[c].models.models, site |-> i]
  IN UNION {{row(c, i) : i \in IF homes(c) = {} THEN {Id(NoText, 0)} ELSE homes(c)} :
              c \in {d \in Channels : Syncable(d)}}

ChannelRows == {[channel |-> c, state |-> channels[c].state, models |-> channels[c].models] :
                  c \in {d \in Channels : Exists(d)}}
RawRows == UNION {{With(s, "of", Chan(c)) : s \in RawSources(Raw[c])} :
                    c \in {d \in Channels : channels[d].state \notin {"archived", "none"}}}
PriceRows == {With(prices[i], "site", i) : i \in DOMAIN prices}
AccountRows == {r \in Records : r.site \in DOMAIN sites}

Answered(query) ==
  CASE query = "sites" -> {SiteRows} [] query = "channels" -> {ChannelRows}
    [] query = "models" -> {ModelRows} [] query = "raw" -> Settlements(RawRows)
    [] query = "prices" -> {PriceRows} [] query = "accounts" -> {AccountRows}

Built(k, got) ==
  CASE k \in {"upstream-sites-list", "channels-list"} -> got[1]
    [] k = "channel-health-overview" -> HealthOverview(got[1], got[2])
    [] k = "models-pricing" ->
         PricingOverview(got[1] \cup UNION {{With(s, "of", i.site) : s \in i.sources} : i \in got[2]}, got[2], got[3])
    [] k = "models-overview" -> ModelOverview(got[1])

\* What is cached is answered at once; else a load begins.
Ask(l, k) ==
  /\ loads[l] = Idle /\ k \notin DOMAIN cache /\ Asked
  /\ loads' = [loads EXCEPT ![l] = [Idle EXCEPT !.key = k]]
  /\ UNCHANGED <<tables, cache, late, tasks, clearing, faults, history>>

RunQuery(l) ==
  LET load == loads[l] IN
  /\ load # Idle /\ load.at < Len(Queries[load.key])
  /\ \E rows \in Answered(Queries[load.key][load.at + 1]) :
       loads' = [loads EXCEPT ![l].at = @ + 1, ![l].got = Append(@, rows)]
  /\ UNCHANGED <<tables, cache, late, tasks, clearing, requests, faults, history>>

Store(l) ==
  LET load == loads[l] IN
  /\ load # Idle /\ load.at = Len(Queries[load.key])
  /\ cache' = With(cache, load.key, Built(load.key, load.got))
  /\ late' = With(late, load.key, load.late)
  /\ loads' = [loads EXCEPT ![l] = Idle]
  /\ UNCHANGED <<tables, tasks, clearing, requests, faults, history>>

Expire(k) ==
  /\ k \in DOMAIN cache /\ cache' = Less(cache, {k}) /\ late' = Less(late, {k})
  /\ UNCHANGED <<tables, loads, tasks, clearing, requests, faults, history>>

CatalogNext ==
  \/ \E b \in Batches : StartModelSync(b) \/ SyncChannel(b)
  \/ \E w \in Workers : BeginSync(w)
  \/ StartPricingSync \/ SyncSitePricing
  \/ \E risky \in BOOLEAN : StartProbe(risky)
  \/ ProbeSite \/ ProbeChannel \/ EndProbe
  \/ \E c \in Channels, state \in {"active", "archived"} : SetStatus(c, state)
  \/ \E t \in SafeTransitions : BulkSetStatus(t[1], t[2])
  \/ \E seen \in SUBSET Channels : Reconcile(seen)
  \/ \E c \in Channels : DetectChannel(c) \/ \E kind \in Managed \cup {"unknown"} : EnsureSite(c, kind)
  \/ \E c \in Channels :
       ImportChannel(c) \/ CreateUpstreamSite(c) \/ EnsureManualSite(c) \/ UpsertLegacySite(c)
  \/ \E b \in Bases : UpdateManualSite(b)
  \/ \E i \in DOMAIN sites : DeleteSite(i)
  \/ \E x \in clearing : ClearCache(x)
  \/ \E l \in Loaders : RunQuery(l) \/ Store(l) \/ \E k \in DOMAIN Queries : Ask(l, k)
  \/ \E k \in DOMAIN cache : Expire(k)

CatalogSpec == CatalogInit /\ [][CatalogNext]_catalog

-------------------------------------------------------------------------------
(* Properties *)

\* The prices kept are of sites that exist, however late a sync of prices saves
\* what it asked of a site deleted meanwhile, and count as a success with sources only.
PricesHaveSites ==
  \A i \in DOMAIN prices :
    /\ i \in DOMAIN sites
    /\ (prices[i].status = "success") = (prices[i].sources # {})

ShownSites(k) ==
  CASE k = "upstream-sites-list" -> {r.site : r \in cache[k]}
    [] k \in {"channel-health-overview", "models-overview"} -> DOMAIN cache[k].sites
    [] k = "models-pricing" ->
         {i \in cache[k].caches \cup UNION {cache[k].models[m].sites : m \in DOMAIN cache[k].models} : i[2] # 0}
    [] OTHER -> {}

WrongRows(k) ==
  IF k = "channels-list" THEN {Chan(r.channel) : r \in {q \in cache[k] : channels[q.channel].state # q.state}}
  ELSE (ShownSites(k) \ DOMAIN sites)
         \cup IF k = "upstream-sites-list" THEN DOMAIN sites \ ShownSites(k) ELSE {}

\* Once a request that deleted or detected a site, added an account, imported channels or
\* set the state of a channel has been answered, no cached list contradicts it, but one
\* whose load had begun to query before.  What clears nothing is excepted until the entry
\* expires: sites made in the form or moved to, old configurations, syncs and previews.
SettledWritesAreSeen ==
  \A k \in DOMAIN cache : WrongRows(k) \subseteq late[k] \cup clearing

\* Turns are fair: a batch never takes a channel whose last sync began after that of
\* another, which it leaves out, had been saved, whatever batches and probes overlap and
\* whichever saves fail.
RoundRobin ==
  [][\A b \in Batches : batches[b] = <<>> =>
       \A c \in Range(batches'[b]), d \in Channels :
         Syncable(d) /\ d \notin Range(batches'[b]) => c \notin passed[d]]_catalog

===============================================================================
