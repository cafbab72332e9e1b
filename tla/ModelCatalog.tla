------------------------------ MODULE ModelCatalog ------------------------------
(***************************************************************************)
(* Models and their prices: what the raw configuration of a channel and    *)
(* the answers of a site say, and the overviews built of them.  Names are  *)
(* compared without their case; lists are never cut (no more rows than the *)
(* limits).  A price that several keys of one map give is whichever Go's   *)
(* order of the map leaves, so an extracted field is a set of numbers.     *)
(***************************************************************************)
EXTENDS UpstreamAnswers

Names(seq) == [names |-> seq]   \* a string that lists several names
Encoded(x) == [json |-> x]      \* a string that spells JSON
Unreadable == Encoded(Null)

\* What spells JSON is opened, what nests is treated by Rest.
Opening(x, Rest(_)) ==
  IF Is("json", x) THEN Rest(x.json)
  ELSE IF Is("map", x) THEN Map([k \in DOMAIN x.map |-> Rest(x.map[k])])
  ELSE IF Is("list", x) THEN List([i \in DOMAIN x.list |-> Rest(x.list[i])])
  ELSE x

\* From depth 0 to depth 3, and no deeper.
Expand(x) ==
  LET third(y) == Opening(y, LAMBDA z : z)
      second(y) == Opening(y, third)
      first(y) == Opening(y, second)
  IN Opening(x, first)

\* All that a walk comes to which expands what it meets.
Met(x) ==
  LET level[n \in 0..MaxDepth] == IF n = 0 THEN {x} ELSE Below({Expand(y) : y \in level[n - 1]})
  IN UNION {level[n] : n \in 0..MaxDepth}

Normalize(names) == {n \in names : LooksLikeModelID(n)}

-------------------------------------------------------------------------------
(* Models *)

SplitModelList(x) ==
  Normalize(IF Is("names", x) THEN Range(x.names) ELSE IF Is("text", x) THEN {x.text} ELSE {})

StringFromAny(map, key) ==
  IF key \notin DOMAIN map \/ Is("null", map[key]) THEN NoText ELSE Sprint(map[key])

\* The first of id, model and name that is there decides, a model or not.
NamedModel(map) ==
  LET said == SelectSeq(<<"id", "model", "name">>, LAMBDA k : StringFromAny(map, k) # NoText)
  IN IF said = <<>> THEN {} ELSE Normalize({StringFromAny(map, Head(said))})

ModelsFromAny(x) ==
  LET models[z \in Met(x)] ==
        LET y == Expand(z)
        IN IF Is("list", y) THEN UNION {models[y.list[i]] : i \in DOMAIN y.list}
           ELSE IF Is("map", y) THEN NamedModel(y.map) ELSE SplitModelList(y)
  IN models[x]

\* All that stands below a key named model or models; named: the last key was.
ExtractModels(x) ==
  LET models[z \in Met(x), named \in BOOLEAN] ==
        LET y == Expand(z)
            isName(k) == k \in {"models", "model"}
        IN IF Is("map", y) THEN
             UNION {(IF isName(k) THEN ModelsFromAny(y.map[k]) ELSE {})
                      \cup models[y.map[k], isName(k)] : k \in DOMAIN y.map}
           ELSE IF Is("list", y) THEN UNION {models[y.list[i], named] : i \in DOMAIN y.list}
           ELSE IF named THEN SplitModelList(y) ELSE {}
  IN models[x, FALSE]

IsModelMappingKey(k) == k \in {"model_mapping", "modelmap", "model_map"}

MappingKeys(x) ==
  LET mapped(z) == IF Is("map", Expand(z)) THEN DOMAIN Expand(z).map ELSE {}
      keys[z \in Met(x)] ==
        LET y == Expand(z)
        IN IF Is("map", y) THEN
             UNION {IF IsModelMappingKey(k) THEN mapped(y.map[k]) ELSE keys[y.map[k]] :
                      k \in DOMAIN y.map}
           ELSE IF Is("list", y) THEN UNION {keys[y.list[i]] : i \in DOMAIN y.list}
           ELSE {}
  IN keys[x]

ModelsFromRaw(raw) ==
  IF raw = Unreadable THEN {} ELSE Normalize(ExtractModels(raw) \cup MappingKeys(raw))

\* answer: what /v1/models said, of http status 0 when the request failed.
FetchModels(answer) == IF Ok(answer.http) THEN ParseModelIDs(answer.body) ELSE {}

\* A live list wins even when no name of it is kept; a refused key leaves the raw names.
SyncModels(raw, keyed, answer) ==
  LET live == IF keyed THEN FetchModels(answer) ELSE {}
      models == Normalize(IF live # {} THEN live ELSE ModelsFromRaw(raw))
  IN IF keyed /\ live = {} /\ ~Authorized(answer.http)
       THEN [status |-> "key_invalid", models |-> ModelsFromRaw(raw)]
     ELSE [status |-> IF models = {} THEN "empty" ELSE IF live # {} THEN "live_key" ELSE "raw_only",
           models |-> models]

-------------------------------------------------------------------------------
(* Prices *)

IsPricingKey(k) ==
  k \in {"price", "pricing", "model_price", "model_ratio", "completion_ratio", "quota", "quota_type"}

FieldOfKey(k) ==
  CASE k \in {"completion", "completion_ratio", "output"} -> "completion"
    [] k \in {"prompt", "input", "ratio", "model_ratio"} -> "prompt"
    [] k \in {"price", "model_price", "quota", "quota_type"} -> "price"
    [] OTHER -> NoText

\* A bare number below a key: pricing is a price, what says nothing a prompt ratio.
FieldOfNumber(k) ==
  IF FieldOfKey(k) = "completion" THEN "completion"
  ELSE IF k = "pricing" \/ FieldOfKey(k) = "price" THEN "price" ELSE "prompt"

Source(path, model, name, confidence, upstream) ==
  [path |-> path, model |-> model, name |-> name, confidence |-> confidence, upstream |-> upstream,
   price |-> {}, prompt |-> {}, completion |-> {}]

SourceFromMap(path, model, name, map) ==
  LET numbers(field) == {ToFloat(map[k]) : k \in {j \in DOMAIN map : IsNumber(map[j]) /\ FieldOfKey(j) = field}}
      source == [Source(path, model, name, "high", NoText)
                   EXCEPT !.price = numbers("price"), !.prompt = numbers("prompt"),
                          !.completion = numbers("completion")]
  IN IF source.price \cup source.prompt \cup source.completion = {} THEN {} ELSE {source}

SourceFromValue(path, model, name, x) ==
  LET y == Expand(x)
      number == Source(path, model, name, "medium", NoText)
      field == FieldOfNumber(name)
  IN IF IsNumber(x) THEN {[number EXCEPT ![field] = {ToFloat(x)}]}
     ELSE IF Is("map", y) THEN SourceFromMap(path, model, name, y.map) ELSE {}

\* A map that names its model.
SourceOfNamed(path, map) ==
  LET model == StringFromAny(map, "model")
  IN IF LooksLikeModelID(model) THEN SourceFromMap(path, model, NoText, map) ELSE {}

SourcesFromModelMapping(path, x) ==
  LET y == Expand(x)
  IN IF ~Is("map", y) THEN {}
     ELSE {Source(Append(path, m), m, "model_mapping", "mapping", StringFromAny(y.map, m)) :
             m \in Normalize(DOMAIN y.map)}

\* A number stands for every model the document names.
SourcesFromContainer(path, x, known) ==
  LET y == Expand(x)
      named(p, z) == IF Is("map", Expand(z)) THEN SourceOfNamed(p, Expand(z).map) ELSE {}
  IN IF Is("map", y) THEN
       UNION {IF LooksLikeModelID(k) THEN SourceFromValue(Append(path, k), k, Last(path), y.map[k])
              ELSE named(Append(path, k), y.map[k]) : k \in DOMAIN y.map}
     ELSE IF Is("list", y) THEN UNION {named(Append(path, ToString(i)), y.list[i]) : i \in DOMAIN y.list}
     ELSE IF Is("num", y) THEN
       UNION {SourceFromValue(Append(path, m), m, Last(path), y) : m \in known}
     ELSE {}

\* What stands in a document and the path to it.
Places(path, x) ==
  LET parts(p) ==
        LET y == p[2]
        IN IF Is("map", y) THEN {<<Append(p[1], k), y.map[k]>> : k \in DOMAIN y.map}
           ELSE IF Is("list", y) THEN {<<Append(p[1], ToString(i)), y.list[i]>> : i \in DOMAIN y.list}
           ELSE {}
      level[n \in 0..MaxDepth] ==
        IF n = 0 THEN {<<path, x>>} ELSE UNION {parts(p) : p \in level[n - 1]}
  IN UNION {level[n] : n \in 0..MaxDepth}

WalkPricing(path, x, known) ==
  LET walk[p \in Places(path, x)] ==
        LET y == p[2]
            below(k) ==
              LET here == Append(p[1], k)
                  own == IF LooksLikeModelID(k) THEN SourceFromValue(here, k, k, y.map[k]) ELSE {}
              IN IF own # {} THEN own
                 ELSE IF IsModelMappingKey(k) THEN SourcesFromModelMapping(here, y.map[k])
                 ELSE IF IsPricingKey(k) THEN SourcesFromContainer(here, y.map[k], known)
                 ELSE walk[<<here, y.map[k]>>]
        IN IF Is("map", y) THEN SourceOfNamed(p[1], y.map) \cup UNION {below(k) : k \in DOMAIN y.map}
           ELSE IF Is("list", y) THEN
             UNION {walk[<<Append(p[1], ToString(i)), y.list[i]>>] : i \in DOMAIN y.list}
           ELSE {}
  IN walk[<<path, x>>]

ExtractSources(root, x) ==
  IF x = Unreadable THEN {} ELSE WalkPricing(<<root>>, Expand(x), ExtractModels(Expand(x)))

\* A source with one of the numbers each field may have, and all such.
Settled(source, price, prompt, completion) ==
  [source EXCEPT !.price = price, !.prompt = prompt, !.completion = completion]

Ways(source) ==
  LET alone(numbers) == IF numbers = {} THEN {{}} ELSE {{n} : n \in numbers}
  IN {Settled(source, p, q, r) :
        p \in alone(source.price), q \in alone(source.prompt), r \in alone(source.completion)}

\* The sources that one order of the maps may leave.
Settlements(sources) ==
  {c \in SUBSET UNION {Ways(s) : s \in sources} : \A s \in sources : Cardinality(c \cap Ways(s)) = 1}

RawSources(raw) == ExtractSources("raw_json", raw)
LiveSources(body) == ExtractSources("api_pricing", body)

\* answer: what /api/pricing said.
SyncPricing(answer) ==
  LET sources == IF Ok(answer.http) THEN LiveSources(answer.body) ELSE {}
  IN [status |-> IF ~Ok(answer.http) THEN "failed" ELSE IF sources = {} THEN "empty" ELSE "success",
      sources |-> sources]

-------------------------------------------------------------------------------
(* Overviews *)

Least(numbers) == IF numbers = {} THEN NoNumber ELSE CHOOSE n \in numbers : \A m \in numbers : n <= m
Count(set, P(_)) == Cardinality({x \in set : P(x)})

\* A record is an account with an API key: [account, site, status, samples, test, usable, latency].
ModelsOf(r) == (r.samples \cup {r.test}) \ {NoText}
Tested(r, m) == r.test = m

ModelOverview(records) ==
  LET speed(R) == Least({r.latency : r \in {q \in R : q.latency > 0}})
      with(m) == {r \in records : m \in ModelsOf(r)}
      at(s) == {r \in records : r.site = s}
      valid(R) == Count(R, LAMBDA r : r.status = "valid")
  IN [accounts |-> Cardinality(records), valid |-> valid(records),
      usable |-> Count(records, LAMBDA r : r.usable), fastest |-> speed(records),
      models |-> [m \in UNION {ModelsOf(r) : r \in records} |->
        [accounts |-> Cardinality(with(m)), valid |-> valid(with(m)),
         usable |-> Count(with(m), LAMBDA r : r.usable /\ Tested(r, m)),
         fastest |-> speed({r \in with(m) : Tested(r, m)}), sites |-> {r.site : r \in with(m)}]],
      sites |-> [s \in {r.site : r \in records} |->
        [valid |-> valid(at(s)), usable |-> Count(at(s), LAMBDA r : r.usable), fastest |-> speed(at(s)),
         models |-> UNION {ModelsOf(r) : r \in at(s)}]]]

ConfidenceRank(c) == CASE c = "high" -> 3 [] c = "medium" -> 2 [] c = "mapping" -> 1

\* The best source: of those of the lowest price, else of those with any prompt
\* ratio, the first in the order of the overview (by confidence, then by name).
BestSource(sources) ==
  LET lowest == Least(UNION {s.price : s \in sources})
      priced == {s \in sources : lowest \in s.price}
      rated == {s \in sources : s.prompt # {}}
      first(S) == {s.of : s \in {t \in S : \A u \in S : ConfidenceRank(u.confidence) <= ConfidenceRank(t.confidence)}}
  IN IF priced # {} THEN first(priced) ELSE first(rated)

\* sources carry of: the channel or the site they are from; items: the cached rows of the sites.
PricingOverview(sources, items, records) ==
  LET kept == {s \in sources : LooksLikeModelID(s.model)}
      of(m) == {s \in kept : s.model = m}
      with(m) == {r \in records : m \in ModelsOf(r)}
  IN [exact |-> Count(kept, LAMBDA s : s.price # {}),
      ratios |-> Count(kept, LAMBDA s : s.prompt \cup s.completion # {}),
      live |-> Count(items, LAMBDA i : i.status = "success"),
      failed |-> Count(items, LAMBDA i : i.status # "success"),
      caches |-> {i.site : i \in items},
      models |-> [m \in {s.model : s \in kept} |->
        [sites |-> {s.of : s \in of(m)} \cup {r.site : r \in with(m)},
         price |-> Least(UNION {s.price : s \in of(m)}), prompt |-> Least(UNION {s.prompt : s \in of(m)}),
         completion |-> Least(UNION {s.completion : s \in of(m)}), best |-> BestSource(of(m)),
         usable |-> Count(with(m), LAMBDA r : r.usable /\ Tested(r, m)),
         fastest |-> Least({r.latency : r \in {q \in with(m) : q.latency > 0 /\ Tested(q, m)}})]]]

Down == {"unreachable", "down", "failed", "error"}
Unfetched == {"failed", "key_invalid", "empty"}

Advice(site) ==
  IF site.health \in Down \/ site.invalid > 0 THEN "danger"
  ELSE IF site.failed > 0 \/ site.keys > 0 \/ site.unchecked > 0 \/ site.health = "unknown" THEN "warning"
  ELSE "success"

Overall(levels) ==
  IF "danger" \in levels THEN "danger" ELSE IF "warning" \in levels THEN "warning" ELSE "success"

\* sites: [site, base, health, valid, invalid, keys]; rows: [channel, site, base, status, models],
\* read by a second query: a row whose site the first did not see goes to the site of its base URL.
HealthOverview(sites, rows) ==
  LET home(r) == {s \in sites : s.site = r.site \/ (r.site \notin {t.site : t \in sites} /\ s.base = r.base)}
      at(s) == {r \in rows : s \in home(r)}
      are(s, statuses) == Count(at(s), LAMBDA r : r.status \in statuses)
      rest(s) == Count(at(s), LAMBDA r : r.status \notin Unfetched \cup {"live_key"})
      line(s) == [live |-> are(s, {"live_key"}), failed |-> are(s, Unfetched), unchecked |-> rest(s),
                  models |-> UNION {r.models : r \in at(s)},
                  level |-> Advice([health |-> s.health, invalid |-> s.invalid, failed |-> are(s, Unfetched),
                                    keys |-> s.keys, unchecked |-> rest(s)])]
  IN [channels |-> Cardinality(rows),
      healthy |-> Count(sites, LAMBDA s : s.health \in {"healthy", "ok", "success"}),
      unreachable |-> Count(sites, LAMBDA s : s.health \in Down),
      overall |-> Overall({line(s).level : s \in sites}),
      sites |-> [i \in {s.site : s \in sites} |-> line(CHOOSE s \in sites : s.site = i)]]

===============================================================================
