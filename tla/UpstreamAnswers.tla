---------------------------- MODULE UpstreamAnswers ----------------------------
(***************************************************************************)
(* How the answers of an upstream site are read: the status of a check-in, *)
(* balances, tokens, user ids and model lists.  Decoded JSON is a record   *)
(* with one field that names its kind.  Go walks a map in any order, so a  *)
(* search below a map is the set of what it may find.                      *)
(***************************************************************************)
EXTENDS Integers, SequencesExt

CONSTANT MaxDepth   \* bound on how deep a document nests; the code follows it to its end

ASSUME DepthAssumption == MaxDepth \in Nat

Num(n) == [num |-> n]
Digits(n) == [digits |-> n]     \* a string that spells n
Text(s) == [text |-> s]
Flag(b) == [flag |-> b]
Null == [null |-> TRUE]
Map(f) == [map |-> f]
List(s) == [list |-> s]
Is(kind, x) == kind \in DOMAIN x

NoNumber == -1
NoText == ""
NilText == "<nil>"              \* fmt.Sprint of a null

-------------------------------------------------------------------------------
(* Searches *)

Parts(x) ==
  IF Is("map", x) THEN {x.map[k] : k \in DOMAIN x.map}
  ELSE IF Is("list", x) THEN {x.list[i] : i \in DOMAIN x.list} ELSE {}

Below(set) == UNION {Parts(y) : y \in set}

\* A document and all that nests in it, level by level.
Levels(x) ==
  LET level[n \in 0..MaxDepth] == IF n = 0 THEN {x} ELSE Below(level[n - 1])
  IN level

Within(x) == UNION {Levels(x)[n] : n \in 0..MaxDepth}

\* A document that ends, made of maps, lists and scalars.
IsDocument(x) ==
  /\ Below(Levels(x)[MaxDepth]) = {}
  /\ \A y \in Within(x) : Is("list", y) => y.list \in Seq(Parts(y))

IsNumber(x) == Is("num", x) \/ Is("digits", x)

ToFloat(x) == IF Is("num", x) THEN x.num ELSE x.digits

\* The places of the names under which a map has a number; the first one counts.
Named(y, keys) == {i \in DOMAIN keys : keys[i] \in DOMAIN y.map /\ IsNumber(y.map[keys[i]])}

FirstNumber(y, keys) == ToFloat(y.map[keys[Min(Named(y, keys))]])

FindNumber(x, keys) ==
  LET find[y \in Within(x)] ==
        IF Is("map", y) THEN
          IF Named(y, keys) # {} THEN {FirstNumber(y, keys)}
          ELSE UNION {find[y.map[k]] : k \in DOMAIN y.map}
        ELSE IF Is("list", y) THEN
          LET hits == {i \in DOMAIN y.list : find[y.list[i]] # {}}
          IN IF hits = {} THEN {} ELSE find[y.list[Min(hits)]]
        ELSE {}
  IN find[x]

Sprint(x) == IF Is("text", x) THEN x.text ELSE IF Is("null", x) THEN NilText ELSE "value"

\* A direct key ends the search of its map, even when its text is empty.
FindString(x, key) ==
  LET find[y \in Within(x)] ==
        IF Is("map", y) THEN
          IF key \in DOMAIN y.map THEN {Sprint(y.map[key])} \ {NoText}
          ELSE UNION {find[y.map[k]] : k \in DOMAIN y.map}
        ELSE IF Is("list", y) THEN
          LET hits == SelectSeq(y.list, LAMBDA z : find[z] # {})
          IN IF hits = <<>> THEN {} ELSE find[Head(hits)]
        ELSE {}
  IN find[x]

\* The finds of the first of several keys that has any.
FirstFound(Find(_), keys, none) ==
  LET hits == SelectSeq(keys, LAMBDA k : Find(k) # {})
  IN IF hits = <<>> THEN {none} ELSE Find(Head(hits))

-------------------------------------------------------------------------------
(* Logins *)

ExtractToken(body) ==
  FirstFound(LAMBDA k : FindString(body, k),
             <<"access_token", "accessToken", "token", "session_token">>, NoText)

\* The ids below data come first, then those anywhere.
ExtractUserID(body) ==
  LET inData == IF Is("map", body) /\ "data" \in DOMAIN body.map
                THEN FindNumber(body.map["data"], <<"id", "user_id", "userId">>) ELSE {}
  IN IF inData # {} THEN inData
     ELSE FirstFound(LAMBDA k : FindNumber(body, <<k>>), <<"user_id", "userId", "id">>, NoNumber)

ResponseExplicitlyFailed(body) ==
  LET has(k, kind) == k \in DOMAIN body.map /\ Is(kind, body.map[k])
  IN Is("map", body) /\
     IF has("success", "flag") THEN ~body.map["success"].flag
     ELSE IF has("ok", "flag") THEN ~body.map["ok"].flag
     ELSE /\ "code" \in DOMAIN body.map /\ IsNumber(body.map["code"])
          /\ ToFloat(body.map["code"]) # 0

-------------------------------------------------------------------------------
(* Balances *)

BalanceKeys_UsedFirst == <<"balance", "used_quota", "quota", "remaining", "available">>

BalanceKeys == <<"balance", "quota", "remaining_quota", "remain_quota", "remaining", "available">>

QuotaKeys == <<"quota", "remaining_quota", "remain_quota">>
UsedKeys == <<"used_quota", "used", "usage", "used_amount", "used_tokens">>
TotalKeys == <<"total_quota", "hard_limit_usd", "limit", "total", "quota_limit">>

Reading(body, keys) ==
  LET found == FindNumber(body, keys) IN IF found = {} THEN {NoNumber} ELSE found

\* words: what lower-casing the body lets a substring test see.
InferBalanceUnit(words) ==
  LET named == SelectSeq(<<"quota", "usd", "cny", "token">>, LAMBDA u : u \in words)
  IN IF named = <<>> THEN "unknown" ELSE Head(named)

ParseBalance(body, words) ==
  {[balance |-> b, used |-> u, total |-> t,
    unit |-> IF b = NoNumber /\ u = NoNumber /\ t = NoNumber THEN "unknown"
        ELSE IF FindNumber(body, QuotaKeys) # {} \/ u # NoNumber \/ t # NoNumber
                  THEN "quota" ELSE InferBalanceUnit(words)] :
      b \in Reading(body, BalanceKeys), u \in Reading(body, UsedKeys),
      t \in Reading(body, TotalKeys)}

Parsed(r) == r.balance # NoNumber \/ r.used # NoNumber \/ r.total # NoNumber

-------------------------------------------------------------------------------
(* Model lists *)

\* Names with a known prefix, or with a dash and chat, turbo or model.
LooksLikeModelID(s) == s \in {"gpt-4", "gpt-4o-mini", "deepseek-chat", "my-turbo"}

ParseModelIDs(x) ==
  LET ids[y \in Within(x)] ==
        IF Is("map", y) THEN
          ({Sprint(y.map[k]) : k \in DOMAIN y.map \cap {"id", "model"}} \ {NoText})
            \cup UNION {ids[y.map[k]] : k \in DOMAIN y.map}
        ELSE IF Is("list", y) THEN UNION {ids[y.list[i]] : i \in DOMAIN y.list}
        ELSE IF Is("text", y) /\ LooksLikeModelID(y.text) THEN {y.text}
        ELSE {}
  IN ids[x]

-------------------------------------------------------------------------------
(* Check-ins.  http is the status, 0 for a request that failed; words are   *)
(* the marks the substring tests look for in the body.                      *)

Authorized(http) == http \notin {401, 403}
Missing(http) == http \in {404, 405}
Ok(http) == http \in 200..299

ShouldRetryCheckinAttempt(http) == http = 0 \/ http \in {408, 429} \/ http >= 500

ClassifyCheckinResponse_FailureLast(http, words) ==
  IF ~Authorized(http) THEN "auth_expired" ELSE IF ~Ok(http) THEN "failed"
  ELSE IF "already" \in words THEN "already_checked" ELSE "success"

ClassifyCheckinResponse(http, words) ==
  IF ~Authorized(http) THEN "auth_expired"
  ELSE IF "disabled" \in words THEN "unsupported"
  ELSE IF "turnstile" \in words THEN "manual_required"
  ELSE IF ~Ok(http) THEN "failed"
  ELSE IF "already" \in words THEN "already_checked"
  ELSE IF {"login", "html"} \subseteq words THEN "auth_expired"
  ELSE IF "false" \in words THEN "failed"
  ELSE "success"

\* A rule has a method and a path below the site; a full URL is cut to its path.
ParseCheckinRules(rules) == SelectSeq(rules, LAMBDA r : r.path # NoText)

\* Custom rules, then those of the kind, then the general ones, each once.
DedupeCandidates(candidates) ==
  FoldLeft(LAMBDA kept, c : IF Contains(kept, c) THEN kept ELSE Append(kept, c), <<>>, candidates)

CheckinCandidatesForKind(custom, preferred, general) ==
  DedupeCandidates(custom \o preferred \o general)

===============================================================================
