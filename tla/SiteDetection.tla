----------------------------- MODULE SiteDetection -----------------------------
(***************************************************************************)
(* What the scanner makes of a site: it asks a fixed list of paths, takes  *)
(* signals from the answers, and from the signals the kind of panel, what  *)
(* it supports, how sure that is, and where people log in.  An answer is   *)
(*   [method, path, checkin, status, words, json, top, keys, links]        *)
(* with the phrases its body contains (in lower case), whether it is a     *)
(* JSON object, its keys, and the URLs a page gives as login links.  A     *)
(* probe without an answer is left out: the code gives it status 0.        *)
(***************************************************************************)
EXTENDS Integers, FiniteSets, Sequences

Has(r, phrases) == r.words \cap phrases # {}
Answers(seq) == {seq[i] : i \in DOMAIN seq}
Admitted == {200, 401, 403}

-------------------------------------------------------------------------------
(* Signals *)

CheckinDisabled == {"checkin disabled", "check-in disabled", "signin disabled", "sign-in disabled",
  "checkin not enabled", "sign in not enabled", "signin not enabled", "zh:checkin-off"}
CheckinKeys == {"checked_in_today", "quota_awarded", "checkin_date", "min_quota", "max_quota", "total_checkins"}
CheckinPaths ==
  {"/api/user/checkin", "/api/checkin", "/api/user/check_in", "/api/user/signin", "/api/user/sign_in",
   "/api/user/sign-in", "/api/signin", "/api/sign_in", "/api/sign-in", "/api/daily_checkin"}
PanelWords == {"zh:quota", "zh:token", "zh:balance", "zh:channel", "zh:model"}

Named(r, signal, test) == IF test THEN {signal} ELSE {}

TextSignals(r) ==
  UNION {
    Named(r, "newapi-text", Has(r, {"new api", "newapi", "new-api", "new_api"})),
    Named(r, "oneapi-text", Has(r, {"one api", "oneapi", "one-api", "one_api"})),
    Named(r, "sub2api-text", Has(r, {"sub2api", "sub2 api", "sub-to-api", "sub_to_api"})),
    Named(r, "newapi-login", Has(r, {"zh:user login", "new-api"}) \/ (Has(r, {"zh:login"}) /\ Has(r, PanelWords))),
    Named(r, "oneapi-login", Has(r, {"one api"}) /\ Has(r, {"login", "zh:login"})),
    Named(r, "panel-login", Has(r, {"zh:panel menu", "token quota", "model ratio", "group ratio",
            "channel management", "token management", "user management"})
          \/ (Has(r, {"zh:top up"}) /\ Has(r, {"zh:quota", "zh:balance"}))),
    Named(r, "sub2api-gateway", Has(r, {"api key"}) /\ Has(r, {"quota", "subscription", "billing"})),
    Named(r, "sub2api-ui", {"subscription", "api gateway"} \subseteq r.words),
    Named(r, "checkin-disabled", Has(r, CheckinDisabled)) }

\* What a path says once it answers, with or without asking for a login.
PathSays ==
  { <<"/api/about", "api-about">>, <<"/api/home_page_content", "api-home-page-content">>,
    <<"/api/user/self", "api-user-self">>, <<"/api/user/self/groups", "api-user-groups">>,
    <<"/api/user/token", "api-user-token">>, <<"/api/user/models", "api-user-models">>,
    <<"/api/user/available_models", "api-user-available-models">>,
    <<"/api/user/dashboard", "api-user-dashboard">>, <<"/api/user/quota", "api-user-quota">>,
    <<"/api/subscription/self", "api-subscription">>, <<"/api/channel/", "api-channel">>,
    <<"/api/channel/models", "api-channel">>, <<"/api/token/", "api-token">>,
    <<"/api/status", "api-status">>, <<"/v1/models", "openai-models">>,
    <<"/api/pricing", "api-pricing">>, <<"/api/option", "api-option">>, <<"/api/group", "api-group">>,
    <<"/api/redemption", "api-redemption">>, <<"/api/log/token", "api-log-token">>,
    <<"/api/v1/settings/public", "api-v1-panel">>, <<"/api/v1/settings/public", "sub2api-settings">>,
    <<"/api/v1/auth/me", "api-v1-panel">>, <<"/api/v1/auth/me", "sub2api-auth">>,
    <<"/v1beta/models", "sub2api-v1beta-models">> }
  \cup {"/api/v1/status", "/api/v1/user", "/api/v1/user/profile", "/api/v1/tokens", "/api/v1/accounts",
        "/api/v1/keys", "/api/v1/groups/available", "/api/v1/channels/available",
        "/api/v1/subscriptions/active", "/api/v1/user/platform-quotas"} \X {"api-v1-panel", "sub2api-user"}

\* What a path says once it answers at all like an API, a refusal included.
PanelSays ==
  { <<"/api/user/login", "api-user-login">>, <<"/api/auth/login", "api-auth-login">>,
    <<"/api/login", "api-login">>, <<"/api/user/register", "api-user-register">>,
    <<"/api/user/checkin", "api-user-checkin">>, <<"/api/checkin", "api-user-checkin">>,
    <<"/api/user/check_in", "api-user-checkin">>, <<"/api/v1/auth/login", "api-v1-panel">>,
    <<"/api/v1/auth/login", "sub2api-auth">>, <<"/chat/completions", "sub2api-openai-route">>,
    <<"/responses", "sub2api-openai-route">> }

EndpointLooksLikePanelAPI(r) ==
  r.status \in {200, 400, 401, 403, 405}
    \/ (r.status = 415 /\ r.path \in {"/api/v1/auth/login", "/chat/completions", "/responses"})

PathSignals(r) ==
  {e[2] : e \in {x \in PathSays : x[1] = r.path /\ r.status \in Admitted}
            \cup {x \in PanelSays : x[1] = r.path /\ EndpointLooksLikePanelAPI(r)}}

JsonSignals(r) ==
  IF ~r.json THEN {} ELSE UNION {
    Named(r, "json-version", "version" \in r.top),
    Named(r, "newapi-api", r.path = "/api/about" /\ Has(r, {"new api", "new-api", "newapi"})),
    Named(r, "oneapi-text", Has(r, {"one api", "one-api", "oneapi"})),
    Named(r, "sub2api-api", Has(r, {"sub2api", "sub2 api"})
      \/ (r.keys \cap {"subscription", "upstream", "provider", "account_id"} # {}
          /\ r.keys \cap {"api_key", "apikey", "quota", "rate_limit"} # {})),
    IF r.path \in CheckinPaths /\ r.keys \cap CheckinKeys # {}
      THEN {"api-user-checkin", "checkin-json"} ELSE {},
    Named(r, "panel-json", r.top \cap {"success", "message", "data"} # {}
      /\ r.keys \cap {"quota", "used_quota", "request_count", "token_name", "channel_count",
                      "group_ratio", "model_ratio"} # {}),
    Named(r, "pricing-json", r.keys \cap {"price", "pricing", "model_ratio", "group_ratio"} # {}) }

InspectSignals(r) == TextSignals(r) \cup PathSignals(r) \cup JsonSignals(r)
Signals(seq) == UNION {InspectSignals(r) : r \in Answers(seq)}

-------------------------------------------------------------------------------
(* Kind, support and confidence *)

PanelSignals ==
  { "api-user-self", "api-user-token", "api-user-models", "api-user-quota", "api-user-available-models",
    "api-user-dashboard", "api-user-login", "api-auth-login", "api-login", "api-user-register",
    "api-user-checkin", "api-about", "api-home-page-content", "api-token", "api-channel",
    "api-log-token", "api-pricing", "api-option", "api-group", "api-redemption", "api-subscription",
    "newapi-login", "oneapi-login", "newapi-api", "panel-login", "panel-json", "json-version", "api-status" }
Sub2apiSignals ==
  { "sub2api-text", "sub2api-api", "sub2api-ui", "sub2api-gateway", "api-v1-panel", "sub2api-auth",
    "sub2api-settings", "sub2api-user", "sub2api-v1beta-models", "sub2api-openai-route" }
Count(signals, names) == Cardinality(signals \cap names)

StatusOf(seq, path) ==
  LET r == {x \in Answers(seq) : x.path = path /\ x.method = "GET" /\ ~x.checkin}
  IN IF r = {} THEN 0 ELSE (CHOOSE x \in r : TRUE).status

LooksLikeModifiedNewAPI(signals) ==
  /\ Count(signals, PanelSignals) >= 2
  /\ signals \cap {"api-user-login", "api-auth-login", "api-login"} # {}
  /\ signals \cap {"api-user-self", "api-user-token", "api-user-models", "api-token", "panel-json"} # {}

KindOf(seq, official) ==
  LET s == Signals(seq) IN
  IF official THEN "official_provider"
  ELSE IF Count(s, Sub2apiSignals) >= 2 \/ s \cap {"sub2api-text", "sub2api-api"} # {} THEN "sub2api"
  ELSE IF s \cap {"oneapi-text", "oneapi-login"} # {} THEN "oneapi"
  ELSE IF LooksLikeModifiedNewAPI(s) THEN "modified_relay"
  ELSE IF s \cap {"newapi-api", "newapi-text", "newapi-login"} # {}
          \/ (Count(s, PanelSignals) >= 2 /\ "api-channel" \in s) THEN "newapi"
  ELSE IF StatusOf(seq, "/v1/models") \notin {0, 404} THEN "openai_compatible" ELSE "unknown"

HealthOf(seq, kind) ==
  IF seq = <<>> THEN "unreachable"
  ELSE IF StatusOf(seq, "/api/user/self") \in {401, 403} THEN "auth_required"
  ELSE IF Cardinality(Signals(seq)) >= 2 \/ kind # "unknown" THEN "healthy" ELSE "degraded"

IsPotentialCheckinEndpoint(r) ==
  /\ r.status \notin {404, 405} /\ ~Has(r, CheckinDisabled)
  /\ \/ r.status \in {401, 403}
     \/ r.status \in 200..499
        /\ \/ r.json /\ r.keys \cap CheckinKeys # {}
           \/ ~Has(r, {"<html"})
           \/ Has(r, {"checkin", "sign", "zh:checkin"})

SupportsCheckin(seq, kind) ==
  /\ \E r \in Answers(seq) : r.checkin /\ IsPotentialCheckinEndpoint(r)
  /\ "checkin-disabled" \notin Signals(seq)
  /\ kind \notin {"official_provider", "openai_compatible", "sub2api", "oneapi"}

EndpointLooksPresent(status) == status \notin {0, 404, 405}
Offers(seq, paths) == \E p \in paths : EndpointLooksPresent(StatusOf(seq, p))
SupportsModels(seq) ==
  Offers(seq, {"/v1/models", "/v1beta/models", "/api/channel/models", "/api/user/models", "/api/user/available_models"})
SupportsPricing(seq) == Offers(seq, {"/api/pricing"}) \/ "pricing-json" \in Signals(seq)
SupportsBalance(seq) ==
  Offers(seq, {"/v1/usage", "/api/user/self", "/api/user/quota", "/api/v1/subscriptions/active", "/api/v1/user/platform-quotas"})

AtMost(n, bound) == IF n < bound THEN n ELSE bound

\* In hundredths.
DetectionConfidence(kind, s) ==
  CASE kind = "unknown" -> 10 * AtMost(Cardinality(s), 4)
    [] kind = "official_provider" -> 96
    [] kind = "openai_compatible" -> IF Cardinality(s) <= 1 THEN 55 ELSE 70
    [] OTHER -> AtMost(98, 36 + 9 * AtMost(Count(s, PanelSignals), 5) + 8 * AtMost(Count(s, Sub2apiSignals), 3)
         + (IF s \cap {"newapi-text", "oneapi-text", "sub2api-text"} # {} THEN 16 ELSE 0)
         + (IF "api-channel" \in s THEN 8 ELSE 0) + (IF "api-user-self" \in s THEN 6 ELSE 0))

-------------------------------------------------------------------------------
(* Where people log in *)

LoginProbePaths == {"/login", "/console/login", "/panel/login", "/admin/login", "/user/login",
                    "/auth/login", "/signin", "/sign-in"}
Html(r) == Has(r, {"<html", "<body", "<a ", "<form", "<script", "app shell"})
LooksLikeExplicitLoginForm(r) == {"<form", "password"} \subseteq r.words
Served(r) == r.method = "GET" /\ r.status # 404

LooksLikeSPALoginFallback(r) ==
  /\ r.status = 200 /\ Has(r, {"<script", "app shell"})
  /\ Has(r, {"login", "signin", "sign-in", "zh:login"}) /\ Has(r, {"panel", "dashboard", "admin", "zh:backend"})

Offer(url, source, confidence) == [url |-> url, source |-> source, confidence |-> confidence]

\* The links of pages, and the pages that are forms themselves; then the login paths.
PageOffers(r) ==
  IF ~Served(r) \/ ~Html(r) THEN <<>>
  ELSE IF LooksLikeExplicitLoginForm(r) THEN <<Offer(r.path, "html_form", 95)>>
  ELSE [i \in DOMAIN r.links |-> Offer(r.links[i], "html_link", 85)]

PathOffers(r) ==
  IF ~Served(r) \/ r.path \notin LoginProbePaths THEN <<>>
  ELSE IF LooksLikeExplicitLoginForm(r) THEN <<Offer(r.path, "html_form", 95)>>
  ELSE IF r.path # "/login" /\ r.status = 200 /\ Has(r, {"login", "sign in", "signin", "zh:login"})
    THEN <<Offer(r.path, "path_probe", 75)>>
  ELSE IF r.path = "/login" /\ LooksLikeSPALoginFallback(r) THEN <<Offer(r.path, "spa_fallback", 60)>>
  ELSE <<>>

\* The first of those it is surest of.
DiscoverLogin(seq) ==
  LET offers(pass, i) == IF pass = 1 THEN PageOffers(seq[i]) ELSE PathOffers(seq[i])
      made == UNION {{<<pass, i, j>> : j \in DOMAIN offers(pass, i)} : pass \in 1..2, i \in DOMAIN seq}
      at(s) == offers(s[1], s[2])[s[3]]
      before(s, t) == s[1] < t[1] \/ (s[1] = t[1] /\ (s[2] < t[2] \/ (s[2] = t[2] /\ s[3] <= t[3])))
  IN IF made = {} THEN Offer("/login", "fallback", 40)
     ELSE at(CHOOSE s \in made : \A t \in made :
               at(s).confidence > at(t).confidence \/ (at(s).confidence = at(t).confidence /\ before(s, t)))

DetectUpstream(seq, official) ==
  LET kind == KindOf(seq, official) IN
  [kind |-> kind, health |-> HealthOf(seq, kind), confidence |-> DetectionConfidence(kind, Signals(seq)),
   checkin |-> SupportsCheckin(seq, kind), balance |-> SupportsBalance(seq),
   models |-> SupportsModels(seq), pricing |-> SupportsPricing(seq), login |-> DiscoverLogin(seq)]

IsManagedRelayKind(kind) == kind \in {"newapi", "oneapi", "sub2api", "modified_relay"}
===============================================================================
