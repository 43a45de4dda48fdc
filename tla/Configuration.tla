---------------------------- MODULE Configuration ----------------------------
(***************************************************************************)
(* Load and Validate of config/config.go: which configurations the program *)
(* accepts, at the start, at a reload and for "config validate".           *)
(*                                                                         *)
(* A configuration c is a record.  Its numbers are c.limits, its texts     *)
(* c.texts and its plain URLs c.urls, each by name.  A URL is a record: it *)
(* has a scheme, may have a host and a query or fragment, and its path is  *)
(* a sequence of segments: "" is <<>>, "/" is <<"">>, "/v1/" <<"v1", "">>.  *)
(* A secret is a text, or derived from the text of the bot token.  A key   *)
(* is a text that may be followed by blanks.  c.parses: the file is YAML   *)
(* with known fields only, the environment's values laid over it.          *)
(***************************************************************************)
EXTENDS Routing

CONSTANTS WellFormed,  \* texts of 1 to 256 letters, digits, "_" and "-"
          Second       \* a second, in the unit of the limits

LimitNames == {"read_header_timeout", "idle_timeout", "shutdown_timeout",
               "stream_keep_alive", "max_body_bytes", "response_timeout",
               "after_missed_replies", "llm_timeout", "poll_timeout",
               "retry_interval"}

TextNames == {"listen", "reasoning_template", "fallback_template", "llm_model",
              "bot_token"}

UrlNames == {"server", "llm", "telegram"}

Text(value) == [kind |-> "text", of |-> value]

ValidHTTPURL(url) == url.scheme \in {"http", "https"} /\ url.host

Dedicated(path) == path \notin {<<>>, <<"">>}

\* A callback address that Telegram can be given.
ValidCallback(url) ==
  url.scheme = "https" /\ url.host /\ Dedicated(url.path) /\ ~url.query

ValidSecret(secret) == secret.kind = "derived" \/ secret.of \in WellFormed

\* strings.TrimRight(path, "/")
Trimmed(path) ==
  SubSeq(path, 1, Max({0} \cup {i \in DOMAIN path : path[i] # ""}))

DefaultWebhook == <<"webhooks", "telegram">>

\* Text appended to a URL with a query becomes part of the query.
DerivedCallback(url) ==
  IF url.query THEN url ELSE [url EXCEPT !.path = Trimmed(@) \o DefaultWebhook]

\* applyDerivedValues; c.webhook is <<>> when the file gives no URL.
Derived(c) ==
  IF c.update_mode = "webhook" /\ c.webhook = <<>>
  THEN [c EXCEPT !.webhook = <<DerivedCallback(c.urls["server"])>>]
  ELSE c

\* Seeded fault: a key may be there twice.
KeysMayRepeat(mode, keys) ==
  \/ mode = "none"
  \/ mode = "api_key" /\ keys # <<>> /\ \A i \in DOMAIN keys : ~IsBlank(keys[i].text)

ValidAuth(mode, keys) ==
  \/ mode = "none"
  \/ /\ mode = "api_key" /\ keys # <<>> /\ Distinct(keys)
     /\ \A i \in DOMAIN keys : ~IsBlank(keys[i].text)

ValidFallback(c) ==
  \/ c.fallback = "template"
  \/ /\ c.fallback = "llm"
     /\ ValidHTTPURL(c.urls["llm"]) /\ ~IsBlank(c.texts["llm_model"])
     /\ c.limits["llm_timeout"] > 0

ValidUpdates(c) ==
  \/ c.update_mode = "polling"
  \/ /\ c.update_mode = "webhook"
     /\ ValidCallback(c.webhook[1]) /\ ValidSecret(c.secret)

\* Validate
Valid(c) ==
  /\ ~IsBlank(c.texts["listen"]) /\ ValidHTTPURL(c.urls["server"])
  /\ \A name \in LimitNames \ {"llm_timeout", "poll_timeout"} : c.limits[name] > 0
  /\ ValidAuth(c.auth, c.keys)
  /\ ~IsBlank(c.texts["reasoning_template"])
  /\ ~IsBlank(c.texts["fallback_template"])
  /\ ValidFallback(c)
  /\ ~IsBlank(c.texts["bot_token"]) /\ ValidHTTPURL(c.urls["telegram"])
  /\ ValidUpdates(c)
  /\ c.limits["poll_timeout"] >= Second
  /\ c.models # <<>> /\ c.pools # <<>> /\ c.users # <<>>
  /\ \A i \in DOMAIN c.users : c.users[i].channel = "telegram"

\* Load, and the routing graph that loadRuntimeConfig tries out.
Loads(c) ==
  /\ c.parses
  /\ Valid(Derived(c))
  /\ RouterAccepts(c.models, c.pools, c.users)

=============================================================================
