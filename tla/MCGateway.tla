------------------------------- MODULE MCGateway -------------------------------
(***************************************************************************)
(* An instance of Gateway for TLC: two configurations that work, one for   *)
(* polling and one for the webhook, and what becomes of them when one or   *)
(* two of their settings are changed.                                      *)
(***************************************************************************)
EXTENDS Gateway, TLC

Url(scheme, path) == [scheme |-> scheme, host |-> TRUE, path |-> path, query |-> FALSE]

Key(text) == [text |-> text, trailing |-> FALSE]

Trailing(text) == [text |-> text, trailing |-> TRUE]

User(id, recipient) == [id |-> id, channel |-> "telegram", recipient |-> recipient]

Pool(id, users) == [id |-> id, users |-> users]

Model(id, pool) == [id |-> id, pool |-> pool]

Polling ==
  [parses |-> TRUE, update_mode |-> "polling", webhook |-> <<>>, secret |-> Text(""),
   limits |-> [name \in LimitNames |-> 2], texts |-> [name \in TextNames |-> name],
   urls |-> [name \in UrlNames |-> Url("https", <<>>)],
   auth |-> "api_key", keys |-> <<Key("k1"), Key("k2")>>, fallback |-> "llm",
   models |-> <<Model("m1", "p1"), Model("m2", "p2")>>,
   pools |-> <<Pool("p1", <<"u1">>), Pool("p2", <<"u2">>)>>,
   users |-> <<User("u1", "1"), User("u2", "2")>>]

Webhooked ==
  [Polling EXCEPT !.update_mode = "webhook", !.secret = Text("auto"),
                  !.webhook = <<Url("https", <<"hook">>)>>]

Works == {Polling, Webhooked}

Limits ==
  {[c EXCEPT !.limits[name] = n] : c \in {Polling}, name \in LimitNames, n \in {0, 1}}

Texts == {[c EXCEPT !.texts[name] = ""] : c \in {Polling}, name \in TextNames}

BadUrls == {Url("", <<>>), Url("ftp", <<>>), [Url("https", <<>>) EXCEPT !.host = FALSE]}

Urls == {[c EXCEPT !.urls[name] = url] : c \in Works, name \in UrlNames, url \in BadUrls}

\* In template mode the settings of the LLM do not matter.
Templates ==
  {[c EXCEPT !.fallback = mode] :
     mode \in {"template", "other"},
     c \in {Polling, [Polling EXCEPT !.texts["llm_model"] = ""],
            [Polling EXCEPT !.limits["llm_timeout"] = 0],
            [Polling EXCEPT !.urls["llm"] = Url("ftp", <<>>)]}}

Keys ==
  {[Polling EXCEPT !.auth = mode, !.keys = keys] :
     mode \in {"api_key", "none", "other"},
     keys \in {<<>>, <<Key("k1")>>, <<Key("k1"), Key("k1")>>, <<Key("")>>,
               <<Key("k1"), Trailing("k1")>>, <<Trailing("k2")>>}}

Callbacks ==
  {<<>>, <<Url("http", <<"hook">>)>>, <<Url("https", <<>>)>>, <<Url("https", <<"">>)>>,
   <<[Url("https", <<"hook">>) EXCEPT !.query = TRUE]>>,
   <<Url("https", HealthPath)>>, <<Url("https", ChatPath)>>, <<Url("https", ModelsPath)>>,
   <<Url("https", Append(HealthPath, ""))>>, <<Url("https", <<"hook">>)>>}

Secrets == {Text(""), Text("auto"), Text("s1"), Text("s!")}

Hooks ==
  {[Webhooked EXCEPT !.webhook = callback, !.secret = secret] :
     callback \in Callbacks, secret \in Secrets}

\* The callback's address is derived from the server's.
Bases ==
  {[Webhooked EXCEPT !.webhook = <<>>, !.urls["server"] = url] :
     url \in {Url("https", <<"">>), Url("https", <<"base">>), Url("https", <<"base", "">>),
              Url("http", <<"base">>), [Url("https", <<"base">>) EXCEPT !.query = TRUE]}}

Graphs ==
  {[c EXCEPT !.users = users] :
     c \in Works,
     users \in {<<>>, <<User("u1", "1"), User("u2", "1")>>, <<User("u1", "1"), User("u1", "2")>>,
                <<User("u1", "1"), User("u2", "")>>, <<User("u1", "1"), User("", "2")>>,
                <<User("u1", "1")>>, <<User("u1", "1"), User("u2", "2"), User("u3", "@g")>>,
                <<User("u1", "1"), [User("u2", "2") EXCEPT !.channel = "other"]>>}}
  \cup
  {[Polling EXCEPT !.pools = pools] :
     pools \in {<<>>, <<Pool("p1", <<"u1">>), Pool("p1", <<"u2">>)>>,
                <<Pool("p1", <<"u1", "u2">>), Pool("p2", <<"u2">>)>>,
                <<Pool("p1", <<>>), Pool("p2", <<"u2">>)>>,
                <<Pool("p1", <<"u3">>), Pool("p2", <<"u2">>)>>,
                <<Pool("p1", <<"u1">>), Pool("p2", <<"u1">>)>>,
                <<Pool("p1", <<"u1">>), Pool("", <<"u2">>)>>}}
  \cup
  {[Polling EXCEPT !.models = models] :
     models \in {<<>>, <<Model("m1", "p1"), Model("m1", "p2")>>, <<Model("m1", "p3")>>,
                 <<Model("", "p1")>>, <<Model("m1", "")>>, <<Model("m1", "p2")>>}}

AllConfigs ==
  Works \cup Limits \cup Texts \cup Urls \cup Templates \cup Keys \cup Hooks \cup Bases
  \cup Graphs \cup {[Polling EXCEPT !.parses = FALSE]}

AllLeftovers == {<<>>, <<[url |-> Url("https", <<"hook">>), secret |-> Text("old")]>>}

-----------------------------------------------------------------------------
Plain ==
  [method |-> "POST", path |-> ChatPath, scheme |-> "Bearer", key |-> Key("k1"),
   secret |-> Text(""), json |-> TRUE, decodes |-> TRUE, supported |-> TRUE,
   model |-> "m1", chat |-> "1"]

\* Requests to the API with every header, and calls with every fault.
ApiRequests ==
  {[Plain EXCEPT !.path = path, !.method = method, !.scheme = scheme, !.key = key] :
     path \in {HealthPath, ChatPath, ModelsPath, <<"nowhere">>},
     method \in {"GET", "POST"}, scheme \in {"none", "Basic", "Bearer"},
     key \in {Key("k1"), Key("k2"), Trailing("k2"), Key("k3"), Key("")}}
  \cup {[Plain EXCEPT !.json = FALSE], [Plain EXCEPT !.decodes = FALSE],
        [Plain EXCEPT !.supported = FALSE], [Plain EXCEPT !.model = ""],
        [Plain EXCEPT !.model = "m2"], [Plain EXCEPT !.model = "m3"]}

\* Posts to addresses a webhook may have, with every secret.
HookRequests ==
  {[Plain EXCEPT !.path = path, !.secret = secret, !.chat = chat, !.scheme = "none"] :
     path \in {<<"hook">>, DefaultWebhook, <<"base">> \o DefaultWebhook,
               Append(HealthPath, "")},
     secret \in {Text(""), Text("s1"), Text("auto"), Text("old"),
                 [kind |-> "derived", of |-> "bot_token"],
                 [kind |-> "derived", of |-> "other_token"]},
     chat \in {"1", "2", "3"}}

AllRequests == ApiRequests \cup HookRequests

=============================================================================
