-------------------------------- MODULE Gateway --------------------------------
(***************************************************************************)
(* From the configuration to the answer: what newRuntimeInstance           *)
(* (cmd/sotapi/runtime.go) makes of a loaded configuration and when it     *)
(* refuses, what Configure registers at Telegram, and how the handler of   *)
(* buildHTTPHandler dispatches a request, checks its key or secret and     *)
(* finds the human: auth.go, models/handler.go, the first part of          *)
(* chatcompletions/handler.go and ServeHTTP of webhook.go.  What becomes   *)
(* of a routed call is in ChatStream and Completion, of an update in       *)
(* TelegramUpdates, and of a service that reloads in Runtime.              *)
(***************************************************************************)
EXTENDS Configuration, Integers

CONSTANTS Configs,    \* configurations, as the file and the environment give them
          Requests,   \* what anybody may send to the server
          Leftovers,  \* what may be registered at Telegram before
          None

Fields == {"parses", "update_mode", "webhook", "secret", "limits", "texts", "urls",
           "auth", "keys", "fallback", "models", "pools", "users"}

IsConfig(c) ==
  /\ c = [field \in Fields |-> c[field]]
  /\ \A name \in LimitNames : c.limits[name] \in Int
  /\ DOMAIN c.models \subseteq Nat /\ DOMAIN c.pools \subseteq Nat
  /\ DOMAIN c.users \subseteq Nat

\* The key of a request is its text and whether blanks follow it.
IsRequest(request) ==
  request.key = [text |-> request.key.text, trailing |-> request.key.trailing]

ASSUME GatewayAssumption ==
  /\ Second \in Nat \ {0}
  /\ \A c \in Configs : IsConfig(c)
  /\ \A request \in Requests : IsRequest(request)

VARIABLES
  phase,      \* "new", "loaded", "built", "serving", or "refused" (by Load),
              \* "failed" (at newRuntimeInstance), "stopped" (at Configure)
  config,     \* the configuration
  instance,   \* what was built from it
  registered, \* the webhook Telegram knows, [url, secret], if any
  exchange    \* the last request and the response: [request, response]

vars == <<phase, config, instance, registered, exchange>>

HealthPath == <<"healthz">>
ChatPath == <<"v1", "chat", "completions">>
ModelsPath == <<"v1", "models">>

-----------------------------------------------------------------------------
(* newRuntimeInstance: what each constructor accepts                       *)

\* auth.New tells keys apart by their hashes.
AuthAccepts(c) ==
  \/ c.auth = "none"
  \/ /\ c.auth = "api_key" /\ c.keys # <<>> /\ Distinct(c.keys)
     /\ \A i \in DOMAIN c.keys : ~IsBlank(c.keys[i].text)

\* stats.NewStore
StatsAccepts(c) == c.limits["after_missed_replies"] > 0

\* Seeded fault: two humans may share an endpoint.
EndpointsMayRepeat(c) ==
  /\ c.limits["after_missed_replies"] > 0 /\ c.users # <<>>
  /\ Distinct(Column(c.users, "id")) /\ \A i \in DOMAIN c.users : ValidUser(c.users[i])

Endpoint(user) == <<user.channel, user.recipient>>

\* availability.NewStore
AvailabilityAccepts(c) ==
  /\ c.limits["after_missed_replies"] > 0 /\ c.users # <<>>
  /\ Distinct(Column(c.users, "id")) /\ \A i \in DOMAIN c.users : ValidUser(c.users[i])
  /\ Distinct([i \in DOMAIN c.users |-> Endpoint(c.users[i])])

\* NewTemplateFallback and, in llm mode, openai.New
FallbackAccepts(c) ==
  /\ ~IsBlank(c.texts["fallback_template"])
  /\ \/ c.fallback = "template"
     \/ /\ ValidHTTPURL(c.urls["llm"]) /\ ~IsBlank(c.texts["llm_model"])
        /\ c.limits["llm_timeout"] > 0

\* deriveWebhookSecret for "auto"; this is what setWebhook sends.
SecretOf(c) ==
  IF c.secret = Text("auto")
  THEN [kind |-> "derived", of |-> c.texts["bot_token"]]
  ELSE c.secret

\* Seeded fault: the secret is hashed before it is derived.
SecretAsWritten(c) == c.secret

\* The secret ServeHTTP compares with, by its hash.
ExpectedSecret(c) == SecretOf(c)

\* telegram.NewClient
ClientAccepts(c) ==
  /\ ~IsBlank(c.texts["bot_token"])
  /\ c.urls["telegram"].scheme # "" /\ c.urls["telegram"].host
  /\ c.limits["poll_timeout"] > 0 /\ c.limits["retry_interval"] > 0
  /\ \/ c.update_mode = "polling"
     \/ /\ c.update_mode = "webhook"
        /\ ValidCallback(c.webhook[1]) /\ ValidSecret(SecretOf(c))

\* NewService and chatcompletions.NewHandler
ServiceAccepts(c) ==
  c.limits["response_timeout"] > 0 /\ c.limits["max_body_bytes"] > 0

\* models.NewHandler
ModelsAccept(c) ==
  /\ c.models # <<>> /\ Distinct(Column(c.models, "id"))
  /\ \A i \in DOMAIN c.models : ~IsBlank(c.models[i].id)

\* Seeded fault: the webhook may have any path.
AnyPath(c) == TRUE

\* buildHTTPHandler
PathIsFree(c) ==
  c.update_mode = "webhook" =>
    c.webhook[1].path \notin {HealthPath, ChatPath, ModelsPath}

Builds(c) ==
  /\ AuthAccepts(c) /\ RouterAccepts(c.models, c.pools, c.users)
  /\ StatsAccepts(c) /\ AvailabilityAccepts(c) /\ FallbackAccepts(c)
  /\ ClientAccepts(c) /\ ServiceAccepts(c) /\ ModelsAccept(c) /\ PathIsFree(c)

NewInstance(c) ==
  [open     |-> c.auth = "none",
   keys     |-> {c.keys[i] : i \in DOMAIN c.keys},
   router   |-> NewRouter(c.models, c.pools, c.users),
   listed   |-> Column(c.models, "id"),
   users    |-> c.users,
   callback |-> IF c.update_mode = "webhook"
                THEN <<[url |-> c.webhook[1], secret |-> SecretOf(c)]>>
                ELSE <<>>,
   webhook  |-> IF c.update_mode = "webhook"
                THEN <<[path |-> c.webhook[1].path, secret |-> ExpectedSecret(c)]>>
                ELSE <<>>]

-----------------------------------------------------------------------------
(* Answering a request, with the instance i                                *)

\* A response: who gave it, how it came out, and the human it concerns.
Answer(by, outcome) == [by |-> by, outcome |-> outcome, human |-> None]

\* Seeded fault: the scheme of the header is not looked at.
AnyScheme(i, request) ==
  i.open \/ [request.key EXCEPT !.trailing = FALSE] \in i.keys

\* The header is trimmed before the token is compared.
Authorized(i, request) ==
  \/ i.open
  \/ /\ request.scheme = "Bearer" /\ ~IsBlank(request.key.text)
     /\ [request.key EXCEPT !.trailing = FALSE] \in i.keys

\* "GET /healthz" of the mux
Health(request) ==
  Answer("health", IF request.method \in {"GET", "HEAD"} THEN "ok" ELSE "method")

\* models.Handler.ServeHTTP
Models(i, request) ==
  Answer("models", CASE request.method # "GET" -> "method"
                     [] request.method = "GET" /\ ~Authorized(i, request) -> "unauthorized"
                     [] OTHER -> "ok")

\* Handler.ServeHTTP with decodeRequest and convertRequest; a call for a model
\* without a route gets as far as the service.
Chat(i, request) ==
  IF /\ request.method = "POST" /\ Authorized(i, request) /\ request.json
     /\ request.decodes /\ request.supported /\ ~IsBlank(request.model)
     /\ request.model \in Routed(i.router)
  THEN [by |-> "chat", outcome |-> "ok",
        human |-> Resolve(i.router, request.model)]
  ELSE Answer("chat",
         CASE request.method # "POST" -> "method"
           [] request.method = "POST" /\ ~Authorized(i, request) -> "unauthorized"
           [] request.method = "POST" /\ Authorized(i, request) /\ ~request.json -> "media"
           [] request.method = "POST" /\ Authorized(i, request) /\ request.json
              /\ ~(request.decodes /\ request.supported /\ ~IsBlank(request.model)) -> "bad"
           [] OTHER -> "not_found")

\* availability.SetOnline: the human of a numeric chat ID.
HumanAt(i, chat) ==
  IF \E n \in DOMAIN i.users : Endpoint(i.users[n]) = <<"telegram", chat>>
  THEN Entry(i.users, "recipient", chat)
  ELSE None

\* webhook.ServeHTTP; an update it cannot use is acknowledged all the same.
Webhook(i, request) ==
  IF /\ request.method = "POST" /\ request.secret = i.webhook[1].secret
     /\ request.json /\ request.decodes
  THEN [by |-> "webhook", outcome |-> "ok", human |-> HumanAt(i, request.chat)]
  ELSE Answer("webhook",
         CASE request.method # "POST" -> "method"
           [] request.method = "POST" /\ request.secret # i.webhook[1].secret ->
                "unauthorized"
           [] OTHER -> "bad")

\* The handler of buildHTTPHandler: the webhook's exact path, then the mux.
Respond(i, request) ==
  IF i.webhook # <<>> /\ request.path = i.webhook[1].path
  THEN Webhook(i, request)
  ELSE CASE request.path = HealthPath -> Health(request)
         [] request.path = ChatPath -> Chat(i, request)
         [] request.path = ModelsPath -> Models(i, request)
         [] OTHER -> Answer("mux", "not_found")

-----------------------------------------------------------------------------
(* The life of an instance                                                 *)

Init ==
  /\ phase = "new" /\ config \in Configs /\ instance = None
  /\ registered \in Leftovers /\ exchange = None

Load ==
  /\ phase = "new"
  /\ IF Loads(config)
     THEN phase' = "loaded" /\ config' = Derived(config)
     ELSE phase' = "refused" /\ UNCHANGED config
  /\ UNCHANGED <<instance, registered, exchange>>

Build ==
  /\ phase = "loaded"
  /\ IF Builds(config)
     THEN phase' = "built" /\ instance' = NewInstance(config)
     ELSE phase' = "failed" /\ UNCHANGED instance
  /\ UNCHANGED <<config, registered, exchange>>

\* configureUpdateMode: setWebhook or deleteWebhook; a call that fails may have
\* taken effect.
Configure ==
  /\ phase = "built"
  /\ \/ registered' = instance.callback /\ phase' \in {"serving", "stopped"}
     \/ UNCHANGED registered /\ phase' = "stopped"
  /\ UNCHANGED <<config, instance, exchange>>

Serve(request) ==
  /\ phase = "serving"
  /\ exchange' = [request |-> request, response |-> Respond(instance, request)]
  /\ UNCHANGED <<phase, config, instance, registered>>

\* Telegram posts an update from a chat to what is registered.
Update(chat) ==
  [method |-> "POST", path |-> registered[1].url.path, scheme |-> "none",
   key |-> [text |-> "", trailing |-> FALSE], secret |-> registered[1].secret,
   json |-> TRUE, decodes |-> TRUE, supported |-> FALSE, model |-> "", chat |-> chat]

TelegramPosts(chat) == registered # <<>> /\ Serve(Update(chat))

Chats == {request.chat : request \in Requests}

Idle == phase \in {"refused", "failed", "stopped"} /\ UNCHANGED vars

Next ==
  \/ Load \/ Build \/ Configure \/ Idle
  \/ \E request \in Requests : Serve(request)
  \/ \E chat \in Chats : TelegramPosts(chat)

Spec == Init /\ [][Next]_vars

-----------------------------------------------------------------------------
(* Properties                                                              *)

Serving == phase = "serving"

Answered == Serving /\ exchange # None

\* What "config validate" and the reload accept, newRuntimeInstance builds, but
\* for two humans at one endpoint and a webhook at the path of an API endpoint:
\* the checks of config and those of the constructors differ in nothing else.
OnlyKnownRefusals ==
  phase = "failed" =>
    \/ \E i, j \in DOMAIN config.users :
         i # j /\ config.users[i].recipient = config.users[j].recipient
    \/ ~PathIsFree(config)

\* Every model that GET /v1/models lists is routed, and no other; it leads to the one
\* human of the pool it is configured with, and that human can be told apart by the
\* endpoint under which the availability store knows them.
ServesWhatItLists ==
  Serving =>
    /\ Routed(instance.router) = {instance.listed[i] : i \in DOMAIN instance.listed}
    /\ \A m \in DOMAIN config.models :
         \E p \in DOMAIN config.pools, n \in DOMAIN config.users :
           /\ config.pools[p].id = config.models[m].pool
           /\ Len(config.pools[p].users) = 1 /\ config.pools[p].users[1] = config.users[n].id
           /\ Resolve(instance.router, config.models[m].id) = config.users[n]
           /\ HumanAt(instance, config.users[n].recipient) = config.users[n]

\* What Telegram was told is what the server listens to: an update posted to the
\* registered address with the registered secret reaches the bot's handler, and no
\* update is handled that came with any other secret, or without a registration.
WebhookReachable ==
  Answered =>
    LET handled == exchange.response.by = "webhook" /\ exchange.response.outcome = "ok"
    IN  /\ (registered # <<>> /\ exchange.request = Update(exchange.request.chat)) => handled
        /\ handled => registered # <<>> /\ exchange.request.secret = registered[1].secret

\* The webhook shadows no endpoint of the API, wherever it is put.
ApiIsReachable ==
  Answered =>
    /\ exchange.request.path = HealthPath => exchange.response.by = "health"
    /\ exchange.request.path = ChatPath => exchange.response.by = "chat"
    /\ exchange.request.path = ModelsPath => exchange.response.by = "models"

\* A caller without one of the configured keys learns nothing from the API but that
\* the method or the key is wrong, and every configured key opens it: but for keys
\* that end in a blank, which the trimmed header cannot carry.
KeyDecides ==
  Answered /\ exchange.response.by \in {"chat", "models"} =>
    LET request == exchange.request
        text == [request.key EXCEPT !.trailing = FALSE]
        keyed == /\ request.scheme = "Bearer"
                 /\ \E i \in DOMAIN config.keys : config.keys[i] = text
    IN  exchange.response.outcome # "method" =>
          (exchange.response.outcome = "unauthorized" <=> config.auth # "none" /\ ~keyed)

=============================================================================
