----------------------------- MODULE GatewayProofs -----------------------------
(***************************************************************************)
(* Proofs about Gateway, for all configurations and all requests.          *)
(***************************************************************************)
EXTENDS Gateway, TLAPS

\* Only what the validation and the trial router accepted is ever built; what
\* serves was built from the configuration, its callback is what Telegram knows,
\* and what was answered was answered by it.
Inductive ==
  /\ IsConfig(config)
  /\ phase \notin {"new", "refused"} =>
       Valid(config) /\ RouterAccepts(config.models, config.pools, config.users)
  /\ phase = "failed" => ~Builds(config)
  /\ phase \in {"built", "serving"} =>
       Builds(config) /\ instance = NewInstance(config)
  /\ phase = "serving" => registered = instance.callback
  /\ phase # "serving" => exchange = None
  /\ exchange # None =>
       IsRequest(exchange.request) /\ exchange.response = Respond(instance, exchange.request)

\* What Load derives is a configuration with the same routing graph.
LEMMA DerivedKeeps ==
  ASSUME NEW c, IsConfig(c)
  PROVE  /\ IsConfig(Derived(c))
         /\ Derived(c).models = c.models /\ Derived(c).pools = c.pools
         /\ Derived(c).users = c.users
<1>1. CASE c.update_mode = "webhook" /\ c.webhook = <<>>
  <2> DEFINE w == <<DerivedCallback(c.urls["server"])>>
  <2>1. Derived(c) = [c EXCEPT !.webhook = w]
    BY <1>1 DEF Derived
  <2> HIDE DEF w
  <2>2. Derived(c) = [field \in Fields |-> IF field = "webhook" THEN w ELSE c[field]]
    BY <2>1 DEF IsConfig, Fields
  <2>3. Derived(c) = [field \in Fields |-> Derived(c)[field]]
    BY <2>2
  <2>4. \A field \in Fields \ {"webhook"} : Derived(c)[field] = c[field]
    BY <2>2
  <2> QED
    BY <2>3, <2>4 DEF IsConfig, Fields
<1>2. CASE ~(c.update_mode = "webhook" /\ c.webhook = <<>>)
  BY <1>2 DEF Derived
<1> QED
  BY <1>1, <1>2

LEMMA InitHolds == Init => Inductive
BY GatewayAssumption DEF Init, Inductive

LEMMA NextHolds ==
  ASSUME Inductive, [Next]_vars
  PROVE  Inductive'
<1> USE DEF Inductive
<1>1. CASE Load
  <2>1. CASE Loads(config)
    BY <1>1, <2>1, DerivedKeeps DEF Load, Loads
  <2>2. CASE ~Loads(config)
    BY <1>1, <2>2 DEF Load
  <2> QED
    BY <2>1, <2>2
<1>2. CASE Build
  BY <1>2 DEF Build
<1>3. CASE Configure
  BY <1>3 DEF Configure
<1>4. ASSUME NEW request, IsRequest(request), Serve(request)
      PROVE  Inductive'
  <2>1. /\ exchange' = [request |-> request, response |-> Respond(instance, request)]
        /\ phase = "serving" /\ UNCHANGED <<phase, config, instance, registered>>
    BY <1>4 DEF Serve
  <2>2. exchange'.request = request /\ exchange'.response = Respond(instance, request)
    BY <2>1
  <2> QED
    BY <1>4, <2>1, <2>2
<1>5. CASE Idle \/ UNCHANGED vars
  BY <1>5 DEF Idle, vars
<1>6. ASSUME NEW chat PROVE IsRequest(Update(chat))
  BY DEF IsRequest, Update
<1> QED
  BY <1>1, <1>2, <1>3, <1>4, <1>5, <1>6, GatewayAssumption DEF Next, TelegramPosts

THEOREM GatewayInvariant == Spec => []Inductive
BY InitHolds, NextHolds, PTL DEF Spec

-----------------------------------------------------------------------------

\* What every check of a constructor comes to, for a configuration that passed
\* validation and the trial router.
LEMMA ValidationSuffices ==
  ASSUME NEW c, IsConfig(c), Valid(c), RouterAccepts(c.models, c.pools, c.users),
         Distinct([n \in DOMAIN c.users |-> Endpoint(c.users[n])]), PathIsFree(c)
  PROVE  Builds(c)
<1>1. AuthAccepts(c)
  BY DEF Valid, ValidAuth, AuthAccepts
<1>2. c.limits["after_missed_replies"] > 0 /\ c.limits["response_timeout"] > 0
      /\ c.limits["max_body_bytes"] > 0 /\ c.limits["retry_interval"] > 0
  BY DEF Valid, LimitNames
<1>3. c.limits["poll_timeout"] > 0
  <2>1. c.limits["poll_timeout"] \in Int
    BY DEF IsConfig, LimitNames
  <2>2. c.limits["poll_timeout"] >= Second
    BY DEF Valid
  <2> QED
    BY <2>1, <2>2, GatewayAssumption
<1>4. StatsAccepts(c) /\ ServiceAccepts(c)
  BY <1>2 DEF StatsAccepts, ServiceAccepts
<1>5. AvailabilityAccepts(c)
  BY <1>2 DEF AvailabilityAccepts, RouterAccepts
<1>6. FallbackAccepts(c)
  BY DEF Valid, ValidFallback, FallbackAccepts
<1>7. ClientAccepts(c)
  <2>1. ValidSecret(c.secret) => ValidSecret(SecretOf(c))
    BY DEF ValidSecret, SecretOf
  <2>2. c.urls["telegram"].scheme # "" /\ c.urls["telegram"].host
    BY DEF Valid, ValidHTTPURL
  <2>3. ~IsBlank(c.texts["bot_token"]) /\ ValidUpdates(c)
    BY DEF Valid
  <2> QED
    BY <1>2, <1>3, <2>1, <2>2, <2>3 DEF ClientAccepts, ValidUpdates
<1>8. ModelsAccept(c)
  BY DEF ModelsAccept, RouterAccepts, ValidModels
<1> QED
  BY <1>1, <1>4, <1>5, <1>6, <1>7, <1>8 DEF Builds

\* What "config validate" accepts can be built, but for shared endpoints and a
\* webhook in the place of an API endpoint.
THEOREM GatewayOnlyKnownRefusals == Spec => []OnlyKnownRefusals
<1>1. Inductive => OnlyKnownRefusals
  <2> SUFFICES ASSUME Inductive, phase = "failed", PathIsFree(config)
               PROVE  \E i, j \in DOMAIN config.users :
                        i # j /\ config.users[i].recipient = config.users[j].recipient
    BY DEF OnlyKnownRefusals
  <2>1. ~Distinct([n \in DOMAIN config.users |-> Endpoint(config.users[n])])
    BY ValidationSuffices DEF Inductive
  <2> QED
    BY <2>1 DEF Distinct, Endpoint
<1> QED
  BY GatewayInvariant, <1>1, PTL

\* Telegram posts to where the bot listens, with the secret it expects, and nothing
\* else is handled.
THEOREM GatewayWebhookReachable == Spec => []WebhookReachable
<1>1. Inductive => WebhookReachable
  <2> SUFFICES ASSUME Inductive, phase = "serving", exchange # None
               PROVE  WebhookReachable
    BY DEF WebhookReachable, Answered, Serving
  <2> DEFINE request == exchange.request
             response == exchange.response
             handled == response.by = "webhook" /\ response.outcome = "ok"
  <2>1. instance = NewInstance(config) /\ registered = instance.callback
        /\ response = Respond(instance, request)
    BY DEF Inductive
  <2>2. CASE config.update_mode = "webhook"
    <3> DEFINE path == config.webhook[1].path
               secret == SecretOf(config)
    <3>1. /\ instance.webhook = <<[path |-> path, secret |-> secret]>>
          /\ registered = <<[url |-> config.webhook[1], secret |-> secret]>>
      BY <2>1, <2>2 DEF NewInstance, ExpectedSecret
    <3>2. response = IF request.path = path THEN Webhook(instance, request) ELSE response
      BY <2>1, <3>1 DEF Respond
    <3>3. registered # <<>> /\ registered[1].secret = secret /\ registered[1].url.path = path
      BY <3>1
    <3>4. instance.webhook # <<>> /\ instance.webhook[1].secret = secret
          /\ instance.webhook[1].path = path
      BY <3>1
    <3>5. ASSUME request = Update(request.chat)
          PROVE  handled
      <4>1. /\ request.method = "POST" /\ request.path = path
            /\ request.secret = secret /\ request.json /\ request.decodes
        <5> DEFINE update == Update(request.chat)
        <5>1. /\ update.method = "POST" /\ update.path = registered[1].url.path
              /\ update.secret = registered[1].secret
              /\ update.json /\ update.decodes
          BY DEF Update
        <5> QED
          BY <3>3, <3>5, <5>1
      <4>2. response = Webhook(instance, request)
        BY <3>2, <4>1
      <4> QED
        BY <3>4, <4>1, <4>2 DEF Webhook
    <3>6. ASSUME handled
          PROVE  request.secret = secret
      <4>1. request.path = path
        BY <2>1, <3>4, <3>6 DEF Respond, Health, Chat, Models, Answer
      <4>2. response = Webhook(instance, request)
        BY <3>2, <4>1
      <4> QED
        BY <3>4, <3>6, <4>2 DEF Webhook, Answer
    <3> QED
      BY <3>3, <3>5, <3>6 DEF WebhookReachable
  <2>3. CASE config.update_mode # "webhook"
    <3>1. instance.webhook = <<>> /\ registered = <<>>
      BY <2>1, <2>3 DEF NewInstance
    <3>2. ~handled
      BY <2>1, <3>1 DEF Respond, Health, Chat, Models, Answer
    <3> QED
      BY <3>1, <3>2 DEF WebhookReachable
  <2> QED
    BY <2>2, <2>3
<1> QED
  BY GatewayInvariant, <1>1, PTL

\* A webhook never takes a request away from the API.
THEOREM GatewayApiIsReachable == Spec => []ApiIsReachable
<1>1. Inductive => ApiIsReachable
  <2> SUFFICES ASSUME Inductive, phase = "serving", exchange # None
               PROVE  ApiIsReachable
    BY DEF ApiIsReachable, Answered, Serving
  <2>1. instance = NewInstance(config) /\ PathIsFree(config)
        /\ exchange.response = Respond(instance, exchange.request)
    BY DEF Inductive, Builds
  <2>2. ASSUME exchange.request.path \in {HealthPath, ChatPath, ModelsPath}
        PROVE  ~(instance.webhook # <<>> /\ exchange.request.path = instance.webhook[1].path)
    BY <2>1, <2>2 DEF NewInstance, PathIsFree
  <2>3. HealthPath # ChatPath /\ HealthPath # ModelsPath /\ ChatPath # ModelsPath
    <3>1. Len(HealthPath) = 1 /\ Len(ChatPath) = 3 /\ Len(ModelsPath) = 2
      BY DEF HealthPath, ChatPath, ModelsPath
    <3> QED
      BY <3>1
  <2> QED
    BY <2>1, <2>2, <2>3 DEF ApiIsReachable, Respond, Health, Chat, Models, Answer
<1> QED
  BY GatewayInvariant, <1>1, PTL

\* Where the values of a column differ, a map filled from the list holds every entry
\* under its own value.
LEMMA EntryIsOwn ==
  ASSUME NEW list, DOMAIN list \subseteq Nat, NEW field, Distinct(Column(list, field)),
         NEW n \in DOMAIN list
  PROVE  Entry(list, field, list[n][field]) = list[n]
<1> DEFINE S == {i \in DOMAIN list : list[i][field] = list[n][field]}
<1>1. S = {n}
  BY DEF Distinct, Column
<1>2. Max({n}) = n
  <2>1. n \in Nat
    OBVIOUS
  <2>2. \A x \in {n} : (\A y \in {n} : x >= y) <=> x = n
    BY <2>1
  <2> QED
    BY <2>2 DEF Max
<1>3. Entry(list, field, list[n][field]) = list[Max(S)]
  BY DEF Entry
<1> QED
  BY <1>1, <1>2, <1>3

\* In a graph that NewRouter accepts every model leads to the human of its pool.
LEMMA ResolvesToHuman ==
  ASSUME NEW c, IsConfig(c), RouterAccepts(c.models, c.pools, c.users),
         NEW m \in DOMAIN c.models
  PROVE  \E p \in DOMAIN c.pools, n \in DOMAIN c.users :
           /\ c.pools[p].id = c.models[m].pool
           /\ Len(c.pools[p].users) = 1 /\ c.pools[p].users[1] = c.users[n].id
           /\ Resolve(NewRouter(c.models, c.pools, c.users), c.models[m].id) = c.users[n]
<1> DEFINE Held(list) ==
      \A i \in DOMAIN list : Entry(list, "id", list[i].id) = list[i]
<1>0. Held(c.models) /\ Held(c.pools) /\ Held(c.users)
  <2>1. /\ DOMAIN c.models \subseteq Nat /\ Distinct(Column(c.models, "id"))
        /\ DOMAIN c.pools \subseteq Nat /\ Distinct(Column(c.pools, "id"))
        /\ DOMAIN c.users \subseteq Nat /\ Distinct(Column(c.users, "id"))
    BY Zenon DEF IsConfig, RouterAccepts, ValidModels, ValidPools
  <2> QED
    BY <2>1, EntryIsOwn
<1>2. Entry(c.models, "id", c.models[m].id) = c.models[m]
  BY <1>0
<1>3. PICK p \in DOMAIN c.pools : c.pools[p].id = c.models[m].pool
  BY DEF RouterAccepts, ValidModels, Listed
<1>4. Entry(c.pools, "id", c.models[m].pool) = c.pools[p]
  <2>1. Entry(c.pools, "id", c.pools[p].id) = c.pools[p]
    BY <1>0
  <2> QED
    BY <1>3, <2>1
<1>5. PICK n \in DOMAIN c.users : c.users[n].id = c.pools[p].users[1]
  BY DEF RouterAccepts, ValidPools, Listed
<1>6. Entry(c.users, "id", c.pools[p].users[1]) = c.users[n]
  <2>1. Entry(c.users, "id", c.users[n].id) = c.users[n]
    BY <1>0
  <2> QED
    BY <1>5, <2>1
<1>7. Resolve(NewRouter(c.models, c.pools, c.users), c.models[m].id) = c.users[n]
  BY <1>2, <1>4, <1>6 DEF Resolve, NewRouter
<1>8. Len(c.pools[p].users) = 1
  BY DEF RouterAccepts, ValidPools
<1> QED
  BY <1>3, <1>5, <1>7, <1>8

\* The availability store knows every configured human by their chat.
LEMMA HumanAtTheirChat ==
  ASSUME NEW c, IsConfig(c), Valid(c), AvailabilityAccepts(c), NEW n \in DOMAIN c.users
  PROVE  HumanAt(NewInstance(c), c.users[n].recipient) = c.users[n]
<1>1. NewInstance(c).users = c.users
  BY DEF NewInstance
<1>2. \A i \in DOMAIN c.users : Endpoint(c.users[i]) = <<"telegram", c.users[i].recipient>>
  BY DEF Valid, Endpoint
<1>3. Distinct(Column(c.users, "recipient"))
  <2>1. \A i, j \in DOMAIN c.users : Endpoint(c.users[i]) = Endpoint(c.users[j]) => i = j
    BY DEF AvailabilityAccepts, Distinct
  <2>2. \A i, j \in DOMAIN c.users : c.users[i].recipient = c.users[j].recipient => i = j
    BY <1>2, <2>1
  <2> QED
    BY <2>2 DEF Distinct, Column
<1>4. Entry(c.users, "recipient", c.users[n].recipient) = c.users[n]
  BY <1>3, EntryIsOwn DEF IsConfig
<1> QED
  BY <1>1, <1>2, <1>4 DEF HumanAt

\* Every listed model is routed to the human of its pool, whom the availability store
\* tells apart from all others.
THEOREM GatewayServesWhatItLists == Spec => []ServesWhatItLists
<1>1. Inductive => ServesWhatItLists
  <2> SUFFICES ASSUME Inductive, phase = "serving"
               PROVE  ServesWhatItLists
    BY DEF ServesWhatItLists, Serving
  <2>1. /\ IsConfig(config) /\ Valid(config)
        /\ RouterAccepts(config.models, config.pools, config.users)
        /\ AvailabilityAccepts(config) /\ instance = NewInstance(config)
    BY DEF Inductive, Builds
  <2>2. /\ instance.router = NewRouter(config.models, config.pools, config.users)
        /\ instance.listed = Column(config.models, "id")
    BY <2>1 DEF NewInstance
  <2>3. Routed(instance.router) = Listed(config.models, "id")
    BY <2>2 DEF Routed, NewRouter
  <2>4. Listed(config.models, "id") = {instance.listed[i] : i \in DOMAIN instance.listed}
    BY <2>2 DEF Listed, Column
  <2>5. ASSUME NEW m \in DOMAIN config.models
        PROVE  \E p \in DOMAIN config.pools, n \in DOMAIN config.users :
                 /\ config.pools[p].id = config.models[m].pool
                 /\ Len(config.pools[p].users) = 1 /\ config.pools[p].users[1] = config.users[n].id
                 /\ Resolve(instance.router, config.models[m].id) = config.users[n]
                 /\ HumanAt(instance, config.users[n].recipient) = config.users[n]
    <3>1. PICK p \in DOMAIN config.pools, n \in DOMAIN config.users :
            /\ config.pools[p].id = config.models[m].pool
            /\ Len(config.pools[p].users) = 1 /\ config.pools[p].users[1] = config.users[n].id
            /\ Resolve(instance.router, config.models[m].id) = config.users[n]
      BY <2>1, <2>2, ResolvesToHuman
    <3>2. HumanAt(instance, config.users[n].recipient) = config.users[n]
      BY <2>1, HumanAtTheirChat
    <3> QED
      BY <3>1, <3>2
  <2> QED
    BY <2>3, <2>4, <2>5 DEF ServesWhatItLists
<1> QED
  BY GatewayInvariant, <1>1, PTL

\* Where authentication is on, a caller is authorized exactly with a configured key.
LEMMA KeyAuthorizes ==
  ASSUME NEW c, AuthAccepts(c), NEW request, IsRequest(request)
  PROVE  LET text == [request.key EXCEPT !.trailing = FALSE]
         IN  Authorized(NewInstance(c), request) <=>
               \/ c.auth = "none"
               \/ /\ request.scheme = "Bearer"
                  /\ \E i \in DOMAIN c.keys : c.keys[i] = text
<1> DEFINE text == [request.key EXCEPT !.trailing = FALSE]
<1>1. text.text = request.key.text
  BY DEF IsRequest
<1>2. /\ NewInstance(c).open <=> c.auth = "none"
      /\ text \in NewInstance(c).keys <=> \E i \in DOMAIN c.keys : c.keys[i] = text
  BY DEF NewInstance
<1>3. ASSUME c.auth # "none", NEW i \in DOMAIN c.keys, c.keys[i] = text
      PROVE  ~IsBlank(request.key.text)
  BY <1>1, <1>3 DEF AuthAccepts
<1> HIDE DEF text
<1> QED
  BY <1>2, <1>3 DEF Authorized, text

\* The API answers "unauthorized" exactly to who has none of the configured keys.
THEOREM GatewayKeyDecides == Spec => []KeyDecides
<1>1. Inductive => KeyDecides
  <2> SUFFICES ASSUME Inductive, phase = "serving", exchange # None,
                      exchange.response.by \in {"chat", "models"},
                      exchange.response.outcome # "method"
               PROVE  exchange.response.outcome = "unauthorized" <=>
                        ~Authorized(instance, exchange.request)
    BY KeyAuthorizes DEF KeyDecides, Answered, Serving, Inductive, Builds
  <2> DEFINE request == exchange.request
             response == exchange.response
  <2>1. response = Respond(instance, request)
    BY DEF Inductive
  <2>2. \/ response = Chat(instance, request)
        \/ response = Models(instance, request)
    BY <2>1 DEF Respond, Webhook, Health, Answer
  <2>3. CASE response = Chat(instance, request)
    BY <2>3 DEF Chat, Answer
  <2>4. CASE response = Models(instance, request)
    BY <2>4 DEF Models, Answer
  <2> QED
    BY <2>2, <2>3, <2>4
<1> QED
  BY GatewayInvariant, <1>1, PTL

=============================================================================
