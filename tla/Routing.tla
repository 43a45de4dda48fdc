-------------------------------- MODULE Routing --------------------------------
(***************************************************************************)
(* The routing graph of routing/router.go: models name a pool, a pool its  *)
(* one human, a human a Channel and a recipient there.  The lists are as   *)
(* the configuration gives them; a router is built from them or refused.   *)
(***************************************************************************)
EXTENDS Naturals, Sequences, FiniteSetsExt

CONSTANT Blanks  \* texts of which strings.TrimSpace leaves nothing

IsBlank(text) == text \in Blanks

\* No two entries of a list have the same value.
Distinct(list) == \A i, j \in DOMAIN list : list[i] = list[j] => i = j

Column(list, field) == [i \in DOMAIN list |-> list[i][field]]

Listed(list, field) == {list[i][field] : i \in DOMAIN list}

\* What a map filled from the list holds under a key.
Entry(list, field, value) == list[Max({i \in DOMAIN list : list[i][field] = value})]

ValidUser(user) ==
  ~IsBlank(user.id) /\ ~IsBlank(user.channel) /\ ~IsBlank(user.recipient)

ValidPools(pools, users) ==
  /\ Distinct(Column(pools, "id"))
  /\ \A i \in DOMAIN pools :
       /\ ~IsBlank(pools[i].id)
       /\ Len(pools[i].users) = 1
       /\ pools[i].users[1] \in Listed(users, "id")

ValidModels(models, pools) ==
  /\ Distinct(Column(models, "id"))
  /\ \A i \in DOMAIN models :
       /\ ~IsBlank(models[i].id) /\ ~IsBlank(models[i].pool)
       /\ models[i].pool \in Listed(pools, "id")

\* NewRouter accepts the graph.
RouterAccepts(models, pools, users) ==
  /\ models # <<>> /\ pools # <<>> /\ users # <<>>
  /\ Distinct(Column(users, "id"))
  /\ \A i \in DOMAIN users : ValidUser(users[i])
  /\ ValidPools(pools, users)
  /\ ValidModels(models, pools)

NewRouter(models, pools, users) ==
  [models |-> models, pools |-> pools, users |-> users]

Routed(router) == Listed(router.models, "id")

\* The human a model is routed to; only for a model that has a route.
Resolve(router, model) ==
  LET pool == Entry(router.pools, "id", Entry(router.models, "id", model).pool)
  IN  Entry(router.users, "id", pool.users[1])

=============================================================================
