----------------------------- MODULE GatewayTraffic -----------------------------
(***************************************************************************)
(* How one gateway process carries requests to upstreams: the route match  *)
(* and the choice of a target (core/router.py), the plugin chain           *)
(* (core/pipeline.py), the JWT plugin with its key set cache, the HTTP     *)
(* proxy with its retries (core/proxy.py) and the gRPC proxy               *)
(* (adapters/grpc_proxy.py).                                               *)
(*                                                                         *)
(* The process is one event loop: a step here is what a request does       *)
(* between two awaits, and other requests and reloads come in between.     *)
(* What the rate limiter and the breaker decide is in their own modules:   *)
(* here any plugin but the JWT one may let a request pass or refuse it.    *)
(***************************************************************************)
EXTENDS Integers, SequencesExt

CONSTANTS
  InFlight,      \* places for one request each
  Routes,
  Grpc,        \* the routes of gRPC; the others are of HTTP
  PluginsOf,   \* [Routes -> Seq(plugin)], as declared
  Targets,     \* [Routes -> number of targets]
  Retries,     \* [Routes -> retry.count]
  Tables,      \* the route lists a reload may bring
  Globals,     \* the global plugin lists a reload may bring
  Order,       \* [plugins that are registered -> order]
  MaxArrivals, \* bound: requests
  MaxReloads,  \* bound: reloads, key rotations and restarts
  NoMatch     \* no route

ASSUME GrpcAssumption == Grpc \subseteq Routes
ASSUME TargetsAssumption == Targets \in [Routes -> Nat] /\ Retries \in [Routes -> Nat]
ASSUME TablesAssumption == \A t \in Tables : t \in Seq(Routes) /\ IsInjective(t)
ASSUME NoMatchAssumption == NoMatch \notin Routes
ASSUME InFlightAssumption == IsFiniteSet(InFlight)
ASSUME ArrivalsAssumption == MaxArrivals \in Nat /\ MaxReloads \in Nat
ASSUME OrderAssumption == \A p \in DOMAIN Order : Order[p] \in Int
ASSUME PluginsAssumption ==
  \A plugins \in Globals \cup {PluginsOf[r] : r \in Routes} : plugins \in Seq(Range(plugins))

VARIABLES
  table,      \* _routes
  globals,    \* global_plugins
  counters,   \* _round_robin_counters
  jwks,       \* _JWKS_CACHE: the key set it holds, 0 if none
  published,  \* the key set of the provider; a token is signed with one of these
  request,    \* the request in each slot
  arrivals, reloads,  \* so far
  picked,     \* history: how often each target was picked since its route came
  startedAt   \* history: the provider's key set when the process started

trafficVars == <<table, globals, counters, jwks, published, request, arrivals, reloads,
                 picked, startedAt>>

JWT == "jwt-validator"

\* at:       "idle", "bound" (a gRPC handler is made), "checking" (in the chain), "fetching" (the
\*           key set), "sending", "done"
\* token:    the key set it is signed with, 0 if there is none
\* set:      the key set the provider has answered with
\* outcomes: of the attempts
Idle == [at |-> "idle", route |-> NoMatch, token |-> 0, chain |-> <<>>, set |-> 0,
         target |-> 0, outcomes |-> <<>>, answer |-> "none"]

\* "again" is an answer with a status of retry.on, "broken" an error the proxy does not catch.
Outcome == {"good", "again", "timeout", "refused", "broken"}
CallOutcome == {"good", "timeout", "refused"}

TrafficTypeOK ==
  /\ table \in Tables /\ globals \in Globals
  /\ \A r \in Routes : counters[r] \in 0..MaxArrivals
  /\ jwks \in 0..published /\ startedAt \in 1..published
  /\ arrivals \in 0..MaxArrivals /\ reloads \in 0..MaxReloads
  /\ \A s \in InFlight :
       LET q == request[s]
       IN /\ q.at \in {"idle", "bound", "checking", "fetching", "sending", "done"}
          /\ q.at \notin {"idle", "done"} => q.route \in Routes
          /\ q.token \in 0..published
          /\ ToSet(q.chain) \subseteq DOMAIN Order
          /\ q.outcomes \in Seq(Outcome)
          /\ q.at = "sending" => q.target \in 0..(Targets[q.route] - 1)
          /\ (q.at = "done") <=> (q.answer # "none")

NoPicks == [r \in Routes |-> [t \in 0..(Targets[r] - 1) |-> 0]]

TrafficInit ==
  /\ table \in Tables /\ globals \in Globals
  /\ counters = [r \in Routes |-> 0]
  /\ jwks = 0 /\ published = 1
  /\ request = [s \in InFlight |-> Idle]
  /\ arrivals = 0 /\ reloads = 0
  /\ picked = NoPicks /\ startedAt = 1

----------------------------------------------------------------------------
(* The router and the pipeline. *)

\* match, match_grpc: the first route of the list that fits, protocol included.
FirstMatch(fits) ==
  LET at == SelectInSeq(table, LAMBDA r : r \in fits) IN IF at = 0 THEN NoMatch ELSE table[at]

\* sorted() by order is stable: plugins of one order stay as they were declared.
ComesFirst(plugins, i, j) ==
  \/ Order[plugins[i]] < Order[plugins[j]]
  \/ Order[plugins[i]] = Order[plugins[j]] /\ i < j

\* _instantiate_plugins: a plugin that is not registered is left out.
Registered(plugins) == {i \in DOMAIN plugins : plugins[i] \in DOMAIN Order}

Sorted(plugins) ==
  LET known == Registered(plugins)
      places == CHOOSE s \in [1..Cardinality(known) -> known] :
                  \A m, n \in DOMAIN s : m < n => ComesFirst(plugins, s[m], s[n])
  IN [n \in DOMAIN places |-> plugins[places[n]]]

\* Both lists are sorted, each for itself.
Chain(route) == Sorted(globals) \o Sorted(PluginsOf[route])

\* resolve_upstream with round_robin; the caller has made sure there are targets.
NextTarget(route) == counters[route] % Targets[route]

Pick(route) ==
  /\ counters' = [counters EXCEPT ![route] = @ + 1]
  /\ picked' = [picked EXCEPT ![route][NextTarget(route)] = @ + 1]

Answered(q, answer) ==
  [Idle EXCEPT !.at = "done", !.answer = answer, !.route = q.route, !.outcomes = q.outcomes]

ToSend(q) == [q EXCEPT !.at = "sending", !.target = NextTarget(q.route)]

\* http_gateway up to the pipeline: the target is picked before any plugin runs.  A WebSocket
\* connect of websocket_gateway goes the same way.
Arrive(s, fits, token) ==
  LET route == FirstMatch(fits)
      q == [Idle EXCEPT !.route = route, !.token = token]
  IN /\ request[s].at \in {"idle", "done"} /\ arrivals < MaxArrivals
     /\ arrivals' = arrivals + 1
     /\ \/ /\ route = NoMatch
           /\ request' = [request EXCEPT ![s] = Answered(q, "404")]
           /\ UNCHANGED <<counters, picked>>
        \/ /\ route # NoMatch
           /\ request' = [request EXCEPT ![s] =
                [q EXCEPT !.at = "checking", !.chain = Chain(route),
                          !.target = IF Targets[route] > 0 THEN NextTarget(route) ELSE 0]]
           /\ IF Targets[route] > 0 THEN Pick(route) ELSE UNCHANGED <<counters, picked>>
     /\ UNCHANGED <<table, globals, jwks, published, reloads, startedAt>>

\* `service` of the gRPC proxy makes a handler for the route that matches now.
Serve(s, fits, token) ==
  LET route == FirstMatch(fits)
      q == [Idle EXCEPT !.route = route, !.token = token]
  IN /\ request[s].at \in {"idle", "done"} /\ arrivals < MaxArrivals
     /\ arrivals' = arrivals + 1
     /\ request' = [request EXCEPT ![s] =
          IF route = NoMatch THEN Answered(q, "404") ELSE [q EXCEPT !.at = "bound"]]
     /\ UNCHANGED <<table, globals, counters, jwks, published, reloads, picked, startedAt>>

\* _prepare_call: the chain is built of the plugins there are now.
Prepare(s) ==
  /\ request[s].at = "bound"
  /\ request' = [request EXCEPT ![s].at = "checking", ![s].chain = Chain(request[s].route)]
  /\ UNCHANGED <<table, globals, counters, jwks, published, arrivals, reloads, picked, startedAt>>

\* Mutant: a token is good for later key sets too.
AnyEarlier(set, token) == token <= set

\* jwt.decode finds a key that fits.
Verifies(set, token) == token = set

\* Mutant: while the token does not fit, the key set is fetched again.
FetchUntilItFits(q, set) ==
  IF Verifies(set, q.token) THEN [q EXCEPT !.at = "checking", !.chain = Tail(@), !.set = set]
                            ELSE [q EXCEPT !.at = "fetching", !.set = 0]

\* The plugin has the key set: it refuses the token, or calls the next one.
Judge(q, set) ==
  IF Verifies(set, q.token) THEN [q EXCEPT !.at = "checking", !.chain = Tail(@), !.set = set]
                            ELSE Answered(q, "401")

\* The next plugin runs.
RunPlugin(s) ==
  LET q == request[s]
  IN /\ q.at = "checking" /\ q.chain # <<>>
     /\ IF Head(q.chain) # JWT
        THEN \/ request' = [request EXCEPT ![s].chain = Tail(@)]
             \/ request' = [request EXCEPT ![s] = Answered(q, "refused by plugin")]
        ELSE IF q.token = 0
        THEN request' = [request EXCEPT ![s] = Answered(q, "401")]
        ELSE IF jwks # 0
        THEN request' = [request EXCEPT ![s] = Judge(q, jwks)]
        ELSE request' = [request EXCEPT ![s].at = "fetching", ![s].set = 0]
     /\ UNCHANGED <<table, globals, counters, jwks, published, arrivals, reloads, picked, startedAt>>

\* The provider answers a fetch, or it fails.
ProviderAnswers(s) ==
  LET q == request[s]
  IN /\ q.at = "fetching" /\ q.set = 0
     /\ \/ request' = [request EXCEPT ![s].set = published]
        \/ request' = [request EXCEPT ![s] = Answered(q, "401")]
     /\ UNCHANGED <<table, globals, counters, jwks, published, arrivals, reloads, picked, startedAt>>

\* _fetch_jwks stores what it got, over what another fetch may have stored meanwhile.
StoreKeySet(s) ==
  LET q == request[s]
  IN /\ q.at = "fetching" /\ q.set # 0
     /\ jwks' = q.set
     /\ request' = [request EXCEPT ![s] = Judge(q, q.set)]
     /\ UNCHANGED <<table, globals, counters, published, arrivals, reloads, picked, startedAt>>

\* All plugins have let it pass: for gRPC the target is picked now.
Admit(s) ==
  LET q == request[s]
  IN /\ q.at = "checking" /\ q.chain = <<>>
     /\ \/ /\ Targets[q.route] = 0
           /\ request' = [request EXCEPT ![s] = Answered(q, "no upstream")]
           /\ UNCHANGED <<counters, picked>>
        \/ /\ Targets[q.route] > 0 /\ q.route \in Grpc
           /\ request' = [request EXCEPT ![s] = ToSend(q)]
           /\ Pick(q.route)
        \/ /\ Targets[q.route] > 0 /\ q.route \notin Grpc
           /\ request' = [request EXCEPT ![s].at = "sending"]
           /\ UNCHANGED <<counters, picked>>
     /\ UNCHANGED <<table, globals, jwks, published, arrivals, reloads, startedAt>>

----------------------------------------------------------------------------
(* The proxies. *)

\* Mutant: one attempt fewer.
OneFewer(q, outcome) ==
  outcome \in {"again", "timeout", "refused"} /\ Len(q.outcomes) + 1 < Retries[q.route]

\* _send_with_retry goes on.
TriesAgain(q, outcome) ==
  outcome \in {"again", "timeout", "refused"} /\ Len(q.outcomes) < Retries[q.route]

\* What the client gets: the upstream's answer, 504, 502, or what an error nobody catches gives.
AnswerTo(outcome) ==
  CASE outcome \in {"good", "again"} -> "upstream's"
    [] outcome = "timeout" -> "504"
    [] outcome = "refused" -> "502"
    [] OTHER -> "500"

\* One attempt of the HTTP proxy.
Attempt(s, outcome) ==
  LET q == request[s]
      tried == [q EXCEPT !.outcomes = Append(@, outcome)]
  IN /\ q.at = "sending" /\ q.route \notin Grpc
     /\ request' = [request EXCEPT ![s] =
          IF TriesAgain(q, outcome) THEN tried ELSE Answered(tried, AnswerTo(outcome))]
     /\ UNCHANGED <<table, globals, counters, jwks, published, arrivals, reloads, picked, startedAt>>

\* The one call of the gRPC proxy, of whatever cardinality; a failure's status is passed on.
Call(s, outcome) ==
  LET tried == [request[s] EXCEPT !.outcomes = Append(@, outcome)]
  IN /\ request[s].at = "sending" /\ request[s].route \in Grpc
     /\ request' = [request EXCEPT ![s] =
          Answered(tried, IF outcome = "good" THEN "upstream's" ELSE "aborted")]
     /\ UNCHANGED <<table, globals, counters, jwks, published, arrivals, reloads, picked, startedAt>>

----------------------------------------------------------------------------
(* Meanwhile. *)

\* Mutant: every counter starts anew.
AllAnew(t) == [r \in Routes |-> 0]

\* update_routes keeps the counters of the routes that stay.
KeptCounters(t) == [r \in Routes |-> IF r \in ToSet(t) THEN counters[r] ELSE 0]

\* A request that is under way keeps the route it has.
Reload(t, g) ==
  /\ reloads < MaxReloads
  /\ reloads' = reloads + 1
  /\ table' = t /\ globals' = g
  /\ counters' = KeptCounters(t)
  /\ picked' = [r \in Routes |-> IF r \in ToSet(t) THEN picked[r] ELSE NoPicks[r]]
  /\ UNCHANGED <<jwks, published, request, arrivals, startedAt>>

RotateKeySet ==
  /\ reloads < MaxReloads
  /\ reloads' = reloads + 1
  /\ published' = published + 1
  /\ UNCHANGED <<table, globals, counters, jwks, request, arrivals, picked, startedAt>>

RestartProcess ==
  /\ reloads < MaxReloads
  /\ reloads' = reloads + 1
  /\ counters' = [r \in Routes |-> 0] /\ picked' = NoPicks
  /\ jwks' = 0 /\ startedAt' = published
  /\ request' = [s \in InFlight |-> Idle]
  /\ UNCHANGED <<table, globals, published, arrivals>>

Proceed(s) ==
  \/ Prepare(s) \/ RunPlugin(s) \/ ProviderAnswers(s) \/ StoreKeySet(s) \/ Admit(s)
  \/ \E o \in Outcome : Attempt(s, o)
  \/ \E o \in CallOutcome : Call(s, o)

TrafficNext ==
  \/ \E s \in InFlight, fits \in SUBSET (Routes \ Grpc), token \in 0..published : Arrive(s, fits, token)
  \/ \E s \in InFlight, fits \in SUBSET Grpc, token \in 0..published : Serve(s, fits, token)
  \/ \E s \in InFlight : Prepare(s)
  \/ \E s \in InFlight : RunPlugin(s)
  \/ \E s \in InFlight : ProviderAnswers(s)
  \/ \E s \in InFlight : StoreKeySet(s)
  \/ \E s \in InFlight : Admit(s)
  \/ \E s \in InFlight, o \in Outcome : Attempt(s, o)
  \/ \E s \in InFlight, o \in CallOutcome : Call(s, o)
  \/ \E t \in Tables, g \in Globals : Reload(t, g)
  \/ RotateKeySet
  \/ RestartProcess

\* Providers and upstreams answer or time out, and the event loop runs what is ready.
TrafficFairness == \A s \in InFlight : WF_trafficVars(Proceed(s))

TrafficSpec == TrafficInit /\ [][TrafficNext]_trafficVars /\ TrafficFairness

----------------------------------------------------------------------------
(* Round robin deals a route's targets out evenly, over concurrent requests and reloads
   that keep the route.  A target that was dealt to a request some plugin then refused
   counts: HTTP picks before the chain runs, gRPC after it (app.py:238,
   grpc_proxy.py:292-300, router.py:70-80, 165-168). *)
RoundRobinIsFair ==
  \A r \in Routes : \A t, u \in DOMAIN picked[r] : picked[r][t] <= picked[r][u] + 1

(* However attempts fail, a request is tried again exactly while the last outcome may be
   retried and attempts are left, and what the client gets is what the last attempt gave:
   no attempt follows one that was good, and none is given up early (proxy.py:131-156). *)
RetriesAreFaithful ==
  \A s \in InFlight :
    LET q == request[s]
        n == Len(q.outcomes)
        retryable == {"again", "timeout", "refused"}
        most == IF q.route \in Grpc THEN 1 ELSE Retries[q.route] + 1
    IN n > 0 =>
       /\ n <= most
       /\ \A i \in 1..(n - 1) : q.outcomes[i] \in retryable
       /\ q.at = "done" => /\ n < most => q.outcomes[n] \notin retryable
                           /\ q.answer = "upstream's" <=> q.outcomes[n] \in {"good", "again"}

(* Whatever fetches of the key set cross each other, a token that was let through was
   signed with a key the provider published after this process started, or was publishing
   then; the set is never fetched again, so tokens of later keys are refused until a
   restart (jwt_plugin.py:32-41). *)
OldKeysAreRefused ==
  \A s \in InFlight :
    LET q == request[s]
    IN q.set # 0 /\ q.at \in {"checking", "sending"} => q.token >= startedAt

(* Every request is answered, or its process ends: no chain, fetch or retry goes on for
   ever (app.py:226-248, proxy.py:131-156). *)
RequestsAreAnswered ==
  \A s \in InFlight :
    request[s].at \notin {"idle", "done"} ~> request[s].at \in {"idle", "done"}
=============================================================================
