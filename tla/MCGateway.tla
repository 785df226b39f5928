------------------------------- MODULE MCGateway -------------------------------
(***************************************************************************)
(* Five components of the gateway that share no state with one another,    *)
(* checked in one run: `part` says which of them a behaviour is about, and *)
(* the others stay as they begin.                                          *)
(***************************************************************************)
EXTENDS RateLimiter, AdminConsole, AdminKeys, GatewayTraffic, WebSocketRelay

VARIABLE part

gatewayVars == <<part, limiterVars, consoleVars, keyVars, trafficVars, relayVars>>

Init ==
  /\ part \in {"limiter", "console", "keys", "traffic", "relay"}
  /\ LimiterInit /\ ConsoleInit /\ KeysInit /\ TrafficInit /\ RelayInit
  /\ part # "limiter" => \A s \in Slots : offset[s] = 0
  /\ part # "traffic" => Len(table) = 2

LimiterStep ==
  part = "limiter" /\ LimiterNext /\ UNCHANGED <<part, consoleVars, keyVars, trafficVars, relayVars>>
ConsoleStep ==
  part = "console" /\ ConsoleNext /\ UNCHANGED <<part, limiterVars, keyVars, trafficVars, relayVars>>
KeysStep ==
  part = "keys" /\ KeysNext /\ UNCHANGED <<part, limiterVars, consoleVars, trafficVars, relayVars>>
TrafficStep ==
  part = "traffic" /\ TrafficNext /\ UNCHANGED <<part, limiterVars, consoleVars, keyVars, relayVars>>
RelayStep ==
  part = "relay" /\ RelayNext /\ UNCHANGED <<part, limiterVars, consoleVars, keyVars, trafficVars>>

Next == LimiterStep \/ ConsoleStep \/ KeysStep \/ TrafficStep \/ RelayStep

Spec == Init /\ [][Next]_gatewayVars /\ TrafficFairness /\ RelayFairness

(* The variables of all five components have the types the code gives them. *)
TypesOK == LimiterTypeOK /\ ConsoleTypeOK /\ KeysTypeOK /\ TrafficTypeOK /\ RelayTypeOK

----------------------------------------------------------------------------
\* An HTTP route with a plugin nobody registered and a gRPC route, two targets each.
MCPlugins == [r \in {"http", "grpc"} |-> IF r = "http" THEN <<"misspelt", JWT>> ELSE <<JWT>>]
MCTargets == [r \in {"http", "grpc"} |-> 2]
MCRetries == [r \in {"http", "grpc"} |-> 1]
MCTables == {<<"http", "grpc">>, <<"grpc">>}
MCGlobals == {<<"other">>}
MCOrder == [p \in {JWT, "other"} |-> IF p = JWT THEN 10 ELSE 20]

MCEdits == {<<[id |-> "b", body |-> 1], [id |-> "a", body |-> 1]>>}
=============================================================================
