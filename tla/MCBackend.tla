------------------------------- MODULE MCBackend -------------------------------
(***************************************************************************)
(* Five components of the backend that share no state with one another,    *)
(* checked in one run: `part` says which of them a behaviour is about, and *)
(* the others stay as they begin.  The tokens and the second factor of     *)
(* Sessions share none either.                                             *)
(***************************************************************************)
EXTENDS Sessions, PriceFeed, BacktestJobs, BacktestEngine, Evaluator

VARIABLE part

sessionsAll == <<sessionVars, factorVars>>
backendVars == <<part, sessionsAll, feedVars, jobVars, engineVars, evaluatorVars>>

Init ==
  /\ part \in {"tokens", "factor", "feed", "jobs", "engine", "evaluator"}
  /\ SessionsInit /\ FeedInit /\ JobsInit /\ EngineInit /\ EvaluatorInit
  /\ part # "feed" => ~strict
  /\ part # "engine" => length = 0 /\ order.type = "none"

TokensStep ==
  /\ part = "tokens" /\ TokenStep
  /\ UNCHANGED <<part, factorVars, feedVars, jobVars, engineVars, evaluatorVars>>
SecondFactorStep ==
  /\ part = "factor" /\ FactorStep
  /\ UNCHANGED <<part, sessionVars, feedVars, jobVars, engineVars, evaluatorVars>>
FeedStep ==
  part = "feed" /\ FeedNext /\ UNCHANGED <<part, sessionsAll, jobVars, engineVars, evaluatorVars>>
JobsStep ==
  part = "jobs" /\ JobsNext /\ UNCHANGED <<part, sessionsAll, feedVars, engineVars, evaluatorVars>>
EngineStep ==
  part = "engine" /\ EngineNext /\ UNCHANGED <<part, sessionsAll, feedVars, jobVars, evaluatorVars>>
EvaluatorStep ==
  part = "evaluator" /\ EvaluateTree /\ UNCHANGED <<part, sessionsAll, feedVars, jobVars, engineVars>>

Next ==
  \/ TokensStep \/ SecondFactorStep \/ FeedStep \/ JobsStep \/ EngineStep \/ EvaluatorStep

Spec == Init /\ [][Next]_backendVars

(* The variables of the components have the types the code gives them. *)
TypesOK == SessionsTypeOK /\ FeedTypeOK /\ JobsTypeOK /\ EngineTypeOK

----------------------------------------------------------------------------
\* The sockets 1 and 2 are price feeds, 3 one for notifications, of the same user.
MCChannels == [s \in 1..3 |-> IF s = 3 THEN {"user"} ELSE {"price", "user"}]

\* A fixed amount, half of the balance, all of it, two pieces, and a type nobody knows.
MCOrders ==
  {[type |-> "fixed_amount", value |-> 9], [type |-> "balance_ratio", value |-> 5],
   [type |-> "balance_ratio", value |-> 10], [type |-> "fixed_quantity", value |-> 2],
   [type |-> "none", value |-> 0]}

Leaf(ind, tf, par, op, value) ==
  [ind |-> ind, tf |-> tf, par |-> par, op |-> op, value |-> value, to |-> ""]
Multiple(tf, value, to) == [Leaf("VOLUME", tf, 1, "gt_multiple", value) EXCEPT !.to = to]

MCLeaves ==
  {Leaf("RSI", "1h", 1, "lt", 50), Leaf("RSI", "1h", 2, "gt", 50), Leaf("RSI", "4h", 1, "gt", 40),
   Leaf("RSI", "", 1, "lt", 60),
   Leaf("MA", "1h", 1, "lt", 3), Leaf("SMA", "1h", 1, "gt", 1), Leaf("SMA", "1h", 2, "gt", 1),
   Leaf("MA", "1h", BadPar, "gt", 0), Leaf("XYZ", "1h", 1, "gt", 0),
   Leaf("BB", "1h", 1, "price_below_lower", 0), Leaf("BB", "1h", 1, "lt", 3),
   Multiple("1h", 2, "volume_ma_20"), Multiple("1h", 1, "CLOSE"), Multiple("1h", 1, "")}

\* Conditions of up to three leaves, in two levels, and the empty ones.
MCLevels ==
  LET Joined(a, b) == {Node(op, <<x, y>>) : op \in {"AND", "OR"}, x \in a, y \in b}
      Pairs == Joined(MCLeaves, MCLeaves)
  IN <<MCLeaves \cup {Node(op, <<>>) : op \in {"AND", "OR"}}, Pairs, Joined(MCLeaves, Pairs)>>

Candles(rsi, ma, bb, volume) ==
  [close |-> 2, mean |-> 1,
   at |-> [RSI |-> <<rsi, 100 - rsi>>, MA |-> <<ma, 4 - ma>>, BB |-> <<bb, bb>>,
           VOLUME |-> <<volume, volume>>]]
FewCandles ==
  [close |-> 2, mean |-> 1,
   at |-> [RSI |-> <<Short, 30>>, MA |-> <<3, Short>>, BB |-> <<Short, Short>>,
           VOLUME |-> <<3, 3>>]]

\* The hours and the four hours of three markets disagree on their indicators.
MCMarkets ==
  {("1h" :> Candles(30, 2, 1, 2)) @@ ("4h" :> Candles(50, 3, 3, 3)),
   ("1h" :> Candles(50, 3, 3, 3)) @@ ("4h" :> Candles(30, 3, 3, 2)),
   ("1h" :> FewCandles) @@ ("4h" :> Candles(30, 2, 1, 2))}
=============================================================================
