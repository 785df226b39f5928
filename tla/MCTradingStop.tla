------------------------------ MODULE MCTradingStop ------------------------------
(***************************************************************************)
(* One strategy, two commands in flight, the dispatcher and one worker     *)
(* whose orders the exchange refuses: how far a stop reaches.  Executions  *)
(* share no state before they place an order, so one worker is enough.     *)
(***************************************************************************)
EXTENDS TradingPipeline, TLC

CONSTANT s1

OneSymbol   == s1 :> "BTC"
OnePriority == s1 :> 1
OnlyActive  == {ActiveRow}

RequestSymmetry == Permutations(Requests)
=============================================================================
