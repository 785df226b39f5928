----------------------------- MODULE MCTradingOrders -----------------------------
(***************************************************************************)
(* One active strategy, two workers and three orders: what executions,     *)
(* the exchange and the cancel endpoint do to each other.  No command      *)
(* changes the row here, so a dispatch pass is taken as the one step that  *)
(* sends the message.                                                      *)
(***************************************************************************)
EXTENDS TradingPipeline, TLC

CONSTANT s1

OneSymbol   == s1 :> "BTC"
OnePriority == s1 :> 1
OnlyActive  == {ActiveRow}
NeverHalted == {FALSE}

WorkerSymmetry == Permutations(Workers)

Arrive(s) ==
  /\ Dispatchable(s)
  /\ queue[s][0] < MaxQueue
  /\ Requeue(s, 0)
  /\ UNCHANGED <<lifecycleVars, disp, tradingVars>>

OrdersNext ==
  \/ \E s \in Strategies : Arrive(s)
  \/ \E w \in Workers : WorkerStep(w) \/ Fail(w) \/ Crash(w)
  \/ Outside

OrdersSpec == Init /\ [][OrdersNext]_vars
=============================================================================
