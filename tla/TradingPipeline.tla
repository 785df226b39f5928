----------------------------- MODULE TradingPipeline -----------------------------
(***************************************************************************)
(* From a run_strategy message to the exchange and back: the Celery worker *)
(* (backend/app/tasks/trading_tasks.py), TradingEngine.run_once            *)
(* (trading/engine.py), OrderExecutor (trading/executor.py), RiskManager   *)
(* (trading/risk_manager.py) and the cancel endpoint (api/v1/orders.py),   *)
(* with the dispatcher and the strategy commands running beside them.      *)
(*                                                                         *)
(* A worker's program counter stands between awaits, where other workers,  *)
(* requests and the exchange run.  Prices are 1, so a quantity is also its *)
(* USDT value, and every buy asks for BuyQty.  The sums _open_position     *)
(* takes range over closed rows only, and a closed row never changes, so   *)
(* bought and sold keep the sums.                                          *)
(***************************************************************************)
EXTENDS Dispatcher

CONSTANTS
  Workers,      \* worker processes (celery --concurrency)
  Advisory,     \* strategies whose ai_mode is 1
  BuyQty,       \* what calculate_quantity returns
  DailyLimit,   \* daily_limit_usdt of every strategy
  MaxOrders,    \* bound: orders the exchange accepts
  Accounts,     \* how many active exchange accounts the user may have
  Halts,        \* values the operator may give global:trading:halt
  MaxFaults     \* bound: crashes and failed steps

ASSUME AdvisoryAssumption == Advisory \subseteq Strategies
ASSUME BuyQtyAssumption == BuyQty \in Nat \ {0}
ASSUME BoundsAssumption ==
  DailyLimit \in Nat /\ MaxOrders \in Nat /\ MaxFaults \in Nat
ASSUME EnvironmentAssumption == Accounts \subseteq Nat /\ Halts \subseteq BOOLEAN

VARIABLES
  worker,      \* what each worker process is doing
  exch,        \* orders the exchange accepted; an order's id is its index
  rows,        \* the orders table, for rows that have an exchange id
  bought,      \* sum of filled_quantity over the closed buy rows
  sold,        \* sum of filled_quantity over the closed sell rows
  daily,       \* Redis key daily_traded:{id}:{today}
  halt,        \* Redis key global:trading:halt
  accounts,    \* number of active exchange accounts
  canceling,   \* orders canceled at the exchange by a request not yet committed
  faults,      \* crashes and failed steps so far
  overlapped,  \* history: strategies that two executions decided on at once
  unsaved      \* history: a consultation ended without its record, and nothing failed

orderVars   == <<exch, rows, bought, sold>>
controlVars == <<halt, accounts, canceling>>
historyVars == <<overlapped, unsaved>>
tradingVars == <<worker, orderVars, daily, controlVars, faults, historyVars>>
vars == <<lifecycleVars, dispatcherVars, tradingVars>>

----------------------------------------------------------------------------
Sides == {"buy", "sell"}
PCs   == {"idle", "loaded", "cleared", "signal", "approved", "priced",
          "placed", "committed"}

OrderStatus == {"none", "open", "closed", "canceled", "rejected"}
OrderRow    == [status : OrderStatus, filled : Nat]
NoRow       == [status |-> "none", filled |-> 0]

\* qty, oid and ans are the Order object under construction: the quantity, the
\* exchange id (0 if the exchange gave none), the status and fill answered.
IdleWorker == [pc |-> "idle", s |-> NoStrategy, tries |-> 0, side |-> "buy",
               qty |-> 0, oid |-> 0, ans |-> NoRow]

ExchangeOrder == [s : Strategies, side : Sides, qty : Nat, filled : Nat, live : BOOLEAN]

TradingTypeOK ==
  /\ worker \in [Workers -> [pc : PCs, s : Strategies \cup {NoStrategy},
                             tries : 0..MaxRetries, side : Sides, qty : Nat,
                             oid : 0..MaxOrders, ans : OrderRow]]
  /\ \A w \in Workers : worker[w].pc # "idle" => worker[w].s \in Strategies
  /\ exch \in Seq(ExchangeOrder)
  /\ Len(exch) <= MaxOrders
  /\ rows \in [1..MaxOrders -> OrderRow]
  /\ bought \in [Strategies -> Nat]
  /\ sold \in [Strategies -> Nat]
  /\ daily \in [Strategies -> Nat]
  /\ halt \in BOOLEAN
  /\ accounts \in Nat
  /\ canceling \subseteq 1..MaxOrders
  /\ faults \in Nat
  /\ overlapped \subseteq Strategies
  /\ unsaved \in BOOLEAN

TypeOK == LifecycleTypeOK /\ DispatcherTypeOK /\ TradingTypeOK

----------------------------------------------------------------------------
(* What the code computes. *)

\* Mutant: sales are not subtracted.
BoughtPosition(s) == bought[s]

\* _open_position: max(buys - sells, 0) over the committed closed rows.
OpenPosition(s) == IF bought[s] > sold[s] THEN bought[s] - sold[s] ELSE 0

\* Executions of s between the position they read and the commit of their order.
Deciding(s) ==
  {w \in Workers : worker[w].s = s /\ worker[w].pc \in {"signal", "approved", "priced", "placed"}}

----------------------------------------------------------------------------
TradingInit ==
  /\ worker = [w \in Workers |-> IdleWorker]
  /\ exch = <<>>
  /\ rows = [o \in 1..MaxOrders |-> NoRow]
  /\ bought = [s \in Strategies |-> 0]
  /\ sold = [s \in Strategies |-> 0]
  /\ daily = [s \in Strategies |-> 0]
  /\ halt \in Halts
  /\ accounts \in Accounts
  /\ canceling = {}
  /\ faults = 0
  /\ overlapped = {}
  /\ unsaved = FALSE

Init == LifecycleInit /\ DispatcherInit /\ TradingInit

At(w, pc)   == worker[w].pc = pc
Goto(w, pc) == worker' = [worker EXCEPT ![w].pc = pc]
Finish(w)   == worker' = [worker EXCEPT ![w] = IdleWorker]

----------------------------------------------------------------------------
(* The steps of one execution. *)

\* Mutant: a message is handled that the broker does not hold.
DeliverAgain(w, s, k) == At(w, "idle")

Deliver(w, s, k) ==
  /\ At(w, "idle")
  /\ queue[s][k] > 0

\* Mutant: the row's flags are left to the dispatcher.
LoadUnchecked(w, s, k) ==
  /\ Deliver(w, s, k)
  /\ accounts = 1
  /\ queue' = [queue EXCEPT ![s][k] = @ - 1]
  /\ worker' = [worker EXCEPT ![w] =
                   [IdleWorker EXCEPT !.pc = "loaded", !.s = s, !.tries = k]]
  /\ UNCHANGED <<lifecycleVars, disp, orderVars, daily, controlVars, faults, historyVars>>

\* The strategy row and the only active account are loaded.  run_once selects
\* the row again in the same session, which returns the object already loaded.
Load(w, s, k) ==
  /\ Deliver(w, s, k)
  /\ accounts = 1
  /\ row[s].active /\ ~row[s].paused
  /\ queue' = [queue EXCEPT ![s][k] = @ - 1]
  /\ worker' = [worker EXCEPT ![w] =
                   [IdleWorker EXCEPT !.pc = "loaded", !.s = s, !.tries = k]]
  /\ UNCHANGED <<lifecycleVars, disp, orderVars, daily, controlVars, faults, historyVars>>

\* No active account, or a strategy that is inactive or paused: acknowledged.
LoadSkips(w, s, k) ==
  /\ Deliver(w, s, k)
  /\ accounts = 0 \/ (accounts = 1 /\ (~row[s].active \/ row[s].paused))
  /\ queue' = [queue EXCEPT ![s][k] = @ - 1]
  /\ UNCHANGED <<lifecycleVars, disp, tradingVars>>

\* scalar_one_or_none raises MultipleResultsFound: the message goes back with
\* one try more, or is given up.
LoadAmbiguous(w, s, k) ==
  /\ Deliver(w, s, k)
  /\ accounts > 1
  /\ queue' = [queue EXCEPT ![s] =
       [j \in 0..MaxRetries |->
          CASE j = k -> @[j] - 1 [] j = k + 1 -> @[j] + 1 [] OTHER -> @[j]]]
  /\ UNCHANGED <<lifecycleVars, disp, tradingVars>>

\* Mutant: only the strategy's own flag is looked up.
CanTradeLocally(w) ==
  /\ At(w, "loaded")
  /\ IF Flagged(worker[w].s) THEN Finish(w) ELSE Goto(w, "cleared")
  /\ UNCHANGED <<lifecycleVars, dispatcherVars, orderVars, daily, controlVars, faults,
                 historyVars>>

\* can_trade: the global halt and the strategy's stop flag, in Redis.
CanTrade(w) ==
  /\ At(w, "loaded")
  /\ IF halt \/ Flagged(worker[w].s) THEN Finish(w) ELSE Goto(w, "cleared")
  /\ UNCHANGED <<lifecycleVars, dispatcherVars, orderVars, daily, controlVars, faults,
                 historyVars>>

\* fetch_ohlcv fails or is empty, or no condition is met at this position.
NoSignal(w) ==
  /\ At(w, "cleared")
  /\ Finish(w)
  /\ UNCHANGED <<lifecycleVars, dispatcherVars, orderVars, daily, controlVars, faults,
                 historyVars>>

\* The exit condition matched and a position is open: sell all of it.  The entry
\* condition matched and none is open: buy.
Signal(w) ==
  LET s == worker[w].s
      q == OpenPosition(s)
  IN
  /\ At(w, "cleared")
  /\ worker' = [worker EXCEPT ![w].pc = IF s \in Advisory THEN "signal" ELSE "approved",
                              ![w].side = IF q > 0 THEN "sell" ELSE "buy",
                              ![w].qty = IF q > 0 THEN q ELSE BuyQty]
  /\ overlapped' = IF Deciding(s) # {} THEN overlapped \cup {s} ELSE overlapped
  /\ UNCHANGED <<lifecycleVars, dispatcherVars, orderVars, daily, controlVars, faults, unsaved>>

\* Claude answers "execute".
AdviceExecute(w) ==
  /\ At(w, "signal")
  /\ Goto(w, "approved")
  /\ UNCHANGED <<lifecycleVars, dispatcherVars, orderVars, daily, controlVars, faults,
                 historyVars>>

\* Claude answers "hold" or "cancel", times out or errs: run_once returns with
\* the consultation flushed and not committed.
AdviceHold(w) ==
  /\ At(w, "signal")
  /\ Finish(w)
  /\ unsaved' = TRUE
  /\ UNCHANGED <<lifecycleVars, dispatcherVars, orderVars, daily, controlVars, faults,
                 overlapped>>

\* The balance is fetched, and the buy passes the position limit (always asked
\* with 0), the daily limit and the quantity check.
LimitsPass(w) ==
  /\ At(w, "approved") /\ worker[w].side = "buy"
  /\ daily[worker[w].s] < DailyLimit
  /\ Goto(w, "priced")
  /\ UNCHANGED <<lifecycleVars, dispatcherVars, orderVars, daily, controlVars, faults,
                 historyVars>>

\* The daily limit is reached, or the balance leaves no quantity: run_once
\* returns and an uncommitted consultation is gone.
LimitsRefuse(w) ==
  /\ At(w, "approved") /\ worker[w].side = "buy"
  /\ Finish(w)
  /\ unsaved' = (unsaved \/ worker[w].s \in Advisory)
  /\ UNCHANGED <<lifecycleVars, dispatcherVars, orderVars, daily, controlVars, faults,
                 overlapped>>

ReadyToPlace(w) ==
  \/ At(w, "priced")
  \/ At(w, "approved") /\ worker[w].side = "sell"

\* What create_order may answer for a quantity.
Answers(qty) ==
  [status : {"closed"}, filled : {qty}]
    \cup [status : {"open", "canceled"}, filled : 0..qty - 1]

Accept(w, ans) ==
  /\ Len(exch) < MaxOrders
  /\ exch' = Append(exch, [s |-> worker[w].s, side |-> worker[w].side,
                           qty |-> worker[w].qty, filled |-> ans.filled,
                           live |-> ans.status = "open"])

\* create_order answers; the Order object is built but not yet committed.
PlaceAnswered(w) ==
  /\ ReadyToPlace(w)
  /\ \E ans \in Answers(worker[w].qty) :
       /\ Accept(w, ans)
       /\ worker' = [worker EXCEPT ![w].pc = "placed", ![w].oid = Len(exch) + 1, ![w].ans = ans]
  /\ UNCHANGED <<lifecycleVars, dispatcherVars, rows, bought, sold, daily, controlVars,
                 faults, historyVars>>

Rejected(w) ==
  worker' = [worker EXCEPT ![w].pc = "placed",
                           ![w].ans = [status |-> "rejected", filled |-> 0]]

\* create_order raises and the exchange took nothing: status "rejected".
PlaceRefused(w) ==
  /\ ReadyToPlace(w)
  /\ Rejected(w)
  /\ UNCHANGED <<lifecycleVars, dispatcherVars, orderVars, daily, controlVars, faults,
                 historyVars>>

\* The exchange took the order and the answer was lost: "rejected" all the same.
PlaceAnswerLost(w) ==
  /\ ReadyToPlace(w)
  /\ faults < MaxFaults
  /\ faults' = faults + 1
  /\ \E ans \in Answers(worker[w].qty) : Accept(w, ans)
  /\ Rejected(w)
  /\ UNCHANGED <<lifecycleVars, dispatcherVars, rows, bought, sold, daily, controlVars,
                 historyVars>>

\* The order row (and a pending consultation) is committed.  A rejected row has
\* no exchange id and no fill: nothing reads it again.
Commit(w) ==
  LET s   == worker[w].s
      ans == worker[w].ans
      add(sums, side) == IF worker[w].side = side /\ ans.status = "closed"
                         THEN [sums EXCEPT ![s] = @ + ans.filled] ELSE sums
  IN
  /\ At(w, "placed")
  /\ rows' = IF worker[w].oid = 0 THEN rows ELSE [rows EXCEPT ![worker[w].oid] = ans]
  /\ bought' = add(bought, "buy")
  /\ sold' = add(sold, "sell")
  /\ Goto(w, "committed")
  /\ UNCHANGED <<lifecycleVars, dispatcherVars, exch, daily, controlVars, faults, historyVars>>

\* _increment_today_traded by the ORDERED quantity, whatever the order's status.
\* The counter is only ever compared with DailyLimit, so it is kept up to there.
CountTraded(w) ==
  /\ At(w, "committed")
  /\ daily' = [daily EXCEPT ![worker[w].s] = Min({@ + worker[w].qty, DailyLimit})]
  /\ Finish(w)
  /\ UNCHANGED <<lifecycleVars, dispatcherVars, orderVars, controlVars, faults, historyVars>>

----------------------------------------------------------------------------
(* Failures of an execution. *)

Requeue(s, k) == queue' = [queue EXCEPT ![s][k] = @ + 1]

\* An exception that run_once does not catch (database, Redis, fetch_balance):
\* the transaction is rolled back and the task retried.  The consultation and
\* create_order catch their own.
Fail(w) ==
  /\ \/ worker[w].pc \in {"loaded", "cleared", "placed", "committed"}
     \/ At(w, "approved") /\ worker[w].side = "buy"
  /\ faults < MaxFaults
  /\ faults' = faults + 1
  /\ Finish(w)
  /\ IF worker[w].tries < MaxRetries
     THEN Requeue(worker[w].s, worker[w].tries + 1)
     ELSE UNCHANGED queue
  /\ UNCHANGED <<lifecycleVars, disp, orderVars, daily, controlVars, historyVars>>

\* The worker process is lost: task_acks_late and task_reject_on_worker_lost
\* put the message back as it was.
Crash(w) ==
  /\ ~At(w, "idle")
  /\ faults < MaxFaults
  /\ faults' = faults + 1
  /\ Finish(w)
  /\ Requeue(worker[w].s, worker[w].tries)
  /\ UNCHANGED <<lifecycleVars, disp, orderVars, daily, controlVars, historyVars>>

----------------------------------------------------------------------------
(* The exchange, the cancel endpoint, accounts, the operator and the clock. *)

\* An order on the book fills, in part or in full.
ExchangeFill(o) ==
  /\ o \in DOMAIN exch
  /\ exch[o].live
  /\ \E f \in exch[o].filled + 1 .. exch[o].qty :
       exch' = [exch EXCEPT ![o].filled = f, ![o].live = f < exch[o].qty]
  /\ UNCHANGED <<lifecycleVars, dispatcherVars, worker, rows, bought, sold, daily,
                 controlVars, faults, historyVars>>

\* Mutant: the exchange's refusal to cancel is swallowed, as executor.cancel does.
CancelUnconfirmed(o) ==
  /\ rows[o].status = "open"
  /\ accounts > 0
  /\ canceling' = canceling \cup {o}
  /\ UNCHANGED <<lifecycleVars, dispatcherVars, worker, orderVars, daily, halt, accounts,
                 faults, historyVars>>

\* cancel_order up to the exchange's answer: only a row in status "open" gets
\* there, and an order that is no longer live is refused with nothing changed.
CancelAtExchange(o) ==
  /\ rows[o].status = "open"
  /\ accounts > 0
  /\ exch[o].live
  /\ exch' = [exch EXCEPT ![o].live = FALSE]
  /\ canceling' = canceling \cup {o}
  /\ UNCHANGED <<lifecycleVars, dispatcherVars, worker, rows, bought, sold, daily, halt,
                 accounts, faults, historyVars>>

\* order.status = "canceled"; filled_quantity stays what it was.
CancelCommit(o) ==
  /\ o \in canceling
  /\ rows' = [rows EXCEPT ![o].status = "canceled"]
  /\ canceling' = canceling \ {o}
  /\ UNCHANGED <<lifecycleVars, dispatcherVars, worker, exch, bought, sold, daily, halt,
                 accounts, faults, historyVars>>

\* The request dies between the exchange and the commit.
CancelLost(o) ==
  /\ o \in canceling
  /\ faults < MaxFaults
  /\ faults' = faults + 1
  /\ canceling' = canceling \ {o}
  /\ UNCHANGED <<lifecycleVars, dispatcherVars, worker, orderVars, daily, halt, accounts,
                 historyVars>>

ChangeAccounts ==
  /\ accounts' \in Accounts \ {accounts}
  /\ UNCHANGED <<lifecycleVars, dispatcherVars, worker, orderVars, daily, halt, canceling,
                 faults, historyVars>>

\* An operator sets or deletes global:trading:halt.
ToggleHalt ==
  /\ halt' \in Halts \ {halt}
  /\ UNCHANGED <<lifecycleVars, dispatcherVars, worker, orderVars, daily, accounts,
                 canceling, faults, historyVars>>

\* Midnight UTC: the counters of the new date start from nothing.
NewDay ==
  /\ daily' = [s \in Strategies |-> 0]
  /\ daily' # daily
  /\ UNCHANGED <<lifecycleVars, dispatcherVars, worker, orderVars, controlVars, faults,
                 historyVars>>

----------------------------------------------------------------------------
WorkerStep(w) ==
  \/ \E s \in Strategies, k \in 0..MaxRetries :
       Load(w, s, k) \/ LoadSkips(w, s, k) \/ LoadAmbiguous(w, s, k)
  \/ CanTrade(w) \/ NoSignal(w) \/ Signal(w)
  \/ AdviceExecute(w) \/ AdviceHold(w)
  \/ LimitsPass(w) \/ LimitsRefuse(w)
  \/ PlaceAnswered(w) \/ PlaceRefused(w) \/ PlaceAnswerLost(w)
  \/ Commit(w) \/ CountTraded(w)

Outside ==
  \/ \E o \in 1..MaxOrders :
       ExchangeFill(o) \/ CancelAtExchange(o) \/ CancelCommit(o) \/ CancelLost(o)
  \/ ChangeAccounts \/ ToggleHalt \/ NewDay

Next ==
  \/ LifecycleNext /\ UNCHANGED <<dispatcherVars, tradingVars>>
  \/ DispatcherNext /\ UNCHANGED <<lifecycleVars, tradingVars>>
  \/ \E w \in Workers : WorkerStep(w) \/ Fail(w) \/ Crash(w)
  \/ Outside

Spec == Init /\ [][Next]_vars

\* A worker process that has a step to take takes it: Celery keeps it running.
FairSpec == Spec /\ \A w \in Workers : WF_vars(WorkerStep(w))

----------------------------------------------------------------------------
(* What the exchange really did for a strategy. *)
Filled(s, side) ==
  SumFunctionOnSet([o \in DOMAIN exch |-> exch[o].filled],
                   {o \in DOMAIN exch : exch[o].s = s /\ exch[o].side = side})

Holding(s) == Filled(s, "buy") - Filled(s, "sell")

\* Every order that is on the book or has a fill has a closed row.
Tracked(s) ==
  \A o \in DOMAIN exch :
    exch[o].s = s /\ (exch[o].live \/ exch[o].filled > 0) => rows[o].status = "closed"

\* What a closed row vouches for: the net fill at the exchange of the orders that have one.
Recorded(s) ==
  LET Known(side) ==
        SumFunctionOnSet([o \in DOMAIN exch |-> exch[o].filled],
                         {o \in DOMAIN exch : /\ exch[o].s = s /\ exch[o].side = side
                                              /\ rows[o].status = "closed"})
  IN Known("buy") - Known("sell")

(* However executions of a strategy overlap, answers are lost, workers crash and orders are
   canceled, the position the engine acts on is, cut off at nothing, what the orders with a
   closed row did at the exchange, and all that the strategy holds if no order escaped the
   table (lost answer, crash before the commit, order left open, partly filled and
   canceled).  It is nothing or one buy, never two buys and never a sale of more than was
   bought, unless two executions of the strategy decided at once (engine.py:107-119,
   244-264). *)
PositionIsHolding ==
  \A s \in Strategies :
    /\ OpenPosition(s) = IF Recorded(s) > 0 THEN Recorded(s) ELSE 0
    /\ Tracked(s) => Recorded(s) = Holding(s)
    /\ s \notin overlapped => Recorded(s) \in {0, BuyQty}

\* r is no further than order o is at the exchange.
Sound(r, o) ==
  /\ o \in DOMAIN exch
  /\ r.filled <= exch[o].filled
  /\ r.status = "closed" => r.filled = exch[o].qty
  /\ r.status \in {"closed", "canceled"} => ~exch[o].live

(* A row never says more than the exchange did: a closed row is a complete order of the
   same fill, a canceled row is not on the book any more, and no row reports a fill that
   did not happen (executor.py:122-162, orders.py:66-98). *)
RowsAreSound ==
  \A o \in 1..MaxOrders : rows[o].status # "none" => Sound(rows[o], o)

\* Executions that may still place an order for s.
Live(s) ==
  {w \in Workers : worker[w].s = s
                   /\ worker[w].pc \in {"loaded", "cleared", "signal", "approved", "priced"}}

\* Dispatch passes that may still send s.
Chosen(s) == {d \in Dispatchers : s \in disp[d].todo}

Drains(s) == Live(s)' \subseteq Live(s) /\ Chosen(s)' \subseteq Chosen(s)

(* From the completion of an emergency stop that no resume or activation overlaps, the
   executions that can still reach the exchange and the passes that can still send the
   strategy only get fewer, even if Redis loses the stop flag: no queued, retried or
   redelivered message gets as far again (engine.py:64-79, strategy_service.py:128-132). *)
StopDrains == [][\A s \in stopDone \cap stopDone' : Drains(s)]_vars

(* When the operator's global halt stays on, from some time on no execution is past the
   halt check any more (risk_manager.py:35, engine.py:74-79). *)
HaltDrains ==
  <>[]halt => <>[](\A w \in Workers : worker[w].pc \in {"idle", "loaded"})

(* risk_manager.py:81 defines today_traded_usdt as the total value of the trades EXECUTED
   today: the counter never exceeds the fills of the strategy's orders. *)
CountsExecutedTrades ==
  \A s \in Strategies : daily[s] <= Filled(s, "buy") + Filled(s, "sell")

(* ai_service.py:64 says consult saves the AIConsultation record: unless something fails,
   a consultation that was held leaves its record. *)
ConsultationsAreSaved == ~unsaved
=============================================================================
