-------------------------- MODULE TradingPipeline_proofs --------------------------
(***************************************************************************)
(* What holds of the whole pipeline for any number of strategies, requests,*)
(* dispatch passes, workers, orders, retries and faults: it runs the       *)
(* strategy commands as StrategyLifecycle has them, keeps its types,       *)
(* records no order further than the exchange took it, drains once a stop  *)
(* has completed, logs conflicts as it dispatches, and acts on a position  *)
(* that is the strategy's holding at the exchange.                         *)
(***************************************************************************)
EXTENDS TradingPipeline, StrategyLifecycle_proofs, FoldLemmas

(* An execution changes neither a strategy row nor a dispatch pass. *)
LEMMA ExecutionLocal ==
  ASSUME NEW w \in Workers, WorkerStep(w) \/ Fail(w) \/ Crash(w)
  PROVE  UNCHANGED <<lifecycleVars, disp>>
<1> USE DEF dispatcherVars, lifecycleVars
<1>1. ASSUME NEW s \in Strategies, NEW k \in 0..MaxRetries,
             Load(w, s, k) \/ LoadSkips(w, s, k) \/ LoadAmbiguous(w, s, k)
      PROVE  UNCHANGED <<lifecycleVars, disp>>
  BY <1>1 DEF Load, LoadSkips, LoadAmbiguous
<1>2. CASE CanTrade(w) \/ NoSignal(w) \/ Signal(w) \/ AdviceExecute(w) \/ AdviceHold(w)
  BY <1>2 DEF CanTrade, NoSignal, Signal, AdviceExecute, AdviceHold
<1>3. CASE \/ LimitsPass(w) \/ LimitsRefuse(w)
           \/ PlaceAnswered(w) \/ PlaceRefused(w) \/ PlaceAnswerLost(w)
  BY <1>3 DEF LimitsPass, LimitsRefuse, PlaceAnswered, PlaceRefused, PlaceAnswerLost
<1>4. CASE Commit(w) \/ CountTraded(w) \/ Fail(w) \/ Crash(w)
  BY <1>4 DEF Commit, CountTraded, Fail, Crash
<1> QED BY <1>1, <1>2, <1>3, <1>4 DEF WorkerStep

(* Nor does the exchange, the cancel endpoint, the operator or the clock, and none of
   them touches an execution. *)
LEMMA OutsideLocal ==
  ASSUME Outside
  PROVE  UNCHANGED <<lifecycleVars, dispatcherVars, worker>>
<1>1. ASSUME NEW o \in 1..MaxOrders,
             ExchangeFill(o) \/ CancelAtExchange(o) \/ CancelCommit(o) \/ CancelLost(o)
      PROVE  UNCHANGED <<lifecycleVars, dispatcherVars, worker>>
  BY <1>1 DEF ExchangeFill, CancelAtExchange, CancelCommit, CancelLost
<1>2. CASE ChangeAccounts \/ ToggleHalt \/ NewDay
  BY <1>2 DEF ChangeAccounts, ToggleHalt, NewDay
<1> QED BY <1>1, <1>2 DEF Outside

(* Every step of the pipeline is a step of the strategy commands or leaves them be. *)
LEMMA PipelineStep == [Next]_vars => [LifecycleNext]_lifecycleVars
<1> SUFFICES ASSUME [Next]_vars PROVE [LifecycleNext]_lifecycleVars
  OBVIOUS
<1>1. CASE UNCHANGED vars
  BY <1>1 DEF vars
<1>2. CASE LifecycleNext
  BY <1>2
<1>3. CASE UNCHANGED lifecycleVars
  BY <1>3
<1>4. ASSUME NEW w \in Workers, WorkerStep(w) \/ Fail(w) \/ Crash(w)
      PROVE  UNCHANGED lifecycleVars
  BY <1>4, ExecutionLocal
<1>5. Outside => UNCHANGED lifecycleVars
  BY OutsideLocal
<1> QED BY <1>1, <1>2, <1>3, <1>4, <1>5 DEF Next

(* The pipeline implements the strategy commands: nothing the dispatcher, a worker, the
   exchange or a request to cancel does interferes with a row, a flag or a record. *)
THEOREM PipelineImplementsLifecycle == Spec => LifecycleSpec
<1>1. Init => LifecycleInit
  BY DEF Init
<1> QED BY <1>1, PipelineStep, PTL DEF Spec, LifecycleSpec

(* A completed stop holds in the whole pipeline, as it does of the commands alone. *)
THEOREM PipelineStopsHold == Spec => []StopHolds
BY PipelineImplementsLifecycle, StopsHold, PTL

(* And so does a completed resume. *)
THEOREM PipelineResumesHold == Spec => []ResumeHolds
BY PipelineImplementsLifecycle, ResumesHold, PTL

----------------------------------------------------------------------------
(* A worker that is still inside an execution after a step was inside it before, or has
   just loaded a row that is active. *)
LEMMA LiveStep ==
  ASSUME TradingTypeOK, NEW w \in Workers, WorkerStep(w) \/ Fail(w) \/ Crash(w),
         NEW s \in Strategies, ~row[s].active
  PROVE  Live(s)' \subseteq Live(s)
<1> DEFINE In(x) == worker[x].s = s
                    /\ worker[x].pc \in {"loaded", "cleared", "signal", "approved", "priced"}
<1> SUFFICES ASSUME NEW x \in Workers, In(x)'
             PROVE  In(x)
  BY DEF Live
<1> USE DEF TradingTypeOK, At, Goto, Finish, IdleWorker
<1>1. ASSUME NEW z \in Strategies, NEW k \in 0..MaxRetries,
             Load(w, z, k) \/ LoadSkips(w, z, k) \/ LoadAmbiguous(w, z, k)
      PROVE  In(x)
  <2>1. CASE Load(w, z, k)
    BY <2>1 DEF Load
  <2>2. CASE LoadSkips(w, z, k) \/ LoadAmbiguous(w, z, k)
    BY <2>2 DEF LoadSkips, LoadAmbiguous, tradingVars
  <2> QED BY <1>1, <2>1, <2>2
<1>2. CASE CanTrade(w) \/ NoSignal(w)
  BY <1>2 DEF CanTrade, NoSignal
<1>3. CASE Signal(w)
  BY <1>3 DEF Signal
<1>4. CASE AdviceExecute(w) \/ AdviceHold(w)
  BY <1>4 DEF AdviceExecute, AdviceHold
<1>5. CASE LimitsPass(w) \/ LimitsRefuse(w)
  <2>1. worker[w].pc = "approved" /\ worker'[w].s \in {worker[w].s, NoStrategy}
        /\ worker'[w].pc \in {"priced", "idle"} /\ (x # w => worker'[x] = worker[x])
    BY <1>5 DEF LimitsPass, LimitsRefuse
  <2>2. worker'[w].pc = "priced" => worker'[w].s = worker[w].s
    BY <1>5 DEF LimitsPass, LimitsRefuse
  <2> QED BY <2>1, <2>2
<1>6. CASE PlaceAnswered(w) \/ PlaceRefused(w) \/ PlaceAnswerLost(w)
  <2>1. worker'[w].pc = "placed" /\ (x # w => worker'[x] = worker[x])
    BY <1>6 DEF PlaceAnswered, PlaceRefused, PlaceAnswerLost, Rejected
  <2> QED BY <2>1
<1>7. CASE Commit(w) \/ CountTraded(w)
  <2>1. worker'[w].pc \in {"committed", "idle"} /\ (x # w => worker'[x] = worker[x])
    BY <1>7 DEF Commit, CountTraded
  <2> QED BY <2>1
<1>8. CASE Fail(w) \/ Crash(w)
  <2>1. Finish(w)
    BY <1>8 DEF Fail, Crash
  <2> QED BY <2>1
<1> QED BY <1>1, <1>2, <1>3, <1>4, <1>5, <1>6, <1>7, <1>8 DEF WorkerStep

----------------------------------------------------------------------------
(* Whatever order the database returns the rows in, the strategies picked and the
   conflicts logged are strategies of the query. *)
LEMMA OrderTypes ==
  ASSUME NEW S \in SUBSET Strategies, NEW order \in Orders(S)
  PROVE  order \in Seq(Strategies)
<1>1. Cardinality(S) \in Nat
  BY StrategiesAssumption, FS_Subset, FS_CardinalityType
<1>2. order \in [1..Cardinality(S) -> Strategies]
  BY DEF Orders, Injection
<1> QED BY <1>1, <1>2

(* Nothing is picked or logged that the query did not return. *)
LEMMA PickedTypes ==
  ASSUME NEW order \in Seq(Strategies)
  PROVE  Picked(order) \subseteq Strategies /\ ConflictLog(order) \subseteq Conflict
<1>1. \A i \in DOMAIN order : order[i] \in Strategies
  OBVIOUS
<1>2. Picked(order) \subseteq Strategies
  BY <1>1 DEF Picked
<1>3. ConflictLog(order) \subseteq Conflict
  BY <1>1 DEF ConflictLog, Conflict
<1> QED BY <1>2, <1>3

(* The states of a dispatch pass. *)
Pass == [pc : {"idle", "selected", "logged"}, order : Seq(Strategies),
         picked : SUBSET Strategies, todo : SUBSET Strategies, log : SUBSET Conflict]

(* What becomes of a pass when its conflicts are logged, and when it has sent s. *)
LEMMA LoggedType ==
  ASSUME NEW pass \in Pass, pass.todo \subseteq pass.picked
  PROVE  /\ Logged(pass) \in Pass
         /\ Logged(pass).todo = pass.todo
         /\ Logged(pass).todo \subseteq Logged(pass).picked
<1>1. ConflictLog(pass.order) \subseteq Conflict
  BY PickedTypes DEF Pass
<1>2. <<>> \in Seq(Strategies)
  OBVIOUS
<1> QED BY <1>1, <1>2 DEF Logged, Pass

(* A pass that has sent s, or has nothing left to send, is a pass. *)
LEMMA WithoutType ==
  ASSUME NEW pass \in Pass, pass.todo \subseteq pass.picked, NEW s
  PROVE  /\ Without(pass, s) \in Pass
         /\ Without(pass, s).todo \subseteq pass.todo
         /\ Without(pass, s).todo \subseteq Without(pass, s).picked
<1>1. CASE pass.todo = {s}
  <2>1. <<>> \in Seq(Strategies)
    OBVIOUS
  <2> QED BY <1>1, <2>1 DEF Without, IdlePass, Pass
<1>2. CASE pass.todo # {s}
  BY <1>2 DEF Without, Pass
<1> QED BY <1>1, <1>2

(* The dispatcher starts with idle passes and an empty queue. *)
LEMMA DispatcherTypeInit == DispatcherInit => DispatcherTypeOK
<1> SUFFICES ASSUME DispatcherInit PROVE DispatcherTypeOK
  OBVIOUS
<1>1. IdlePass \in Pass
  BY DEF IdlePass, Pass
<1>2. queue \in Messages
  BY DEF DispatcherInit, Messages
<1> QED BY <1>1, <1>2 DEF DispatcherInit, DispatcherTypeOK, Pass, IdlePass

(* Each step of the dispatcher, a retry included, keeps the types of passes and messages. *)
LEMMA DispatcherTypeStep ==
  ASSUME DispatcherTypeOK, DispatcherNext
  PROVE  DispatcherTypeOK'
<1> USE MaxRetriesAssumption DEF DispatcherTypeOK
<1>1. IdlePass \in Pass /\ disp \in [Dispatchers -> Pass]
  BY DEF IdlePass, Pass
<1>2. ASSUME NEW d \in Dispatchers, DispatchSelect(d)
      PROVE  DispatcherTypeOK'
  <2>1. PICK order \in Orders({s \in Strategies : Dispatchable(s)}) :
          disp' = [disp EXCEPT ![d] = [pc |-> "selected", order |-> order,
                     picked |-> Picked(order), todo |-> Picked(order), log |-> {}]]
    BY <1>2 DEF DispatchSelect
  <2>2. order \in Seq(Strategies)
    BY OrderTypes
  <2>3. Picked(order) \subseteq Strategies
    BY <2>2, PickedTypes
  <2>4. disp' \in [Dispatchers -> Pass]
    BY <1>1, <2>1, <2>2, <2>3 DEF Pass
  <2>5. \A x \in Dispatchers : disp'[x].todo \subseteq disp'[x].picked
    BY <1>1, <2>1
  <2> QED BY <1>2, <2>4, <2>5 DEF DispatchSelect, Pass
<1>3. ASSUME NEW d \in Dispatchers, DispatchLog(d)
      PROVE  DispatcherTypeOK'
  <2>1. disp[d] \in Pass /\ disp' = [disp EXCEPT ![d] = Logged(disp[d])]
    BY <1>1, <1>3 DEF DispatchLog
  <2>2. Logged(disp[d]) \in Pass /\ Logged(disp[d]).todo \subseteq Logged(disp[d]).picked
    BY <2>1, LoggedType
  <2> QED BY <1>1, <1>3, <2>1, <2>2 DEF DispatchLog, Pass
<1>4. ASSUME NEW d \in Dispatchers, NEW s \in Strategies, DispatchSend(d, s)
      PROVE  DispatcherTypeOK'
  <2>1. disp[d] \in Pass /\ disp' = [disp EXCEPT ![d] = Without(disp[d], s)]
    BY <1>1, <1>4 DEF DispatchSend
  <2>2. /\ Without(disp[d], s) \in Pass
        /\ Without(disp[d], s).todo \subseteq Without(disp[d], s).picked
    BY <2>1, WithoutType
  <2>3. queue' \in Messages
    <3>1. queue' = [queue EXCEPT ![s][0] = @ + 1] /\ 0 \in 0..MaxRetries
      BY <1>4 DEF DispatchSend
    <3> QED BY <3>1 DEF Messages
  <2> QED BY <1>1, <2>1, <2>2, <2>3 DEF Pass
<1>5. ASSUME NEW d \in Dispatchers, DispatchAbort(d)
      PROVE  DispatcherTypeOK'
  BY <1>1, <1>5 DEF DispatchAbort, Pass, IdlePass
<1> QED BY <1>2, <1>3, <1>4, <1>5 DEF DispatcherNext

(* A pass that still has s to send had it before, or has just selected it. *)
LEMMA ChosenStep ==
  ASSUME DispatcherTypeOK, DispatcherNext, NEW s \in Strategies, ~row[s].active
  PROVE  Chosen(s)' \subseteq Chosen(s)
<1> SUFFICES ASSUME NEW x \in Dispatchers, s \in disp'[x].todo
             PROVE  s \in disp[x].todo
  BY DEF Chosen
<1> USE DEF DispatcherTypeOK
<1>1. ASSUME NEW d \in Dispatchers, DispatchSelect(d)
      PROVE  s \in disp[x].todo
  <2>1. PICK order \in Orders({z \in Strategies : Dispatchable(z)}) :
          disp' = [disp EXCEPT ![d] = [pc |-> "selected", order |-> order,
                     picked |-> Picked(order), todo |-> Picked(order), log |-> {}]]
    BY <1>1 DEF DispatchSelect
  <2>2. Picked(order) \subseteq {z \in Strategies : Dispatchable(z)}
    <3>1. \A i \in DOMAIN order : order[i] \in {z \in Strategies : Dispatchable(z)}
      BY DEF Orders, Injection
    <3> QED BY <3>1 DEF Picked
  <2>3. s \notin Picked(order)
    BY <2>2 DEF Dispatchable
  <2> QED BY <2>1, <2>3
<1>2. ASSUME NEW d \in Dispatchers, DispatchLog(d)
      PROVE  s \in disp[x].todo
  BY <1>2, LoggedType DEF DispatchLog, Pass
<1>3. ASSUME NEW d \in Dispatchers, NEW z \in Strategies, DispatchSend(d, z)
      PROVE  s \in disp[x].todo
  BY <1>3, WithoutType DEF DispatchSend, Pass
<1>4. ASSUME NEW d \in Dispatchers, DispatchAbort(d)
      PROVE  s \in disp[x].todo
  BY <1>4 DEF DispatchAbort, IdlePass
<1> QED BY <1>1, <1>2, <1>3, <1>4 DEF DispatcherNext

----------------------------------------------------------------------------
(* The states of a worker. *)
Process == [pc : PCs, s : Strategies \cup {NoStrategy}, tries : 0..MaxRetries,
            side : Sides, qty : Nat, oid : 0..MaxOrders, ans : OrderRow]

(* TradingTypeOK in three parts, for steps disturb one or two of them: the orders and
   their rows, *)
OrdersTypeOK ==
  /\ exch \in Seq(ExchangeOrder) /\ Len(exch) <= MaxOrders
  /\ rows \in [1..MaxOrders -> OrderRow]
  /\ bought \in [Strategies -> Nat]
  /\ sold \in [Strategies -> Nat]

(* the workers, *)
WorkersTypeOK ==
  /\ worker \in [Workers -> Process]
  /\ \A w \in Workers : worker[w].pc # "idle" => worker[w].s \in Strategies

(* and the counters, flags and accounts. *)
RestTypeOK ==
  /\ daily \in [Strategies -> Nat]
  /\ halt \in BOOLEAN
  /\ accounts \in Nat
  /\ canceling \subseteq 1..MaxOrders
  /\ faults \in Nat
  /\ overlapped \subseteq Strategies
  /\ unsaved \in BOOLEAN

(* The three parts are the whole. *)
LEMMA TradingTypeParts == TradingTypeOK <=> OrdersTypeOK /\ WorkersTypeOK /\ RestTypeOK
BY DEF TradingTypeOK, OrdersTypeOK, WorkersTypeOK, RestTypeOK, Process

(* A worker that has finished is a worker. *)
LEMMA IdleWorkerType == IdleWorker \in Process /\ IdleWorker.pc = "idle"
BY MaxRetriesAssumption, BoundsAssumption
   DEF IdleWorker, Process, PCs, Sides, OrderRow, OrderStatus, NoRow

(* The pipeline starts typed. *)
LEMMA TradingTypeInit == TradingInit => TradingTypeOK
<1> SUFFICES ASSUME TradingInit PROVE TradingTypeOK
  OBVIOUS
<1>1. OrdersTypeOK
  <2>1. NoRow \in OrderRow
    BY DEF NoRow, OrderRow, OrderStatus
  <2>2. exch = <<>> /\ <<>> \in Seq(ExchangeOrder) /\ Len(<<>>) = 0
    BY DEF TradingInit
  <2> QED BY <2>1, <2>2, BoundsAssumption DEF TradingInit, OrdersTypeOK
<1>2. WorkersTypeOK
  BY IdleWorkerType DEF TradingInit, WorkersTypeOK
<1>3. RestTypeOK
  BY EnvironmentAssumption DEF TradingInit, RestTypeOK
<1> QED BY <1>1, <1>2, <1>3, TradingTypeParts

(* The answer the exchange may give to an order is a row with a fill. *)
LEMMA AnswersType ==
  ASSUME NEW qty \in Nat, NEW ans \in Answers(qty)
  PROVE  /\ ans \in OrderRow
         /\ ans.filled <= qty
         /\ ans.status = "closed" => ans.filled = qty
         /\ ans.status \in {"open", "closed", "canceled"}
BY DEF Answers, OrderRow, OrderStatus

(* A worker that goes on with an execution keeps the types. *)
LEMMA WorkerMoves ==
  ASSUME WorkersTypeOK, NEW w \in Workers, NEW next \in Process,
         next.pc # "idle" => next.s \in Strategies,
         worker' = [worker EXCEPT ![w] = next]
  PROVE  WorkersTypeOK'
BY DEF WorkersTypeOK

(* So it does when only its program counter moves, *)
LEMMA GotoType ==
  ASSUME WorkersTypeOK, NEW w \in Workers, ~At(w, "idle"), NEW pc \in PCs, Goto(w, pc)
  PROVE  WorkersTypeOK'
<1> DEFINE next == [worker[w] EXCEPT !.pc = pc]
<1>1. worker[w] \in Process /\ worker[w].s \in Strategies
  BY DEF WorkersTypeOK, At
<1>2. next \in Process /\ next.s \in Strategies
  BY <1>1 DEF Process
<1>3. worker' = [worker EXCEPT ![w] = next]
  BY DEF Goto
<1> HIDE DEF next
<1> QED BY <1>2, <1>3, WorkerMoves

(* and when it finishes. *)
LEMMA FinishType ==
  ASSUME WorkersTypeOK, NEW w \in Workers, Finish(w)
  PROVE  WorkersTypeOK'
BY IdleWorkerType, WorkerMoves DEF Finish

(* Each step of an execution keeps the types of the workers. *)
LEMMA WorkersTypeStep ==
  ASSUME TradingTypeOK, NEW w \in Workers, WorkerStep(w) \/ Fail(w) \/ Crash(w)
  PROVE  WorkersTypeOK'
<1>1. WorkersTypeOK /\ OrdersTypeOK /\ worker[w] \in Process
  BY TradingTypeParts DEF WorkersTypeOK
<1>2. ASSUME NEW s \in Strategies, NEW k \in 0..MaxRetries,
             Load(w, s, k) \/ LoadSkips(w, s, k) \/ LoadAmbiguous(w, s, k)
      PROVE  WorkersTypeOK'
  <2>1. CASE Load(w, s, k)
    <3> DEFINE next == [IdleWorker EXCEPT !.pc = "loaded", !.s = s, !.tries = k]
    <3>1. next \in Process /\ next.s \in Strategies
      BY IdleWorkerType DEF Process, PCs
    <3>2. worker' = [worker EXCEPT ![w] = next]
      BY <2>1 DEF Load
    <3> HIDE DEF next
    <3> QED BY <1>1, <3>1, <3>2, WorkerMoves
  <2>2. CASE LoadSkips(w, s, k) \/ LoadAmbiguous(w, s, k)
    <3>1. worker' = worker
      BY <2>2 DEF LoadSkips, LoadAmbiguous, tradingVars
    <3> QED BY <1>1, <3>1 DEF WorkersTypeOK
  <2> QED BY <1>2, <2>1, <2>2
<1>3. CASE CanTrade(w)
  BY <1>1, <1>3, GotoType, FinishType DEF CanTrade, At, PCs
<1>4. CASE NoSignal(w) \/ AdviceHold(w) \/ LimitsRefuse(w) \/ CountTraded(w)
           \/ Fail(w) \/ Crash(w)
  <2>1. Finish(w)
    BY <1>4 DEF NoSignal, AdviceHold, LimitsRefuse, CountTraded, Fail, Crash
  <2> QED BY <1>1, <2>1, FinishType
<1>5. CASE Signal(w)
  <2> DEFINE q == OpenPosition(worker[w].s)
             next == [worker[w] EXCEPT
                        !.pc = IF worker[w].s \in Advisory THEN "signal" ELSE "approved",
                        !.side = IF q > 0 THEN "sell" ELSE "buy",
                        !.qty = IF q > 0 THEN q ELSE BuyQty]
  <2>1. worker[w].s \in Strategies
    BY <1>1, <1>5 DEF Signal, At, WorkersTypeOK
  <2>2. q \in Nat
    BY <1>1, <2>1 DEF OpenPosition, OrdersTypeOK
  <2>3. worker' = [worker EXCEPT ![w] = next]
    BY <1>5 DEF Signal
  <2> HIDE DEF q
  <2>4. next \in Process /\ next.s \in Strategies
    BY <1>1, <2>1, <2>2, BuyQtyAssumption DEF Process, PCs, Sides
  <2> HIDE DEF next
  <2> QED BY <1>1, <2>3, <2>4, WorkerMoves
<1>6. CASE AdviceExecute(w) \/ LimitsPass(w) \/ Commit(w)
  BY <1>1, <1>6, GotoType DEF AdviceExecute, LimitsPass, Commit, At, PCs
<1>7. CASE PlaceAnswered(w)
  <2>1. PICK ans \in Answers(worker[w].qty) :
          /\ Accept(w, ans)
          /\ worker' = [worker EXCEPT ![w].pc = "placed", ![w].oid = Len(exch) + 1,
                                      ![w].ans = ans]
    BY <1>7 DEF PlaceAnswered
  <2> DEFINE next == [worker[w] EXCEPT !.pc = "placed", !.oid = Len(exch) + 1, !.ans = ans]
  <2>2. worker[w].s \in Strategies /\ worker[w].qty \in Nat
    BY <1>1, <1>7 DEF PlaceAnswered, ReadyToPlace, At, WorkersTypeOK, Process
  <2>3. ans \in OrderRow
    BY <2>2, AnswersType
  <2>4. Len(exch) + 1 \in 0..MaxOrders
    BY <1>1, <2>1, BoundsAssumption DEF Accept, OrdersTypeOK
  <2>5. worker' = [worker EXCEPT ![w] = next]
    BY <2>1
  <2>6. next \in Process /\ next.s \in Strategies
    BY <1>1, <2>2, <2>3, <2>4 DEF Process, PCs
  <2> HIDE DEF next
  <2> QED BY <1>1, <2>5, <2>6, WorkerMoves
<1>8. CASE PlaceRefused(w) \/ PlaceAnswerLost(w)
  <2> DEFINE no == [status |-> "rejected", filled |-> 0]
             next == [worker[w] EXCEPT !.pc = "placed", !.ans = no]
  <2>1. worker' = [worker EXCEPT ![w] = next]
    BY <1>8 DEF PlaceRefused, PlaceAnswerLost, Rejected
  <2>2. worker[w].s \in Strategies
    BY <1>1, <1>8 DEF PlaceRefused, PlaceAnswerLost, ReadyToPlace, At, WorkersTypeOK
  <2>3. no \in OrderRow
    BY DEF OrderRow, OrderStatus
  <2> HIDE DEF no
  <2>4. next \in Process /\ next.s \in Strategies
    BY <1>1, <2>2, <2>3 DEF Process, PCs
  <2> HIDE DEF next
  <2> QED BY <1>1, <2>1, <2>4, WorkerMoves
<1> QED BY <1>2, <1>3, <1>4, <1>5, <1>6, <1>7, <1>8 DEF WorkerStep

(* An order the exchange takes is appended to those it has. *)
LEMMA AcceptType ==
  ASSUME TradingTypeOK, NEW w \in Workers, ReadyToPlace(w),
         NEW ans \in Answers(worker[w].qty), Accept(w, ans)
  PROVE  /\ exch' \in Seq(ExchangeOrder)
         /\ Len(exch') = Len(exch) + 1 /\ Len(exch') <= MaxOrders
         /\ \A o \in DOMAIN exch : exch'[o] = exch[o]
         /\ exch'[Len(exch) + 1] =
              [s |-> worker[w].s, side |-> worker[w].side, qty |-> worker[w].qty,
               filled |-> ans.filled, live |-> ans.status = "open"]
<1> DEFINE new == [s |-> worker[w].s, side |-> worker[w].side, qty |-> worker[w].qty,
                   filled |-> ans.filled, live |-> ans.status = "open"]
<1>1. worker[w] \in Process /\ worker[w].s \in Strategies
  BY TradingTypeParts DEF WorkersTypeOK, ReadyToPlace, At
<1>2. new \in ExchangeOrder
  <2>1. ans.filled \in Nat
    BY <1>1, AnswersType DEF Process, OrderRow
  <2> QED BY <1>1, <2>1 DEF ExchangeOrder, Process
<1>3. exch' = Append(exch, new) /\ Len(exch) < MaxOrders
  BY DEF Accept
<1>4. exch \in Seq(ExchangeOrder)
  BY DEF TradingTypeOK
<1> HIDE DEF new
<1>5. exch' \in Seq(ExchangeOrder) /\ Len(exch') = Len(exch) + 1
  BY <1>2, <1>3, <1>4
<1>6. \A o \in DOMAIN exch : exch'[o] = exch[o]
  BY <1>2, <1>3, <1>4, AppendProperties
<1>7. exch'[Len(exch) + 1] = new
  BY <1>2, <1>3, <1>4, AppendProperties
<1> QED BY <1>3, <1>4, <1>5, <1>6, <1>7, BoundsAssumption DEF new

(* Each step of an execution keeps the types of the orders. *)
LEMMA OrdersTypeStep ==
  ASSUME TradingTypeOK, NEW w \in Workers, WorkerStep(w) \/ Fail(w) \/ Crash(w)
  PROVE  OrdersTypeOK'
<1>1. OrdersTypeOK /\ worker[w] \in Process
  BY TradingTypeParts DEF WorkersTypeOK
<1>2. ASSUME UNCHANGED orderVars
      PROVE  OrdersTypeOK'
  BY <1>1, <1>2 DEF OrdersTypeOK, orderVars
<1>3. ASSUME NEW s \in Strategies, NEW k \in 0..MaxRetries,
             Load(w, s, k) \/ LoadSkips(w, s, k) \/ LoadAmbiguous(w, s, k)
      PROVE  UNCHANGED orderVars
  BY <1>3 DEF Load, LoadSkips, LoadAmbiguous, tradingVars
<1>4. CASE CanTrade(w) \/ NoSignal(w) \/ Signal(w) \/ AdviceExecute(w) \/ AdviceHold(w)
           \/ LimitsPass(w) \/ LimitsRefuse(w) \/ PlaceRefused(w) \/ CountTraded(w)
           \/ Fail(w) \/ Crash(w)
  <2>1. UNCHANGED orderVars
    BY <1>4 DEF CanTrade, NoSignal, Signal, AdviceExecute, AdviceHold, LimitsPass,
                LimitsRefuse, PlaceRefused, CountTraded, Fail, Crash
  <2> QED BY <1>2, <2>1
<1>5. CASE PlaceAnswered(w) \/ PlaceAnswerLost(w)
  <2>1. PICK ans \in Answers(worker[w].qty) : Accept(w, ans)
    BY <1>5 DEF PlaceAnswered, PlaceAnswerLost
  <2>2. ReadyToPlace(w) /\ UNCHANGED <<rows, bought, sold>>
    BY <1>5 DEF PlaceAnswered, PlaceAnswerLost
  <2>3. exch' \in Seq(ExchangeOrder) /\ Len(exch') <= MaxOrders
    BY <2>1, <2>2, AcceptType
  <2> QED BY <1>1, <2>2, <2>3 DEF OrdersTypeOK
<1>6. CASE Commit(w)
  <2>1. worker[w].s \in Strategies
    BY <1>6, TradingTypeParts DEF Commit, At, WorkersTypeOK
  <2>2. rows' \in [1..MaxOrders -> OrderRow]
    <3>1. CASE worker[w].oid = 0
      BY <1>1, <1>6, <3>1 DEF Commit, OrdersTypeOK
    <3>2. CASE worker[w].oid # 0
      <4>1. rows' = [rows EXCEPT ![worker[w].oid] = worker[w].ans]
        BY <1>6, <3>2 DEF Commit
      <4> QED BY <1>1, <4>1 DEF OrdersTypeOK, Process
    <3> QED BY <3>1, <3>2
  <2>3. ASSUME NEW sums \in [Strategies -> Nat]
        PROVE  [sums EXCEPT ![worker[w].s] = @ + worker[w].ans.filled] \in [Strategies -> Nat]
    BY <1>1, <2>1 DEF Process, OrderRow
  <2>4. bought' \in [Strategies -> Nat] /\ sold' \in [Strategies -> Nat]
    <3>1. /\ bought' = bought \/ bought' = [bought EXCEPT ![worker[w].s] = @ + worker[w].ans.filled]
          /\ sold' = sold \/ sold' = [sold EXCEPT ![worker[w].s] = @ + worker[w].ans.filled]
      BY <1>6 DEF Commit
    <3> QED BY <1>1, <2>3, <3>1 DEF OrdersTypeOK
  <2>5. exch' = exch
    BY <1>6 DEF Commit
  <2> QED BY <1>1, <2>2, <2>4, <2>5 DEF OrdersTypeOK
<1> QED BY <1>2, <1>3, <1>4, <1>5, <1>6 DEF WorkerStep

(* Each step of an execution keeps the types of everything else. *)
LEMMA RestTypeStep ==
  ASSUME TradingTypeOK, NEW w \in Workers, WorkerStep(w) \/ Fail(w) \/ Crash(w)
  PROVE  RestTypeOK'
<1>1. RestTypeOK /\ worker[w] \in Process
  BY TradingTypeParts DEF WorkersTypeOK
<1> USE DEF RestTypeOK, controlVars, historyVars
<1>2. ASSUME NEW s \in Strategies, NEW k \in 0..MaxRetries,
             Load(w, s, k) \/ LoadSkips(w, s, k) \/ LoadAmbiguous(w, s, k)
      PROVE  RestTypeOK'
  BY <1>1, <1>2 DEF Load, LoadSkips, LoadAmbiguous, tradingVars
<1>3. CASE CanTrade(w) \/ NoSignal(w) \/ AdviceExecute(w) \/ AdviceHold(w)
  BY <1>1, <1>3 DEF CanTrade, NoSignal, AdviceExecute, AdviceHold
<1>4. CASE Signal(w)
  <2>1. worker[w].s \in Strategies
    BY <1>4, TradingTypeParts DEF Signal, At, WorkersTypeOK
  <2> QED BY <1>1, <1>4, <2>1 DEF Signal
<1>5. CASE LimitsPass(w) \/ LimitsRefuse(w)
  BY <1>1, <1>5 DEF LimitsPass, LimitsRefuse
<1>6. CASE PlaceAnswered(w) \/ PlaceRefused(w) \/ PlaceAnswerLost(w)
  BY <1>1, <1>6 DEF PlaceAnswered, PlaceRefused, PlaceAnswerLost
<1>7. CASE Commit(w) \/ Fail(w) \/ Crash(w)
  BY <1>1, <1>7 DEF Commit, Fail, Crash
<1>8. CASE CountTraded(w)
  <2>1. worker[w].s \in Strategies
    BY <1>8, TradingTypeParts DEF CountTraded, At, WorkersTypeOK
  <2>2. ASSUME NEW a \in Nat, NEW b \in Nat PROVE Min({a, b}) \in Nat
    <3>1. \E x \in {a, b} : \A y \in {a, b} : x <= y
      <4>1. CASE a <= b
        BY <4>1
      <4>2. CASE ~(a <= b)
        BY <4>2
      <4> QED BY <4>1, <4>2
    <3>2. Min({a, b}) \in {a, b}
      BY <3>1 DEF Min
    <3> QED BY <3>2
  <2>3. daily[worker[w].s] + worker[w].qty \in Nat /\ DailyLimit \in Nat
    BY <1>1, <2>1, BoundsAssumption DEF Process
  <2>4. Min({daily[worker[w].s] + worker[w].qty, DailyLimit}) \in Nat
    BY <2>2, <2>3
  <2>5. daily' = [daily EXCEPT ![worker[w].s] =
                    Min({daily[worker[w].s] + worker[w].qty, DailyLimit})]
    BY <1>8 DEF CountTraded
  <2> HIDE DEF Min
  <2>6. daily' \in [Strategies -> Nat]
    BY <1>1, <2>4, <2>5
  <2> QED BY <1>1, <1>8, <2>6 DEF CountTraded
<1> QED BY <1>2, <1>3, <1>4, <1>5, <1>6, <1>7, <1>8 DEF WorkerStep

(* A message that is taken was there, and a requeued one has its tries within bounds. *)
LEMMA QueueTypeStep ==
  ASSUME TypeOK, NEW w \in Workers, WorkerStep(w) \/ Fail(w) \/ Crash(w)
  PROVE  queue' \in Messages
<1>1. queue \in Messages /\ worker[w] \in Process /\ MaxRetries \in Nat
  BY MaxRetriesAssumption, TradingTypeParts
     DEF TypeOK, DispatcherTypeOK, WorkersTypeOK
<1>2. ASSUME NEW s \in Strategies, NEW k \in 0..MaxRetries,
             Load(w, s, k) \/ LoadSkips(w, s, k) \/ LoadAmbiguous(w, s, k)
      PROVE  queue' \in Messages
  <2>1. queue[s][k] \in Nat /\ queue[s][k] > 0
    BY <1>1, <1>2 DEF Load, LoadSkips, LoadAmbiguous, Deliver, Messages
  <2>2. CASE Load(w, s, k) \/ LoadSkips(w, s, k)
    <3>1. queue' = [queue EXCEPT ![s][k] = @ - 1]
      BY <2>2 DEF Load, LoadSkips
    <3> QED BY <1>1, <2>1, <3>1 DEF Messages
  <2>3. CASE LoadAmbiguous(w, s, k)
    <3> DEFINE back == [j \in 0..MaxRetries |->
                          CASE j = k -> queue[s][j] - 1
                            [] j = k + 1 -> queue[s][j] + 1
                            [] OTHER -> queue[s][j]]
    <3>1. queue' = [queue EXCEPT ![s] = back]
      BY <2>3 DEF LoadAmbiguous
    <3>2. back \in [0..MaxRetries -> Nat]
      BY <1>1, <2>1 DEF Messages
    <3> HIDE DEF back
    <3> QED BY <1>1, <3>1, <3>2 DEF Messages
  <2> QED BY <1>2, <2>2, <2>3
<1>3. CASE CanTrade(w) \/ NoSignal(w) \/ Signal(w) \/ AdviceExecute(w) \/ AdviceHold(w)
           \/ LimitsPass(w) \/ LimitsRefuse(w)
  <2>1. queue' = queue
    BY <1>3 DEF CanTrade, NoSignal, Signal, AdviceExecute, AdviceHold, LimitsPass,
                LimitsRefuse, dispatcherVars
  <2> QED BY <1>1, <2>1
<1>4. CASE PlaceAnswered(w) \/ PlaceRefused(w) \/ PlaceAnswerLost(w)
           \/ Commit(w) \/ CountTraded(w)
  <2>1. queue' = queue
    BY <1>4 DEF PlaceAnswered, PlaceRefused, PlaceAnswerLost, Commit, CountTraded,
                dispatcherVars
  <2> QED BY <1>1, <2>1
<1>5. CASE Fail(w) \/ Crash(w)
  <2>1. worker[w].s \in Strategies
    BY <1>5, TradingTypeParts DEF Fail, Crash, At, WorkersTypeOK, TypeOK
  <2>2. ASSUME NEW k \in 0..MaxRetries, Requeue(worker[w].s, k)
        PROVE  queue' \in Messages
    BY <1>1, <2>1, <2>2 DEF Requeue, Messages
  <2>3. worker[w].tries \in 0..MaxRetries
        /\ (worker[w].tries < MaxRetries => worker[w].tries + 1 \in 0..MaxRetries)
    BY <1>1 DEF Process
  <2>4. CASE Fail(w)
    BY <1>1, <2>2, <2>3, <2>4 DEF Fail
  <2>5. CASE Crash(w)
    BY <2>2, <2>3, <2>5 DEF Crash
  <2> QED BY <1>5, <2>4, <2>5
<1> QED BY <1>2, <1>3, <1>4, <1>5 DEF WorkerStep

(* A step outside the executions keeps the types, once a canceled row is a row of an
   order the exchange has. *)
LEMMA OutsideTypeStep ==
  ASSUME TradingTypeOK, RowsAreSound, Outside
  PROVE  TradingTypeOK'
<1> USE DEF controlVars, historyVars
<1>1. OrdersTypeOK /\ WorkersTypeOK /\ RestTypeOK
  BY TradingTypeParts
<1>2. WorkersTypeOK'
  BY <1>1, OutsideLocal DEF WorkersTypeOK
<1>3. ASSUME NEW o \in 1..MaxOrders, ExchangeFill(o)
      PROVE  OrdersTypeOK' /\ RestTypeOK'
  <2>1. PICK f \in exch[o].filled + 1 .. exch[o].qty :
          exch' = [exch EXCEPT ![o].filled = f, ![o].live = f < exch[o].qty]
    BY <1>3 DEF ExchangeFill
  <2>2. o \in DOMAIN exch /\ exch[o] \in ExchangeOrder
    BY <1>1, <1>3 DEF ExchangeFill, OrdersTypeOK
  <2>3. f \in Nat
    BY <2>2 DEF ExchangeOrder
  <2> DEFINE new == [exch[o] EXCEPT !.filled = f, !.live = f < exch[o].qty]
  <2>4. new \in ExchangeOrder
    <3>1. (f < exch[o].qty) \in BOOLEAN
      OBVIOUS
    <3> QED BY <2>2, <2>3, <3>1 DEF ExchangeOrder
  <2>6. exch' = [exch EXCEPT ![o] = new]
    BY <2>1
  <2> HIDE DEF new
  <2>5. exch' \in Seq(ExchangeOrder) /\ Len(exch') = Len(exch)
    BY <1>1, <2>2, <2>4, <2>6 DEF OrdersTypeOK
  <2> QED BY <1>1, <1>3, <2>5 DEF ExchangeFill, OrdersTypeOK, RestTypeOK, controlVars
<1>4. ASSUME NEW o \in 1..MaxOrders, CancelAtExchange(o)
      PROVE  OrdersTypeOK' /\ RestTypeOK'
  <2>1. o \in DOMAIN exch /\ exch[o] \in ExchangeOrder
    BY <1>1, <1>4 DEF CancelAtExchange, RowsAreSound, Sound, OrdersTypeOK
  <2> DEFINE new == [exch[o] EXCEPT !.live = FALSE]
  <2>2. new \in ExchangeOrder /\ exch' = [exch EXCEPT ![o] = new]
    BY <1>4, <2>1 DEF CancelAtExchange, ExchangeOrder
  <2> HIDE DEF new
  <2>3. exch' \in Seq(ExchangeOrder) /\ Len(exch') = Len(exch)
    BY <1>1, <2>1, <2>2 DEF OrdersTypeOK
  <2> QED BY <1>1, <1>4, <2>3 DEF CancelAtExchange, OrdersTypeOK, RestTypeOK
<1>5. ASSUME NEW o \in 1..MaxOrders, CancelCommit(o)
      PROVE  OrdersTypeOK' /\ RestTypeOK'
  <2>1. rows' \in [1..MaxOrders -> OrderRow]
    BY <1>1, <1>5 DEF CancelCommit, OrdersTypeOK, OrderRow, OrderStatus
  <2> QED BY <1>1, <1>5, <2>1 DEF CancelCommit, OrdersTypeOK, RestTypeOK
<1>6. ASSUME NEW o \in 1..MaxOrders, CancelLost(o)
      PROVE  OrdersTypeOK' /\ RestTypeOK'
  BY <1>1, <1>6 DEF CancelLost, OrdersTypeOK, RestTypeOK, orderVars
<1>7. ASSUME ChangeAccounts \/ ToggleHalt \/ NewDay
      PROVE  OrdersTypeOK' /\ RestTypeOK'
  <2>1. OrdersTypeOK'
    BY <1>1, <1>7 DEF ChangeAccounts, ToggleHalt, NewDay, OrdersTypeOK, orderVars
  <2>2. CASE ChangeAccounts
    BY <1>1, <2>1, <2>2, EnvironmentAssumption DEF ChangeAccounts, RestTypeOK
  <2>3. CASE ToggleHalt
    BY <1>1, <2>1, <2>3, EnvironmentAssumption DEF ToggleHalt, RestTypeOK
  <2>4. CASE NewDay
    BY <1>1, <2>1, <2>4 DEF NewDay, RestTypeOK
  <2> QED BY <1>7, <2>1, <2>2, <2>3, <2>4
<1>8. OrdersTypeOK' /\ RestTypeOK'
  BY <1>3, <1>4, <1>5, <1>6, <1>7 DEF Outside
<1>9. TradingTypeOK' <=> OrdersTypeOK' /\ WorkersTypeOK' /\ RestTypeOK'
  BY TradingTypeParts, PTL
<1> QED BY <1>2, <1>8, <1>9

----------------------------------------------------------------------------
(* The argument that rows are sound: what an execution was answered, and what a request
   to cancel was answered, stay true of the order while the answer waits for its commit,
   because at the exchange a fill only grows and an order never goes back on the book. *)
AnswersAreSound ==
  /\ \A w \in Workers :
       /\ worker[w].pc \notin {"placed", "committed"} => worker[w].oid = 0
       /\ At(w, "placed") /\ worker[w].oid # 0 => Sound(worker[w].ans, worker[w].oid)
  /\ \A o \in canceling :
       o \in DOMAIN exch /\ ~exch[o].live /\ rows[o].filled <= exch[o].filled

(* What a step of the pipeline may do to the orders at the exchange. *)
Grows ==
  \A o \in DOMAIN exch :
    /\ o \in DOMAIN exch'
    /\ exch'[o].qty = exch[o].qty
    /\ exch[o].filled <= exch'[o].filled
    /\ ~exch[o].live => ~exch'[o].live

(* So does a row stay below the fill of an order that is being canceled. *)
LEMMA CanceledStays ==
  ASSUME TradingTypeOK, TradingTypeOK', AnswersAreSound, Grows, UNCHANGED rows,
         NEW o \in canceling
  PROVE  o \in DOMAIN exch' /\ ~exch'[o].live /\ rows'[o].filled <= exch'[o].filled
<1>1. /\ o \in DOMAIN exch
      /\ exch[o] \in ExchangeOrder
      /\ o \in DOMAIN exch'
      /\ exch'[o] \in ExchangeOrder
      /\ rows[o] \in OrderRow
  BY DEF AnswersAreSound, Grows, TradingTypeOK
<1>2. rows[o].filled \in Nat /\ exch[o].filled \in Nat /\ exch'[o].filled \in Nat
  BY <1>1 DEF OrderRow, ExchangeOrder
<1> QED BY <1>1, <1>2 DEF AnswersAreSound, Grows

(* An answer or a row that is sound of an order stays sound as the order grows. *)
LEMMA SoundStays ==
  ASSUME TradingTypeOK, TradingTypeOK', Grows,
         NEW o \in 1..MaxOrders, NEW r \in OrderRow, Sound(r, o)
  PROVE  Sound(r, o)'
<1>1. /\ o \in DOMAIN exch
      /\ exch[o] \in ExchangeOrder
      /\ o \in DOMAIN exch'
      /\ exch'[o] \in ExchangeOrder
  BY DEF Sound, Grows, TradingTypeOK
<1>2. r.filled \in Nat /\ exch[o].filled \in Nat /\ exch'[o].filled \in Nat
  BY <1>1 DEF OrderRow, ExchangeOrder
<1> QED BY <1>1, <1>2 DEF Sound, Grows

(* A worker's step only appends to the exchange's orders. *)
LEMMA ExecutionGrows ==
  ASSUME TradingTypeOK, NEW w \in Workers, WorkerStep(w) \/ Fail(w) \/ Crash(w)
  PROVE  Grows
<1>1. \A o \in DOMAIN exch : exch[o].filled \in Nat
  <2>1. exch \in Seq(ExchangeOrder)
    BY DEF TradingTypeOK
  <2>2. \A o \in DOMAIN exch : exch[o] \in ExchangeOrder
    BY <2>1
  <2> QED BY <2>2 DEF ExchangeOrder
<1>2. exch' = exch => Grows
  BY <1>1 DEF Grows
<1>3. ASSUME NEW s \in Strategies, NEW k \in 0..MaxRetries,
             Load(w, s, k) \/ LoadSkips(w, s, k) \/ LoadAmbiguous(w, s, k)
      PROVE  exch' = exch
  BY <1>3 DEF Load, LoadSkips, LoadAmbiguous, tradingVars, orderVars
<1>4. CASE CanTrade(w) \/ NoSignal(w) \/ Signal(w) \/ AdviceExecute(w) \/ AdviceHold(w)
           \/ LimitsPass(w) \/ LimitsRefuse(w) \/ PlaceRefused(w) \/ Commit(w)
           \/ CountTraded(w) \/ Fail(w) \/ Crash(w)
  <2>1. exch' = exch
    BY <1>4 DEF CanTrade, NoSignal, Signal, AdviceExecute, AdviceHold, LimitsPass,
                LimitsRefuse, PlaceRefused, Commit, CountTraded, Fail, Crash, orderVars
  <2> QED BY <1>2, <2>1
<1>5. CASE PlaceAnswered(w) \/ PlaceAnswerLost(w)
  <2>1. PICK ans \in Answers(worker[w].qty) : Accept(w, ans)
    BY <1>5 DEF PlaceAnswered, PlaceAnswerLost
  <2>2. ReadyToPlace(w)
    BY <1>5 DEF PlaceAnswered, PlaceAnswerLost
  <2>3. /\ exch \in Seq(ExchangeOrder) /\ exch' \in Seq(ExchangeOrder)
        /\ Len(exch') = Len(exch) + 1
        /\ \A o \in DOMAIN exch : exch'[o] = exch[o]
    BY <2>1, <2>2, AcceptType DEF TradingTypeOK
  <2>4. \A o \in DOMAIN exch : o \in DOMAIN exch'
    BY <2>3
  <2> QED BY <1>1, <2>3, <2>4 DEF Grows
<1> QED BY <1>2, <1>3, <1>4, <1>5 DEF WorkerStep

(* A fill adds to what is filled, and a cancellation takes the order off the book. *)
LEMMA OutsideGrows ==
  ASSUME TradingTypeOK, Outside
  PROVE  Grows
<1>1. \A o \in DOMAIN exch : exch[o] \in ExchangeOrder
  BY DEF TradingTypeOK
<1>2. exch' = exch => Grows
  BY <1>1 DEF Grows, ExchangeOrder
<1>3. ASSUME NEW o \in 1..MaxOrders, ExchangeFill(o)
      PROVE  Grows
  <2>1. PICK f \in exch[o].filled + 1 .. exch[o].qty :
          exch' = [exch EXCEPT ![o].filled = f, ![o].live = f < exch[o].qty]
    BY <1>3 DEF ExchangeFill
  <2>2. o \in DOMAIN exch /\ exch[o].live
    BY <1>3 DEF ExchangeFill
  <2>3. exch[o].filled \in Nat /\ exch[o].qty \in Nat
    BY <1>1, <2>2 DEF ExchangeOrder
  <2>4. exch[o].filled <= f
    BY <2>3
  <2>5. DOMAIN exch' = DOMAIN exch
    BY <2>1
  <2>6. exch'[o].qty = exch[o].qty /\ exch'[o].filled = f
    BY <1>1, <2>1, <2>2 DEF ExchangeOrder
  <2>7. \A p \in DOMAIN exch : p # o => exch'[p] = exch[p]
    BY <2>1
  <2>8. \A p \in DOMAIN exch : exch[p].filled <= exch[p].filled
    BY <1>1 DEF ExchangeOrder
  <2> QED BY <2>2, <2>4, <2>5, <2>6, <2>7, <2>8 DEF Grows
<1>4. ASSUME NEW o \in 1..MaxOrders, CancelAtExchange(o)
      PROVE  Grows
  <2>1. exch' = [exch EXCEPT ![o].live = FALSE]
    BY <1>4 DEF CancelAtExchange
  <2> QED BY <1>1, <2>1 DEF Grows, ExchangeOrder
<1>5. ASSUME NEW o \in 1..MaxOrders, CancelCommit(o) \/ CancelLost(o)
      PROVE  exch' = exch
  BY <1>5 DEF CancelCommit, CancelLost, orderVars
<1>6. ASSUME ChangeAccounts \/ ToggleHalt \/ NewDay
      PROVE  exch' = exch
  BY <1>6 DEF ChangeAccounts, ToggleHalt, NewDay, orderVars
<1> QED BY <1>2, <1>3, <1>4, <1>5, <1>6 DEF Outside

(* An execution's step: the answer of a placed order is sound, and the commit copies it. *)
LEMMA ExecutionSound ==
  ASSUME TradingTypeOK, TradingTypeOK', RowsAreSound, AnswersAreSound,
         NEW w \in Workers, WorkerStep(w) \/ Fail(w) \/ Crash(w)
  PROVE  RowsAreSound' /\ AnswersAreSound'
<1>1. Grows
  BY ExecutionGrows
<1>2. /\ worker \in [Workers -> Process] /\ worker' \in [Workers -> Process]
      /\ rows \in [1..MaxOrders -> OrderRow]
      /\ canceling \subseteq 1..MaxOrders
      /\ worker[w] \in Process
  BY DEF TradingTypeOK, Process
<1>3. ASSUME UNCHANGED rows PROVE RowsAreSound'
  BY <1>1, <1>2, <1>3, SoundStays DEF RowsAreSound
<1>4. ASSUME UNCHANGED canceling,
             \A o \in canceling :
               o \in DOMAIN exch' /\ ~exch'[o].live /\ rows'[o].filled <= exch'[o].filled,
             \A x \in Workers \ {w} : worker'[x] = worker[x],
             worker'[w].pc \notin {"placed", "committed"} => worker'[w].oid = 0,
             worker'[w].pc = "placed" /\ worker'[w].oid # 0 =>
               Sound(worker[w].ans, worker[w].oid)'
      PROVE  AnswersAreSound'
  <2>1. ASSUME NEW x \in Workers, x # w
        PROVE  /\ worker'[x].pc \notin {"placed", "committed"} => worker'[x].oid = 0
               /\ worker'[x].pc = "placed" /\ worker'[x].oid # 0 =>
                    Sound(worker[x].ans, worker[x].oid)'
    <3>1. worker[x] \in Process /\ worker'[x] = worker[x]
      BY <1>2, <1>4, <2>1
    <3>2. ASSUME worker[x].pc = "placed", worker[x].oid # 0
          PROVE  Sound(worker[x].ans, worker[x].oid)'
      <4>1. worker[x].oid \in 1..MaxOrders /\ worker[x].ans \in OrderRow
        BY <3>1, <3>2 DEF Process
      <4>2. Sound(worker[x].ans, worker[x].oid)
        BY <3>2 DEF AnswersAreSound, At
      <4>3. PICK o \in 1..MaxOrders, r \in OrderRow :
              o = worker[x].oid /\ r = worker[x].ans
        BY <4>1
      <4>4. Sound(r, o)'
        BY <1>1, <4>2, <4>3, SoundStays
      <4> QED BY <3>1, <4>3, <4>4
    <3> QED BY <3>1, <3>2 DEF AnswersAreSound
  <2>2. ASSUME NEW x \in Workers
        PROVE  /\ worker'[x].pc \notin {"placed", "committed"} => worker'[x].oid = 0
               /\ worker'[x].pc = "placed" /\ worker'[x].oid # 0 =>
                    Sound(worker[x].ans, worker[x].oid)'
    BY <1>4, <2>1
  <2> QED BY <1>4, <2>2 DEF AnswersAreSound, At
<1>5. worker[w].pc \notin {"placed", "committed"} => worker[w].oid = 0
  BY DEF AnswersAreSound
<1>6. ASSUME UNCHANGED <<rows, canceling>>,
             worker'[w].pc \notin {"placed"},
             \A x \in Workers \ {w} : worker'[x] = worker[x],
             worker'[w].pc \notin {"placed", "committed"} => worker'[w].oid = 0
      PROVE  RowsAreSound' /\ AnswersAreSound'
  BY <1>1, <1>3, <1>4, <1>6, CanceledStays
<1>7. ASSUME NEW s \in Strategies, NEW k \in 0..MaxRetries,
             Load(w, s, k) \/ LoadSkips(w, s, k) \/ LoadAmbiguous(w, s, k)
      PROVE  RowsAreSound' /\ AnswersAreSound'
  <2>1. CASE Load(w, s, k)
    <3>1. /\ UNCHANGED <<rows, canceling>>
          /\ worker'[w].pc = "loaded" /\ worker'[w].oid = 0
          /\ \A x \in Workers \ {w} : worker'[x] = worker[x]
      BY <1>2, <2>1 DEF Load, orderVars, controlVars, IdleWorker
    <3> QED BY <1>6, <3>1
  <2>2. CASE LoadSkips(w, s, k) \/ LoadAmbiguous(w, s, k)
    <3>1. UNCHANGED <<rows, canceling, worker>> /\ worker[w].pc = "idle"
      BY <2>2 DEF LoadSkips, LoadAmbiguous, tradingVars, orderVars, controlVars, Deliver, At
    <3> QED BY <1>5, <1>6, <3>1
  <2> QED BY <1>7, <2>1, <2>2
<1>8. CASE CanTrade(w) \/ NoSignal(w) \/ AdviceExecute(w) \/ AdviceHold(w)
           \/ LimitsPass(w) \/ LimitsRefuse(w) \/ CountTraded(w) \/ Fail(w) \/ Crash(w)
  <2>1. UNCHANGED <<rows, canceling>>
    BY <1>8 DEF CanTrade, NoSignal, AdviceExecute, AdviceHold, LimitsPass, LimitsRefuse,
                CountTraded, Fail, Crash, orderVars, controlVars
  <2>2. \/ Finish(w)
        \/ /\ worker[w].pc \in {"loaded", "signal", "approved"}
           /\ \E pc \in {"cleared", "approved", "priced"} : Goto(w, pc)
    BY <1>8 DEF CanTrade, NoSignal, AdviceExecute, AdviceHold, LimitsPass, LimitsRefuse,
                CountTraded, Fail, Crash, At
  <2>3. CASE Finish(w)
    <3>1. worker'[w] = IdleWorker /\ \A x \in Workers \ {w} : worker'[x] = worker[x]
      BY <1>2, <2>3 DEF Finish
    <3> QED BY <1>6, <2>1, <3>1 DEF IdleWorker
  <2>4. ASSUME worker[w].pc \in {"loaded", "signal", "approved"},
               NEW pc \in {"cleared", "approved", "priced"}, Goto(w, pc)
        PROVE  RowsAreSound' /\ AnswersAreSound'
    <3>1. /\ worker'[w].pc = pc /\ worker'[w].oid = worker[w].oid
          /\ \A x \in Workers \ {w} : worker'[x] = worker[x]
      BY <1>2, <2>4 DEF Goto, Process
    <3>2. worker[w].oid = 0
      BY <1>5, <2>4
    <3> QED BY <1>6, <2>1, <2>4, <3>1, <3>2
  <2> QED BY <2>2, <2>3, <2>4
<1>9. CASE Signal(w)
  <2>1. /\ UNCHANGED <<rows, canceling>>
        /\ worker[w].pc = "cleared"
        /\ worker'[w].pc \in {"signal", "approved"} /\ worker'[w].oid = worker[w].oid
        /\ \A x \in Workers \ {w} : worker'[x] = worker[x]
    BY <1>2, <1>9 DEF Signal, At, Process, orderVars, controlVars
  <2> QED BY <1>5, <1>6, <2>1
<1>10. CASE PlaceAnswered(w)
  <2>1. PICK ans \in Answers(worker[w].qty) :
          /\ Accept(w, ans)
          /\ worker' = [worker EXCEPT ![w].pc = "placed", ![w].oid = Len(exch) + 1,
                                      ![w].ans = ans]
    BY <1>10 DEF PlaceAnswered
  <2>2. /\ UNCHANGED <<rows, canceling>> /\ ReadyToPlace(w)
    BY <1>10 DEF PlaceAnswered, controlVars
  <2>3. /\ exch \in Seq(ExchangeOrder) /\ exch' \in Seq(ExchangeOrder)
        /\ Len(exch') = Len(exch) + 1
        /\ exch'[Len(exch) + 1] =
             [s |-> worker[w].s, side |-> worker[w].side, qty |-> worker[w].qty,
              filled |-> ans.filled, live |-> ans.status = "open"]
    BY <2>1, <2>2, AcceptType DEF TradingTypeOK
  <2>4. /\ worker'[w].pc = "placed"
        /\ worker'[w].oid = Len(exch) + 1
        /\ worker'[w].ans = ans
        /\ \A x \in Workers \ {w} : worker'[x] = worker[x]
    BY <1>2, <2>1 DEF Process
  <2>5. /\ ans.filled \in Nat
        /\ ans.status = "closed" => ans.filled = worker[w].qty
        /\ ans.status \in {"closed", "canceled"} => ~(ans.status = "open")
    BY <1>2, AnswersType DEF Process, OrderRow
  <2>6. Len(exch) + 1 \in DOMAIN exch'
    BY <2>3
  <2>7. /\ exch'[Len(exch) + 1].filled = ans.filled
        /\ exch'[Len(exch) + 1].qty = worker[w].qty
        /\ exch'[Len(exch) + 1].live = (ans.status = "open")
    BY <2>3
  <2>8. Sound(worker[w].ans, worker[w].oid)'
    <3>1. ans.filled <= exch'[Len(exch) + 1].filled
      BY <2>5, <2>7
    <3>2. ans.status = "closed" => ans.filled = exch'[Len(exch) + 1].qty
      BY <2>5, <2>7
    <3>3. ans.status \in {"closed", "canceled"} => ~exch'[Len(exch) + 1].live
      BY <2>5, <2>7
    <3> QED BY <2>4, <2>6, <3>1, <3>2, <3>3, Zenon DEF Sound
  <2> QED BY <1>1, <1>3, <1>4, <2>2, <2>4, <2>8, CanceledStays
<1>11. CASE PlaceRefused(w) \/ PlaceAnswerLost(w)
  <2>1. /\ UNCHANGED <<rows, canceling>> /\ ReadyToPlace(w) /\ Rejected(w)
    BY <1>11 DEF PlaceRefused, PlaceAnswerLost, orderVars, controlVars
  <2>2. /\ worker'[w].oid = worker[w].oid
        /\ \A x \in Workers \ {w} : worker'[x] = worker[x]
        /\ worker[w].pc \in {"priced", "approved"}
        /\ worker'[w].pc = "placed"
    BY <1>2, <2>1 DEF Rejected, ReadyToPlace, At, Process
  <2> QED BY <1>1, <1>3, <1>4, <1>5, <2>1, <2>2, CanceledStays
<1>12. CASE Commit(w)
  <2>1. /\ UNCHANGED <<exch, canceling>>
        /\ worker[w].pc = "placed" /\ worker'[w].pc = "committed"
        /\ \A x \in Workers \ {w} : worker'[x] = worker[x]
    BY <1>2, <1>12 DEF Commit, Goto, At, controlVars, Process
  <2>2. ASSUME \A o \in canceling : rows'[o].filled <= exch'[o].filled
        PROVE  AnswersAreSound'
    BY <1>4, <2>1, <2>2 DEF AnswersAreSound
  <2>3. CASE worker[w].oid = 0
    <3>1. UNCHANGED rows
      BY <1>12, <2>3 DEF Commit
    <3> QED BY <1>1, <1>3, <2>2, <3>1, CanceledStays
  <2>4. CASE worker[w].oid # 0
    <3>1. rows' = [rows EXCEPT ![worker[w].oid] = worker[w].ans]
          /\ worker[w].oid \in 1..MaxOrders
      BY <1>2, <1>12, <2>4 DEF Commit, Process
    <3>2. Sound(worker[w].ans, worker[w].oid)
      BY <2>1, <2>4 DEF AnswersAreSound, At
    <3>3. \A o \in 1..MaxOrders : rows'[o].status # "none" => Sound(rows'[o], o)
      BY <1>2, <3>1, <3>2 DEF RowsAreSound
    <3>4. RowsAreSound'
      BY <2>1, <3>3 DEF RowsAreSound, Sound
    <3>5. \A o \in canceling : rows'[o].filled <= exch'[o].filled
      BY <1>2, <2>1, <3>1, <3>2 DEF AnswersAreSound, Sound
    <3> QED BY <2>2, <3>4, <3>5
  <2> QED BY <2>3, <2>4
<1> QED BY <1>7, <1>8, <1>9, <1>10, <1>11, <1>12 DEF WorkerStep

(* A step outside: only the commit of a cancellation changes a row, and it has the
   exchange's answer. *)
LEMMA OutsideSound ==
  ASSUME TradingTypeOK, TradingTypeOK', RowsAreSound, AnswersAreSound, Outside
  PROVE  RowsAreSound' /\ AnswersAreSound'
<1>1. Grows
  BY OutsideGrows
<1>2. /\ worker' = worker /\ worker \in [Workers -> Process]
      /\ rows \in [1..MaxOrders -> OrderRow]
  BY OutsideLocal DEF TradingTypeOK, Process
<1>3. ASSUME UNCHANGED rows PROVE RowsAreSound'
  BY <1>1, <1>2, <1>3, SoundStays DEF RowsAreSound
<1>4. ASSUME \A o \in canceling' :
               o \in DOMAIN exch' /\ ~exch'[o].live /\ rows'[o].filled <= exch'[o].filled
      PROVE  AnswersAreSound'
  <2>1. ASSUME NEW x \in Workers, worker[x].pc = "placed", worker[x].oid # 0
        PROVE  Sound(worker[x].ans, worker[x].oid)'
    <3>1. worker[x].oid \in 1..MaxOrders /\ worker[x].ans \in OrderRow
      BY <1>2, <2>1 DEF Process
    <3>2. Sound(worker[x].ans, worker[x].oid)
      BY <2>1 DEF AnswersAreSound, At
    <3>3. PICK o \in 1..MaxOrders, r \in OrderRow : o = worker[x].oid /\ r = worker[x].ans
      BY <3>1
    <3>4. Sound(r, o)'
      BY <1>1, <3>2, <3>3, SoundStays
    <3> QED BY <1>2, <3>3, <3>4
  <2>2. ASSUME NEW x \in Workers
        PROVE  /\ worker'[x].pc \notin {"placed", "committed"} => worker'[x].oid = 0
               /\ worker'[x].pc = "placed" /\ worker'[x].oid # 0 =>
                    Sound(worker[x].ans, worker[x].oid)'
    BY <1>2, <2>1 DEF AnswersAreSound
  <2> QED BY <1>4, <2>2 DEF AnswersAreSound, At
<1>5. ASSUME UNCHANGED <<rows, canceling>> PROVE AnswersAreSound'
  BY <1>1, <1>4, <1>5, CanceledStays
<1>6. ASSUME NEW o \in 1..MaxOrders, ExchangeFill(o)
      PROVE  UNCHANGED <<rows, canceling>>
  BY <1>6 DEF ExchangeFill, controlVars
<1>7. ASSUME NEW o \in 1..MaxOrders, CancelAtExchange(o)
      PROVE  RowsAreSound' /\ AnswersAreSound'
  <2>1. /\ UNCHANGED rows
        /\ canceling' = canceling \cup {o}
        /\ exch' = [exch EXCEPT ![o].live = FALSE]
    BY <1>7 DEF CancelAtExchange
  <2>2. o \in DOMAIN exch /\ exch[o] \in ExchangeOrder
    BY <1>7 DEF CancelAtExchange, RowsAreSound, Sound, TradingTypeOK
  <2>3. o \in DOMAIN exch' /\ ~exch'[o].live /\ exch'[o].filled = exch[o].filled
    BY <2>1, <2>2 DEF ExchangeOrder
  <2>4. rows[o].filled <= exch[o].filled
    BY <1>7 DEF CancelAtExchange, RowsAreSound, Sound
  <2>5. \A p \in canceling :
          p \in DOMAIN exch' /\ ~exch'[p].live /\ rows'[p].filled <= exch'[p].filled
    BY <1>1, <2>1, CanceledStays
  <2> QED BY <1>3, <1>4, <2>1, <2>3, <2>4, <2>5
<1>8. ASSUME NEW o \in 1..MaxOrders, CancelCommit(o)
      PROVE  RowsAreSound' /\ AnswersAreSound'
  <2>1. /\ rows' = [rows EXCEPT ![o].status = "canceled"]
        /\ canceling' = canceling \ {o} /\ o \in canceling
        /\ exch' = exch
    BY <1>8 DEF CancelCommit
  <2>3. rows'[o].status = "canceled" /\ rows'[o].filled = rows[o].filled
        /\ \A p \in 1..MaxOrders : p # o => rows'[p] = rows[p]
    BY <1>2, <2>1 DEF OrderRow
  <2>4. o \in DOMAIN exch /\ ~exch[o].live
    BY <2>1 DEF AnswersAreSound
  <2>5. rows[o].filled <= exch[o].filled
    BY <2>1 DEF AnswersAreSound
  <2>6. \A p \in 1..MaxOrders : rows'[p].status # "none" => Sound(rows'[p], p)
    BY <2>3, <2>4, <2>5 DEF RowsAreSound, Sound
  <2>7. RowsAreSound'
    BY <2>1, <2>6 DEF RowsAreSound, Sound
  <2>8. \A p \in canceling' :
          p \in DOMAIN exch' /\ ~exch'[p].live /\ rows'[p].filled <= exch'[p].filled
    <3>1. canceling \subseteq 1..MaxOrders
      BY DEF TradingTypeOK
    <3> QED BY <2>1, <2>3, <3>1 DEF AnswersAreSound
  <2> QED BY <1>4, <2>7, <2>8
<1>9. ASSUME NEW o \in 1..MaxOrders, CancelLost(o)
      PROVE  RowsAreSound' /\ AnswersAreSound'
  <2>1. UNCHANGED <<rows, exch>> /\ canceling' = canceling \ {o}
    BY <1>9 DEF CancelLost, orderVars
  <2>2. AnswersAreSound'
    BY <1>4, <2>1 DEF AnswersAreSound
  <2> QED BY <1>3, <2>1, <2>2
<1>10. ASSUME ChangeAccounts \/ ToggleHalt \/ NewDay
       PROVE  RowsAreSound' /\ AnswersAreSound'
  <2>1. UNCHANGED <<rows, exch, canceling>>
    BY <1>10 DEF ChangeAccounts, ToggleHalt, NewDay, orderVars, controlVars
  <2> QED BY <1>3, <1>5, <2>1
<1> QED BY <1>3, <1>5, <1>6, <1>7, <1>8, <1>9, <1>10 DEF Outside

----------------------------------------------------------------------------
(* The inductive invariant: RowsAreSound needs the answers under way to be sound. *)
PipelineInv == LifecycleInv /\ TypeOK /\ RowsAreSound /\ AnswersAreSound

(* It holds of the initial states. *)
LEMMA PipelineInvInit == Init => PipelineInv
<1> SUFFICES ASSUME Init PROVE PipelineInv
  OBVIOUS
<1>1. LifecycleInv /\ TypeOK
  BY LifecycleInvInit, DispatcherTypeInit, TradingTypeInit DEF Init, LifecycleInv, TypeOK
<1>2. RowsAreSound
  BY DEF Init, TradingInit, RowsAreSound, NoRow
<1>3. AnswersAreSound
  BY DEF Init, TradingInit, AnswersAreSound, At, IdleWorker
<1> QED BY <1>1, <1>2, <1>3 DEF PipelineInv

(* Every step keeps it. *)
LEMMA PipelineInvStep == PipelineInv /\ [Next]_vars => PipelineInv'
<1> SUFFICES ASSUME PipelineInv, [Next]_vars PROVE PipelineInv'
  OBVIOUS
<1>1. LifecycleInv'
  BY PipelineStep, LifecycleInvStep DEF PipelineInv
<1>2. LifecycleTypeOK'
  BY <1>1 DEF LifecycleInv
<1>3. ASSUME UNCHANGED tradingVars
      PROVE  TradingTypeOK' /\ RowsAreSound' /\ AnswersAreSound'
  BY <1>3 DEF PipelineInv, TypeOK, TradingTypeOK, RowsAreSound, AnswersAreSound, Sound, At,
              tradingVars, orderVars, controlVars, historyVars
<1>4. ASSUME UNCHANGED dispatcherVars PROVE DispatcherTypeOK'
  BY <1>4 DEF PipelineInv, TypeOK, DispatcherTypeOK, dispatcherVars
<1>5. CASE UNCHANGED vars
  BY <1>1, <1>2, <1>3, <1>4, <1>5 DEF vars, PipelineInv, TypeOK
<1>6. CASE LifecycleNext /\ UNCHANGED <<dispatcherVars, tradingVars>>
  BY <1>1, <1>2, <1>3, <1>4, <1>6 DEF PipelineInv, TypeOK
<1>7. CASE DispatcherNext /\ UNCHANGED <<lifecycleVars, tradingVars>>
  <2>1. DispatcherTypeOK'
    BY <1>7, DispatcherTypeStep DEF PipelineInv, TypeOK
  <2> QED BY <1>1, <1>2, <1>3, <1>7, <2>1 DEF PipelineInv, TypeOK
<1>8. ASSUME NEW w \in Workers, WorkerStep(w) \/ Fail(w) \/ Crash(w)
      PROVE  PipelineInv'
  <2>1. TypeOK /\ TradingTypeOK /\ RowsAreSound /\ AnswersAreSound
    BY DEF PipelineInv, TypeOK
  <2>2. TradingTypeOK'
    <3>1. OrdersTypeOK' /\ WorkersTypeOK' /\ RestTypeOK'
      BY <1>8, <2>1, OrdersTypeStep, WorkersTypeStep, RestTypeStep
    <3> QED BY <3>1, TradingTypeParts, PTL
  <2>3. DispatcherTypeOK'
    <3>1. disp' = disp /\ queue' \in Messages
      BY <1>8, <2>1, ExecutionLocal, QueueTypeStep
    <3> QED BY <2>1, <3>1 DEF TypeOK, DispatcherTypeOK
  <2>4. RowsAreSound' /\ AnswersAreSound'
    BY <1>8, <2>1, <2>2, ExecutionSound
  <2> QED BY <1>1, <1>2, <2>2, <2>3, <2>4 DEF PipelineInv, TypeOK
<1>9. CASE Outside
  <2>1. TradingTypeOK /\ RowsAreSound /\ AnswersAreSound
    BY DEF PipelineInv, TypeOK
  <2>2. TradingTypeOK'
    BY <1>9, <2>1, OutsideTypeStep
  <2>3. DispatcherTypeOK'
    BY <1>4, <1>9, OutsideLocal
  <2>4. RowsAreSound' /\ AnswersAreSound'
    BY <1>9, <2>1, <2>2, OutsideSound
  <2> QED BY <1>1, <1>2, <2>2, <2>3, <2>4 DEF PipelineInv, TypeOK
<1> QED BY <1>5, <1>6, <1>7, <1>8, <1>9 DEF Next

(* Type correctness of the composed system. *)
THEOREM PipelineTypes == Spec => []TypeOK
<1>1. PipelineInv => TypeOK
  BY DEF PipelineInv
<1> QED BY <1>1, PipelineInvInit, PipelineInvStep, PTL DEF Spec

(* No committed order row ever says more than the exchange did, for any number of
   workers, orders, lost answers, crashes and cancellations. *)
THEOREM RowsStaySound == Spec => []RowsAreSound
<1>1. PipelineInv => RowsAreSound
  BY DEF PipelineInv
<1> QED BY <1>1, PipelineInvInit, PipelineInvStep, PTL DEF Spec

(* While a completed stop is in force, a step can only take executions and passes out of
   the strategy's way to the exchange. *)
LEMMA DrainStep ==
  PipelineInv /\ [Next]_vars => \A s \in stopDone \cap stopDone' : Drains(s)
<1> SUFFICES ASSUME PipelineInv, [Next]_vars, NEW s \in stopDone
             PROVE  Live(s)' \subseteq Live(s) /\ Chosen(s)' \subseteq Chosen(s)
  BY DEF Drains
<1>1. s \in Strategies /\ ~row[s].active
  BY DEF PipelineInv, LifecycleInv, LifecycleTypeOK, StopHolds
<1>2. TradingTypeOK /\ DispatcherTypeOK
  BY DEF PipelineInv, TypeOK
<1>3. ASSUME UNCHANGED worker PROVE Live(s)' \subseteq Live(s)
  BY <1>3 DEF Live
<1>4. ASSUME UNCHANGED disp PROVE Chosen(s)' \subseteq Chosen(s)
  BY <1>4 DEF Chosen
<1>5. CASE UNCHANGED vars \/ (LifecycleNext /\ UNCHANGED <<dispatcherVars, tradingVars>>)
  BY <1>3, <1>4, <1>5 DEF vars, tradingVars, dispatcherVars
<1>6. CASE DispatcherNext /\ UNCHANGED <<lifecycleVars, tradingVars>>
  BY <1>1, <1>2, <1>3, <1>6, ChosenStep DEF tradingVars
<1>7. ASSUME NEW w \in Workers, WorkerStep(w) \/ Fail(w) \/ Crash(w)
      PROVE  Live(s)' \subseteq Live(s) /\ Chosen(s)' \subseteq Chosen(s)
  BY <1>1, <1>2, <1>4, <1>7, LiveStep, ExecutionLocal
<1>8. CASE Outside
  BY <1>3, <1>4, <1>8, OutsideLocal DEF dispatcherVars
<1>9. Next \/ UNCHANGED vars
  OBVIOUS
<1> QED BY <1>5, <1>6, <1>7, <1>8, <1>9 DEF Next

(* A completed stop drains the pipeline, even if Redis loses the flag, for any number of
   workers, passes, queued and retried messages. *)
THEOREM StopsDrain == Spec => StopDrains
<1>1. PipelineInv /\ [Next]_vars => [\A s \in stopDone \cap stopDone' : Drains(s)]_vars
  BY DrainStep
<1> QED BY <1>1, PipelineInvInit, PipelineInvStep, PTL DEF Spec, StopDrains

----------------------------------------------------------------------------
(* Among the strategies of one symbol, in any query order, one comes first: the highest
   priority, and the first in the order among equals. *)
Comes(order, i, j) ==
  \/ Priority[order[j]] < Priority[order[i]]
  \/ Priority[order[j]] = Priority[order[i]] /\ i < j

(* By the least position at which a prefix of the query order would have no first. *)
LEMMA OneComesFirst ==
  ASSUME NEW order \in Seq(Strategies), NEW i \in DOMAIN order
  PROVE  \E m \in SameSymbol(order, i) :
           \A j \in SameSymbol(order, i) \ {m} : Comes(order, m, j)
<1> DEFINE G == SameSymbol(order, i)
           Upto(n) == {j \in G : j <= n}
           Good(n) == Upto(n) = {} \/ \E m \in Upto(n) : \A j \in Upto(n) \ {m} : Comes(order, m, j)
           Bad == {n \in Nat : ~Good(n)}
<1>1. /\ DOMAIN order = 1..Len(order) /\ Len(order) \in Nat
      /\ \A j \in DOMAIN order : Priority[order[j]] \in Int
  BY PriorityAssumption
<1>2. G \subseteq 1..Len(order) /\ i \in G
  BY <1>1 DEF SameSymbol
<1>3. \A j \in G : Priority[order[j]] \in Int /\ j \in Nat /\ j >= 1
  BY <1>1, <1>2
<1> HIDE DEF G
<1>4. Bad = {}
  <2> SUFFICES ASSUME Bad # {} PROVE FALSE
    OBVIOUS
  <2>1. PICK n \in Bad : \A k \in Bad : n <= k
    <3>1. Bad \in SUBSET Nat
      OBVIOUS
    <3> HIDE DEF Bad
    <3> QED BY <3>1, LeastExists
  <2>2. n \in Nat /\ ~Good(n)
    OBVIOUS
  <2>9. n \in Nat
    BY <2>2
  <2>3. Upto(0) = {}
    BY <1>3
  <2>4. n # 0
    BY <2>2, <2>3
  <2>5. n - 1 \in Nat /\ ~(n <= n - 1)
    BY <2>2, <2>4
  <2>6. Good(n - 1)
    <3>1. n - 1 \notin Bad
      <4> HIDE DEF Bad
      <4> QED BY <2>1, <2>5
    <3> QED BY <2>5, <3>1
  <2>7. CASE n \notin G
    <3>1. Upto(n) = Upto(n - 1)
      <4>1. \A j \in G : j <= n <=> j <= n - 1
        <5>1. \A j \in G : j # n /\ j \in Nat
          BY <1>3, <2>7
        <5> QED BY <2>9, <5>1
      <4> QED BY <4>1
    <3> HIDE DEF Upto
    <3> QED BY <2>2, <2>6, <3>1
  <2>8. CASE n \in G
    <3>1. Upto(n) = Upto(n - 1) \cup {n} /\ n \notin Upto(n - 1)
      <4>1. \A j \in G : j <= n <=> j <= n - 1 \/ j = n
        BY <1>3, <2>9
      <4>2. ~(n <= n - 1)
        BY <2>9
      <4> QED BY <2>8, <4>1, <4>2
    <3>2. CASE Upto(n - 1) = {}
      <4> HIDE DEF Upto
      <4> QED BY <2>2, <3>1, <3>2
    <3>3. ASSUME NEW m \in Upto(n - 1), \A j \in Upto(n - 1) \ {m} : Comes(order, m, j)
          PROVE  FALSE
      <4>1. \A j \in Upto(n - 1) :
              /\ Priority[order[j]] \in Int /\ j \in Nat /\ j < n
        BY <1>3, <2>2
      <4>2. Priority[order[n]] \in Int
        BY <1>3, <2>8
      <4> HIDE DEF Upto
      <4>3. CASE Priority[order[m]] < Priority[order[n]]
        <5>1. \A j \in Upto(n) \ {n} : Comes(order, n, j)
          <6> SUFFICES ASSUME NEW j \in Upto(n - 1)
                       PROVE  Priority[order[j]] < Priority[order[n]]
            BY <3>1 DEF Comes
          <6>1. /\ Priority[order[j]] \in Int /\ Priority[order[m]] \in Int
                /\ Priority[order[n]] \in Int
            BY <4>1, <4>2
          <6>2. j = m \/ Comes(order, m, j)
            BY <3>3
          <6>3. j = m \/ Priority[order[j]] <= Priority[order[m]]
            BY <6>1, <6>2 DEF Comes
          <6> QED BY <4>3, <6>1, <6>3
        <5> QED BY <2>2, <3>1, <5>1
      <4>4. CASE ~(Priority[order[m]] < Priority[order[n]])
        <5>1. Comes(order, m, n)
          BY <4>1, <4>2, <4>4 DEF Comes
        <5> QED BY <2>2, <3>1, <3>3, <5>1
      <4> QED BY <4>3, <4>4
    <3> QED BY <2>6, <3>2, <3>3
  <2> QED BY <2>7, <2>8
<1>5. Good(Len(order))
  BY <1>1, <1>4
<1>6. Upto(Len(order)) = G
  BY <1>1, <1>2
<1> HIDE DEF Upto
<1> QED BY <1>2, <1>5, <1>6 DEF G

(* What the two rankings of a query order have to do with each other. *)
Agrees(log, picked) ==
  /\ \A c \in log : {c.a, c.b} \cap picked \subseteq {c.winner}
  /\ \A c \in log : \E s \in picked : Symbol[s] = Symbol[c.a]

(* A query returns a row once. *)
Distinct(order) == \A i, j \in DOMAIN order : order[i] = order[j] => i = j

(* The dispatch picks the strategy that comes first, and the log, which ranks pair by pair,
   names it the winner of every pair it is in. *)
LEMMA RankingsAgree ==
  ASSUME NEW order \in Seq(Strategies), Distinct(order)
  PROVE  Agrees(ConflictLog(order), Picked(order))
<1>1. /\ DOMAIN order = 1..Len(order) /\ Len(order) \in Nat
      /\ \A j \in DOMAIN order : j \in Nat /\ Priority[order[j]] \in Int
  BY PriorityAssumption
<1>2. ASSUME NEW i \in DOMAIN order, order[i] \in Picked(order)
      PROVE  \A j \in SameSymbol(order, i) \ {i} : Comes(order, i, j)
  <2>1. PICK k \in DOMAIN order :
          /\ order[k] = order[i]
          /\ \A j \in SameSymbol(order, k) \ {k} : Comes(order, k, j)
    BY <1>2 DEF Picked, Comes
  <2> QED BY <2>1 DEF Distinct
<1> SUFFICES ASSUME NEW c \in ConflictLog(order)
             PROVE  /\ {c.a, c.b} \cap Picked(order) \subseteq {c.winner}
                    /\ \E s \in Picked(order) : Symbol[s] = Symbol[c.a]
  BY DEF Agrees
<1>3. PICK i \in DOMAIN order, j \in DOMAIN order :
        /\ Symbol[order[i]] = Symbol[order[j]] /\ i < j
        /\ c = [a |-> order[i], b |-> order[j],
                winner |-> IF Priority[order[i]] >= Priority[order[j]]
                           THEN order[i] ELSE order[j]]
  BY DEF ConflictLog
<1>4. /\ j \in SameSymbol(order, i) \ {i} /\ i \in SameSymbol(order, j) \ {j}
  BY <1>1, <1>3 DEF SameSymbol
<1>5. order[i] \in Picked(order) => c.winner = order[i]
  BY <1>1, <1>2, <1>3, <1>4 DEF Comes
<1>6. order[j] \in Picked(order) => c.winner = order[j]
  BY <1>1, <1>2, <1>3, <1>4 DEF Comes
<1>7. PICK m \in SameSymbol(order, i) :
        \A k \in SameSymbol(order, i) \ {m} : Comes(order, m, k)
  BY OneComesFirst
<1>8. order[m] \in Picked(order) /\ Symbol[order[m]] = Symbol[order[i]]
  BY <1>7 DEF Picked, SameSymbol, Comes
<1> QED BY <1>3, <1>5, <1>6, <1>8

(* The inductive invariant: a pass that has selected holds the picks of the order it will
   log, and one that has logged holds a log that agrees with its picks. *)
RankingInv ==
  \A d \in Dispatchers :
    /\ disp[d].pc = "selected" =>
         Distinct(disp[d].order) /\ disp[d].picked = Picked(disp[d].order)
    /\ disp[d].pc = "logged" => Agrees(disp[d].log, disp[d].picked)

(* Each step of the dispatcher keeps it. *)
LEMMA RankingStep ==
  ASSUME DispatcherTypeOK, RankingInv, DispatcherNext
  PROVE  RankingInv'
<1>1. disp \in [Dispatchers -> Pass]
  BY DEF DispatcherTypeOK, Pass
<1>2. ASSUME NEW d \in Dispatchers, NEW pass, disp' = [disp EXCEPT ![d] = pass],
             pass.pc = "selected" => Distinct(pass.order) /\ pass.picked = Picked(pass.order),
             pass.pc = "logged" => Agrees(pass.log, pass.picked)
      PROVE  RankingInv'
  <2>1. disp'[d] = pass /\ \A x \in Dispatchers \ {d} : disp'[x] = disp[x]
    BY <1>1, <1>2
  <2> QED BY <1>2, <2>1 DEF RankingInv
<1>3. ASSUME NEW d \in Dispatchers, DispatchSelect(d)
      PROVE  RankingInv'
  <2>1. PICK order \in Orders({s \in Strategies : Dispatchable(s)}) :
          disp' = [disp EXCEPT ![d] = [pc |-> "selected", order |-> order,
                     picked |-> Picked(order), todo |-> Picked(order), log |-> {}]]
    BY <1>3 DEF DispatchSelect
  <2>2. Distinct(order)
    BY DEF Orders, Injection, IsInjective, Distinct
  <2> QED BY <1>2, <2>1, <2>2
<1>4. ASSUME NEW d \in Dispatchers, DispatchLog(d)
      PROVE  RankingInv'
  <2>1. disp[d] \in Pass /\ disp' = [disp EXCEPT ![d] = Logged(disp[d])]
        /\ disp[d].pc = "selected"
    BY <1>1, <1>4 DEF DispatchLog
  <2>2. Agrees(ConflictLog(disp[d].order), disp[d].picked)
    BY <2>1, RankingsAgree DEF RankingInv, Pass
  <2>3. /\ Logged(disp[d]).pc = "logged" /\ Logged(disp[d]).picked = disp[d].picked
        /\ Logged(disp[d]).log = ConflictLog(disp[d].order)
    BY DEF Logged
  <2> QED BY <1>2, <2>1, <2>2, <2>3
<1>5. ASSUME NEW d \in Dispatchers, NEW s \in Strategies, DispatchSend(d, s)
      PROVE  RankingInv'
  <2>1. /\ disp[d] \in Pass /\ disp[d].pc = "logged"
        /\ disp' = [disp EXCEPT ![d] = Without(disp[d], s)]
    BY <1>1, <1>5 DEF DispatchSend
  <2>2. \/ Without(disp[d], s).pc = "idle"
        \/ /\ Without(disp[d], s).pc = "logged"
           /\ Without(disp[d], s).picked = disp[d].picked
           /\ Without(disp[d], s).log = disp[d].log
    BY <2>1 DEF Without, IdlePass, Pass
  <2> QED BY <1>2, <2>1, <2>2 DEF RankingInv
<1>6. ASSUME NEW d \in Dispatchers, DispatchAbort(d)
      PROVE  RankingInv'
  BY <1>2, <1>6 DEF DispatchAbort, IdlePass
<1> QED BY <1>3, <1>4, <1>5, <1>6 DEF DispatcherNext

(* The log of conflicts and the dispatch agree on the winner of every pair, for any
   number of strategies in any query order, with any symbols and priorities. *)
THEOREM LogsAgree == Spec => []LogAgreesWithDispatch
<1>1. Init => RankingInv
  BY DEF Init, DispatcherInit, IdlePass, RankingInv
<1>2. PipelineInv /\ RankingInv /\ [Next]_vars => RankingInv'
  <2> SUFFICES ASSUME PipelineInv, RankingInv, [Next]_vars PROVE RankingInv'
    OBVIOUS
  <2>1. disp' = disp => RankingInv'
    BY DEF RankingInv
  <2>2. CASE DispatcherNext
    BY <2>2, RankingStep DEF PipelineInv, TypeOK
  <2>3. CASE UNCHANGED vars \/ UNCHANGED <<dispatcherVars, tradingVars>> \/ Outside
    BY <2>1, <2>3, OutsideLocal DEF vars, dispatcherVars
  <2>4. ASSUME NEW w \in Workers, WorkerStep(w) \/ Fail(w) \/ Crash(w)
        PROVE  RankingInv'
    BY <2>1, <2>4, ExecutionLocal
  <2> QED BY <2>2, <2>3, <2>4 DEF Next
<1>3. RankingInv => LogAgreesWithDispatch
  BY DEF RankingInv, LogAgreesWithDispatch, Agrees
<1> QED BY <1>1, <1>2, <1>3, PipelineInvInit, PipelineInvStep, PTL DEF Spec

----------------------------------------------------------------------------
(* A placed order that got an id is the worker's own, it has no row yet, and no other
   worker holds its id; without an id the answer is "rejected".  A request to cancel
   works on a row that is open.  No order is filled beyond its quantity. *)
OrderOfItsOwn(w) ==
  IF worker[w].oid = 0 THEN worker[w].ans.status = "rejected"
  ELSE /\ worker[w].oid \in DOMAIN exch
       /\ rows[worker[w].oid].status = "none"
       /\ exch[worker[w].oid].s = worker[w].s
       /\ exch[worker[w].oid].side = worker[w].side
       /\ exch[worker[w].oid].qty = worker[w].qty

(* All of this of every worker, order and request. *)
OrdersAreOwn ==
  /\ \A w \in Workers : worker[w].pc = "placed" => OrderOfItsOwn(w)
  /\ \A w, x \in Workers :
       /\ worker[w].pc = "placed" /\ worker[x].pc = "placed"
       /\ worker[w].oid # 0 /\ worker[w].oid = worker[x].oid
       => w = x
  /\ \A o \in canceling : rows[o].status = "open"
  /\ \A o \in DOMAIN exch : exch[o].filled <= exch[o].qty

(* What is filled of each order, the orders of s on one side, and those with a closed row. *)
Fills == [o \in DOMAIN exch |-> exch[o].filled]

Of(s, side) == {o \in DOMAIN exch : exch[o].s = s /\ exch[o].side = side}

Closed(s, side) == {o \in Of(s, side) : rows[o].status = "closed"}

(* The sums _open_position takes are the fills of the orders with a closed row. *)
SumsAreClosed ==
  \A s \in Strategies :
    /\ bought[s] = SumFunctionOnSet(Fills, Closed(s, "buy"))
    /\ sold[s] = SumFunctionOnSet(Fills, Closed(s, "sell"))

(* Unless two executions of s decided at once, one decides at most, on the position as
   it is, and that is nothing or one buy. *)
Decided(w) ==
  /\ worker[w].side = IF bought[worker[w].s] = sold[worker[w].s] THEN "buy" ELSE "sell"
  /\ worker[w].qty = BuyQty

(* The engine holds nothing or one buy, and one worker at most decides. *)
OnePosition ==
  \A s \in Strategies \ overlapped :
    /\ bought[s] = sold[s] \/ bought[s] = sold[s] + BuyQty
    /\ \A w \in Deciding(s) : Decided(w)
    /\ \A w, x \in Deciding(s) : w = x

(* The inductive invariant. *)
HoldingInv == PipelineInv /\ OrdersAreOwn /\ SumsAreClosed /\ OnePosition

----------------------------------------------------------------------------
(* What the types say of each order. *)
LEMMA OrdersAreTyped ==
  ASSUME TradingTypeOK
  PROVE  /\ IsFiniteSet(DOMAIN exch) /\ DOMAIN exch = 1..Len(exch) /\ Len(exch) \in Nat
         /\ \A o \in DOMAIN exch :
              /\ o \in 1..MaxOrders /\ exch[o] \in ExchangeOrder
              /\ exch[o].filled \in Nat /\ exch[o].qty \in Nat
              /\ rows[o] \in OrderRow
<1>1. exch \in Seq(ExchangeOrder) /\ Len(exch) <= MaxOrders /\ rows \in [1..MaxOrders -> OrderRow]
  BY DEF TradingTypeOK
<1>2. DOMAIN exch = 1..Len(exch) /\ Len(exch) \in Nat
  BY <1>1
<1>3. IsFiniteSet(DOMAIN exch)
  BY <1>2, FS_Interval
<1>4. \A o \in DOMAIN exch : o \in 1..MaxOrders /\ exch[o] \in ExchangeOrder
  BY <1>1, <1>2, BoundsAssumption
<1> QED
  BY <1>1, <1>2, <1>3, <1>4 DEF ExchangeOrder

(* A sum over the closed rows changes only with the rows that are closed and the fills
   of their orders. *)
LEMMA SumKept ==
  ASSUME TradingTypeOK, NEW s, NEW side,
         Closed(s, side)' = Closed(s, side),
         \A o \in Closed(s, side) : exch'[o].filled = exch[o].filled
  PROVE  SumFunctionOnSet(Fills', Closed(s, side)') = SumFunctionOnSet(Fills, Closed(s, side))
<1> DEFINE C == Closed(s, side)
<1>1. C \subseteq DOMAIN exch /\ C \subseteq DOMAIN exch'
  BY DEF Closed, Of
<1>2. IsFiniteSet(C)
  BY <1>1, OrdersAreTyped, FS_Subset
<1>3. \A o \in C : Fills[o] \in Nat /\ Fills'[o] = Fills[o]
  BY <1>1, OrdersAreTyped DEF Fills
<1> HIDE DEF C
<1>4. \A o \in C : Fills'[o] \in Nat
  BY <1>3
<1>5. SumFunctionOnSet(Fills', C) = SumFunctionOnSet(Fills, C)
  BY <1>2, <1>3, <1>4, SumIgnoresNothing
<1> QED
  BY <1>5 DEF C

(* So a step that changes neither keeps the sums. *)
LEMMA SumsStay ==
  ASSUME TradingTypeOK, SumsAreClosed, bought' = bought, sold' = sold,
         \A s \in Strategies, side \in Sides :
           /\ Closed(s, side)' = Closed(s, side)
           /\ \A o \in Closed(s, side) : exch'[o].filled = exch[o].filled
  PROVE  SumsAreClosed'
<1> SUFFICES ASSUME NEW s \in Strategies
             PROVE  /\ bought'[s] = SumFunctionOnSet(Fills', Closed(s, "buy")')
                    /\ sold'[s] = SumFunctionOnSet(Fills', Closed(s, "sell")')
  BY DEF SumsAreClosed
<1>1. "buy" \in Sides /\ "sell" \in Sides
  BY DEF Sides
<1> QED
  BY <1>1, SumKept DEF SumsAreClosed

----------------------------------------------------------------------------
(* The steps of an execution that neither decide, place nor commit. *)
Decides(p) == p.pc \in {"signal", "approved", "priced", "placed"}

(* A step after which a worker has decided nothing that it had not decided before. *)
Quiet(w) ==
  /\ UNCHANGED <<exch, rows, bought, sold, canceling, overlapped>>
  /\ \A x \in Workers \ {w} : worker'[x] = worker[x]
  /\ worker'[w] = worker[w] \/ worker'[w].pc # "placed"
  /\ Decides(worker'[w]) =>
       /\ Decides(worker[w])
       /\ worker'[w].s = worker[w].s
       /\ worker'[w].side = worker[w].side
       /\ worker'[w].qty = worker[w].qty

(* Every step of an execution is quiet, or a decision, a placement or a commit. *)
LEMMA ExecutionKinds ==
  ASSUME TradingTypeOK, NEW w \in Workers, WorkerStep(w) \/ Fail(w) \/ Crash(w)
  PROVE  Quiet(w) \/ Signal(w) \/ PlaceAnswered(w) \/ PlaceRefused(w)
         \/ PlaceAnswerLost(w) \/ Commit(w)
<1>1. worker \in [Workers -> Process]
  BY DEF TradingTypeOK, Process
<1> USE DEF orderVars, controlVars, historyVars
<1>2. ASSUME NEW s \in Strategies, NEW k \in 0..MaxRetries,
             Load(w, s, k) \/ LoadSkips(w, s, k) \/ LoadAmbiguous(w, s, k)
      PROVE  Quiet(w)
  <2>1. CASE Load(w, s, k)
    <3>1. /\ worker'[w].pc = "loaded"
          /\ \A x \in Workers \ {w} : worker'[x] = worker[x]
      BY <1>1, <2>1 DEF Load, IdleWorker
    <3> QED BY <2>1, <3>1 DEF Load, Quiet, Decides
  <2>2. CASE LoadSkips(w, s, k) \/ LoadAmbiguous(w, s, k)
    BY <2>2 DEF LoadSkips, LoadAmbiguous, tradingVars, Quiet
  <2> QED BY <1>2, <2>1, <2>2
<1>3. CASE CanTrade(w) \/ NoSignal(w) \/ AdviceExecute(w) \/ AdviceHold(w)
           \/ LimitsPass(w) \/ LimitsRefuse(w) \/ CountTraded(w) \/ Fail(w) \/ Crash(w)
  <2>1. UNCHANGED <<exch, rows, bought, sold, canceling, overlapped>>
    BY <1>3 DEF CanTrade, NoSignal, AdviceExecute, AdviceHold, LimitsPass, LimitsRefuse,
                CountTraded, Fail, Crash
  <2>2. \/ Finish(w)
        \/ At(w, "loaded") /\ Goto(w, "cleared")
        \/ At(w, "signal") /\ Goto(w, "approved")
        \/ At(w, "approved") /\ Goto(w, "priced")
    BY <1>3 DEF CanTrade, NoSignal, AdviceExecute, AdviceHold, LimitsPass, LimitsRefuse,
                CountTraded, Fail, Crash
  <2>3. CASE Finish(w)
    <3>1. worker'[w].pc = "idle" /\ \A x \in Workers \ {w} : worker'[x] = worker[x]
      BY <1>1, <2>3 DEF Finish, IdleWorker
    <3> QED BY <2>1, <3>1 DEF Quiet, Decides
  <2>4. ASSUME NEW from \in {"loaded", "signal", "approved"},
               NEW to \in {"cleared", "approved", "priced"},
               At(w, from), Goto(w, to), from = "loaded" => to = "cleared"
        PROVE  Quiet(w)
    <3>1. /\ worker'[w].pc = to /\ worker[w].pc = from
          /\ worker'[w].s = worker[w].s /\ worker'[w].side = worker[w].side
          /\ worker'[w].qty = worker[w].qty
          /\ \A x \in Workers \ {w} : worker'[x] = worker[x]
      BY <1>1, <2>4 DEF Goto, At, Process
    <3> QED BY <2>1, <2>4, <3>1 DEF Quiet, Decides
  <2> QED BY <2>2, <2>3, <2>4
<1> QED BY <1>2, <1>3 DEF WorkerStep

(* They keep all three parts. *)
LEMMA QuietHolds ==
  ASSUME TradingTypeOK, OrdersAreOwn, SumsAreClosed, OnePosition, NEW w \in Workers, Quiet(w)
  PROVE  OrdersAreOwn' /\ SumsAreClosed' /\ OnePosition'
<1>1. OrdersAreOwn'
  <2>1. \A x \in Workers : worker'[x].pc = "placed" => worker'[x] = worker[x]
    BY DEF Quiet
  <2>2. exch' = exch /\ rows' = rows /\ canceling' = canceling
    BY DEF Quiet
  <2>3. \A x \in Workers : worker'[x].pc = "placed" => OrderOfItsOwn(x)'
    BY <2>1, <2>2 DEF OrdersAreOwn, OrderOfItsOwn
  <2> QED BY <2>1, <2>2, <2>3 DEF OrdersAreOwn
<1>2. SumsAreClosed'
  BY SumsStay DEF Quiet, Closed, Of
<1>3. OnePosition'
  <2>1. \A x \in Workers :
          Decides(worker'[x]) =>
            /\ Decides(worker[x])
            /\ worker'[x].s = worker[x].s
            /\ worker'[x].side = worker[x].side
            /\ worker'[x].qty = worker[x].qty
    BY DEF Quiet
  <2>2. \A s \in Strategies : Deciding(s)' \subseteq Deciding(s)
    BY <2>1 DEF Deciding, Decides
  <2>3. bought' = bought /\ sold' = sold /\ overlapped' = overlapped
    BY DEF Quiet
  <2>4. \A s \in Strategies : \A x \in Deciding(s)' : Decided(x) => Decided(x)'
    BY <2>1, <2>3 DEF Deciding, Decides, Decided
  <2> QED BY <2>2, <2>3, <2>4 DEF OnePosition
<1> QED BY <1>1, <1>2, <1>3

(* The decision is taken on the position as it is, by one execution or the strategy is
   noted. *)
LEMMA SignalHolds ==
  ASSUME TradingTypeOK, OrdersAreOwn, SumsAreClosed, OnePosition, NEW w \in Workers, Signal(w)
  PROVE  OrdersAreOwn' /\ SumsAreClosed' /\ OnePosition'
<1>0. PICK z \in Strategies : z = worker[w].s
  BY TradingTypeParts DEF Signal, At, WorkersTypeOK
<1>1. /\ worker[w].pc = "cleared"
      /\ bought[z] \in Nat /\ sold[z] \in Nat /\ BuyQty \in Nat \ {0}
  BY BuyQtyAssumption, TradingTypeParts DEF Signal, At, OrdersTypeOK
<1>2. UNCHANGED <<exch, rows, bought, sold, canceling>>
  BY DEF Signal, orderVars, controlVars
<1>3. /\ \A x \in Workers \ {w} : worker'[x] = worker[x]
      /\ worker'[w].pc \in {"signal", "approved"}
      /\ worker'[w].s = z
      /\ worker'[w].side = IF OpenPosition(z) > 0 THEN "sell" ELSE "buy"
      /\ worker'[w].qty = IF OpenPosition(z) > 0 THEN OpenPosition(z) ELSE BuyQty
  BY <1>0 DEF Signal, TradingTypeOK
<1>4. overlapped' = IF Deciding(z) # {} THEN overlapped \cup {z} ELSE overlapped
  BY <1>0 DEF Signal
<1>5. OrdersAreOwn'
  <2>1. \A x \in Workers : worker'[x].pc = "placed" => worker'[x] = worker[x]
    BY <1>3
  <2>2. \A x \in Workers : worker'[x].pc = "placed" => OrderOfItsOwn(x)'
    BY <1>2, <2>1 DEF OrdersAreOwn, OrderOfItsOwn
  <2> QED BY <1>2, <2>1, <2>2 DEF OrdersAreOwn
<1>6. SumsAreClosed'
  BY <1>2, SumsStay DEF Closed, Of
<1>7. OnePosition'
  <2>1. ASSUME NEW s \in Strategies, s # z
        PROVE  Deciding(s)' = Deciding(s) /\ \A x \in Deciding(s) : worker'[x] = worker[x]
    BY <1>0, <1>1, <1>3, <2>1 DEF Deciding
  <2>2. ASSUME NEW s \in Strategies \ overlapped', s # z
        PROVE  /\ bought'[s] = sold'[s] \/ bought'[s] = sold'[s] + BuyQty
               /\ \A x \in Deciding(s)' : Decided(x)'
               /\ \A x, y \in Deciding(s)' : x = y
    <3>1. s \in Strategies \ overlapped
      BY <1>4, <2>2
    <3>2. \A x \in Deciding(s)' : Decided(x)'
      BY <1>2, <2>1, <2>2, <3>1 DEF OnePosition, Decided
    <3> QED BY <1>2, <2>1, <2>2, <3>1, <3>2 DEF OnePosition
  <2>3. ASSUME z \notin overlapped'
        PROVE  /\ bought'[z] = sold'[z] \/ bought'[z] = sold'[z] + BuyQty
               /\ \A x \in Deciding(z)' : Decided(x)'
               /\ \A x, y \in Deciding(z)' : x = y
    <3>1. Deciding(z) = {} /\ z \notin overlapped
      BY <1>4, <2>3
    <3>2. \A x \in Deciding(z)' : x = w
      BY <1>3, <3>1 DEF Deciding
    <3>3. bought[z] = sold[z] \/ bought[z] = sold[z] + BuyQty
      BY <1>1, <3>1 DEF OnePosition
    <3>4. Decided(w)'
      <4>1. OpenPosition(z) = IF bought[z] = sold[z] THEN 0 ELSE BuyQty
        BY <1>1, <3>3 DEF OpenPosition
      <4> QED BY <1>1, <1>2, <1>3, <4>1 DEF Decided
    <3> QED BY <1>2, <3>2, <3>3, <3>4
  <2> QED BY <2>2, <2>3 DEF OnePosition
<1> QED BY <1>5, <1>6, <1>7

(* An order placed is the worker's own, and its id is one no worker holds. *)
LEMMA PlacedHolds ==
  ASSUME TradingTypeOK, TradingTypeOK', RowsAreSound,
         OrdersAreOwn, SumsAreClosed, OnePosition,
         NEW w \in Workers, Decides(worker[w]), worker[w].pc # "placed",
         UNCHANGED <<rows, bought, sold, canceling, overlapped>>,
         \A x \in Workers \ {w} : worker'[x] = worker[x],
         worker'[w].pc = "placed",
         worker'[w].s = worker[w].s, worker'[w].side = worker[w].side,
         worker'[w].qty = worker[w].qty,
         worker'[w].oid \notin DOMAIN exch,
         worker'[w].oid = 0 => worker'[w].ans.status = "rejected",
         worker'[w].oid # 0 =>
           /\ worker'[w].oid \in DOMAIN exch'
           /\ exch'[worker'[w].oid].s = worker[w].s
           /\ exch'[worker'[w].oid].side = worker[w].side
           /\ exch'[worker'[w].oid].qty = worker[w].qty,
         \A o \in DOMAIN exch : o \in DOMAIN exch' /\ exch'[o] = exch[o],
         \A o \in DOMAIN exch' \ DOMAIN exch : exch'[o].filled <= exch'[o].qty
  PROVE  OrdersAreOwn' /\ SumsAreClosed' /\ OnePosition'
<1>1. \A o \in DOMAIN exch' \ DOMAIN exch : rows[o].status = "none"
  <2>1. \A o \in DOMAIN exch' : o \in 1..MaxOrders
    <3>1. exch' \in Seq(ExchangeOrder) /\ Len(exch') <= MaxOrders
      BY DEF TradingTypeOK
    <3> QED BY <3>1, BoundsAssumption
  <2> QED BY <2>1 DEF RowsAreSound, Sound
<1>2. OrdersAreOwn'
  <2>1. ASSUME NEW x \in Workers, worker'[x].pc = "placed" PROVE OrderOfItsOwn(x)'
    <3>1. CASE x = w
      BY <1>1, <3>1 DEF OrderOfItsOwn
    <3>2. CASE x # w
      BY <2>1, <3>2 DEF OrdersAreOwn, OrderOfItsOwn
    <3> QED BY <3>1, <3>2
  <2>2. ASSUME NEW x \in Workers, NEW y \in Workers,
               worker'[x].pc = "placed", worker'[y].pc = "placed",
               worker'[x].oid # 0, worker'[x].oid = worker'[y].oid
        PROVE  x = y
    <3>1. ASSUME NEW v \in Workers, v # w, worker'[v].pc = "placed", worker'[v].oid # 0
          PROVE  worker'[v].oid \in DOMAIN exch /\ worker'[v] = worker[v]
      BY <3>1 DEF OrdersAreOwn, OrderOfItsOwn
    <3>2. CASE x # w /\ y # w
      BY <2>2, <3>2 DEF OrdersAreOwn
    <3>3. CASE x = w \/ y = w
      BY <2>2, <3>1, <3>3
    <3> QED BY <3>2, <3>3
  <2>3. \A o \in DOMAIN exch' : exch'[o].filled <= exch'[o].qty
    BY DEF OrdersAreOwn
  <2> QED BY <2>1, <2>2, <2>3 DEF OrdersAreOwn
<1>3. SumsAreClosed'
  <2>1. ASSUME NEW s \in Strategies, NEW side \in Sides
        PROVE  Closed(s, side)' = Closed(s, side)
    BY <1>1 DEF Closed, Of
  <2> QED BY <2>1, SumsStay DEF Closed, Of
<1>4. OnePosition'
  <2>1. \A s \in Strategies : Deciding(s)' \subseteq Deciding(s)
    BY DEF Deciding, Decides
  <2>2. \A x \in Workers : Decided(x) => Decided(x)'
    BY DEF Decided
  <2>3. \A s \in Strategies : Deciding(s) \subseteq Workers
    BY DEF Deciding
  <2> QED BY <2>1, <2>2, <2>3 DEF OnePosition
<1> QED BY <1>2, <1>3, <1>4

(* However the placement is answered, all three parts are kept. *)
LEMMA PlaceHolds ==
  ASSUME TradingTypeOK, TradingTypeOK', RowsAreSound, AnswersAreSound,
         OrdersAreOwn, SumsAreClosed, OnePosition,
         NEW w \in Workers, PlaceAnswered(w) \/ PlaceRefused(w) \/ PlaceAnswerLost(w)
  PROVE  OrdersAreOwn' /\ SumsAreClosed' /\ OnePosition'
<1>1. ReadyToPlace(w) /\ UNCHANGED <<rows, bought, sold, canceling, overlapped>>
  BY DEF PlaceAnswered, PlaceRefused, PlaceAnswerLost, orderVars, controlVars, historyVars
<1>2. /\ worker \in [Workers -> Process]
      /\ worker[w].pc \in {"priced", "approved"} /\ worker[w].oid = 0
      /\ DOMAIN exch = 1..Len(exch) /\ Len(exch) \in Nat
      /\ worker[w].qty \in Nat
  <2>1. worker[w].pc \in {"priced", "approved"} /\ worker \in [Workers -> Process]
    BY <1>1 DEF ReadyToPlace, At, TradingTypeOK, Process
  <2> QED BY <2>1, OrdersAreTyped DEF AnswersAreSound, Process
<1>3. Decides(worker[w]) /\ worker[w].pc # "placed"
  BY <1>2 DEF Decides
<1>4. ASSUME NEW ans \in Answers(worker[w].qty), Accept(w, ans)
      PROVE  /\ DOMAIN exch' = 1..Len(exch) + 1
             /\ \A o \in DOMAIN exch : o \in DOMAIN exch' /\ exch'[o] = exch[o]
             /\ \A o \in DOMAIN exch' \ DOMAIN exch : exch'[o].filled <= exch'[o].qty
             /\ exch'[Len(exch) + 1].s = worker[w].s
             /\ exch'[Len(exch) + 1].side = worker[w].side
             /\ exch'[Len(exch) + 1].qty = worker[w].qty
  <2>1. /\ exch' \in Seq(ExchangeOrder) /\ Len(exch') = Len(exch) + 1
        /\ \A o \in DOMAIN exch : exch'[o] = exch[o]
        /\ exch'[Len(exch) + 1] =
             [s |-> worker[w].s, side |-> worker[w].side, qty |-> worker[w].qty,
              filled |-> ans.filled, live |-> ans.status = "open"]
    BY <1>1, <1>4, AcceptType
  <2>2. ans.filled <= worker[w].qty
    BY <1>2, <1>4, AnswersType
  <2>3. DOMAIN exch' = 1..Len(exch) + 1
    BY <2>1
  <2>4. \A o \in DOMAIN exch' \ DOMAIN exch : o = Len(exch) + 1
    BY <1>2, <2>3
  <2>5. \A o \in DOMAIN exch : o \in DOMAIN exch'
    BY <1>2, <2>3
  <2> QED BY <2>1, <2>2, <2>3, <2>4, <2>5
<1>5. CASE PlaceAnswered(w)
  <2>1. PICK ans \in Answers(worker[w].qty) :
          /\ Accept(w, ans)
          /\ worker' = [worker EXCEPT ![w].pc = "placed", ![w].oid = Len(exch) + 1,
                                      ![w].ans = ans]
    BY <1>5 DEF PlaceAnswered
  <2>2. /\ worker'[w].pc = "placed" /\ worker'[w].oid = Len(exch) + 1
        /\ worker'[w].s = worker[w].s /\ worker'[w].side = worker[w].side
        /\ worker'[w].qty = worker[w].qty
        /\ \A x \in Workers \ {w} : worker'[x] = worker[x]
    BY <1>2, <2>1 DEF Process
  <2>3. Len(exch) + 1 \notin DOMAIN exch /\ Len(exch) + 1 # 0
        /\ Len(exch) + 1 \in 1..Len(exch) + 1
    BY <1>2
  <2> QED BY <1>1, <1>3, <1>4, <2>1, <2>2, <2>3, PlacedHolds
<1>6. CASE PlaceRefused(w) \/ PlaceAnswerLost(w)
  <2>1. Rejected(w)
    BY <1>6 DEF PlaceRefused, PlaceAnswerLost
  <2>2. /\ worker'[w].pc = "placed" /\ worker'[w].oid = 0
        /\ worker'[w].ans.status = "rejected"
        /\ worker'[w].s = worker[w].s /\ worker'[w].side = worker[w].side
        /\ worker'[w].qty = worker[w].qty
        /\ \A x \in Workers \ {w} : worker'[x] = worker[x]
    BY <1>2, <2>1 DEF Rejected, Process
  <2>3. 0 \notin DOMAIN exch
    BY <1>2
  <2>4. exch' = exch \/ \E ans \in Answers(worker[w].qty) : Accept(w, ans)
    BY <1>6 DEF PlaceRefused, PlaceAnswerLost, orderVars
  <2>5. /\ \A o \in DOMAIN exch : o \in DOMAIN exch' /\ exch'[o] = exch[o]
        /\ \A o \in DOMAIN exch' \ DOMAIN exch : exch'[o].filled <= exch'[o].qty
    BY <1>4, <2>4
  <2> QED BY <1>1, <1>3, <2>2, <2>3, <2>5, PlacedHolds
<1> QED BY <1>5, <1>6

(* A commit of a closed order adds its fill to the sum of its side; any other commit
   leaves the sums alone. *)
LEMMA CommitHolds ==
  ASSUME TradingTypeOK, RowsAreSound, AnswersAreSound,
         OrdersAreOwn, SumsAreClosed, OnePosition,
         NEW w \in Workers, Commit(w)
  PROVE  OrdersAreOwn' /\ SumsAreClosed' /\ OnePosition'
<1>1. /\ worker \in [Workers -> Process] /\ worker[w].pc = "placed"
      /\ rows \in [1..MaxOrders -> OrderRow]
      /\ bought \in [Strategies -> Nat] /\ sold \in [Strategies -> Nat]
      /\ UNCHANGED <<exch, canceling, overlapped>>
  BY DEF Commit, At, TradingTypeOK, Process, controlVars, historyVars
<1>2. worker'[w].pc = "committed" /\ \A x \in Workers \ {w} : worker'[x] = worker[x]
  BY <1>1 DEF Commit, Goto, Process
<1>3. PICK s \in Strategies, side \in Sides, oid \in 0..MaxOrders, ans \in OrderRow :
        s = worker[w].s /\ side = worker[w].side /\ oid = worker[w].oid /\ ans = worker[w].ans
  BY <1>1 DEF TradingTypeOK, Process
<1>4. OrderOfItsOwn(w)
  BY <1>1 DEF OrdersAreOwn
<1>5. /\ rows' = IF oid = 0 THEN rows ELSE [rows EXCEPT ![oid] = ans]
      /\ bought' = IF side = "buy" /\ ans.status = "closed"
                   THEN [bought EXCEPT ![s] = @ + ans.filled] ELSE bought
      /\ sold' = IF side = "sell" /\ ans.status = "closed"
                 THEN [sold EXCEPT ![s] = @ + ans.filled] ELSE sold
  BY <1>3 DEF Commit
<1>6. ASSUME ans.status = "closed"
      PROVE  /\ oid \in DOMAIN exch /\ oid \in Of(s, side) /\ oid # 0
             /\ oid \notin Closed(s, side) /\ rows' = [rows EXCEPT ![oid] = ans]
             /\ exch[oid].filled = ans.filled /\ exch[oid].qty = ans.filled
             /\ worker[w].qty = ans.filled
  <2>1. oid # 0
    BY <1>3, <1>4, <1>6 DEF OrderOfItsOwn
  <2>2. /\ oid \in DOMAIN exch /\ exch[oid].s = s /\ exch[oid].side = side
        /\ exch[oid].qty = worker[w].qty /\ rows[oid].status = "none"
    BY <1>3, <1>4, <2>1 DEF OrderOfItsOwn
  <2>3. Sound(ans, oid)
    BY <1>1, <1>3, <2>1 DEF AnswersAreSound, At
  <2>4. ans.filled = exch[oid].qty /\ ans.filled <= exch[oid].filled
        /\ exch[oid].filled <= exch[oid].qty
    BY <1>6, <2>2, <2>3 DEF Sound, OrdersAreOwn
  <2>5. exch[oid].filled \in Nat /\ exch[oid].qty \in Nat
    BY <2>2, OrdersAreTyped
  <2>6. exch[oid].filled = ans.filled
    BY <2>4, <2>5
  <2> QED BY <1>5, <2>1, <2>2, <2>4, <2>6 DEF Of, Closed
<1>7. OrdersAreOwn'
  <2>1. ASSUME NEW x \in Workers, worker'[x].pc = "placed"
        PROVE  /\ worker'[x] = worker[x] /\ OrderOfItsOwn(x)
               /\ worker[x].oid # 0 => rows'[worker[x].oid] = rows[worker[x].oid]
    <3>1. x # w /\ worker'[x] = worker[x] /\ worker[x].pc = "placed"
      BY <1>2, <2>1
    <3>2. worker[x].oid # 0 => worker[x].oid # oid
      BY <1>1, <1>3, <3>1 DEF OrdersAreOwn
    <3> QED BY <1>1, <1>5, <3>1, <3>2 DEF OrdersAreOwn
  <2>2. \A x \in Workers : worker'[x].pc = "placed" => OrderOfItsOwn(x)'
    BY <1>1, <2>1 DEF OrderOfItsOwn
  <2>3. \A o \in canceling : rows'[o].status = "open"
    <3>1. ASSUME NEW o \in canceling PROVE rows'[o] = rows[o]
      <4>1. rows[o].status = "open"
        BY DEF OrdersAreOwn
      <4>2. oid # 0 => rows[oid].status = "none"
        BY <1>3, <1>4 DEF OrderOfItsOwn
      <4> QED BY <1>1, <1>5, <4>1, <4>2
    <3> QED BY <3>1 DEF OrdersAreOwn
  <2> QED BY <1>1, <2>1, <2>2, <2>3 DEF OrdersAreOwn
<1>8. ASSUME NEW t \in Strategies, NEW d \in Sides,
             ans.status = "closed" => t # s \/ d # side
      PROVE  Closed(t, d)' = Closed(t, d)
  <2>1. Of(t, d)' = Of(t, d)
    BY <1>1 DEF Of
  <2>2. ASSUME NEW o \in Of(t, d)
        PROVE  rows'[o].status = "closed" <=> rows[o].status = "closed"
    <3>1. CASE oid = 0 \/ o # oid
      <4>1. rows'[o] = rows[o]
        <5>1. o \in 1..MaxOrders
          BY OrdersAreTyped DEF Of
        <5> QED BY <1>1, <1>5, <3>1, <5>1
      <4> QED BY <4>1
    <3>2. CASE oid # 0 /\ o = oid
      <4>1. rows[o].status = "none" /\ exch[o].s = s /\ exch[o].side = side
        BY <1>3, <1>4, <3>2 DEF OrderOfItsOwn
      <4>2. rows'[o] = ans
        BY <1>1, <1>5, <3>2
      <4>3. ans.status # "closed"
        BY <1>8, <4>1 DEF Of
      <4> QED BY <4>1, <4>2, <4>3
    <3> QED BY <3>1, <3>2
  <2> QED BY <2>1, <2>2 DEF Closed
<1>9. SumsAreClosed'
  <2>1. CASE ans.status # "closed"
    BY <1>1, <1>5, <1>8, <2>1, SumsStay DEF Closed, Of
  <2>2. CASE ans.status = "closed"
    <3>1. ASSUME NEW t \in Strategies, NEW d \in Sides, t # s \/ d # side
          PROVE  SumFunctionOnSet(Fills', Closed(t, d)')
                 = SumFunctionOnSet(Fills, Closed(t, d))
      BY <1>1, <1>8, <3>1, SumKept
    <3>2. SumFunctionOnSet(Fills', Closed(s, side)')
            = ans.filled + SumFunctionOnSet(Fills, Closed(s, side))
      <4> DEFINE C == Closed(s, side)
                 D == Closed(s, side)'
      <4>1. D = C \cup {oid} /\ D \ {oid} = C
        <5>1. Of(s, side)' = Of(s, side)
          BY <1>1 DEF Of
        <5>2. \A o \in Of(s, side) : o # oid => rows'[o] = rows[o]
          BY <1>1, <1>6, <2>2, OrdersAreTyped DEF Of
        <5>3. rows'[oid].status = "closed"
          BY <1>1, <1>6, <2>2, OrdersAreTyped
        <5> QED BY <1>6, <2>2, <5>1, <5>2, <5>3 DEF Closed
      <4>2. Fills' = Fills
        BY <1>1 DEF Fills
      <4>3. /\ IsFiniteSet(DOMAIN exch) /\ \A o \in DOMAIN exch : Fills[o] \in Nat
            /\ D \in SUBSET DOMAIN exch /\ oid \in D /\ Fills[oid] = ans.filled
        BY <1>6, <2>2, <4>1, OrdersAreTyped DEF Fills, Closed, Of
      <4> HIDE DEF C, D
      <4>4. SumFunctionOnSet(Fills, D) = Fills[oid] + SumFunctionOnSet(Fills, D \ {oid})
        BY <4>3, SumTakesOut
      <4> QED BY <4>1, <4>2, <4>3, <4>4 DEF C, D
    <3>3. ASSUME NEW t \in Strategies
          PROVE  /\ bought'[t] = SumFunctionOnSet(Fills', Closed(t, "buy")')
                 /\ sold'[t] = SumFunctionOnSet(Fills', Closed(t, "sell")')
      <4>1. /\ bought[t] = SumFunctionOnSet(Fills, Closed(t, "buy"))
            /\ sold[t] = SumFunctionOnSet(Fills, Closed(t, "sell"))
            /\ bought[t] \in Nat /\ sold[t] \in Nat /\ ans.filled \in Nat
        BY <1>1 DEF SumsAreClosed, OrderRow
      <4>2. "buy" \in Sides /\ "sell" \in Sides /\ side \in {"buy", "sell"}
        BY DEF Sides
      <4>3. CASE t # s
        BY <1>1, <1>5, <3>1, <4>1, <4>2, <4>3
      <4>4. CASE t = s /\ side = "buy"
        BY <1>1, <1>5, <2>2, <3>1, <3>2, <4>1, <4>2, <4>4
      <4>5. CASE t = s /\ side = "sell"
        BY <1>1, <1>5, <2>2, <3>1, <3>2, <4>1, <4>2, <4>5
      <4> QED BY <4>2, <4>3, <4>4, <4>5
    <3> QED BY <3>3 DEF SumsAreClosed
  <2> QED BY <2>1, <2>2
<1>10. OnePosition'
  <2>1. ASSUME NEW t \in Strategies
        PROVE  Deciding(t)' = Deciding(t) \ {w} /\ Deciding(t) \subseteq Workers
               /\ \A x \in Deciding(t)' : worker'[x] = worker[x] /\ worker[x].s = t
    BY <1>2 DEF Deciding
  <2>2. ASSUME NEW t \in Strategies \ overlapped, t # s \/ ans.status # "closed"
        PROVE  /\ bought'[t] = sold'[t] \/ bought'[t] = sold'[t] + BuyQty
               /\ \A x \in Deciding(t)' : Decided(x)'
               /\ \A x, y \in Deciding(t)' : x = y
    <3>1. bought'[t] = bought[t] /\ sold'[t] = sold[t]
      BY <1>1, <1>5, <2>2
    <3>2. \A x \in Deciding(t)' : Decided(x)'
      BY <2>1, <3>1 DEF OnePosition, Decided
    <3> QED BY <2>1, <3>1, <3>2 DEF OnePosition
  <2>3. ASSUME s \notin overlapped, ans.status = "closed"
        PROVE  /\ bought'[s] = sold'[s] \/ bought'[s] = sold'[s] + BuyQty
               /\ Deciding(s)' = {}
    <3>1. w \in Deciding(s)
      BY <1>1, <1>3 DEF Deciding
    <3>2. Deciding(s)' = {}
      BY <2>1, <2>3, <3>1 DEF OnePosition
    <3>3. Decided(w) /\ ans.filled = BuyQty /\ ans.filled \in Nat
      <4>1. Decided(w)
        BY <2>3, <3>1 DEF OnePosition
      <4> QED BY <1>6, <2>3, <4>1 DEF Decided, OrderRow
    <3>4. /\ bought[s] = sold[s] \/ bought[s] = sold[s] + BuyQty
          /\ side = IF bought[s] = sold[s] THEN "buy" ELSE "sell"
      BY <1>3, <2>3, <3>3 DEF OnePosition, Decided
    <3>5. bought[s] \in Nat /\ sold[s] \in Nat
      BY <1>1
    <3>6. CASE side = "buy"
      <4>1. bought'[s] = bought[s] + BuyQty /\ sold'[s] = sold[s] /\ bought[s] = sold[s]
        BY <1>1, <1>5, <2>3, <3>3, <3>4, <3>6
      <4> QED BY <3>2, <4>1
    <3>7. CASE side = "sell"
      <4>1. bought'[s] = bought[s] /\ sold'[s] = sold[s] + BuyQty
            /\ bought[s] = sold[s] + BuyQty
        BY <1>1, <1>5, <2>3, <3>3, <3>4, <3>7
      <4> QED BY <3>2, <4>1
    <3> QED BY <3>6, <3>7 DEF Sides
  <2> QED BY <1>1, <2>2, <2>3 DEF OnePosition
<1> QED BY <1>7, <1>9, <1>10

(* What the world outside the workers may do to orders and rows. *)
SparesClosed ==
  /\ DOMAIN exch' = DOMAIN exch
  /\ \A o \in DOMAIN exch :
       /\ exch'[o].s = exch[o].s /\ exch'[o].side = exch[o].side
       /\ exch'[o].qty = exch[o].qty
       /\ \/ exch'[o].filled = exch[o].filled
          \/ exch[o].live /\ exch'[o].filled <= exch[o].qty
  /\ \A o \in 1..MaxOrders :
       \/ rows'[o] = rows[o]
       \/ rows[o].status = "open" /\ rows'[o].status = "canceled"
  /\ \A o \in canceling' : rows'[o].status = "open"

(* The exchange and a cancellation leave what is closed as it is: an order with a closed
   row is not on the book, and only an open row is canceled. *)
LEMMA OutsideHolds ==
  ASSUME TradingTypeOK, RowsAreSound, OrdersAreOwn, SumsAreClosed, OnePosition, Outside
  PROVE  OrdersAreOwn' /\ SumsAreClosed' /\ OnePosition'
<1>1. UNCHANGED <<worker, bought, sold, overlapped>>
  <2>1. ASSUME NEW o \in 1..MaxOrders,
               ExchangeFill(o) \/ CancelAtExchange(o) \/ CancelCommit(o) \/ CancelLost(o)
        PROVE  UNCHANGED <<worker, bought, sold, overlapped>>
    BY <2>1 DEF ExchangeFill, CancelAtExchange, CancelCommit, CancelLost, orderVars, historyVars
  <2>2. CASE ChangeAccounts \/ ToggleHalt \/ NewDay
    BY <2>2 DEF ChangeAccounts, ToggleHalt, NewDay, orderVars, historyVars
  <2> QED BY <2>1, <2>2 DEF Outside
<1>2. OnePosition'
  BY <1>1 DEF OnePosition, Deciding, Decided
<1>3. ASSUME SparesClosed
      PROVE  OrdersAreOwn' /\ SumsAreClosed' /\ OnePosition'
  <2>1. \A o \in DOMAIN exch : rows[o].status = "closed" => exch'[o].filled = exch[o].filled
    <3>1. \A o \in DOMAIN exch : rows[o].status = "closed" => ~exch[o].live
      BY OrdersAreTyped DEF RowsAreSound, Sound
    <3> QED BY <1>3, <3>1 DEF SparesClosed
  <2>2. \A o \in DOMAIN exch : rows'[o].status = "closed" <=> rows[o].status = "closed"
    BY <1>3, OrdersAreTyped DEF SparesClosed
  <2>3. SumsAreClosed'
    <3>1. ASSUME NEW s \in Strategies, NEW side \in Sides
          PROVE  /\ Closed(s, side)' = Closed(s, side)
                 /\ \A o \in Closed(s, side) : exch'[o].filled = exch[o].filled
      BY <1>3, <2>1, <2>2 DEF SparesClosed, Closed, Of
    <3> QED BY <1>1, <3>1, SumsStay
  <2>4. ASSUME NEW x \in Workers, worker'[x].pc = "placed" PROVE OrderOfItsOwn(x)'
    <3>1. worker' = worker /\ OrderOfItsOwn(x)
      BY <1>1, <2>4 DEF SparesClosed, OrdersAreOwn
    <3>2. worker[x].oid # 0 => rows'[worker[x].oid].status = "none"
      BY <1>3, <3>1, OrdersAreTyped DEF SparesClosed, OrderOfItsOwn
    <3> QED BY <1>3, <3>1, <3>2 DEF SparesClosed, OrderOfItsOwn
  <2>5. \A o \in DOMAIN exch' : exch'[o].filled <= exch'[o].qty
    BY <1>3, OrdersAreTyped DEF SparesClosed, OrdersAreOwn
  <2>6. OrdersAreOwn'
    BY <1>1, <1>3, <2>4, <2>5 DEF SparesClosed, OrdersAreOwn
  <2> QED BY <1>2, <2>3, <2>6
<1>4. canceling \subseteq 1..MaxOrders /\ \A o \in canceling : rows[o].status = "open"
  BY DEF TradingTypeOK, OrdersAreOwn
<1>5. ASSUME NEW o \in 1..MaxOrders, ExchangeFill(o)
      PROVE  OrdersAreOwn' /\ SumsAreClosed' /\ OnePosition'
  <2>1. PICK f \in exch[o].filled + 1 .. exch[o].qty :
          exch' = [exch EXCEPT ![o].filled = f, ![o].live = f < exch[o].qty]
    BY <1>5 DEF ExchangeFill
  <2>2. /\ o \in DOMAIN exch /\ exch[o].live /\ UNCHANGED <<rows, canceling>>
        /\ exch[o].filled \in Nat /\ exch[o].qty \in Nat /\ exch[o] \in ExchangeOrder
    BY <1>5, OrdersAreTyped DEF ExchangeFill, controlVars
  <2>3. /\ DOMAIN exch' = DOMAIN exch
        /\ exch'[o].s = exch[o].s /\ exch'[o].side = exch[o].side
        /\ exch'[o].qty = exch[o].qty /\ exch'[o].filled <= exch[o].qty
        /\ \A p \in DOMAIN exch : p # o => exch'[p] = exch[p]
    BY <2>1, <2>2 DEF ExchangeOrder
  <2>9. SparesClosed
    BY <1>4, <2>2, <2>3 DEF SparesClosed
  <2> QED BY <1>3, <2>9
<1>6. ASSUME NEW o \in 1..MaxOrders, CancelAtExchange(o)
      PROVE  OrdersAreOwn' /\ SumsAreClosed' /\ OnePosition'
  <2>1. /\ rows[o].status = "open" /\ rows' = rows /\ canceling' = canceling \cup {o}
        /\ exch' = [exch EXCEPT ![o].live = FALSE]
    BY <1>6 DEF CancelAtExchange
  <2>2. \A p \in DOMAIN exch :
          /\ exch'[p].s = exch[p].s /\ exch'[p].side = exch[p].side
          /\ exch'[p].qty = exch[p].qty /\ exch'[p].filled = exch[p].filled
    BY <2>1, OrdersAreTyped DEF ExchangeOrder
  <2>3. DOMAIN exch' = DOMAIN exch
    BY <2>1
  <2>9. SparesClosed
    BY <1>4, <2>1, <2>2, <2>3 DEF SparesClosed
  <2> QED BY <1>3, <2>9
<1>7. ASSUME NEW o \in 1..MaxOrders, CancelCommit(o)
      PROVE  OrdersAreOwn' /\ SumsAreClosed' /\ OnePosition'
  <2>1. /\ o \in canceling /\ exch' = exch /\ canceling' = canceling \ {o}
        /\ rows' = [rows EXCEPT ![o].status = "canceled"]
        /\ rows \in [1..MaxOrders -> OrderRow]
    BY <1>7 DEF CancelCommit, TradingTypeOK
  <2>2. /\ rows'[o].status = "canceled"
        /\ \A p \in 1..MaxOrders : p # o => rows'[p] = rows[p]
    BY <2>1 DEF OrderRow
  <2>9. SparesClosed
    BY <1>4, <2>1, <2>2 DEF SparesClosed
  <2> QED BY <1>3, <2>9
<1>8. ASSUME NEW o \in 1..MaxOrders, CancelLost(o)
      PROVE  OrdersAreOwn' /\ SumsAreClosed' /\ OnePosition'
  <2>1. UNCHANGED <<exch, rows>> /\ canceling' = canceling \ {o}
    BY <1>8 DEF CancelLost, orderVars
  <2>9. SparesClosed
    BY <1>4, <2>1 DEF SparesClosed
  <2> QED BY <1>3, <2>9
<1>9. CASE ChangeAccounts \/ ToggleHalt \/ NewDay
  <2>1. UNCHANGED <<exch, rows, canceling>>
    BY <1>9 DEF ChangeAccounts, ToggleHalt, NewDay, orderVars, controlVars
  <2>9. SparesClosed
    BY <1>4, <2>1 DEF SparesClosed
  <2> QED BY <1>3, <2>9
<1> QED BY <1>5, <1>6, <1>7, <1>8, <1>9 DEF Outside

----------------------------------------------------------------------------
(* Nothing is held at first. *)
LEMMA HoldingInvInit == Init => HoldingInv
<1> SUFFICES ASSUME Init PROVE HoldingInv
  OBVIOUS
<1>1. PipelineInv
  BY PipelineInvInit
<1>2. /\ exch = <<>> /\ DOMAIN exch = {} /\ canceling = {}
      /\ \A w \in Workers : worker[w].pc = "idle"
      /\ \A s \in Strategies : bought[s] = 0 /\ sold[s] = 0
  BY DEF Init, TradingInit, IdleWorker
<1>3. OrdersAreOwn
  BY <1>2 DEF OrdersAreOwn
<1>4. SumsAreClosed
  <2>1. ASSUME NEW s, NEW side PROVE SumFunctionOnSet(Fills, Closed(s, side)) = 0
    <3>1. Closed(s, side) = {}
      BY <1>2 DEF Closed, Of
    <3> QED BY <3>1, FS_EmptySet, SumUnfolds
  <2> QED BY <1>2, <2>1 DEF SumsAreClosed
<1>5. OnePosition
  BY <1>2 DEF OnePosition, Deciding
<1> QED BY <1>1, <1>3, <1>4, <1>5 DEF HoldingInv

(* Every step keeps the invariant. *)
LEMMA HoldingInvStep == HoldingInv /\ [Next]_vars => HoldingInv'
<1> SUFFICES ASSUME HoldingInv, [Next]_vars PROVE HoldingInv'
  OBVIOUS
<1>1. PipelineInv'
  BY PipelineInvStep DEF HoldingInv
<1>2. /\ TradingTypeOK /\ TradingTypeOK' /\ RowsAreSound /\ AnswersAreSound
      /\ OrdersAreOwn /\ SumsAreClosed /\ OnePosition
  BY <1>1 DEF HoldingInv, PipelineInv, TypeOK
<1>3. ASSUME UNCHANGED tradingVars
      PROVE  OrdersAreOwn' /\ SumsAreClosed' /\ OnePosition'
  <2>1. UNCHANGED <<worker, exch, rows, bought, sold, canceling, overlapped>>
    BY <1>3 DEF tradingVars, orderVars, controlVars, historyVars
  <2>2. OrdersAreOwn' /\ OnePosition'
    BY <1>2, <2>1 DEF OrdersAreOwn, OrderOfItsOwn, OnePosition, Deciding, Decided
  <2>3. SumsAreClosed'
    BY <1>2, <2>1, SumsStay DEF Closed, Of
  <2> QED BY <2>2, <2>3
<1>4. CASE UNCHANGED vars
  BY <1>1, <1>3, <1>4 DEF vars, HoldingInv
<1>5. CASE \/ LifecycleNext /\ UNCHANGED <<dispatcherVars, tradingVars>>
           \/ DispatcherNext /\ UNCHANGED <<lifecycleVars, tradingVars>>
  BY <1>1, <1>3, <1>5 DEF HoldingInv
<1>6. ASSUME NEW w \in Workers, WorkerStep(w) \/ Fail(w) \/ Crash(w)
      PROVE  HoldingInv'
  <2>1. OrdersAreOwn' /\ SumsAreClosed' /\ OnePosition'
    BY <1>2, <1>6, ExecutionKinds, QuietHolds, SignalHolds, PlaceHolds, CommitHolds
  <2> QED BY <1>1, <2>1 DEF HoldingInv
<1>7. CASE Outside
  BY <1>1, <1>2, <1>7, OutsideHolds DEF HoldingInv
<1> QED BY <1>4, <1>5, <1>6, <1>7 DEF Next

(* The position is what the closed rows vouch for; when every order on the book or with a
   fill has one, that is all the fills at the exchange. *)
LEMMA HoldingIsPosition ==
  ASSUME HoldingInv
  PROVE  PositionIsHolding
<1> SUFFICES ASSUME NEW s \in Strategies
             PROVE  /\ OpenPosition(s) = IF Recorded(s) > 0 THEN Recorded(s) ELSE 0
                    /\ Tracked(s) => Recorded(s) = Holding(s)
                    /\ s \notin overlapped => Recorded(s) \in {0, BuyQty}
  BY DEF PositionIsHolding
<1>1. TradingTypeOK /\ SumsAreClosed /\ OnePosition
  BY DEF HoldingInv, PipelineInv, TypeOK
<1>2. bought[s] \in Nat /\ sold[s] \in Nat
  BY <1>1 DEF TradingTypeOK
<1>3. Recorded(s) = bought[s] - sold[s]
  <2>1. \A side \in Sides :
          Closed(s, side) = {o \in DOMAIN exch : /\ exch[o].s = s /\ exch[o].side = side
                                                 /\ rows[o].status = "closed"}
    BY DEF Closed, Of
  <2>2. Recorded(s) = SumFunctionOnSet(Fills, Closed(s, "buy"))
                        - SumFunctionOnSet(Fills, Closed(s, "sell"))
    BY <2>1 DEF Recorded, Fills, Sides
  <2> QED BY <1>1, <2>2 DEF SumsAreClosed
<1>4. OpenPosition(s) = IF Recorded(s) > 0 THEN Recorded(s) ELSE 0
  BY <1>2, <1>3 DEF OpenPosition
<1>5. ASSUME Tracked(s), NEW side \in Sides
      PROVE  Filled(s, side) = SumFunctionOnSet(Fills, Closed(s, side))
  <2> DEFINE All  == Of(s, side)
             Part == Closed(s, side)
  <2>1. IsFiniteSet(All) /\ \A o \in All : Fills[o] \in Nat
    <3>1. All \subseteq DOMAIN exch
      BY DEF Of
    <3> QED BY <1>1, <3>1, OrdersAreTyped, FS_Subset DEF Fills
  <2>2. Part \in SUBSET All
    BY DEF Closed
  <2>3. \A o \in All \ Part : Fills[o] = 0
    <3>1. ASSUME NEW o \in All \ Part PROVE ~(exch[o].filled > 0)
      BY <1>5, <3>1 DEF Of, Closed, Tracked
    <3>2. \A o \in All : Fills[o] = exch[o].filled /\ exch[o].filled \in Nat
      BY <1>1, OrdersAreTyped DEF Of, Fills
    <3> QED BY <3>1, <3>2
  <2> HIDE DEF All, Part
  <2>4. SumFunctionOnSet(Fills, All) = SumFunctionOnSet(Fills, Part)
    BY <2>1, <2>2, <2>3, SumIgnoresNothing
  <2> QED BY <2>4 DEF All, Part, Filled, Of, Fills
<1>6. Tracked(s) => Recorded(s) = Holding(s)
  BY <1>1, <1>3, <1>5 DEF SumsAreClosed, Sides, Holding
<1>7. s \notin overlapped => Recorded(s) \in {0, BuyQty}
  <2>1. s \notin overlapped => bought[s] = sold[s] \/ bought[s] = sold[s] + BuyQty
    BY <1>1 DEF OnePosition
  <2> QED BY <1>2, <1>3, <2>1, BuyQtyAssumption
<1> QED BY <1>4, <1>6, <1>7

(* For any number of strategies, workers, orders, retries, crashes and lost answers, the
   position the engine acts on is what the recorded orders did at the exchange, all that is
   held if no order escaped the table, and nothing or one buy unless two executions decided
   at once. *)
THEOREM PositionsAreHeld == Spec => []PositionIsHolding
BY HoldingInvInit, HoldingInvStep, HoldingIsPosition, PTL DEF Spec
=============================================================================
