------------------------------- MODULE Dispatcher -------------------------------
(***************************************************************************)
(* The Celery beat task run_all_active_strategies                          *)
(* (backend/app/tasks/trading_tasks.py): select the dispatchable           *)
(* strategies, keep the one of highest priority per symbol, log the        *)
(* conflicts, and enqueue one run_strategy message per strategy kept.      *)
(* The rows may change between any two of these steps.                     *)
(***************************************************************************)
EXTENDS StrategyLifecycle, FiniteSetsExt

CONSTANTS
  Symbol,       \* the symbol each strategy trades
  Priority,     \* the priority of each strategy
  Dispatchers,  \* dispatch passes that can run at once
  MaxRetries,   \* max_retries of run_strategy
  MaxQueue      \* bound: undelivered messages per strategy

ASSUME StrategiesAssumption == IsFiniteSet(Strategies)
ASSUME PriorityAssumption == Priority \in [Strategies -> Int]
ASSUME SymbolAssumption == DOMAIN Symbol = Strategies
ASSUME MaxRetriesAssumption == MaxRetries \in Nat
ASSUME MaxQueueAssumption == MaxQueue \in Nat

VARIABLES
  disp,   \* the dispatch passes
  queue   \* queue[s][k]: run_strategy messages for s that were retried k times

dispatcherVars == <<disp, queue>>

IdlePass == [pc |-> "idle", order |-> <<>>, picked |-> {}, todo |-> {}, log |-> {}]
Messages == [Strategies -> [0..MaxRetries -> Nat]]

\* A row of strategy_conflicts: the pair in query order, and the winner logged.
Conflict == [a : Strategies, b : Strategies, winner : Strategies]

DispatcherTypeOK ==
  /\ disp \in [Dispatchers -> [pc : {"idle", "selected", "logged"},
                               order : Seq(Strategies),
                               picked : SUBSET Strategies,
                               todo : SUBSET Strategies,
                               log : SUBSET Conflict]]
  /\ \A d \in Dispatchers : disp[d].todo \subseteq disp[d].picked
  /\ queue \in Messages

----------------------------------------------------------------------------
\* The orders in which the database may return a set of rows.
Orders(S) == Injection(1..Cardinality(S), S)

SameSymbol(order, i) == {j \in DOMAIN order : Symbol[order[j]] = Symbol[order[i]]}

\* Mutant: a sort by priority that puts the last of equals first.
LastOfEqualsFirst(order) ==
  {order[i] : i \in {i \in DOMAIN order :
     \A j \in SameSymbol(order, i) \ {i} :
       \/ Priority[order[j]] < Priority[order[i]]
       \/ Priority[order[j]] = Priority[order[i]] /\ j < i}}

\* sorted(group, key=priority, reverse=True)[0] of every group.  The sort is
\* stable in reverse too: among equals the first in query order stays first.
Picked(order) ==
  {order[i] : i \in {i \in DOMAIN order :
     \A j \in SameSymbol(order, i) \ {i} :
       \/ Priority[order[j]] < Priority[order[i]]
       \/ Priority[order[j]] = Priority[order[i]] /\ i < j}}

\* combinations(group, 2) with s_a.priority >= s_b.priority as the test.
ConflictLog(order) ==
  {[a |-> order[p[1]], b |-> order[p[2]],
    winner |-> IF Priority[order[p[1]]] >= Priority[order[p[2]]]
               THEN order[p[1]] ELSE order[p[2]]] :
     p \in {p \in (DOMAIN order) \X (DOMAIN order) :
              Symbol[order[p[1]]] = Symbol[order[p[2]]] /\ p[1] < p[2]}}

Logged(pass) ==
  [pc |-> "logged", order |-> <<>>, picked |-> pass.picked, todo |-> pass.todo,
   log |-> ConflictLog(pass.order)]

Without(pass, s) ==
  IF pass.todo = {s} THEN IdlePass ELSE [pass EXCEPT !.todo = @ \ {s}]

----------------------------------------------------------------------------
DispatcherInit ==
  /\ disp = [d \in Dispatchers |-> IdlePass]
  /\ queue = [s \in Strategies |-> [k \in 0..MaxRetries |-> 0]]

\* Beat fires: one SELECT, then the grouping on what it returned.
DispatchSelect(d) ==
  /\ disp[d].pc = "idle"
  /\ \E order \in Orders({s \in Strategies : Dispatchable(s)}) :
       /\ order # <<>>
       /\ disp' = [disp EXCEPT ![d] = [pc |-> "selected", order |-> order,
                     picked |-> Picked(order), todo |-> Picked(order), log |-> {}]]
  /\ UNCHANGED queue

\* The conflict rows are committed in a session of their own.
DispatchLog(d) ==
  /\ disp[d].pc = "selected"
  /\ disp' = [disp EXCEPT ![d] = Logged(@)]
  /\ UNCHANGED queue

\* run_strategy.delay(id) for one strategy; the last one ends the pass.
DispatchSend(d, s) ==
  /\ disp[d].pc = "logged"
  /\ s \in disp[d].todo
  /\ queue[s][0] < MaxQueue
  /\ queue' = [queue EXCEPT ![s][0] = @ + 1]
  /\ disp' = [disp EXCEPT ![d] = Without(@, s)]

\* The pass dies (a database error, a lost worker); a redelivered pass starts
\* with a SELECT of its own.
DispatchAbort(d) ==
  /\ disp[d].pc # "idle"
  /\ disp' = [disp EXCEPT ![d] = IdlePass]
  /\ UNCHANGED queue

DispatcherNext ==
  \/ \E d \in Dispatchers : DispatchSelect(d)
  \/ \E d \in Dispatchers : DispatchLog(d)
  \/ \E d \in Dispatchers, s \in Strategies : DispatchSend(d, s)
  \/ \E d \in Dispatchers : DispatchAbort(d)

----------------------------------------------------------------------------
(* The two ways the code ranks strategies agree: in every conflict logged for a
   pass, a strategy the pass sends out is the winner, and exactly one strategy of
   each symbol is sent, ties included (the stable reverse sort of
   trading_tasks.py:121 against the >= of trading_tasks.py:132). *)
LogAgreesWithDispatch ==
  \A d \in Dispatchers : disp[d].pc = "logged" =>
    /\ \A c \in disp[d].log : {c.a, c.b} \cap disp[d].picked \subseteq {c.winner}
    /\ \A c \in disp[d].log :
         \E s \in disp[d].picked : Symbol[s] = Symbol[c.a]
=============================================================================
