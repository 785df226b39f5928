------------------------------- MODULE Evaluator -------------------------------
(***************************************************************************)
(* The evaluator of condition trees (trading/strategy_evaluator.py).       *)
(*                                                                         *)
(* A leaf names an indicator, its parameters (a period and perhaps a       *)
(* timeframe), an operator and a threshold; an inner node joins its        *)
(* conditions with AND or OR.  The evaluator first computes one value for  *)
(* each indicator the tree names, with the parameters of its last leaf,    *)
(* and keeps it under a key of the indicator and the timeframe; then it    *)
(* looks every leaf up.  The engine gives it one series, of the strategy's *)
(* timeframe, and all are computed from that one, whatever the timeframe a *)
(* leaf names: there it is a part of the key and nothing more.             *)
(***************************************************************************)
EXTENDS Integers, SequencesExt

CONSTANTS
  Levels,    \* the condition trees by depth, from the leaves up; a leaf is
             \* [ind, tf, par, op, value, to]; tf and to are "" where they are left out
  Markets    \* by timeframe: the last close, the mean volume and what each indicator is
             \* at each period; Short where the series is shorter than the period

Short == -1
BadPar == -2      \* a parameter that is not a number: the computation raises
Absent == -3
Numbers == {"RSI", "MA", "SMA", "VOLUME"}  \* of RSI, MA, SMA, EMA, STOCH, CCI, VOLUME
Bands == {"BB"}                            \* of BB, MACD: a value with named parts
Supported == Numbers \cup Bands

\* SMA is computed as MA is.
Series(ind) == IF ind = "SMA" THEN "MA" ELSE ind

Node(op, kids) == [op |-> op, kids |-> kids]
IsLeaf(n) == "ind" \in DOMAIN n

\* A timeframe that is left out is "1h" in a key.
TfKey(leaf) == IF leaf.tf = "" THEN "1h" ELSE leaf.tf

\* Leaves stand anywhere, and nodes behind the conditions they join.
Trees == UNION {Levels[k] : k \in DOMAIN Levels}
Before(k) == UNION {Levels[j] : j \in 1..(k - 1)}

ASSUME LevelsAssumption ==
  /\ DOMAIN Levels = 1..Len(Levels) /\ Len(Levels) \in Nat
  /\ \A k \in DOMAIN Levels :
       LET before == Before(k)
       IN \A n \in Levels[k] :
            \/ IsLeaf(n)
            \/ /\ n.op \in {"AND", "OR"}
               /\ DOMAIN n.kids = 1..Len(n.kids) /\ Len(n.kids) \in Nat
               /\ \A i \in DOMAIN n.kids : n.kids[i] \in before

\* What an indicator is may be missing for want of candles, and is never Absent.
ASSUME MarketsAssumption ==
  \A m \in Markets : \A tf \in DOMAIN m, n \in Trees :
    IsLeaf(n) /\ n.ind \in Supported /\ n.par # BadPar =>
      m[tf].at[Series(n.ind)][n.par] # Absent

LeavesOf[n \in Trees] ==
  IF IsLeaf(n) THEN <<n>> ELSE FlattenSeq([i \in DOMAIN n.kids |-> LeavesOf[n.kids[i]]])

----------------------------------------------------------------------------
(* What the code computes. *)

\* _extract_needed_indicators: the last leaf of an indicator gives its parameters; a dict
\* keeps the place of its first.
Places(leaves, ind) == {i \in DOMAIN leaves : leaves[i].ind = ind}
Needed(leaves, ind) == Places(leaves, ind) # {} /\ ind \in Supported
First(leaves, ind) == CHOOSE i \in Places(leaves, ind) : \A k \in Places(leaves, ind) : i <= k
LastLeaf(leaves, ind) ==
  leaves[CHOOSE i \in Places(leaves, ind) : \A k \in Places(leaves, ind) : i >= k]

\* One indicator: without enough candles RSI is taken to be 50 and a mean 0; a value with
\* parts is left out, and so is one whose computation raises.
Fallback(ind) == CASE ind = "RSI" -> 50 [] ind \in Bands -> Absent [] OTHER -> 0
Computed(candles, leaf) ==
  IF leaf.par = BadPar THEN Absent
  ELSE LET v == candles.at[Series(leaf.ind)][leaf.par]
       IN IF v = Short THEN Fallback(leaf.ind) ELSE v

\* The value under ind_tf: MA and SMA share the keys MA_tf, and the one that is computed
\* later stays; nothing is ever kept under SMA_tf.
Keepers(leaves, ind, tf) ==
  {k \in Supported : /\ Needed(leaves, k) /\ TfKey(LastLeaf(leaves, k)) = tf
                     /\ Series(k) = ind}
Looked(candles, leaves, ind, tf) ==
  LET kept == {k \in Keepers(leaves, ind, tf) : Computed(candles, LastLeaf(leaves, k)) # Absent}
  IN IF kept = {} THEN Absent
     ELSE LET last == CHOOSE k \in kept : \A l \in kept : First(leaves, k) >= First(leaves, l)
          IN Computed(candles, LastLeaf(leaves, last))

\* What a multiple is of: the value under the key compare_to names, 0 if nothing is there.
\* The mean volume is there only if the tree names VOLUME.  (The keys of the other
\* indicators could be named as well and are left out.)
Base(candles, leaves, to) ==
  CASE to = "CLOSE"        -> candles.close
    [] to = "volume_ma_20" -> IF Needed(leaves, "VOLUME") THEN candles.mean ELSE 0
    [] OTHER               -> 0

\* The operators of a leaf; an unknown one is false.
Compares(close, v, op, t, base) ==
  CASE op = "lt"          -> v < t
    [] op = "gt"          -> v > t
    [] op = "gt_multiple" -> v > base * t
    [] op = "price_below_lower" -> close < v
    [] OTHER              -> FALSE

\* A number has no bands and bands are no number: the comparison raises, and is false.
Applies(leaf) == (leaf.ind \in Bands) <=> (leaf.op = "price_below_lower")

\* _eval_leaf
EvalLeaf(candles, leaves, leaf) ==
  LET v == Looked(candles, leaves, leaf.ind, TfKey(leaf))
  IN /\ v # Absent /\ Applies(leaf)
     /\ Compares(candles.close, v, leaf.op, leaf.value, Base(candles, leaves, leaf.to))

\* _eval_tree
EvalTree(candles, leaves) ==
  LET Matched[n \in Trees] ==
        IF IsLeaf(n) THEN EvalLeaf(candles, leaves, n)
        ELSE \/ n.op = "AND" /\ \A i \in DOMAIN n.kids : Matched[n.kids[i]]
             \/ n.op = "OR" /\ \E i \in DOMAIN n.kids : Matched[n.kids[i]]
  IN Matched

\* Mutant: the indicators are collected from the conditions of the root alone.
FromRootAlone(candles, n) ==
  EvalTree(candles, IF IsLeaf(n) THEN <<n>> ELSE SelectSeq(n.kids, IsLeaf))[n]

\* evaluate
Evaluate(candles, n) == EvalTree(candles, LeavesOf[n])[n]

----------------------------------------------------------------------------
(* What the tree says: every leaf with its own parameters, on the candles of its own
   timeframe - the strategy's if it names none - and false where there are not enough of
   them, or nothing to take the multiple of. *)

Own(leaf, given) == IF leaf.tf = "" THEN given ELSE leaf.tf
BaseMeant(candles, to) == IF to = "CLOSE" THEN candles.close ELSE candles.mean

LeafMeans(market, given, leaf) ==
  LET candles == market[Own(leaf, given)]
      v == candles.at[Series(leaf.ind)][leaf.par]
  IN /\ leaf.ind \in Supported /\ leaf.par # BadPar /\ Applies(leaf)
     /\ leaf.op = "gt_multiple" => leaf.to \in {"CLOSE", "volume_ma_20"}
     /\ Own(leaf, given) \in DOMAIN market
     /\ v # Short
     /\ Compares(candles.close, v, leaf.op, leaf.value, BaseMeant(candles, leaf.to))

Means(market, given) ==
  LET Holds[n \in Trees] ==
        IF IsLeaf(n) THEN LeafMeans(market, given, n)
        ELSE \/ n.op = "AND" /\ \A i \in DOMAIN n.kids : Holds[n.kids[i]]
             \/ n.op = "OR" /\ \E i \in DOMAIN n.kids : Holds[n.kids[i]]
  IN Holds

----------------------------------------------------------------------------
VARIABLES
  tree, market,
  given,             \* the strategy's timeframe, whose candles are passed
  evaluated, matched

evaluatorVars == <<tree, market, given, evaluated, matched>>

EvaluatorInit ==
  /\ tree = Node("AND", <<>>) /\ market = CHOOSE m \in Markets : TRUE
  /\ given = "1h" /\ evaluated = FALSE /\ matched = FALSE

\* One call of evaluate, by the engine with the candles of the strategy's timeframe.
EvaluateTree ==
  /\ ~evaluated
  /\ evaluated' = TRUE
  /\ tree' \in Trees /\ market' \in Markets /\ given' \in DOMAIN market'
  /\ matched' = Evaluate(market'[given'], tree')

EvaluatorSpec == EvaluatorInit /\ [][EvaluateTree]_evaluatorVars

----------------------------------------------------------------------------
Here == ToSet(LeavesOf[tree])

\* Every leaf names the strategy's timeframe or none.
OwnTimeframe == \A a \in Here : Own(a, given) = given

\* Leaves of the same series agree on its period; those of long series have their candles;
\* and what a multiple is taken of is there.
OnePeriod == \A a, b \in Here : Series(a.ind) = Series(b.ind) => a.par = b.par
Filled ==
  \A a \in Here :
    a.ind \in Numbers /\ a.par # BadPar => market[given].at[Series(a.ind)][a.par] # Short
BaseIsThere ==
  \A a \in Here : a.op = "gt_multiple" =>
    a.to = "CLOSE" \/ (a.to = "volume_ma_20" /\ \E b \in Here : b.ind = "VOLUME")

\* Leaves of the same indicator agree on the key's timeframe too, and none is written SMA.
OneKey ==
  \A a, b \in Here : a.ind # "SMA" /\ (a.ind = b.ind => TfKey(a) = TfKey(b))

(* Where every leaf is of the strategy's timeframe, each indicator occurs with one period and
   the candles suffice, the evaluator never invents a signal; and it misses none if moreover
   no leaf names a timeframe another leaf of that indicator leaves out, and none is called
   SMA.  Nothing of the kind holds of the other trees: a leaf of another timeframe is judged
   by the strategy's candles, one of two periods by the other's value, one with too few
   candles by 0 or 50 (strategy_evaluator.py:75-143, 147-275, engine.py:83-104). *)
EvaluatesAsWritten ==
  evaluated /\ OwnTimeframe /\ OnePeriod /\ Filled /\ BaseIsThere =>
    /\ matched => Means(market, given)[tree]
    /\ OneKey => (Means(market, given)[tree] => matched)
=============================================================================
