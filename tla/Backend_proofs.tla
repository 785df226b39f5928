---------------------------- MODULE Backend_proofs ----------------------------
(***************************************************************************)
(* Proofs about five parts of the backend that share no state, for every   *)
(* value of their constants: the tokens and the second factor (a token     *)
(* logged out stays refused), the backtest engine (its books balance), the *)
(* backtest jobs (rows tell the truth, and go through the life cycle), the *)
(* price feed (one feed, a consistent registry) and the evaluator of       *)
(* condition trees (it means what it was told); and about the five as      *)
(* MCBackend composes them.                                                *)
(***************************************************************************)
EXTENDS MCBackend, FoldLemmas

(***************************************************************************)
(*                     The tokens and the second factor                    *)
(***************************************************************************)
\* As long as Redis keeps its data, a token that was logged out stays on the blacklist at
\* least until the second before its last.
ListedLongEnough ==
  ~wiped => \A t \in loggedOut : expiry[t] # Unissued /\ blacklist[t] > (expiry[t] - 1) * Sec

\* Where no setup met another handler: a setup is alone and knows the flag, and a verify
\* has been shown a code of the secret, if there is still one.
HandlersKnowTheRow ==
  ~crossed =>
    \A h \in Handlers :
      /\ handler[h].op = "setup" => /\ handler[h].enabled = user.enabled
                                    /\ \A g \in Handlers \ {h} : handler[g].op = "none"
      /\ handler[h].op = "verify" => /\ handler[h].secret \in shown
                                     /\ user.secret \in {0, handler[h].secret}

(* The inductive invariant of the tokens and the second factor. *)
SessionsInv ==
  /\ SessionsTypeOK
  /\ ListedLongEnough
  /\ HandlersKnowTheRow
  /\ SecondFactorIsConfirmed

----------------------------------------------------------------------------
(* Whole division, and its remainder. *)
LEMMA Division ==
  ASSUME NEW a \in Int, NEW s \in Nat \ {0}
  PROVE  a \div s \in Int /\ (a \div s) * s <= a /\ a < (a \div s) * s + s
<1> DEFINE q == a \div s
           r == a % s
<1>1. q \in Int /\ r \in 0..(s - 1)
  OBVIOUS
<1>2. a = s * q + r
  OBVIOUS
<1> HIDE DEF q, r
<1>3. s * q = q * s /\ q * s \in Int
  BY <1>1
<1> QED
  BY <1>1, <1>2, <1>3 DEF q

(* The blacklist keeps a token to the last second but one, however its time is cut. *)
LEMMA TtlSuffices ==
  ASSUME SessionsTypeOK, NEW t \in Tokens, expiry[t] # Unissued
  PROVE  /\ BlacklistTtl(t) \in Nat
         /\ time + BlacklistTtl(t) > (expiry[t] - 1) * Sec
<1> DEFINE E == expiry[t]
           P == E * Sec
           left == (P - time) \div Sec
<1>1. E \in Nat /\ time \in Nat /\ Sec \in Nat \ {0}
  BY SecAssumption, ClockAssumption DEF SessionsTypeOK
<1>2. P \in Nat /\ P - time \in Int /\ (E - 1) * Sec = P - Sec
  BY <1>1
<1>3. BlacklistTtl(t) = IF left > 1 THEN left * Sec ELSE Sec
  BY DEF BlacklistTtl
<1> HIDE DEF P, E
<1>4. left \in Int /\ left * Sec <= P - time /\ P - time < left * Sec + Sec
  BY <1>1, <1>2, Division
<1> HIDE DEF left
<1>5. CASE left > 1
  <2>1. left * Sec \in Nat
    BY <1>1, <1>4, <1>5
  <2> QED
    BY <2>1, <1>1, <1>2, <1>3, <1>4, <1>5 DEF E
<1>6. CASE ~(left > 1)
  <2>1. left * Sec <= Sec
    BY <1>1, <1>4, <1>6
  <2>2. left * Sec \in Int
    BY <1>1, <1>4
  <2> QED
    BY <2>1, <2>2, <1>1, <1>2, <1>3, <1>4, <1>6 DEF E
<1> QED
  BY <1>5, <1>6

----------------------------------------------------------------------------
(* No token is listed to begin with. *)
LEMMA SessionsInvInit == SessionsInit => SessionsInv
<1> SUFFICES ASSUME SessionsInit PROVE SessionsInv
  OBVIOUS
<1>1. SessionsTypeOK
  <2>1. /\ time \in 0..MaxClock /\ expiry \in [Tokens -> {Unissued} \cup Nat]
        /\ blacklist \in [Tokens -> Nat] /\ rows \cup loggedOut \subseteq Tokens
        /\ leaving \in [Tokens -> {"no", "admitted", "listed"}]
    BY ClockAssumption DEF SessionsInit, Unissued
  <2>2. user \in [secret : {0} \cup Secrets, enabled : BOOLEAN]
    BY DEF SessionsInit
  <2>3. handler \in [Handlers -> [op : {"none", "setup", "verify", "disable"},
                                  secret : {0} \cup Secrets, enabled : BOOLEAN]]
    BY DEF SessionsInit, Free
  <2>4. drawn \in {0} \cup Secrets /\ shown \subseteq Secrets
    BY DEF SessionsInit
  <2>5. wiped \in BOOLEAN
    BY DEF SessionsInit
  <2>6. crossed \in BOOLEAN
    BY DEF SessionsInit
  <2> QED
    BY <2>1, <2>2, <2>3, <2>4, <2>5, <2>6 DEF SessionsTypeOK
<1>2. ListedLongEnough
  BY DEF SessionsInit, ListedLongEnough
<1>3. HandlersKnowTheRow
  BY DEF SessionsInit, HandlersKnowTheRow, Free
<1>4. SecondFactorIsConfirmed
  BY DEF SessionsInit, SecondFactorIsConfirmed
<1> QED
  BY <1>1, <1>2, <1>3, <1>4 DEF SessionsInv

(* The steps of the tokens. *)
LEMMA TokenStepsKeepTheInvariant ==
  ASSUME SessionsInv, TokenStep, UNCHANGED factorVars
  PROVE  SessionsInv'
<1> USE SecAssumption, ClockAssumption DEF SessionsInv
<1> DEFINE TokenTypes == /\ time \in 0..MaxClock /\ expiry \in [Tokens -> {Unissued} \cup Nat]
                         /\ blacklist \in [Tokens -> Nat] /\ rows \cup loggedOut \subseteq Tokens
                         /\ leaving \in [Tokens -> {"no", "admitted", "listed"}]
                         /\ wiped \in BOOLEAN
<1>1. SUFFICES TokenTypes' /\ ListedLongEnough'
  BY DEF factorVars, SessionsTypeOK, HandlersKnowTheRow, SecondFactorIsConfirmed
<1>2. TokenTypes /\ loggedOut \subseteq Tokens /\ rows \subseteq Tokens
  BY DEF SessionsTypeOK
<1>3. ASSUME NEW t \in Tokens, Login(t) PROVE TokenTypes' /\ ListedLongEnough'
  <2>1. time + Life * Sec \in Nat
    BY <1>2
  <2>2. (time + Life * Sec) \div Sec \in Nat
    <3> DEFINE a == time + Life * Sec
    <3>1. a \in Nat
      BY <2>1
    <3> HIDE DEF a
    <3>2. a \div Sec \in Nat
      BY <3>1
    <3> QED
      BY <3>2 DEF a
  <2>3. expiry' \in [Tokens -> {Unissued} \cup Nat]
        /\ \A u \in Tokens \ {t} : expiry'[u] = expiry[u]
    BY <1>2, <1>3, <2>2 DEF Login
  <2>4. UNCHANGED <<time, blacklist, rows, leaving, loggedOut, wiped>> /\ expiry[t] = Unissued
    BY <1>3 DEF Login
  <2> QED
    BY <1>2, <2>3, <2>4 DEF ListedLongEnough
<1>4. ASSUME NEW t \in Tokens, BeginLogout(t) \/ FailLogout(t) \/ EndLogout(t)
      PROVE  TokenTypes' /\ ListedLongEnough'
  BY <1>2, <1>4 DEF BeginLogout, FailLogout, EndLogout, ListedLongEnough
<1>5. ASSUME NEW t \in Tokens, ListToken(t) PROVE TokenTypes' /\ ListedLongEnough'
  <2>1. expiry[t] # Unissued
    BY <1>5 DEF ListToken, Decodes
  <2>2. /\ BlacklistTtl(t) \in Nat
        /\ time + BlacklistTtl(t) > (expiry[t] - 1) * Sec
    BY <2>1, TtlSuffices
  <2>3. /\ UNCHANGED <<time, expiry, rows, wiped>>
        /\ blacklist' = [blacklist EXCEPT ![t] = time + BlacklistTtl(t)]
        /\ loggedOut' = loggedOut \cup {t}
        /\ leaving' = [leaving EXCEPT ![t] = "listed"]
    BY <1>5 DEF ListToken
  <2>4. TokenTypes'
    BY <1>2, <2>2, <2>3
  <2>5. ASSUME NEW u \in loggedOut', ~wiped
        PROVE  expiry'[u] # Unissued /\ blacklist'[u] > (expiry'[u] - 1) * Sec
    <3>1. CASE u = t
      BY <3>1, <1>2, <2>1, <2>2, <2>3
    <3>2. CASE u # t
      BY <3>2, <1>2, <2>3, <2>5 DEF ListedLongEnough
    <3> QED
      BY <3>1, <3>2
  <2> QED
    BY <2>3, <2>4, <2>5 DEF ListedLongEnough
<1>6. CASE CleanUp
  BY <1>2, <1>6 DEF CleanUp, ListedLongEnough
<1>7. CASE LoseBlacklist
  <2>1. wiped' = TRUE /\ blacklist' = [t \in Tokens |-> 0]
        /\ UNCHANGED <<time, expiry, rows, leaving, loggedOut>>
    BY <1>7 DEF LoseBlacklist
  <2>2. wiped' \in BOOLEAN
    BY <2>1
  <2> QED
    BY <1>2, <2>1, <2>2 DEF ListedLongEnough
<1>8. CASE Clock
  BY <1>2, <1>8 DEF Clock, ListedLongEnough
<1> QED
  BY <1>3, <1>4, <1>5, <1>6, <1>7, <1>8 DEF TokenStep

(* The steps of the second factor. *)
LEMMA FactorStepsKeepTheInvariant ==
  ASSUME SessionsInv, FactorStep, UNCHANGED sessionVars
  PROVE  SessionsInv'
<1> USE DEF SessionsInv
<1> DEFINE Request == [op : {"none", "setup", "verify", "disable"},
                       secret : {0} \cup Secrets, enabled : BOOLEAN]
           FactorTypes == /\ user \in [secret : {0} \cup Secrets, enabled : BOOLEAN]
                          /\ handler \in [Handlers -> Request]
                          /\ drawn \in {0} \cup Secrets /\ shown \subseteq Secrets
                          /\ crossed \in BOOLEAN
<1>1. SUFFICES FactorTypes' /\ HandlersKnowTheRow' /\ SecondFactorIsConfirmed'
  BY DEF sessionVars, SessionsTypeOK, ListedLongEnough
<1>2. FactorTypes
  BY DEF SessionsTypeOK
<1>3. ASSUME NEW h \in Handlers, NEW op \in {"setup", "verify", "disable"}, BeginFactor(h, op)
      PROVE  FactorTypes' /\ HandlersKnowTheRow' /\ SecondFactorIsConfirmed'
  <2> DEFINE new == [op |-> op, enabled |-> user.enabled,
                     secret |-> IF op = "setup" THEN drawn' ELSE user.secret]
  <2>1. /\ handler[h].op = "none" /\ user' = user
        /\ handler' = [handler EXCEPT ![h] = new]
        /\ crossed' = (crossed \/ \E g \in Others(h) : "setup" \in {op, handler[g].op})
        /\ drawn' = IF op = "setup" THEN drawn + 1 ELSE drawn
        /\ shown' = IF op = "setup" THEN shown ELSE shown \cup {user.secret}
        /\ op = "setup" => drawn + 1 \in Secrets
        /\ op # "setup" => user.secret \in Secrets
    BY <1>2, <1>3 DEF BeginFactor
  <2>2. drawn' \in {0} \cup Secrets /\ shown' \subseteq Secrets /\ shown \subseteq shown'
    BY <1>2, <2>1
  <2>3. new \in Request
    BY <1>2, <2>1, <2>2
  <2>4. handler' \in [Handlers -> Request] /\ handler'[h] = new
        /\ \A g \in Handlers \ {h} : handler'[g] = handler[g]
    BY <1>2, <2>1, <2>3
  <2>5. crossed' \in BOOLEAN
    BY <2>1, <1>2
  <2>6. FactorTypes'
    BY <1>2, <2>1, <2>2, <2>4, <2>5
  <2>7. SecondFactorIsConfirmed'
    BY <2>1, <2>2 DEF SecondFactorIsConfirmed
  <2>8. ASSUME ~crossed', NEW g \in Handlers
        PROVE  /\ handler'[g].op = "setup" =>
                    /\ handler'[g].enabled = user.enabled
                    /\ \A k \in Handlers \ {g} : handler'[k].op = "none"
               /\ handler'[g].op = "verify" =>
                    /\ handler'[g].secret \in shown'
                    /\ user.secret \in {0, handler'[g].secret}
    <3>1. /\ ~crossed
          /\ \A k \in Handlers \ {h} :
               handler[k].op # "none" => op # "setup" /\ handler[k].op # "setup"
      BY <2>1, <2>8 DEF Others
    <3>2. CASE g = h
      BY <3>1, <3>2, <2>1, <2>4
    <3>3. CASE g # h
      <4>1. handler'[g] = handler[g] /\ handler[g].op # "setup"
        BY <3>1, <3>3, <2>4
      <4> QED
        BY <4>1, <3>1, <2>2 DEF HandlersKnowTheRow
    <3> QED
      BY <3>2, <3>3
  <2> QED
    BY <2>1, <2>6, <2>7, <2>8 DEF HandlersKnowTheRow
<1>4. ASSUME NEW h \in Handlers, EndFactor(h)
      PROVE  FactorTypes' /\ HandlersKnowTheRow' /\ SecondFactorIsConfirmed'
  <2> DEFINE q == handler[h]
  <2>1. /\ q.op # "none" /\ user' = Commit(q) /\ handler' = [handler EXCEPT ![h] = Free]
        /\ UNCHANGED <<drawn, shown, crossed>>
    BY <1>4 DEF EndFactor
  <2>2. q \in Request /\ q.op \in {"setup", "verify", "disable"}
    BY <1>2, <2>1
  <2>3. Free \in Request /\ Free.op = "none"
    BY DEF Free
  <2>4. handler' \in [Handlers -> Request] /\ handler'[h] = Free
        /\ \A g \in Handlers \ {h} : handler'[g] = handler[g]
    BY <1>2, <2>1, <2>3
  <2>5. CASE q.op = "setup"
    <3>1. user' = [secret |-> q.secret, enabled |-> IF q.enabled THEN FALSE ELSE user.enabled]
      BY <2>1, <2>5 DEF Commit, SetUp
    <3>2. user' \in [secret : {0} \cup Secrets, enabled : BOOLEAN]
      BY <1>2, <2>2, <3>1
    <3>3. ~crossed => /\ q.enabled = user.enabled
                      /\ \A g \in Handlers \ {h} : handler[g].op = "none"
      BY <2>5 DEF HandlersKnowTheRow
    <3>4. ~crossed => user'.enabled = FALSE
      BY <1>2, <2>2, <3>1, <3>3
    <3>5. SecondFactorIsConfirmed'
      BY <2>1, <3>4 DEF SecondFactorIsConfirmed
    <3>6. HandlersKnowTheRow'
      BY <2>1, <2>3, <2>4, <3>3 DEF HandlersKnowTheRow
    <3> QED
      BY <1>2, <2>1, <2>4, <3>2, <3>5, <3>6
  <2>6. CASE q.op = "verify"
    <3>1. user' = [user EXCEPT !.enabled = q.enabled => @]
      BY <2>1, <2>6 DEF Commit
    <3>2. user' \in [secret : {0} \cup Secrets, enabled : BOOLEAN] /\ user'.secret = user.secret
      BY <1>2, <2>2, <3>1
    <3>3. ~crossed => q.secret \in shown /\ user.secret \in {0, q.secret}
      BY <2>6 DEF HandlersKnowTheRow
    <3>4. SecondFactorIsConfirmed'
      BY <2>1, <3>2, <3>3 DEF SecondFactorIsConfirmed
    <3>5. ~crossed => \A g \in Handlers : handler'[g].op # "setup"
      BY <2>3, <2>4, <2>6 DEF HandlersKnowTheRow
    <3>6. HandlersKnowTheRow'
      BY <2>1, <2>3, <2>4, <3>2, <3>5 DEF HandlersKnowTheRow
    <3> QED
      BY <1>2, <2>1, <2>4, <3>2, <3>4, <3>6
  <2>7. CASE q.op = "disable"
    <3>1. user' = [secret |-> 0, enabled |-> FALSE]
      BY <2>1, <2>7 DEF Commit
    <3>2. user' \in [secret : {0} \cup Secrets, enabled : BOOLEAN] /\ user'.secret = 0
      BY <3>1
    <3>3. SecondFactorIsConfirmed'
      BY <3>1 DEF SecondFactorIsConfirmed
    <3>4. ~crossed => \A g \in Handlers : handler'[g].op # "setup"
      BY <2>3, <2>4, <2>7 DEF HandlersKnowTheRow
    <3>5. HandlersKnowTheRow'
      BY <2>1, <2>3, <2>4, <3>2, <3>4 DEF HandlersKnowTheRow
    <3> QED
      BY <1>2, <2>1, <2>4, <3>2, <3>3, <3>5
  <2> QED
    BY <2>2, <2>5, <2>6, <2>7
<1> QED
  BY <1>3, <1>4 DEF FactorStep

(* Every step keeps the invariant. *)
LEMMA SessionsInvStep == SessionsInv /\ [SessionsNext]_<<sessionVars, factorVars>> => SessionsInv'
<1> SUFFICES ASSUME SessionsInv, [SessionsNext]_<<sessionVars, factorVars>> PROVE SessionsInv'
  OBVIOUS
<1>1. CASE SessionsNext
  BY <1>1, TokenStepsKeepTheInvariant, FactorStepsKeepTheInvariant DEF SessionsNext
<1>2. CASE UNCHANGED <<sessionVars, factorVars>>
  BY <1>2 DEF sessionVars, factorVars, SessionsInv, SessionsTypeOK, ListedLongEnough,
              HandlersKnowTheRow, SecondFactorIsConfirmed
<1> QED
  BY <1>1, <1>2

(* So it always holds. *)
LEMMA SessionsInvAlways == SessionsSpec => []SessionsInv
BY SessionsInvInit, SessionsInvStep, PTL DEF SessionsSpec

----------------------------------------------------------------------------
(* A token that was logged out is refused until its last two seconds, for any number of
   tokens and logouts, as long as Redis keeps the blacklist (core/security.py:82-90,
   api/v1/auth.py:94-121). *)
THEOREM LogoutsHoldToTheEdge == SessionsSpec => []RevokedUntilEdge
<1>1. SessionsInv => RevokedUntilEdge
  <2> SUFFICES ASSUME SessionsInv, NEW t \in loggedOut, ~wiped, Admitted(t)
               PROVE  time > (expiry[t] - 1) * Sec
    BY DEF RevokedUntilEdge
  <2>1. blacklist[t] > (expiry[t] - 1) * Sec /\ blacklist[t] <= time
    BY DEF SessionsInv, ListedLongEnough, Admitted
  <2>2. /\ t \in Tokens /\ blacklist[t] \in Int /\ time \in Int
        /\ expiry[t] \in Int /\ Sec \in Int
    BY SecAssumption, ClockAssumption DEF SessionsInv, SessionsTypeOK, Unissued
  <2>3. (expiry[t] - 1) * Sec \in Int
    BY <2>2
  <2> HIDE DEF Admitted
  <2> QED
    BY <2>1, <2>2, <2>3
<1> QED
  BY <1>1, SessionsInvAlways, PTL

(* The second factor of a user is one they have shown a code of, for any number of
   handlers, unless a setup and another handler met (api/v1/auth.py:124-196). *)
THEOREM SecondFactorAlwaysConfirmed == SessionsSpec => []SecondFactorIsConfirmed
<1>1. SessionsInv => SecondFactorIsConfirmed
  BY DEF SessionsInv
<1> QED
  BY <1>1, SessionsInvAlways, PTL

(* Types of both, for any constants. *)
THEOREM SessionsTypes == SessionsSpec => []SessionsTypeOK
<1>1. SessionsInv => SessionsTypeOK
  BY DEF SessionsInv
<1> QED
  BY <1>1, SessionsInvAlways, PTL

------------------------------------------------------------------------------
(***************************************************************************)
(*                           The backtest engine                           *)
(***************************************************************************)
(* The bounds are numbers. *)
LEMMA EngineNumbers ==
  /\ Unit \in Nat /\ Unit > 0 /\ Slip \in Nat /\ Com \in Nat /\ Initial \in Nat /\ Initial > 0
  /\ Unit - Slip \in Nat /\ Unit + Slip \in Nat /\ Unit - Com \in Nat /\ Unit + Com \in Nat
  /\ MaxCandles \in Nat /\ \A p \in Prices : p \in Nat
BY RatesAssumption, MoneyAssumption, CandlesAssumption

(* Products of naturals are naturals. *)
LEMMA Product ==
  ASSUME NEW a \in Nat, NEW b \in Nat
  PROVE  a * b \in Nat
OBVIOUS

(* Every amount the engine computes is a natural. *)
LEMMA MoneyIsNat ==
  ASSUME NEW price \in Nat, NEW lots \in Nat
  PROVE  Paid(price, lots) \in Nat /\ Got(price, lots) \in Nat
<1>1. price * lots \in Nat
  BY Product
<1>2. price * lots * (Unit + Com) \in Nat /\ price * lots * (Unit - Com) \in Nat
  BY <1>1, Product, EngineNumbers
<1> QED
  BY <1>2 DEF Paid, Got

(* No quantity, no cost. *)
LEMMA NothingCostsNothing ==
  ASSUME NEW price \in Nat
  PROVE  Paid(price, 0) = 0
<1>1. price * 0 = 0
  OBVIOUS
<1>2. 0 * (Unit + Com) = 0
  BY EngineNumbers
<1> QED
  BY <1>1, <1>2 DEF Paid

(* A trade, by its candles. *)
Trade == [from : 1..MaxCandles, to : 1..MaxCandles]

\* What holds of the walk besides the properties: what is held was entered at a candle seen,
\* and a capital that did not move at the last candle is the last point of the curve.
Walk ==
  /\ qty > 0 => entryAt > 0 /\ ~done
  /\ at = 0 => capital = Initial /\ qty = 0
  /\ at > 0 => curve[1] = Initial
  /\ at > 0 /\ qty = 0 /\ (\A k \in DOMAIN trades : trades[k].to < at) => curve[at] = capital
  /\ done => at = length

(* The inductive invariant of the engine. *)
EngineInv == EngineTypeOK /\ Walk /\ CapitalIsExplained /\ TradesAreApart

(* The walk begins with the capital whole. *)
LEMMA EngineInvInit == EngineInit => EngineInv
<1> SUFFICES ASSUME EngineInit PROVE EngineInv
  OBVIOUS
<1>1. EngineTypeOK
  <2>1. <<>> \in Seq(Nat) /\ <<>> \in Seq(Trade) /\ Len(<<>>) = 0
    OBVIOUS
  <2>2. curve \in Seq(Nat) /\ Len(curve) = at /\ trades \in Seq(Trade)
    BY <2>1 DEF EngineInit
  <2>3. /\ order \in Orders /\ length \in 0..MaxCandles /\ at \in 0..length /\ entryAt \in 0..at
        /\ capital \in Nat /\ qty \in Nat /\ entry \in Nat /\ close \in Nat
        /\ gain \in Nat /\ loss \in Nat /\ done \in BOOLEAN
    <3>1. at = 0 /\ entryAt = 0 /\ order \in Orders /\ length \in 0..MaxCandles
      BY DEF EngineInit
    <3>2. at \in 0..length /\ entryAt \in 0..at
      BY <3>1, EngineNumbers
    <3>3. /\ capital \in Nat /\ qty \in Nat /\ entry \in Nat /\ close \in Nat
          /\ gain \in Nat /\ loss \in Nat
      BY EngineNumbers DEF EngineInit
    <3>4. done \in BOOLEAN
      BY DEF EngineInit
    <3> QED
      BY <3>1, <3>2, <3>3, <3>4
  <2> QED
    BY <2>2, <2>3 DEF EngineTypeOK, Trade
<1>2. CostBasis = 0
  BY NothingCostsNothing DEF EngineInit, CostBasis
<1>3. CapitalIsExplained
  BY <1>2, EngineNumbers DEF EngineInit, CapitalIsExplained
<1>4. Walk /\ TradesAreApart
  BY EngineNumbers DEF EngineInit, Walk, TradesAreApart
<1> QED
  BY <1>1, <1>3, <1>4 DEF EngineInv

\* Leaving a position keeps the books and the order of the trades.
LEMMA LeaveLemma ==
  ASSUME EngineInv, NEW price \in Nat, NEW t \in Nat, qty > 0, t >= at, t <= length, t > 0,
         at' = t, length' = length, order' = order, curve' \in Seq(Nat), Len(curve') = t,
         close' \in Nat, done' \in BOOLEAN, entryAt < t \/ done',
         LeavePosition(price, t)
  PROVE  /\ EngineTypeOK' /\ CapitalIsExplained' /\ TradesAreApart'
         /\ qty' = 0 /\ trades'[Len(trades')].to = t /\ Len(trades') \in DOMAIN trades'
<1> DEFINE got == Got(price, qty)
           pnl == got - CostBasis
           new == [from |-> entryAt, to |-> t]
<1>1. got \in Nat /\ CostBasis \in Nat
  BY MoneyIsNat DEF EngineInv, EngineTypeOK, CostBasis
<1>2. /\ capital' = capital + got
      /\ gain' = IF pnl > 0 THEN gain + pnl ELSE gain
      /\ loss' = IF pnl > 0 THEN loss ELSE loss - pnl
      /\ trades' = Append(trades, new)
      /\ qty' = 0 /\ entry' = 0 /\ entryAt' = 0
  BY DEF LeavePosition
<1>3. CostBasis' = 0
  BY <1>2, NothingCostsNothing DEF CostBasis
<1>4. CapitalIsExplained'
  <2>1. capital + CostBasis = Initial + gain - loss
    BY DEF EngineInv, CapitalIsExplained
  <2>2. gain' - loss' = gain - loss + pnl
    <3> HIDE DEF got
    <3> QED BY <1>1, <1>2 DEF EngineInv, EngineTypeOK
  <2> HIDE DEF got
  <2>3. capital \in Nat /\ gain \in Nat /\ loss \in Nat /\ gain' \in Int /\ loss' \in Int
    BY <1>1, <1>2 DEF EngineInv, EngineTypeOK
  <2> QED
    BY <1>1, <1>2, <1>3, <2>1, <2>2, <2>3, EngineNumbers DEF CapitalIsExplained
<1>5. entryAt \in 1..MaxCandles /\ t \in 1..MaxCandles /\ entryAt <= t
  BY EngineNumbers DEF EngineInv, EngineTypeOK, Walk
<1>6. new \in Trade /\ trades \in Seq(Trade)
  BY <1>5 DEF Trade, EngineInv, EngineTypeOK
<1>7. EngineTypeOK'
  <2>1. trades' \in Seq(Trade)
    BY <1>2, <1>6
  <2>2. capital' \in Nat /\ gain' \in Nat /\ loss' \in Nat
    <3> HIDE DEF got
    <3> QED BY <1>1, <1>2 DEF EngineInv, EngineTypeOK
  <2> QED
    BY <1>2, <2>1, <2>2 DEF EngineTypeOK, EngineInv, Trade
<1>8. /\ Len(trades') = Len(trades) + 1 /\ DOMAIN trades' = 1..(Len(trades) + 1)
      /\ trades'[Len(trades) + 1] = new
      /\ \A k \in 1..Len(trades) : trades'[k] = trades[k]
      /\ DOMAIN trades = 1..Len(trades) /\ Len(trades) \in Nat
  BY <1>2, <1>6
<1>9. TradesAreApart'
  <2>1. \A k \in 1..Len(trades) : trades[k].to < entryAt /\ trades[k].from \in Nat
                                  /\ trades[k].to \in Nat
    <3> TAKE k \in 1..Len(trades)
    <3>1. trades[k] \in Trade
      BY <1>6
    <3>2. trades[k].to < entryAt
      BY <1>8 DEF EngineInv, TradesAreApart
    <3> QED
      BY <3>1, <3>2 DEF Trade
  <2>2. ASSUME NEW k \in DOMAIN trades'
        PROVE  /\ trades'[k].from <= trades'[k].to /\ trades'[k].to <= at'
               /\ trades'[k].from = trades'[k].to => done'
               /\ \A m \in 1..(k - 1) : trades'[m].to < trades'[k].from
    <3>1. CASE k = Len(trades) + 1
      <4>1. trades'[k] = new
        BY <3>1, <1>8
      <4>2. \A m \in 1..(k - 1) : trades'[m] = trades[m] /\ trades[m].to < entryAt
        BY <3>1, <1>8, <2>1
      <4> QED
        BY <4>1, <4>2, <1>5
    <3>2. CASE k \in 1..Len(trades)
      <4>1. trades'[k] = trades[k] /\ \A m \in 1..(k - 1) : trades'[m] = trades[m]
        BY <3>2, <1>8
      <4>2. ~done
        BY DEF EngineInv, Walk
      <4>3. trades[k].from <= trades[k].to /\ trades[k].to <= at
            /\ trades[k].from # trades[k].to
            /\ \A m \in 1..(k - 1) : trades[m].to < trades[k].from
        BY <3>2, <4>2, <1>8 DEF EngineInv, TradesAreApart
      <4>4. trades[k].to <= t
        BY <3>2, <2>1, <1>5
      <4> QED
        BY <4>1, <4>3, <4>4
    <3> QED
      BY <3>1, <3>2, <1>8
  <2> QED
    BY <2>2, <1>2 DEF TradesAreApart
<1> QED
  BY <1>2, <1>4, <1>7, <1>8, <1>9

\* What is bought is a natural number of lots, paid from the capital.
LEMMA EnterLemma ==
  ASSUME EngineInv, NEW price \in Nat, qty = 0, Enter(price)
  PROVE  \/ /\ UNCHANGED <<capital, qty, entry, entryAt>>
         \/ /\ qty' \in Nat /\ qty' > 0 /\ entry' = price /\ entryAt' = at + 1
            /\ capital' \in Nat /\ capital' = capital - Paid(price, qty')
<1> DEFINE lots == CalcQty(price)
<1>1. CASE lots > 0 /\ Affordable(price) /\ Paid(price, lots) <= capital
  <2>1. lots \in Int
    <3>1. order.value \in Int /\ capital \in Nat
      BY OrdersAssumption DEF EngineInv, EngineTypeOK
    <3>2. Ratio \in Int
      BY <3>1, EngineNumbers DEF Ratio
    <3>3. CASE price = 0
      BY <3>3 DEF CalcQty
    <3>4. CASE price > 0
      <4>1. Unit * Unit \in Nat /\ Unit * Unit > 0
        BY EngineNumbers
      <4>2. Unit * Unit * price \in Nat /\ Unit * Unit * price > 0
        BY <4>1, <3>4
      <4>3. (order.value * Unit) \div price \in Int
        BY <3>1, <3>4, EngineNumbers
      <4>4. (capital * Ratio) \div (Unit * Unit * price) \in Int
        <5>1. capital * Ratio \in Int
          BY <3>1, <3>2
        <5> QED BY <5>1, <4>2
      <4> QED
        BY <3>1, <4>3, <4>4 DEF CalcQty
    <3> QED
      BY <3>3, <3>4
  <2>2. lots \in Nat /\ lots > 0
    BY <1>1, <2>1
  <2>3. Paid(price, lots) \in Nat
    BY <2>2, MoneyIsNat
  <2>4. /\ capital' = capital - Paid(price, lots)
        /\ qty' = lots /\ entry' = price /\ entryAt' = at + 1
    BY <1>1 DEF Enter
  <2> HIDE DEF lots
  <2> QED
    BY <1>1, <2>2, <2>3, <2>4 DEF EngineInv, EngineTypeOK
<1>2. CASE ~(lots > 0 /\ Affordable(price) /\ Paid(price, lots) <= capital)
  BY <1>2 DEF Enter
<1> QED
  BY <1>1, <1>2

(* A candle that is walked keeps the invariant: left, entered or passed by. *)
LEMMA CandleInv ==
  ASSUME EngineInv, NEW price \in Prices, NEW signal \in BOOLEAN, Candle(price, signal)
  PROVE  EngineInv'
<1> DEFINE sold == price * (Unit - Slip)
           bought == price * (Unit + Slip)
           point == capital + qty * price * Unit * Unit
<1>1. price \in Nat /\ sold \in Nat /\ bought \in Nat
  BY EngineNumbers, Product
<1>2. /\ ~done /\ at < length /\ at' = at + 1 /\ close' = price /\ done' = done
      /\ curve' = Append(curve, point) /\ order' = order /\ length' = length
      /\ at \in Nat /\ length \in Nat
  BY DEF Candle, EngineInv, EngineTypeOK
<1>3. point \in Nat /\ (qty = 0 => point = capital)
  <2>1. capital \in Nat /\ qty \in Nat
    BY DEF EngineInv, EngineTypeOK
  <2>2. qty * price * Unit * Unit \in Nat
    BY <1>1, <2>1, Product, EngineNumbers
  <2>3. qty = 0 => qty * price * Unit * Unit = 0
    <3>1. 0 * price = 0 /\ 0 * Unit = 0
      BY <1>1, EngineNumbers
    <3> QED BY <3>1
  <2> QED
    BY <2>1, <2>2, <2>3
<1> HIDE DEF point
<1>4. /\ curve' \in Seq(Nat) /\ Len(curve') = at + 1 /\ curve'[at + 1] = point
      /\ at > 0 => curve'[1] = curve[1]
  BY <1>2, <1>3 DEF EngineInv, EngineTypeOK
<1>5. curve'[1] = Initial
  BY <1>2, <1>3, <1>4 DEF EngineInv, Walk
<1>6. CASE qty > 0 /\ signal
  <2>1. LeavePosition(sold, at + 1)
    BY <1>6 DEF Candle
  <2>2. entryAt < at + 1
    BY <1>2 DEF EngineInv, EngineTypeOK
  <2>3. /\ EngineTypeOK' /\ CapitalIsExplained' /\ TradesAreApart'
        /\ qty' = 0 /\ trades'[Len(trades')].to = at + 1 /\ Len(trades') \in DOMAIN trades'
    <3>1. at + 1 \in Nat /\ at + 1 >= at /\ at + 1 <= length /\ at + 1 > 0 /\ close' \in Nat
          /\ done' \in BOOLEAN
      BY <1>1, <1>2 DEF EngineInv, EngineTypeOK
    <3> HIDE DEF sold
    <3> QED
      BY <1>1, <1>2, <1>4, <1>6, <2>1, <2>2, <3>1, LeaveLemma
  <2>4. Walk'
    BY <1>2, <1>5, <2>3 DEF Walk
  <2> QED
    BY <2>3, <2>4 DEF EngineInv
<1>7. CASE ~(qty > 0 /\ signal)
  <2>1. UNCHANGED <<trades, gain, loss>>
    BY <1>7, <1>1 DEF Candle, EngineInv, EngineTypeOK
  <2>2. DOMAIN trades' = DOMAIN trades /\ \A k \in DOMAIN trades : trades'[k] = trades[k]
    BY <2>1
  <2>3. /\ \A k \in DOMAIN trades' :
             /\ trades'[k].from <= trades'[k].to /\ trades'[k].to <= at'
             /\ trades'[k].from = trades'[k].to => done'
             /\ \A m \in 1..(k - 1) : trades'[m].to < trades'[k].from
        /\ \A k \in DOMAIN trades : trades[k].to <= at /\ trades[k].to \in Nat
    <3>1. \A k \in DOMAIN trades : trades[k].to <= at /\ trades[k].to \in Nat
      <4> TAKE k \in DOMAIN trades
      <4>1. trades \in Seq(Trade)
        BY DEF EngineInv, EngineTypeOK, Trade
      <4>2. trades[k] \in Trade
        BY <4>1
      <4> QED
        BY <4>2 DEF Trade, EngineInv, TradesAreApart
    <3>2. \A k \in DOMAIN trades : trades[k].to <= at'
      BY <3>1, <1>2
    <3> QED
      BY <1>2, <2>1, <3>1, <3>2 DEF EngineInv, TradesAreApart
  <2>4. CASE UNCHANGED <<capital, qty, entry, entryAt>>
    <3>1. EngineTypeOK'
      BY <1>1, <1>2, <1>4, <2>1, <2>4 DEF EngineInv, EngineTypeOK
    <3>2. CapitalIsExplained'
      BY <2>1, <2>4 DEF EngineInv, CapitalIsExplained, CostBasis, Paid
    <3>3. TradesAreApart'
      BY <2>1, <2>3, <2>4 DEF EngineInv, TradesAreApart
    <3>4. Walk'
      BY <1>2, <1>3, <1>4, <1>5, <2>4 DEF EngineInv, Walk
    <3> QED
      BY <3>1, <3>2, <3>3, <3>4 DEF EngineInv
  <2>5. CASE /\ qty = 0 /\ qty' \in Nat /\ qty' > 0 /\ entry' = bought /\ entryAt' = at + 1
             /\ capital' \in Nat /\ capital' = capital - Paid(bought, qty')
    <3>1. EngineTypeOK'
      BY <1>1, <1>2, <1>4, <2>1, <2>5 DEF EngineInv, EngineTypeOK
    <3>2. CapitalIsExplained'
      <4>1. CostBasis' = Paid(bought, qty') /\ Paid(bought, qty') \in Nat
        BY <1>1, <2>5, MoneyIsNat DEF CostBasis, Paid
      <4>2. CostBasis = 0
        BY <2>5, NothingCostsNothing DEF EngineInv, EngineTypeOK, CostBasis
      <4> QED
        BY <2>1, <2>5, <4>1, <4>2, EngineNumbers DEF EngineInv, EngineTypeOK, CapitalIsExplained
    <3>3. TradesAreApart'
      <4>1. \A k \in DOMAIN trades' : trades'[k].to < entryAt'
        BY <1>2, <2>1, <2>3, <2>5
      <4> QED
        BY <2>3, <4>1 DEF TradesAreApart
    <3>4. Walk'
      BY <1>2, <1>5, <2>5 DEF Walk
    <3> QED
      BY <3>1, <3>2, <3>3, <3>4 DEF EngineInv
  <2>6. CASE qty = 0 /\ signal
    <3>1. Enter(bought)
      BY <2>6 DEF Candle
    <3>2. \/ UNCHANGED <<capital, qty, entry, entryAt>>
          \/ /\ qty' \in Nat /\ qty' > 0 /\ entry' = bought /\ entryAt' = at + 1
             /\ capital' \in Nat /\ capital' = capital - Paid(bought, qty')
      <4> HIDE DEF bought
      <4> QED BY <1>1, <2>6, <3>1, EnterLemma
    <3> QED
      BY <2>4, <2>5, <2>6, <3>2
  <2>7. CASE ~signal
    BY <2>4, <2>7 DEF Candle
  <2> QED
    BY <1>7, <2>6, <2>7 DEF EngineInv, EngineTypeOK
<1> QED
  BY <1>6, <1>7

(* The end of the walk closes what is open. *)
LEMMA FinishInv ==
  ASSUME EngineInv, Finish
  PROVE  EngineInv'
<1>1. /\ ~done /\ at = length /\ done' = TRUE /\ UNCHANGED <<order, length, at, close, curve>>
      /\ at \in Nat /\ close \in Nat
  BY DEF Finish, EngineInv, EngineTypeOK
<1>2. CASE qty > 0
  <2> DEFINE sold == close * (Unit - Slip)
  <2>1. sold \in Nat
    BY <1>1, Product, EngineNumbers
  <2>2. LeavePosition(sold, at)
    BY <1>2 DEF Finish
  <2>3. at > 0
    BY <1>1, <1>2 DEF EngineInv, Walk
  <2>4. /\ EngineTypeOK' /\ CapitalIsExplained' /\ TradesAreApart'
        /\ qty' = 0 /\ trades'[Len(trades')].to = at /\ Len(trades') \in DOMAIN trades'
    <3>1. curve' \in Seq(Nat) /\ Len(curve') = at /\ at >= at /\ at <= length
      BY <1>1 DEF EngineInv, EngineTypeOK
    <3> HIDE DEF sold
    <3> QED
      BY <1>1, <1>2, <2>1, <2>2, <2>3, <3>1, LeaveLemma
  <2>5. Walk'
    BY <1>1, <2>3, <2>4 DEF EngineInv, Walk
  <2> QED
    BY <2>4, <2>5 DEF EngineInv
<1>3. CASE ~(qty > 0)
  <2>1. UNCHANGED <<capital, qty, entry, entryAt, trades, gain, loss>>
    BY <1>3 DEF Finish
  <2>2. EngineTypeOK' /\ CapitalIsExplained'
    BY <1>1, <2>1 DEF EngineInv, EngineTypeOK, CapitalIsExplained, CostBasis, Paid
  <2>3. TradesAreApart'
    BY <1>1, <1>3, <2>1 DEF EngineInv, TradesAreApart
  <2>4. Walk'
    BY <1>1, <1>3, <2>1 DEF EngineInv, Walk
  <2> QED
    BY <2>2, <2>3, <2>4 DEF EngineInv
<1> QED
  BY <1>2, <1>3

(* Every step keeps the invariant. *)
LEMMA EngineInvStep == EngineInv /\ [EngineNext]_engineVars => EngineInv'
<1> SUFFICES ASSUME EngineInv, [EngineNext]_engineVars PROVE EngineInv'
  OBVIOUS
<1>1. CASE \E p \in Prices, signal \in BOOLEAN : Candle(p, signal)
  BY <1>1, CandleInv
<1>2. CASE Finish
  BY <1>2, FinishInv
<1>3. CASE UNCHANGED engineVars
  BY <1>3 DEF engineVars, EngineInv, EngineTypeOK, Walk, CapitalIsExplained, CostBasis, Paid,
              TradesAreApart
<1> QED
  BY <1>1, <1>2, <1>3 DEF EngineNext

\* The first and the last point of the curve are witnesses of the loss.
LEMMA EngineInvBooks == EngineInv => BooksBalance
<1> SUFFICES ASSUME EngineInv, done, capital < Initial,
                    \A k \in DOMAIN trades : trades[k].to < length
             PROVE  DrawdownAtLeast(Initial - capital, Initial)
  BY DEF EngineInv, BooksBalance, DrawdownSeesLoss
<1>1. at = length /\ at \in Nat /\ qty = 0 /\ capital \in Nat
  BY DEF EngineInv, EngineTypeOK, Walk
<1>2. at > 0 /\ curve[1] = Initial /\ curve[at] = capital
  BY <1>1, EngineNumbers DEF EngineInv, Walk
<1>3. at \in DOMAIN curve /\ 1 \in 1..at
  BY <1>1, <1>2 DEF EngineInv, EngineTypeOK
<1>4. (curve[1] - curve[at]) * Initial >= (Initial - capital) * curve[1]
  BY <1>1, <1>2, EngineNumbers
<1> QED
  BY <1>3, <1>4 DEF DrawdownAtLeast

(* The variables of the engine keep their types; the capital is a natural number, so that
   no purchase is made that the account cannot pay (backtest_engine.py:97-200). *)
THEOREM EngineTypeCorrect == EngineSpec => []EngineTypeOK
<1>1. EngineInv => EngineTypeOK
  BY DEF EngineInv
<1> QED
  BY <1>1, EngineInvInit, EngineInvStep, PTL DEF EngineSpec

(* The final capital is what the account began with and what the trades made of it, trades
   do not overlap, and the drawdown knows of the loss (backtest_engine.py:97-246). *)
THEOREM BooksAlwaysBalance == EngineSpec => []BooksBalance
BY EngineInvInit, EngineInvStep, EngineInvBooks, PTL DEF EngineSpec

------------------------------------------------------------------------------
(***************************************************************************)
(*                            The backtest jobs                            *)
(***************************************************************************)
\* A job somebody may work on has a row, and one a worker has marked is no longer pending.
Begun(j) == row[j].status \notin {"absent", "pending"}

\* Its task was sent.
Handed(j) == api[j] \notin {"idle", "committed"}

\* What is known of one worker: it is about a stored row; having read "running", or having
\* marked the row, it knows the row to be beyond pending; and while no other worker had the
\* job, it knows whether the row has a message, and its run is later than the row's figures.
Knows(w) ==
  Busy(w) =>
    LET q == worker[w]
    IN /\ row[q.job].status # "absent" /\ Handed(q.job)
       /\ q.pc = "read" /\ q.status = "running" => Begun(q.job)
       /\ q.pc \in {"looking", "working"} => Begun(q.job)
       /\ q.pc # "taken" /\ q.job \notin overlapped /\ row[q.job].status # "gone" =>
            q.error = row[q.job].error
       /\ q.pc # "taken" => q.run <= runs[q.job]
       /\ q.pc # "taken" /\ q.job \notin overlapped => row[q.job].figures < q.run

(* Two workers have one job only where the model noted that they overlapped. *)
Alone == \A v, w \in Workers :
  Busy(v) /\ Busy(w) /\ worker[v].job = worker[w].job /\ v # w => worker[v].job \in overlapped

(* What is known of a job where its row, its message and its copies stand. *)
Stored(j) ==
  /\ api[j] = "idle" <=> row[j].status = "absent"
  /\ copies[j] > 0 => Handed(j)
  /\ queue[j] > 0 => row[j].status # "absent" /\ Handed(j)
  /\ row[j].figures <= runs[j]

(* The inductive invariant of the jobs. *)
JobsInv ==
  /\ JobsTypeOK
  /\ \A j \in Jobs : Stored(j)
  /\ \A w \in Workers : Knows(w)
  /\ Alone
  /\ StuckHasCause
  /\ OutcomeIsWhole

(* Rows are rows of the life cycle. *)
LEMMA RowType == \A j \in Jobs : JobsTypeOK => row[j] \in Lifecycle!Row
BY DEF JobsTypeOK

(* No job is requested to begin with. *)
LEMMA JobsInvInit == JobsInit => JobsInv
<1> SUFFICES ASSUME JobsInit PROVE JobsInv
  OBVIOUS
<1>1. JobsTypeOK
  BY CopiesAssumption DEF JobsInit, JobsTypeOK, Lifecycle!Row, Lifecycle!Statuses, NoJob
<1>2. \A j \in Jobs : Stored(j)
  BY DEF JobsInit, Stored, Handed
<1>3. \A w \in Workers : ~Busy(w)
  BY DEF JobsInit, Busy, NoJob
<1>4. StuckHasCause /\ OutcomeIsWhole
  BY DEF JobsInit, StuckHasCause, OutcomeIsWhole
<1> QED
  BY <1>1, <1>2, <1>3, <1>4 DEF JobsInv, Knows, Handed, Alone

\* A step on one job leaves what is known of the rest.
LEMMA TypeStep == JobsTypeOK /\ (\A j \in Jobs : Stored(j)) /\ [JobsNext]_jobVars => JobsTypeOK'
<1> SUFFICES ASSUME JobsTypeOK, \A j \in Jobs : Stored(j), [JobsNext]_jobVars PROVE JobsTypeOK'
  OBVIOUS
<1> USE DEF Lifecycle!Row, Lifecycle!Statuses
<1>1. ASSUME NEW j \in Jobs, JobStep(j) PROVE JobsTypeOK'
  <2>1. CASE Submit(j)
    BY <2>1 DEF Submit, JobsTypeOK
  <2>2. CASE Send(j)
    <3>1. copies[j] = 0
      BY <2>2 DEF Send, Stored, Handed, JobsTypeOK
    <3> QED
      BY <2>2, <3>1, CopiesAssumption DEF Send, JobsTypeOK
  <2>3. CASE FailSend(j)
    BY <2>3 DEF FailSend, JobsTypeOK
  <2>4. CASE EndSubmit(j)
    BY <2>4 DEF EndSubmit, JobsTypeOK
  <2>5. CASE DeleteStrategyOf(j)
    BY <2>5 DEF DeleteStrategyOf, JobsTypeOK
  <2>6. CASE LoseQueue(j)
    BY <2>6 DEF LoseQueue, JobsTypeOK
  <2> QED
    BY <1>1, <2>1, <2>2, <2>3, <2>4, <2>5, <2>6 DEF JobStep
<1>2. ASSUME NEW w \in Workers, WorkerStep(w) PROVE JobsTypeOK'
  <2>1. ASSUME NEW j \in Jobs, Take(w, j) PROVE JobsTypeOK'
    BY <2>1 DEF Take, JobsTypeOK, Held
  <2>q. Busy(w) => worker[w] \in Held \cup Reading /\ worker[w].job \in Jobs
    BY DEF JobsTypeOK, Busy, NoJob, Held, Reading
  <2>r. worker[w].pc \in {"read", "looking", "working"} => worker[w] \in Reading /\ Busy(w)
    BY DEF JobsTypeOK, Busy, NoJob, Held, Reading
  <2>2. CASE ReadRow(w)
    <3>1. worker[w].job \in Jobs
      BY <2>2, <2>q DEF ReadRow, Busy
    <3> QED
      BY <2>2, <3>1 DEF ReadRow, JobsTypeOK, Reading
  <2>3. CASE MarkRunning(w)
    <3>1. worker[w] \in Reading /\ worker[w].job \in Jobs
      BY <2>3, <2>q, <2>r DEF MarkRunning
    <3>2. row' \in [Jobs -> Lifecycle!Row]
      BY <2>3, <3>1 DEF MarkRunning, JobsTypeOK
    <3>3. worker' \in [Workers -> {NoJob} \cup Held \cup Reading]
      <4>1. [worker[w] EXCEPT !.pc = "looking"] \in Reading
        BY <3>1 DEF Reading
      <4> QED
        BY <2>3, <3>1, <4>1 DEF MarkRunning, JobsTypeOK
    <3> QED
      BY <2>3, <3>2, <3>3 DEF MarkRunning, JobsTypeOK
  <2>4. CASE LookUp(w)
    BY <2>4, <2>r DEF LookUp, JobsTypeOK, Reading
  <2>5. CASE Raise(w)
    <3>1. worker[w].job \in Jobs
      BY <2>5, <2>q DEF Raise, Busy
    <3> QED
      BY <2>5, <3>1 DEF Raise, JobsTypeOK
  <2>6. ASSUME NEW status \in {"completed", "failed"}, EndRun(w, status) PROVE JobsTypeOK'
    <3>1. worker[w] \in Reading /\ worker[w].job \in Jobs
      BY <2>6, <2>q, <2>r DEF EndRun
    <3> DEFINE j == worker[w].job
    <3>2. PICK new \in Updated(row[j], worker[w].error, status, worker[w].run) :
            row' = [row EXCEPT ![j] = new]
      BY <2>6 DEF EndRun
    <3>3. row[j] \in Lifecycle!Row /\ worker[w].run \in Nat /\ worker[w].error \in BOOLEAN
      BY <3>1 DEF JobsTypeOK, Reading
    <3>4. PICK e \in BOOLEAN :
            new = [status |-> status, error |-> e,
                   figures |-> IF status = "completed" THEN worker[w].run ELSE row[j].figures]
      BY <3>2 DEF Updated
    <3>5. row' \in [Jobs -> Lifecycle!Row]
      <4>1. new \in Lifecycle!Row
        BY <3>3, <3>4
      <4> QED
        BY <3>1, <3>2, <4>1 DEF JobsTypeOK
    <3> QED
      BY <2>6, <3>5 DEF EndRun, JobsTypeOK
  <2>7. CASE TimeLimit(w)
    BY <2>7, <2>q DEF TimeLimit, JobsTypeOK
  <2>8. CASE LoseWorker(w)
    BY <2>8, <2>q, CopiesAssumption DEF LoseWorker, Redelivered, JobsTypeOK
  <2>9. CASE DeliverAgain(w)
    BY <2>9, <2>q, CopiesAssumption DEF DeliverAgain, Redelivered, JobsTypeOK
  <2> QED
    BY <1>2, <2>1, <2>2, <2>3, <2>4, <2>5, <2>6, <2>7, <2>8, <2>9 DEF WorkerStep
<1>3. CASE UNCHANGED jobVars
  BY <1>3 DEF jobVars, JobsTypeOK
<1> QED
  BY <1>1, <1>2, <1>3 DEF JobsNext

(* What a worker holds at each stage. *)
LEMMA BusyWorker ==
  ASSUME JobsTypeOK, NEW w \in Workers
  PROVE  /\ Busy(w) => worker[w].job \in Jobs
         /\ worker[w].pc \in {"read", "looking", "working"} => worker[w] \in Reading /\ Busy(w)
         /\ worker[w].pc \in {"idle", "taken", "read", "looking", "working"}
         /\ Busy(w) /\ worker[w].pc # "taken" =>
              worker[w] \in Reading /\ worker[w].run \in Nat \ {0}
BY DEF JobsTypeOK, Busy, NoJob, Held, Reading

(* A job's runs are counted, and its figures are the number of one. *)
LEMMA RunNumbers ==
  ASSUME JobsTypeOK, NEW j \in Jobs
  PROVE  row[j].figures \in Nat /\ runs[j] \in Nat
BY DEF JobsTypeOK, Lifecycle!Row

\* The steps that are about one job and no worker.
LEMMA JobStepInv ==
  ASSUME JobsInv, NEW j \in Jobs, JobStep(j)
  PROVE  JobsInv'
<1>1. JobsTypeOK'
  BY TypeStep DEF JobsInv, JobsNext
<1>2. JobsTypeOK /\ JobsTypeOK'
  BY <1>1 DEF JobsInv
<1>3. worker' = worker /\ overlapped' = overlapped /\ runs' = runs
  BY DEF JobStep, Submit, Send, FailSend, EndSubmit, DeleteStrategyOf, LoseQueue
<1>4. /\ \A k \in Jobs : k # j => row'[k] = row[k] /\ api'[k] = api[k] /\ queue'[k] = queue[k]
                                 /\ copies'[k] = copies[k] /\ cause'[k] = cause[k]
      /\ With(j)' = With(j) /\ \A k \in Jobs : With(k)' = With(k)
  BY <1>2, <1>3 DEF JobStep, Submit, Send, FailSend, EndSubmit, DeleteStrategyOf, LoseQueue,
                    JobsTypeOK, With, Busy
<1>5. Alone'
  BY <1>3 DEF JobsInv, Alone, Busy
<1>6. \/ row'[j] = row[j]
      \/ /\ row[j].status = "absent" /\ row'[j].status = "pending"
         /\ row'[j].error = row[j].error /\ row'[j].figures = row[j].figures
      \/ row'[j].status = "gone" /\ row[j].status # "absent" /\ row'[j].figures = 0
  <2>1. CASE Submit(j)
    BY <1>2, <2>1 DEF Submit, JobsInv, Stored, Handed, JobsTypeOK, Lifecycle!Row
  <2>2. CASE DeleteStrategyOf(j)
    BY <1>2, <2>2 DEF DeleteStrategyOf, JobsTypeOK
  <2> QED
    BY <2>1, <2>2 DEF JobStep, Send, FailSend, EndSubmit, LoseQueue
<1>7. \A w \in Workers : Knows(w)'
  <2> TAKE w \in Workers
  <2> SUFFICES ASSUME Busy(w) PROVE Knows(w)'
    BY <1>3 DEF Knows, Handed, Busy
  <2>1. worker[w].job \in Jobs
    BY <1>2, BusyWorker
  <2>2. Knows(w)
    BY DEF JobsInv
  <2>3. CASE worker[w].job # j
    BY <1>3, <1>4, <2>1, <2>2, <2>3 DEF Knows, Handed, Begun, Busy
  <2>4. CASE worker[w].job = j
    <3>1. Handed(j) => Handed(j)'
      BY <1>2 DEF JobStep, Submit, Send, FailSend, EndSubmit, DeleteStrategyOf, LoseQueue, Handed,
                  JobsTypeOK
    <3> QED
      BY <1>2, <1>3, <1>6, <2>2, <2>4, <3>1, BusyWorker, RunNumbers
         DEF Knows, Handed, Begun, Busy
  <2> QED
    BY <2>3, <2>4
<1>8. \A k \in Jobs : Stored(k)'
  <2> TAKE k \in Jobs
  <2>1. Stored(k) /\ Stored(j)
    BY DEF JobsInv
  <2>0. row'[j].figures <= runs'[j] /\ runs' = runs
    BY <1>2, <1>3, <1>6, <2>1, RunNumbers DEF Stored
  <2>2. CASE k # j
    BY <1>4, <2>0, <2>1, <2>2 DEF Stored, Handed
  <2>3. CASE Submit(j)
    BY <1>2, <2>0, <2>1, <2>2, <2>3 DEF Stored, Handed, Submit, JobsTypeOK
  <2>4. CASE Send(j)
    BY <1>2, <2>0, <2>1, <2>2, <2>4 DEF Stored, Handed, Send, JobsTypeOK
  <2>5. CASE FailSend(j)
    BY <1>2, <2>0, <2>1, <2>2, <2>5 DEF Stored, Handed, FailSend, JobsTypeOK
  <2>6. CASE EndSubmit(j)
    BY <1>2, <2>0, <2>1, <2>2, <2>6 DEF Stored, Handed, EndSubmit, JobsTypeOK
  <2>7. CASE DeleteStrategyOf(j)
    BY <1>2, <2>0, <2>1, <2>2, <2>7 DEF Stored, Handed, DeleteStrategyOf, JobsTypeOK
  <2>8. CASE LoseQueue(j)
    BY <1>2, <2>0, <2>1, <2>2, <2>8 DEF Stored, Handed, LoseQueue, JobsTypeOK
  <2> QED
    BY <2>3, <2>4, <2>5, <2>6, <2>7, <2>8 DEF JobStep
<1>9. StuckHasCause'
  <2> SUFFICES ASSUME NEW k \in Jobs, row'[k].status \in {"pending", "running"},
                      api'[k] # "committed", queue'[k] = 0, With(k)' = {}
               PROVE  cause'[k] # {}
    BY DEF StuckHasCause
  <2>1. row[k].status \in {"pending", "running"} /\ api[k] # "committed" /\ queue[k] = 0
        /\ With(k) = {} => cause[k] # {}
    BY DEF JobsInv, StuckHasCause
  <2>2. CASE k # j
    BY <1>4, <2>1, <2>2
  <2>3. CASE Submit(j) /\ k = j
    BY <1>2, <2>3 DEF Submit, JobsTypeOK
  <2>4. CASE Send(j) /\ k = j
    BY <1>2, <2>4 DEF Send, JobsTypeOK
  <2>5. CASE FailSend(j) /\ k = j
    BY <1>2, <2>5 DEF FailSend, JobsTypeOK
  <2>6. CASE EndSubmit(j) /\ k = j
    BY <1>2, <1>4, <2>1, <2>6 DEF EndSubmit, JobsTypeOK
  <2>7. CASE DeleteStrategyOf(j) /\ k = j
    BY <1>2, <2>7 DEF DeleteStrategyOf, JobsTypeOK
  <2>8. CASE LoseQueue(j) /\ k = j
    BY <1>2, <2>8 DEF LoseQueue, JobsTypeOK
  <2> QED
    BY <2>2, <2>3, <2>4, <2>5, <2>6, <2>7, <2>8 DEF JobStep
<1>10. OutcomeIsWhole'
  BY <1>3, <1>4, <1>6 DEF JobsInv, OutcomeIsWhole
<1> QED
  BY <1>1, <1>5, <1>7, <1>8, <1>9, <1>10 DEF JobsInv

(* A row left pending or running with nothing on its way has a cause. *)
StuckAt(j) ==
  /\ row[j].status \in {"pending", "running"} /\ api[j] # "committed"
  /\ queue[j] = 0 /\ With(j) = {}
  => cause[j] # {}

(* The outcome of a job no two workers overlapped on is whole. *)
WholeAt(j) ==
  j \notin overlapped =>
    /\ row[j].status = "completed" => row[j].figures # 0 /\ ~row[j].error
    /\ row[j].status = "failed" => row[j].error /\ row[j].figures < runs[j]

\* A step of worker w on job j, which it has or takes, and after which it holds `new`.
OnJob(w, j, new) ==
  /\ worker' = [worker EXCEPT ![w] = new]
  /\ api' = api
  /\ \A k \in Jobs : k # j => /\ row'[k] = row[k] /\ queue'[k] = queue[k]
                             /\ copies'[k] = copies[k] /\ cause'[k] = cause[k]
                             /\ runs'[k] = runs[k]
                             /\ (k \in overlapped' <=> k \in overlapped)
  /\ overlapped \subseteq overlapped'
  /\ row'[j] = row[j] \/ Busy(w)
  /\ Busy(w) => worker[w].job = j
  /\ new.pc = "idle" \/ new.job = j
  /\ ~Busy(w) => With(j) = {} \/ j \in overlapped'
  /\ Handed(j)
  /\ row[j].status # "absent" /\ row'[j].status # "absent"
  /\ Begun(j) => Begun(j)'
  /\ row[j].status = "gone" => row'[j] = row[j]
  /\ runs[j] <= runs'[j] /\ row'[j].figures <= runs'[j]

\* What such a step leaves true whatever it does, and what is left to show of w and j.
LEMMA OnJobInv ==
  ASSUME JobsInv, JobsTypeOK', NEW w \in Workers, NEW j \in Jobs, NEW new, OnJob(w, j, new),
         Knows(w)', StuckAt(j)', WholeAt(j)'
  PROVE  JobsInv'
<1>1. JobsTypeOK
  BY DEF JobsInv
<1>2. worker'[w] = new /\ \A v \in Workers : v # w => worker'[v] = worker[v]
  BY <1>1 DEF OnJob, JobsTypeOK
<1>3. \A k \in Jobs : Stored(k)'
  <2> TAKE k \in Jobs
  <2>1. Stored(k) /\ Stored(j)
    BY DEF JobsInv
  <2>2. CASE k # j
    BY <2>1, <2>2 DEF OnJob, Stored, Handed
  <2>3. CASE k = j
    BY <1>1, <2>1, <2>3 DEF OnJob, Stored, Handed, JobsTypeOK
  <2> QED
    BY <2>2, <2>3
<1>4. \A v \in Workers : Knows(v)'
  <2> TAKE v \in Workers
  <2>1. CASE v = w
    BY <2>1
  <2>2. CASE v # w /\ ~Busy(v)
    BY <1>2, <2>2 DEF Knows, Handed, Busy
  <2>3. CASE v # w /\ Busy(v) /\ worker[v].job # j
    <3>1. worker[v].job \in Jobs
      BY <1>1, <2>3, BusyWorker
    <3>2. Knows(v)
      BY DEF JobsInv
    <3> QED
      BY <1>2, <2>3, <3>1, <3>2 DEF Knows, Handed, Busy, OnJob, Begun
  <2>4. CASE v # w /\ Busy(v) /\ worker[v].job = j
    <3>1. Knows(v)
      BY DEF JobsInv
    <3>2. row'[j] = row[j] \/ j \in overlapped'
      BY <2>4 DEF OnJob, JobsInv, Alone
    <3>3. worker[v].pc # "taken" => worker[v].run <= runs'[j]
      <4>1. worker[v].pc # "taken" => worker[v].run \in Nat /\ worker[v].run <= runs[j]
        BY <1>1, <2>4, <3>1, BusyWorker DEF Knows
      <4> QED
        <5>1. runs[j] \in Nat /\ runs'[j] \in Nat /\ runs[j] <= runs'[j]
          BY <1>1 DEF OnJob, JobsTypeOK
        <5> QED
          BY <4>1, <5>1
    <3> QED
      BY <1>2, <2>4, <3>1, <3>2, <3>3 DEF Knows, Handed, Busy, OnJob, Begun
  <2> QED
    BY <2>1, <2>2, <2>3, <2>4
<1>5. Alone'
  <2> SUFFICES ASSUME NEW u \in Workers, NEW v \in Workers, Busy(u)', Busy(v)', u # v,
                      worker'[u].job = worker'[v].job
               PROVE  worker'[u].job \in overlapped'
    BY DEF Alone
  <2>1. CASE u # w /\ v # w
    BY <1>2, <2>1 DEF JobsInv, Alone, Busy, OnJob
  <2>2. ASSUME NEW x \in Workers, x # w, Busy(x)', Busy(w)', worker'[x].job = worker'[w].job
        PROVE  worker'[x].job \in overlapped'
    <3>1. new.job = j /\ worker[x].job = j /\ Busy(x)
      BY <1>2, <2>2 DEF OnJob, Busy
    <3>2. CASE Busy(w)
      BY <1>2, <2>2, <3>1, <3>2 DEF OnJob, JobsInv, Alone
    <3>3. CASE ~Busy(w)
      BY <1>2, <2>2, <3>1, <3>3 DEF OnJob, With
    <3> QED
      BY <3>2, <3>3
  <2> QED
    BY <2>1, <2>2
<1>6. StuckHasCause'
  <2> SUFFICES ASSUME NEW k \in Jobs PROVE StuckAt(k)'
    BY DEF StuckHasCause, StuckAt
  <2>1. CASE k = j
    BY <2>1
  <2>2. CASE k # j
    <3>1. StuckAt(k)
      BY DEF JobsInv, StuckHasCause, StuckAt
    <3>2. With(k)' = {} => With(k) = {}
      BY <1>2, <2>2 DEF With, Busy, OnJob
    <3> QED
      BY <2>2, <3>1, <3>2 DEF StuckAt, OnJob
  <2> QED
    BY <2>1, <2>2
<1>7. OutcomeIsWhole'
  <2> SUFFICES ASSUME NEW k \in Jobs PROVE WholeAt(k)'
    BY DEF OutcomeIsWhole, WholeAt
  <2>1. CASE k = j
    BY <2>1
  <2>2. CASE k # j
    BY <2>2 DEF JobsInv, OutcomeIsWhole, WholeAt, OnJob
  <2> QED
    BY <2>1, <2>2
<1> QED
  BY <1>3, <1>4, <1>5, <1>6, <1>7 DEF JobsInv

(* A worker's step keeps the invariant. *)
LEMMA WorkerStepInv ==
  ASSUME JobsInv, NEW w \in Workers, WorkerStep(w)
  PROVE  JobsInv'
<1>1. JobsTypeOK /\ JobsTypeOK'
  BY TypeStep DEF JobsInv, JobsNext
<1>2. Knows(w) /\ \A j \in Jobs : Stored(j) /\ StuckAt(j) /\ WholeAt(j)
  BY DEF JobsInv, StuckHasCause, StuckAt, OutcomeIsWhole, WholeAt
<1>n. \A k \in Jobs : /\ row[k].figures \in Nat /\ row'[k].figures \in Nat
                      /\ runs[k] \in Nat /\ runs'[k] \in Nat /\ row[k].figures <= runs[k]
  BY <1>1, <1>2, RunNumbers DEF Stored, JobsTypeOK, Lifecycle!Row
<1>3. ASSUME NEW i \in Jobs, Take(w, i) PROVE JobsInv'
  <2> DEFINE new == [pc |-> "taken", job |-> i]
  <2>1. OnJob(w, i, new)
    BY <1>1, <1>2, <1>3, <1>n DEF Take, OnJob, JobsTypeOK, Stored, Handed, Begun
  <2>2. worker'[w] = new
    BY <1>1, <2>1 DEF OnJob, JobsTypeOK
  <2>3. Knows(w)' /\ StuckAt(i)' /\ WholeAt(i)'
    BY <1>2, <1>3, <2>1, <2>2 DEF Take, OnJob, Knows, Handed, Busy, StuckAt, WholeAt, With
  <2> QED
    BY <1>1, <2>1, <2>3, OnJobInv
<1>j. PICK j : j = worker[w].job
  OBVIOUS
<1> USE <1>j
<1>4. ASSUME Busy(w) PROVE j \in Jobs /\ Stored(j) /\ StuckAt(j) /\ WholeAt(j)
                           /\ row[j].status # "absent" /\ Handed(j)
  BY <1>1, <1>2, <1>4, BusyWorker DEF Knows, Handed
\* The worker drops the job, the row as it was, for a cause or with the message handed back.
<1>5. ASSUME Busy(w), worker' = [worker EXCEPT ![w] = NoJob],
             UNCHANGED <<row, api, overlapped, runs>>,
             \A k \in Jobs : k # j => /\ queue'[k] = queue[k] /\ copies'[k] = copies[k]
                                    /\ cause'[k] = cause[k],
             cause'[j] # {} \/ queue'[j] # 0 \/ row[j].status = "gone"
      PROVE  JobsInv'
  <2>1. OnJob(w, j, NoJob)
    BY <1>4, <1>5, <1>n DEF OnJob, NoJob, Begun, Handed
  <2>2. Knows(w)' /\ StuckAt(j)' /\ WholeAt(j)'
    BY <1>1, <1>4, <1>5 DEF Knows, Handed, Busy, NoJob, StuckAt, WholeAt, JobsTypeOK
  <2> QED
    BY <1>1, <1>4, <1>5, <2>1, <2>2, OnJobInv
\* The worker keeps the job.
<1>6. ASSUME NEW new, Busy(w), OnJob(w, j, new), new.pc # "idle", Knows(w)', WholeAt(j)'
      PROVE  JobsInv'
  <2>1. w \in With(j)'
    BY <1>1, <1>6 DEF With, Busy, OnJob, JobsTypeOK
  <2> QED
    BY <1>1, <1>4, <1>6, <2>1, OnJobInv DEF StuckAt
<1>7. CASE ReadRow(w)
  <2>1. Busy(w)
    BY <1>7 DEF ReadRow, Busy
  <2>2. CASE row[j].status = "gone"
    BY <1>5, <1>7, <2>1, <2>2 DEF ReadRow
  <2>3. CASE row[j].status # "gone"
    <3> DEFINE new == [pc |-> "read", job |-> j, run |-> runs'[j],
                       status |-> row[j].status, error |-> row[j].error]
    <3>0. runs'[j] = runs[j] + 1 /\ \A k \in Jobs : k # j => runs'[k] = runs[k]
      BY <1>1, <1>4, <1>7, <2>1, <2>3 DEF ReadRow, JobsTypeOK
    <3>1. OnJob(w, j, new)
      BY <1>4, <1>7, <1>n, <2>1, <2>3, <3>0 DEF ReadRow, OnJob, Begun, Handed
    <3>2. worker'[w] = new
      BY <1>1, <3>1 DEF OnJob, JobsTypeOK
    <3>3. Knows(w)' /\ WholeAt(j)'
      BY <1>4, <1>7, <1>n, <2>1, <2>3, <3>0, <3>2 DEF ReadRow, Knows, Handed, Begun, WholeAt
    <3> QED
      BY <1>6, <2>1, <3>1, <3>3
  <2> QED
    BY <2>2, <2>3
<1>8. CASE MarkRunning(w)
  <2>1. Busy(w)
    BY <1>8 DEF MarkRunning, Busy
  <2>2. CASE row[j].status = "gone"
    BY <1>5, <1>8, <2>1, <2>2 DEF MarkRunning
  <2>3. CASE row[j].status # "gone"
    <3> DEFINE new == [worker[w] EXCEPT !.pc = "looking"]
    <3>0. worker[w] \in Reading /\ j \in Jobs /\ row[j] \in Lifecycle!Row
      BY <1>1, <1>4, <1>8, <2>1, BusyWorker, RowType DEF MarkRunning
    <3>1. /\ new.pc = "looking" /\ new.job = j /\ new.error = worker[w].error
          /\ new.run = worker[w].run
      BY <3>0 DEF Reading
    <3>2. /\ row' = row \/ row' = [row EXCEPT ![j].status = "running"]
          /\ worker[w].status # "running" => row'[j].status = "running"
          /\ worker[w].status = "running" => row' = row
      <4>1. row' = IF worker[w].status = "running" THEN row
                   ELSE [row EXCEPT ![j].status = "running"]
        BY <1>8, <2>3 DEF MarkRunning
      <4>2. row \in [Jobs -> Lifecycle!Row]
        BY <1>1 DEF JobsTypeOK
      <4> QED
        BY <3>0, <4>1, <4>2 DEF Lifecycle!Row
    <3>3. /\ row'[j].error = row[j].error /\ row'[j].figures = row[j].figures /\ Begun(j)'
          /\ \A k \in Jobs : k # j => row'[k] = row[k]
      BY <1>1, <1>2, <1>8, <2>1, <3>0, <3>2
         DEF MarkRunning, Knows, Handed, Begun, JobsTypeOK, Lifecycle!Row
    <3>4. OnJob(w, j, new)
      BY <1>4, <1>8, <1>n, <2>1, <2>3, <3>1, <3>3 DEF MarkRunning, OnJob, Begun, Handed
    <3>5. worker'[w] = new
      BY <1>1, <3>4 DEF OnJob, JobsTypeOK
    <3>6. Knows(w)'
      BY <1>2, <1>8, <2>1, <2>3, <3>1, <3>3, <3>5 DEF MarkRunning, Knows, Handed, Begun
    <3>7. WholeAt(j)'
      BY <1>4, <1>8, <2>1, <3>2 DEF MarkRunning, WholeAt
    <3> QED
      BY <1>6, <2>1, <3>1, <3>4, <3>6, <3>7
  <2> QED
    BY <2>2, <2>3
<1>9. CASE LookUp(w)
  <2> DEFINE new == [worker[w] EXCEPT !.pc = "working"]
  <2>1. Busy(w) /\ worker[w] \in Reading
    BY <1>1, <1>9, BusyWorker DEF LookUp
  <2>2. /\ new.pc = "working" /\ new.job = j /\ new.error = worker[w].error
        /\ new.run = worker[w].run
    BY <2>1 DEF Reading
  <2>3. OnJob(w, j, new)
    BY <1>4, <1>9, <1>n, <2>1, <2>2 DEF LookUp, OnJob, Begun, Handed
  <2>4. worker'[w] = new
    BY <1>1, <2>3 DEF OnJob, JobsTypeOK
  <2>5. Knows(w)' /\ WholeAt(j)'
    BY <1>2, <1>4, <1>9, <2>1, <2>2, <2>4 DEF LookUp, Knows, Handed, Begun, WholeAt
  <2> QED
    BY <1>6, <2>1, <2>2, <2>3, <2>5
<1>10. CASE Raise(w)
  <2>1. Busy(w)
    BY <1>10 DEF Raise, Busy
  <2>2. cause'[j] # {} /\ \A k \in Jobs : k # j => cause'[k] = cause[k]
    BY <1>1, <1>4, <1>10, <2>1 DEF Raise, JobsTypeOK
  <2> QED
    BY <1>5, <1>10, <2>1, <2>2 DEF Raise
<1>11. CASE TimeLimit(w)
  <2>1. Busy(w)
    BY <1>11 DEF TimeLimit
  <2>2. cause'[j] # {} /\ \A k \in Jobs : k # j => cause'[k] = cause[k]
    BY <1>1, <1>4, <1>11, <2>1 DEF TimeLimit, JobsTypeOK
  <2> QED
    BY <1>5, <1>11, <2>1, <2>2 DEF TimeLimit
<1>12. CASE LoseWorker(w)
  <2>1. Busy(w)
    BY <1>12 DEF LoseWorker
  <2>2. /\ queue'[j] # 0
        /\ \A k \in Jobs : k # j => queue'[k] = queue[k] /\ copies'[k] = copies[k]
    BY <1>1, <1>4, <1>12, <2>1 DEF LoseWorker, Redelivered, JobsTypeOK
  <2> QED
    BY <1>5, <1>12, <2>1, <2>2 DEF LoseWorker
<1>13. CASE DeliverAgain(w)
  <2>1. Busy(w)
    BY <1>13 DEF DeliverAgain
  <2>2. \A k \in Jobs : k # j => queue'[k] = queue[k] /\ copies'[k] = copies[k]
    BY <1>1, <1>4, <1>13, <2>1 DEF DeliverAgain, Redelivered, JobsTypeOK
  <2>3. worker' = [worker EXCEPT ![w] = worker[w]]
    BY <1>1, <1>13 DEF DeliverAgain, JobsTypeOK
  <2>4. OnJob(w, j, worker[w])
    <3>1. UNCHANGED <<row, api, runs, cause, overlapped>>
      BY <1>13 DEF DeliverAgain
    <3>2. runs[j] <= runs'[j] /\ row'[j].figures <= runs'[j]
      BY <1>4, <1>n, <2>1, <3>1
    <3> QED
      BY <1>4, <2>1, <2>2, <2>3, <3>1, <3>2 DEF OnJob, Begun, Handed
  <2>5. Knows(w)' /\ WholeAt(j)'
    BY <1>2, <1>4, <1>13, <1>n, <2>1 DEF DeliverAgain, Knows, Handed, Busy, Begun, WholeAt
  <2>6. worker[w].pc # "idle"
    BY <2>1 DEF Busy
  <2> QED
    BY <1>6, <2>1, <2>4, <2>5, <2>6
<1>14. ASSUME NEW status \in {"completed", "failed"}, EndRun(w, status) PROVE JobsInv'
  <2>1. Busy(w) /\ worker[w] \in Reading /\ j \in Jobs /\ row[j] \in Lifecycle!Row
    BY <1>1, <1>4, <1>14, BusyWorker, RowType DEF EndRun
  <2>2. PICK new \in Updated(row[j], worker[w].error, status, worker[w].run) :
          row' = [row EXCEPT ![j] = new]
    BY <1>14 DEF EndRun
  <2>3. PICK e \in BOOLEAN :
          /\ Message(row[j], worker[w].error, status, e)
          /\ new = [status |-> status, error |-> e,
                    figures |-> IF status = "completed" THEN worker[w].run ELSE row[j].figures]
    BY <2>2 DEF Updated
  <2>4. row'[j] = new /\ \A k \in Jobs : k # j => row'[k] = row[k]
    BY <1>1, <2>1, <2>2 DEF JobsTypeOK
  <2>5. worker[w].pc # "taken" /\ row[j].status # "gone"
    BY <1>14 DEF EndRun
  <2>6. worker[w].run # 0 /\ worker[w].error \in BOOLEAN /\ row[j].error \in BOOLEAN
    BY <2>1 DEF Reading, Lifecycle!Row
  <2>r. worker[w].run <= runs[j] /\ runs' = runs
    BY <1>2, <1>14, <2>1, <2>5 DEF EndRun, Knows
  <2>n. row'[j].figures <= runs'[j]
    BY <1>n, <2>1, <2>3, <2>4, <2>r
  <2>7. OnJob(w, j, NoJob)
    BY <1>4, <1>14, <1>n, <2>1, <2>3, <2>4, <2>5, <2>n, <2>r
       DEF EndRun, OnJob, NoJob, Begun, Handed
  <2>8. Knows(w)' /\ StuckAt(j)'
    BY <1>1, <1>14, <2>3, <2>4 DEF EndRun, Knows, Handed, Busy, NoJob, StuckAt, JobsTypeOK
  <2>9. WholeAt(j)'
    <3> SUFFICES ASSUME j \notin overlapped
                 PROVE  /\ row'[j].status = "completed" => row'[j].figures # 0 /\ ~row'[j].error
                        /\ row'[j].status = "failed" =>
                             row'[j].error /\ row'[j].figures < runs'[j]
      BY <1>14 DEF EndRun, WholeAt
    <3>1. worker[w].error = row[j].error
      BY <1>2, <2>1, <2>5 DEF Knows, Handed
    <3>2. worker[w].pc = "working" \/ worker[w].pc = "looking"
      BY <1>14 DEF EndRun
    <3>3. CASE status = "failed"
      <4>1. e \/ (worker[w].error /\ e = row[j].error)
        BY <2>3, <3>3 DEF Message
      <4>2. row[j].figures < worker[w].run
        BY <1>2, <2>1, <2>5 DEF Knows
      <4>3. worker[w].run \in Nat
        BY <1>1, <2>1, <2>5, BusyWorker
      <4>4. row'[j].figures = row[j].figures /\ row'[j].figures < runs'[j]
        BY <1>n, <2>1, <2>3, <2>4, <2>r, <3>3, <4>2, <4>3
      <4> QED
        BY <2>3, <2>4, <2>6, <3>1, <3>3, <4>1, <4>4
    <3>4. CASE status = "completed"
      <4>1. ~e
        BY <2>3, <3>1, <3>4, Zenon DEF Message
      <4>2. row'[j].figures # 0 /\ row'[j].status = "completed" /\ row'[j].error = e
        BY <2>3, <2>4, <2>6, <3>4
      <4> QED
        BY <4>1, <4>2
    <3> QED
      BY <3>3, <3>4
  <2> QED
    BY <1>1, <2>1, <2>7, <2>8, <2>9, OnJobInv
<1> QED
  BY <1>3, <1>7, <1>8, <1>9, <1>10, <1>11, <1>12, <1>13, <1>14 DEF WorkerStep

(* Every step keeps the invariant. *)
LEMMA JobsInvStep == JobsInv /\ [JobsNext]_jobVars => JobsInv'
<1> SUFFICES ASSUME JobsInv, [JobsNext]_jobVars PROVE JobsInv'
  OBVIOUS
<1>1. CASE JobsNext
  BY <1>1, JobStepInv, WorkerStepInv DEF JobsNext
<1>2. CASE UNCHANGED jobVars
  BY <1>2 DEF jobVars, JobsInv, JobsTypeOK, Stored, Handed, Knows, Begun, Busy, Alone,
              StuckHasCause, With, OutcomeIsWhole
<1> QED
  BY <1>1, <1>2

(* Rows, queue, workers and their messages keep their types for any jobs and any workers
   (backtest.py:27-40, trading_tasks.py:165-288). *)
THEOREM JobsTypes == JobsSpec => []JobsTypeOK
<1>1. JobsInv => JobsTypeOK
  BY DEF JobsInv
<1> QED
  BY <1>1, JobsInvInit, JobsInvStep, PTL DEF JobsSpec

(* For any number of backtests, workers and redeliveries, a backtest left as pending or running
   has a cause on record (trading_tasks.py:165-288, backtest.py:27-40). *)
THEOREM StuckAlwaysHasCause == JobsSpec => []StuckHasCause
<1>1. JobsInv => StuckHasCause
  BY DEF JobsInv
<1> QED
  BY <1>1, JobsInvInit, JobsInvStep, PTL DEF JobsSpec

(* Where one worker at a time had a backtest, a completed row has figures and no message of an
   error, and a failed one has a message and no figures but those of an earlier run
   (trading_tasks.py:165-288, backtest_service.py:85-118). *)
THEOREM OutcomesAreWhole == JobsSpec => []OutcomeIsWhole
<1>1. JobsInv => OutcomeIsWhole
  BY DEF JobsInv
<1> QED
  BY <1>1, JobsInvInit, JobsInvStep, PTL DEF JobsSpec

\* Every step of the jobs is a step of a row's life, or leaves the rows alone.
LEMMA StepRefines == JobsInv /\ [JobsNext]_jobVars => [Lifecycle!LifeNext]_row
<1> SUFFICES ASSUME JobsInv, JobsNext, row' # row PROVE Lifecycle!LifeNext
  BY DEF jobVars
<1>1. JobsTypeOK /\ JobsTypeOK'
  BY TypeStep DEF JobsInv
<1>2. ASSUME NEW j \in Jobs, JobStep(j) PROVE Lifecycle!LifeNext
  <2>1. Submit(j) \/ DeleteStrategyOf(j)
    BY <1>2 DEF JobStep, Send, FailSend, EndSubmit, LoseQueue
  <2>2. CASE Submit(j)
    <3>1. Stored(j)
      BY DEF JobsInv
    <3>2. Lifecycle!Submitted(j)
      BY <2>2, <3>1 DEF Submit, Stored, Handed, Lifecycle!Submitted
    <3> QED
      BY <3>2 DEF Lifecycle!LifeNext
  <2>3. CASE DeleteStrategyOf(j)
    <3>1. Lifecycle!Deleted(j)
      BY <2>3 DEF DeleteStrategyOf, Lifecycle!Deleted
    <3> QED
      BY <3>1 DEF Lifecycle!LifeNext
  <2> QED
    BY <2>1, <2>2, <2>3
<1>3. ASSUME NEW w \in Workers, WorkerStep(w) PROVE Lifecycle!LifeNext
  <2>j. PICK j : j = worker[w].job
    OBVIOUS
  <2> USE <2>j
  <2>1. MarkRunning(w) \/ \E status \in {"completed", "failed"} : EndRun(w, status)
    BY <1>3 DEF WorkerStep, Take, ReadRow, LookUp, Raise, TimeLimit, LoseWorker, DeliverAgain
  <2>2. Knows(w)
    BY DEF JobsInv
  <2>3. CASE MarkRunning(w)
    <3>1. Busy(w) /\ j \in Jobs
      BY <1>1, <2>3, BusyWorker DEF MarkRunning, Busy
    <3>2. row[j].status # "absent" /\ row[j].status # "gone"
      BY <2>2, <2>3, <3>1 DEF MarkRunning, Knows, Handed
    <3>3. row' = [row EXCEPT ![j].status = "running"]
      BY <2>3, <3>2 DEF MarkRunning
    <3>4. Lifecycle!Started(j)
      BY <3>2, <3>3 DEF Lifecycle!Started
    <3> QED
      BY <3>1, <3>4 DEF Lifecycle!LifeNext
  <2>4. ASSUME NEW status \in {"completed", "failed"}, EndRun(w, status)
        PROVE  Lifecycle!LifeNext
    <3>1. Busy(w) /\ worker[w] \in Reading /\ j \in Jobs /\ row[j] \in Lifecycle!Row
      BY <1>1, <2>4, BusyWorker, RowType DEF EndRun
    <3>2. Begun(j) /\ row[j].status # "gone"
      BY <2>2, <2>4, <3>1 DEF EndRun, Knows, Handed
    <3>3. PICK new \in Updated(row[j], worker[w].error, status, worker[w].run) :
            row' = [row EXCEPT ![j] = new]
      BY <2>4 DEF EndRun
    <3>4. PICK e \in BOOLEAN :
            /\ Message(row[j], worker[w].error, status, e)
            /\ new = [status |-> status, error |-> e,
                      figures |-> IF status = "completed" THEN worker[w].run
                                                          ELSE row[j].figures]
      BY <3>3 DEF Updated
    <3>5. row'[j] = new
      BY <1>1, <3>1, <3>3 DEF JobsTypeOK
    <3>6. row[j].status \in {"running", "completed", "failed"}
      BY <3>1, <3>2 DEF Begun, Handed, Lifecycle!Row, Lifecycle!Statuses
    <3>7. status = "completed" => (e => row[j].error)
      BY <3>4 DEF Message
    <3>8. worker[w].run # 0
      BY <3>1 DEF Reading
    <3>9. /\ row'[j].status = status /\ row'[j].error = e
          /\ row'[j].figures = IF status = "completed" THEN worker[w].run ELSE row[j].figures
      BY <3>4, <3>5
    <3>10. row' = [row EXCEPT ![j] = row'[j]]
      BY <3>3, <3>5
    <3>11. status = "completed" => row'[j].figures # 0 /\ (row'[j].error => row[j].error)
      BY <3>7, <3>8, <3>9
    <3>12. status # "completed" => row'[j].figures = row[j].figures
      BY <3>9
    <3>13. Lifecycle!Ended(j, status)
      BY <3>6, <3>9, <3>10, <3>11, <3>12 DEF Lifecycle!Ended
    <3> QED
      BY <3>1, <3>13 DEF Lifecycle!LifeNext
  <2> QED
    BY <2>1, <2>3, <2>4
<1> QED
  BY <1>2, <1>3 DEF JobsNext

(* The request, the broker and the workers together implement the life of a row that the API
   shows its users (backtest.py:27-40, trading_tasks.py:185-288). *)
THEOREM JobsImplementLifecycle == JobsSpec => JobsRefine
<1>1. JobsInit => Lifecycle!LifeInit
  BY DEF JobsInit, Lifecycle!LifeInit
<1> QED
  BY <1>1, JobsInvInit, JobsInvStep, StepRefines, PTL DEF JobsSpec, JobsRefine, Lifecycle!LifeSpec

------------------------------------------------------------------------------
(***************************************************************************)
(*                              The price feed                             *)
(***************************************************************************)
RegistryTypes ==
  /\ channels \in [Channels -> SUBSET Sockets]
  /\ socketChannels \in [Sockets -> SUBSET Channels]
  /\ DOMAIN server = Sockets

(* The inductive invariant of the server's registry. *)
RegistryInv == RegistryTypes /\ RegistryIsKept

(* What a socket subscribes to is a channel. *)
LEMMA ChannelsKnown == \A s \in Sockets : ChannelsOf[s] \subseteq Channels
BY DEF Channels

\* Forget takes a socket out of both maps.
LEMMA ForgetKeeps ==
  ASSUME RegistryInv, NEW s \in Sockets, Forget(s)
  PROVE  /\ channels' \in [Channels -> SUBSET Sockets]
         /\ socketChannels' \in [Sockets -> SUBSET Channels]
         /\ \A c \in Channels : channels'[c] = {t \in Sockets : c \in socketChannels'[t]}
         /\ socketChannels'[s] = {}
         /\ \A t \in Sockets : t # s => socketChannels'[t] = socketChannels[t]
<1>1. /\ channels' = [c \in Channels |-> IF c \in socketChannels[s] THEN channels[c] \ {s}
                                                                   ELSE channels[c]]
      /\ socketChannels' = [socketChannels EXCEPT ![s] = {}]
  BY DEF Forget
<1>2. /\ channels \in [Channels -> SUBSET Sockets]
      /\ socketChannels \in [Sockets -> SUBSET Channels]
      /\ \A c \in Channels : channels[c] = {t \in Sockets : c \in socketChannels[t]}
  BY DEF RegistryInv, RegistryTypes, RegistryIsKept
<1>3. \A t \in Sockets : socketChannels'[t] = IF t = s THEN {} ELSE socketChannels[t]
  BY <1>1, <1>2
<1>4. ASSUME NEW c \in Channels
      PROVE  channels'[c] = {t \in Sockets : c \in socketChannels'[t]}
  <2>1. channels'[c] = IF c \in socketChannels[s] THEN channels[c] \ {s} ELSE channels[c]
    BY <1>1
  <2>2. channels[c] = {t \in Sockets : c \in socketChannels[t]}
    BY <1>2
  <2>3. \A t : t \in channels'[c] <=> t \in Sockets /\ c \in socketChannels'[t]
    BY <1>3, <2>1, <2>2
  <2>4. channels'[c] \subseteq Sockets
    BY <2>3
  <2> QED BY <2>3, <2>4
<1> QED BY <1>1, <1>2, <1>3, <1>4

(* connect() puts a socket into both maps. *)
LEMMA RegisterKeeps ==
  ASSUME RegistryInv, NEW s \in Sockets, Register(s)
  PROVE  RegistryInv'
<1>1. /\ channels' = [c \in Channels |-> IF c \in ChannelsOf[s] THEN channels[c] \cup {s}
                                                               ELSE channels[c]]
      /\ socketChannels' = [socketChannels EXCEPT ![s] = @ \cup ChannelsOf[s]]
      /\ server' = [server EXCEPT ![s] = "serving"] /\ server[s] = "accepted"
  BY DEF Register
<1>2. /\ channels \in [Channels -> SUBSET Sockets]
      /\ socketChannels \in [Sockets -> SUBSET Channels] /\ DOMAIN server = Sockets
      /\ \A c \in Channels : channels[c] = {t \in Sockets : c \in socketChannels[t]}
      /\ \A t \in Sockets : socketChannels[t] # {} => server[t] \in {"serving", "leaving"}
  BY DEF RegistryInv, RegistryTypes, RegistryIsKept
<1>3. \A t \in Sockets :
        socketChannels'[t] = IF t = s THEN socketChannels[t] \cup ChannelsOf[s]
                                      ELSE socketChannels[t]
  BY <1>1, <1>2
<1>4. ASSUME NEW c \in Channels
      PROVE  channels'[c] = {t \in Sockets : c \in socketChannels'[t]}
  <2>1. channels'[c] = IF c \in ChannelsOf[s] THEN channels[c] \cup {s} ELSE channels[c]
    BY <1>1
  <2>2. channels[c] = {t \in Sockets : c \in socketChannels[t]}
    BY <1>2
  <2>3. \A t : t \in channels[c] <=> t \in Sockets /\ c \in socketChannels[t]
    BY <2>2
  <2>5. ASSUME NEW t \in Sockets PROVE t \in channels'[c] <=> c \in socketChannels'[t]
    <3>1. CASE t = s
      BY <1>3, <2>1, <2>3, <3>1
    <3>2. CASE t # s
      BY <1>3, <2>1, <2>3, <3>2
    <3> QED BY <3>1, <3>2
  <2>4. channels'[c] \subseteq Sockets
    BY <2>1, <2>3
  <2> QED BY <2>4, <2>5
<1>5. channels' \in [Channels -> SUBSET Sockets] /\ socketChannels' \in [Sockets -> SUBSET Channels]
  BY <1>1, <1>2, ChannelsKnown
<1>6. /\ DOMAIN server' = Sockets
      /\ \A t \in Sockets : server'[t] = IF t = s THEN "serving" ELSE server[t]
  BY <1>1, <1>2
<1>7. \A t \in Sockets : socketChannels'[t] # {} => server'[t] \in {"serving", "leaving"}
  BY <1>2, <1>3, <1>6
<1> QED BY <1>4, <1>5, <1>6, <1>7 DEF RegistryInv, RegistryTypes, RegistryIsKept

\* A handler of another stage, where the socket is not in the maps or may be.
LEMMA StageKeeps ==
  ASSUME RegistryInv, NEW s \in Sockets, NEW stage,
         server' = [server EXCEPT ![s] = stage],
         server[s] \notin {"serving", "leaving"} \/ stage \in {"serving", "leaving"},
         UNCHANGED registryVars
  PROVE  RegistryInv'
<1>1. \A t \in Sockets : server'[t] = IF t = s THEN stage ELSE server[t]
  BY DEF RegistryInv, RegistryTypes
<1>2. DOMAIN server' = Sockets
  BY DEF RegistryInv, RegistryTypes
<1>3. channels' = channels /\ socketChannels' = socketChannels
  BY DEF registryVars
<1>4. \A t \in Sockets : socketChannels'[t] # {} => server'[t] \in {"serving", "leaving"}
  BY <1>1, <1>3 DEF RegistryInv, RegistryIsKept
<1>5. \A c \in Channels : channels'[c] = {t \in Sockets : c \in socketChannels'[t]}
  BY <1>3 DEF RegistryInv, RegistryIsKept
<1> QED BY <1>2, <1>3, <1>4, <1>5 DEF RegistryInv, RegistryTypes, RegistryIsKept

(* Every step keeps the registry, the hook's steps by leaving it alone. *)
LEMMA RegistryInvStep == RegistryInv /\ [FeedNext]_feedVars => RegistryInv'
<1> SUFFICES ASSUME RegistryInv, [FeedNext]_feedVars PROVE RegistryInv'
  OBVIOUS
<1>1. ASSUME UNCHANGED <<server, channels, socketChannels>> PROVE RegistryInv'
  BY <1>1 DEF RegistryInv, RegistryTypes, RegistryIsKept
<1>2. CASE UNCHANGED feedVars
  BY <1>1, <1>2 DEF feedVars, registryVars
<1>3. CASE HookStep
  <2>1. UNCHANGED <<server, registryVars>>
    BY <1>3 DEF HookStep, Mount, Opened, Closed, Reconnect, Unmount
  <2> QED BY <1>1, <2>1 DEF registryVars
<1>4. ASSUME NEW s \in Watchers, Watch(s) \/ Leave(s) PROVE RegistryInv'
  BY <1>1, <1>4 DEF Watch, Leave, registryVars
<1>5. ASSUME NEW s \in Sockets, Accept(s) PROVE RegistryInv'
  BY <1>5, StageKeeps DEF Accept
<1>6. ASSUME NEW s \in Sockets, Register(s) PROVE RegistryInv'
  BY <1>6, RegisterKeeps
<1>7. ASSUME NEW s \in Sockets, FailAccept(s) PROVE RegistryInv'
  BY <1>7, StageKeeps DEF FailAccept
<1>8. ASSUME NEW s \in Sockets, EndLoop(s) PROVE RegistryInv'
  BY <1>8, StageKeeps DEF EndLoop
<1>9. ASSUME NEW s \in Sockets, EndHandler(s) PROVE RegistryInv'
  <2>1. Forget(s) /\ server' = [server EXCEPT ![s] = "none"]
    BY <1>9 DEF EndHandler
  <2>2. /\ channels' \in [Channels -> SUBSET Sockets]
        /\ socketChannels' \in [Sockets -> SUBSET Channels]
        /\ \A c \in Channels : channels'[c] = {t \in Sockets : c \in socketChannels'[t]}
        /\ socketChannels'[s] = {}
        /\ \A t \in Sockets : t # s => socketChannels'[t] = socketChannels[t]
    BY <2>1, ForgetKeeps
  <2>3. /\ DOMAIN server' = Sockets /\ \A t \in Sockets : t # s => server'[t] = server[t]
    BY <2>1 DEF RegistryInv, RegistryTypes
  <2>4. \A t \in Sockets : socketChannels'[t] # {} => server'[t] \in {"serving", "leaving"}
    BY <2>2, <2>3 DEF RegistryInv, RegistryIsKept
  <2> QED BY <2>2, <2>3, <2>4 DEF RegistryInv, RegistryTypes, RegistryIsKept
<1>10. ASSUME NEW s \in Sockets, FindDead(s) PROVE RegistryInv'
  BY <1>1, <1>10 DEF FindDead, registryVars
<1>11. ASSUME NEW s \in Sockets, DropDead(s) PROVE RegistryInv'
  <2>1. Forget(s) /\ server' = server
    BY <1>11 DEF DropDead
  <2>2. /\ channels' \in [Channels -> SUBSET Sockets]
        /\ socketChannels' \in [Sockets -> SUBSET Channels]
        /\ \A c \in Channels : channels'[c] = {t \in Sockets : c \in socketChannels'[t]}
        /\ socketChannels'[s] = {}
        /\ \A t \in Sockets : t # s => socketChannels'[t] = socketChannels[t]
    BY <2>1, ForgetKeeps
  <2>3. \A t \in Sockets : socketChannels'[t] # {} => server'[t] \in {"serving", "leaving"}
    BY <2>1, <2>2 DEF RegistryInv, RegistryIsKept
  <2> QED BY <2>1, <2>2, <2>3 DEF RegistryInv, RegistryTypes, RegistryIsKept
<1> QED BY <1>2, <1>3, <1>4, <1>5, <1>6, <1>7, <1>8, <1>9, <1>10, <1>11 DEF FeedNext, ServerStep

(* The registry is empty to begin with. *)
LEMMA RegistryInvInit == FeedInit => RegistryInv
<1> SUFFICES ASSUME FeedInit PROVE RegistryInv
  OBVIOUS
<1>1. /\ channels = [c \in Channels |-> {}] /\ socketChannels = [s \in Sockets |-> {}]
      /\ server = [s \in Sockets |-> "none"]
  BY DEF FeedInit
<1> QED BY <1>1 DEF RegistryInv, RegistryTypes, RegistryIsKept

----------------------------------------------------------------------------
(* The feeds that live at the client. *)
Live == {s \in Feeds : socket[s] # "none"}
(* What a socket may be at its client. *)
Stages == {"none", "connecting", "open", "closing"}

(* The inductive invariant of the hook: every live socket and every timeout is one feed, one in
   all or, under StrictMode, two; where the effect ran once, the live socket is the one wsRef
   holds, the timeout the one reconnectTimer holds and the interval the one pingTimer holds, so
   that the cleanup reaches all of them. *)
HookInv ==
  /\ strict \in BOOLEAN /\ hook \in {"away", "mounted", "gone"}
  /\ socket \in [Sockets -> Stages]
  /\ waiting \in Nat /\ held \in BOOLEAN /\ (held => waiting > 0)
  /\ Cardinality(Live) + waiting <= IF strict THEN 2 ELSE 1
  /\ hook = "away" => Live = {} /\ waiting = 0
  /\ ~strict => Live \subseteq wsRef
  /\ ~strict /\ waiting > 0 => held
  /\ ~strict => \A s \in Feeds : socket[s] = "open" => s \in pinging
  /\ ~strict => pinging \subseteq pingRef /\ pinging \subseteq Live
  /\ ~strict /\ hook = "gone" => waiting = 0 /\ \A s \in Feeds : ~Alive(s)

(* Counting the live sockets. *)
LEMMA LiveFacts ==
  /\ IsFiniteSet(Live) /\ Cardinality(Live) \in Nat /\ (Cardinality(Live) = 0 <=> Live = {})
  /\ \A s \in Live : Cardinality(Live \ {s}) = Cardinality(Live) - 1
  /\ \A s : s \notin Live => Cardinality(Live \cup {s}) = Cardinality(Live) + 1
<1>1. IsFiniteSet(Live)
  BY FeedsAssumption, FS_Subset DEF Live
<1> HIDE DEF Live
<1> QED BY <1>1, FS_CardinalityType, FS_EmptySet, FS_RemoveElement, FS_AddElement

\* Alone, a live socket means that no timeout waits and no other socket lives.
LEMMA OnlyOne ==
  ASSUME HookInv, ~strict
  PROVE  /\ waiting <= 1 /\ (waiting = 1 => Live = {})
         /\ \A s, t \in Live : s = t
         /\ Live # {} => waiting = 0
<1>1. Cardinality(Live) + waiting <= 1 /\ waiting \in Nat
  BY DEF HookInv
<1>2. PICK n \in Nat : n = Cardinality(Live) /\ (n = 0 <=> Live = {})
  BY LiveFacts
<1>3. ASSUME NEW s \in Live, NEW t \in Live, s # t PROVE FALSE
  <2>1. IsFiniteSet(Live \ {s}) /\ Cardinality(Live \ {s}) = n - 1 /\ t \in Live \ {s}
    BY <1>2, <1>3, LiveFacts, FS_Subset
  <2>2. Cardinality(Live \ {s}) # 0
    BY <2>1, FS_EmptySet
  <2>3. Cardinality(Live \ {s}) \in Nat
    BY <2>1, FS_CardinalityType
  <2> QED BY <1>1, <1>2, <2>1, <2>2, <2>3
<1> QED BY <1>1, <1>2, <1>3

\* A step that leaves the hook and the feeds alone.
LEMMA FeedsUntouched ==
  ASSUME HookInv, socket' \in [Sockets -> Stages],
         \A s \in Feeds : socket'[s] = socket[s],
         UNCHANGED <<strict, hook, wsRef, waiting, held, pinging, pingRef>>
  PROVE  HookInv'
<1>1. Live' = Live
  BY DEF Live
<1>2. \A s \in Feeds : Alive(s)' = Alive(s)
  BY DEF Alive
<1> QED BY <1>1, <1>2 DEF HookInv

(* The effect opens one socket, or two under StrictMode. *)
LEMMA MountKeeps ==
  ASSUME HookInv, NEW first \in Feeds, NEW second \in Feeds, NEW token \in BOOLEAN,
         Mount(first, second, token)
  PROVE  HookInv'
<1>1. /\ hook = "away" /\ first # second /\ hook' = "mounted"
      /\ UNCHANGED <<strict, waiting, held, pinging, pingRef>>
  BY DEF Mount
<1>2. /\ Live = {} /\ waiting = 0 /\ held = FALSE /\ strict \in BOOLEAN
      /\ socket \in [Sockets -> Stages] /\ {first, second} \subseteq Sockets
  BY <1>1 DEF HookInv, Sockets
<1>3. \A s \in Feeds : socket[s] = "none"
  BY <1>2 DEF Live
<1>6. CASE ~token
  <2>1. UNCHANGED <<socket, wsRef>>
    BY <1>6 DEF Mount
  <2>2. Live' = Live /\ \A s \in Feeds : ~Alive(s)'
    BY <1>3, <2>1 DEF Live, Alive
  <2> QED BY <1>1, <1>2, <2>1, <2>2 DEF HookInv
<1>4. CASE token /\ strict
  <2>1. socket' = [socket EXCEPT ![first] = "closing", ![second] = "connecting"]
    BY <1>4 DEF Mount
  <2>2. socket' \in [Sockets -> Stages]
    BY <1>2, <2>1 DEF Stages
  <2>3. Live' = {first, second}
    <3>1. \A t \in Feeds : socket'[t] # "none" <=> t = first \/ t = second
      BY <1>1, <1>2, <1>3, <2>1 DEF Sockets
    <3> QED BY <3>1 DEF Live
  <2>4. Cardinality(Live') = 2
    <3>1. Cardinality({first}) = 1 /\ IsFiniteSet({first})
      BY FS_Singleton
    <3>2. Cardinality({first} \cup {second}) = 1 + 1
      BY <1>1, <3>1, FS_AddElement
    <3>3. {first} \cup {second} = {first, second}
      OBVIOUS
    <3> QED BY <2>3, <3>2, <3>3
  <2> QED BY <1>1, <1>2, <1>4, <2>2, <2>4 DEF HookInv
<1>5. CASE token /\ ~strict
  <2>1. socket' = [socket EXCEPT ![first] = "connecting"] /\ wsRef' = {first}
    BY <1>5 DEF Mount
  <2>2. socket' \in [Sockets -> Stages]
    BY <1>2, <2>1 DEF Stages
  <2>3. Live' = {first}
    BY <1>2, <1>3, <2>1 DEF Live
  <2>4. Cardinality(Live') = 1
    BY <2>3, FS_Singleton
  <2>5. \A s \in Feeds : socket'[s] # "open"
    BY <1>2, <1>3, <2>1
  <2>6. pinging' = {}
    BY <1>1, <1>2, <1>5 DEF HookInv
  <2> QED BY <1>1, <1>2, <1>5, <2>1, <2>2, <2>3, <2>4, <2>5, <2>6 DEF HookInv
<1> QED BY <1>2, <1>4, <1>5, <1>6

(* onopen starts to ping. *)
LEMMA OpenedKeeps ==
  ASSUME HookInv, NEW s \in Sockets, Opened(s)
  PROVE  HookInv'
<1>1. /\ socket[s] = "connecting" /\ socket' = [socket EXCEPT ![s] = "open"]
      /\ pinging' = IF s \in Feeds THEN pinging \cup {s} ELSE pinging
      /\ pingRef' = IF s \in Feeds THEN {s} ELSE pingRef
      /\ UNCHANGED <<strict, hook, wsRef, waiting, held>>
  BY DEF Opened
<1>2. socket \in [Sockets -> Stages] /\ socket' \in [Sockets -> Stages]
  BY <1>1 DEF HookInv, Stages
<1>3. \A t \in Sockets : socket'[t] = IF t = s THEN "open" ELSE socket[t]
  BY <1>1, <1>2
<1>4. Live' = Live
  BY <1>1, <1>3 DEF Live, Sockets
<1>5. ~strict => \A t \in Feeds : socket'[t] = "open" => t \in pinging'
  BY <1>1, <1>3 DEF HookInv, Sockets
<1>6. ASSUME ~strict, hook = "gone" PROVE \A t \in Feeds : ~Alive(t)'
  <2>1. \A t \in Feeds : ~Alive(t)
    BY <1>6 DEF HookInv
  <2>2. s \notin Feeds
    BY <1>1, <2>1 DEF Alive
  <2> QED BY <1>3, <2>1, <2>2 DEF Alive, Sockets
<1>7. ASSUME ~strict PROVE pinging' \subseteq pingRef' /\ pinging' \subseteq Live'
  <2>1. pinging \subseteq pingRef /\ pinging \subseteq Live
    BY <1>7 DEF HookInv
  <2>2. CASE s \in Feeds
    <3>1. s \in Live /\ \A t \in Live : t = s
      BY <1>1, <1>7, <2>2, OnlyOne DEF Live
    <3>2. pinging' = pinging \cup {s} /\ pingRef' = {s}
      BY <1>1, <2>2
    <3> QED BY <1>4, <2>1, <3>1, <3>2
  <2> QED BY <1>1, <1>4, <2>1, <2>2
<1> QED BY <1>1, <1>2, <1>4, <1>5, <1>6, <1>7 DEF HookInv

(* onclose trades a live socket for a timeout. *)
LEMMA ClosedKeeps ==
  ASSUME HookInv, NEW s \in Sockets, Closed(s)
  PROVE  HookInv'
<1>1. /\ s \in Feeds /\ socket[s] # "none" /\ socket' = [socket EXCEPT ![s] = "none"]
      /\ waiting' = IF hook # "gone" THEN waiting + 1 ELSE waiting
      /\ held' = (held \/ hook # "gone")
      /\ pinging' = pinging \ pingRef
      /\ UNCHANGED <<strict, hook, wsRef>>
  BY DEF Closed, Reconnects
<1>2. /\ socket \in [Sockets -> Stages] /\ socket' \in [Sockets -> Stages]
      /\ waiting \in Nat /\ strict \in BOOLEAN /\ held \in BOOLEAN /\ (held => waiting > 0)
  BY <1>1 DEF HookInv, Stages
<1>3. \A t \in Sockets : socket'[t] = IF t = s THEN "none" ELSE socket[t]
  BY <1>1, <1>2
<1>4. s \in Live /\ Live' = Live \ {s}
  BY <1>1, <1>3 DEF Live, Sockets
<1>5. Cardinality(Live') + waiting' <= IF strict THEN 2 ELSE 1
  <2>1. Cardinality(Live') = Cardinality(Live) - 1 /\ Cardinality(Live) \in Nat
    BY <1>4, LiveFacts
  <2>2. Cardinality(Live) + waiting <= IF strict THEN 2 ELSE 1
    BY DEF HookInv
  <2>3. waiting' <= waiting + 1 /\ waiting' \in Nat
    BY <1>1, <1>2
  <2> QED BY <1>1, <1>2, <2>1, <2>2, <2>3
<1>6. waiting' \in Nat /\ held' \in BOOLEAN /\ (held' => waiting' > 0)
  BY <1>1, <1>2
<1>7. hook # "away"
  BY <1>4 DEF HookInv
<1>8. ASSUME ~strict
      PROVE  /\ Live' = {} /\ (waiting' > 0 => held')
             /\ hook = "gone" => waiting' = 0
  <2>1. Live' = {} /\ waiting = 0
    BY <1>4, <1>8, OnlyOne
  <2>2. CASE hook = "gone"
    <3>1. waiting' = 0 /\ ~(waiting' > 0)
      BY <1>1, <2>1, <2>2
    <3> QED BY <2>1, <3>1
  <2>3. CASE hook # "gone"
    <3>1. held'
      BY <1>1, <2>3
    <3> QED BY <2>1, <2>3, <3>1
  <2> QED BY <2>2, <2>3
<1>9. \A t \in Feeds : t \notin Live' => ~Alive(t)' /\ socket'[t] # "open"
  BY DEF Live, Alive
<1>10. hook \in {"away", "mounted", "gone"}
  BY DEF HookInv
<1>11. ~strict => pinging' = {}
  BY <1>1 DEF HookInv
<1> QED BY <1>1, <1>2, <1>5, <1>6, <1>7, <1>8, <1>9, <1>10, <1>11 DEF HookInv

(* A timeout that fires is traded for a live socket, or for nothing. *)
LEMMA ReconnectKeeps ==
  ASSUME HookInv, NEW ofRef \in BOOLEAN, NEW token \in BOOLEAN, NEW s \in Feeds,
         Reconnect(ofRef, s, token)
  PROVE  HookInv'
<1>1. /\ waiting \in Nat /\ held \in BOOLEAN /\ (held => waiting > 0)
      /\ strict \in BOOLEAN /\ hook \in {"away", "mounted", "gone"}
      /\ socket \in [Sockets -> Stages] /\ s \in Sockets
  BY DEF HookInv, Sockets
<1>2. /\ IF ofRef THEN held ELSE waiting > (IF held THEN 1 ELSE 0)
      /\ waiting' = waiting - 1 /\ held' = (held /\ ~ofRef)
      /\ UNCHANGED <<strict, hook, pingRef>>
  BY DEF Reconnect
<1>3. /\ waiting > 0 /\ waiting' \in Nat /\ held' \in BOOLEAN /\ (held' => waiting' > 0)
  <2>1. CASE ofRef
    <3>1. held /\ held' = FALSE
      BY <1>2, <2>1
    <3> QED BY <1>1, <1>2, <3>1
  <2>2. CASE ~ofRef /\ held
    <3>1. waiting > 1 /\ held' = TRUE
      BY <1>2, <2>2
    <3> QED BY <1>1, <1>2, <3>1
  <2>3. CASE ~ofRef /\ ~held
    <3>1. waiting > 0 /\ held' = FALSE
      BY <1>2, <2>3
    <3> QED BY <1>1, <1>2, <3>1
  <2> QED BY <2>1, <2>2, <2>3
<1>4. hook # "away" /\ (~strict => hook # "gone")
  BY <1>1, <1>3 DEF HookInv
<1>5. ASSUME ~strict PROVE waiting' = 0 /\ Live = {}
  <2>1. waiting <= 1 /\ (waiting = 1 => Live = {})
    BY <1>5, OnlyOne
  <2> QED BY <1>1, <1>2, <1>3, <2>1
<1>6. CASE UNCHANGED <<socket, wsRef, pinging>>
  <2>1. Live' = Live /\ \A t \in Feeds : Alive(t)' = Alive(t)
    BY <1>6 DEF Live, Alive
  <2>2. Cardinality(Live') + waiting' <= IF strict THEN 2 ELSE 1
    <3>1. Cardinality(Live) + waiting <= IF strict THEN 2 ELSE 1
      BY DEF HookInv
    <3>2. Cardinality(Live) \in Nat
      BY LiveFacts
    <3> QED BY <1>1, <1>2, <2>1, <3>1, <3>2
  <2>3. ~strict => \A t \in Feeds : socket'[t] = "open" => t \in pinging'
    BY <1>2, <1>6 DEF HookInv
  <2>4. ~strict => Live' \subseteq wsRef'
    BY <1>6, <2>1 DEF HookInv
  <2>5. ~strict => pinging' \subseteq pingRef' /\ pinging' \subseteq Live'
    BY <1>2, <1>6, <2>1 DEF HookInv
  <2> QED BY <1>1, <1>2, <1>3, <1>4, <1>5, <1>6, <2>1, <2>2, <2>3, <2>4, <2>5 DEF HookInv
<1>7. CASE /\ Unused(s) /\ socket' = [socket EXCEPT ![s] = "connecting"] /\ wsRef' = {s}
           /\ pinging' = pinging \ {s}
  <2>1. socket' \in [Sockets -> Stages]
    BY <1>1, <1>7 DEF Stages
  <2>2. \A t \in Sockets : socket'[t] = IF t = s THEN "connecting" ELSE socket[t]
    BY <1>1, <1>7
  <2>3. s \notin Live /\ Live' = Live \cup {s}
    BY <1>7, <2>2 DEF Live, Unused, Sockets
  <2>4. Cardinality(Live') + waiting' <= IF strict THEN 2 ELSE 1
    <3>1. Cardinality(Live) + waiting <= IF strict THEN 2 ELSE 1
      BY DEF HookInv
    <3>2. Cardinality(Live) \in Nat /\ Cardinality(Live') = Cardinality(Live) + 1
      BY <2>3, LiveFacts
    <3> QED BY <1>1, <1>2, <3>1, <3>2
  <2>5. ~strict => Live' \subseteq wsRef'
    BY <1>5, <1>7, <2>3
  <2>6. ~strict => \A t \in Feeds : socket'[t] # "open"
    <3>1. ~strict => \A t \in Feeds : socket[t] = "none"
      BY <1>5 DEF Live
    <3> QED BY <2>2, <3>1 DEF Sockets
  <2>7. ~strict => pinging' = {}
    BY <1>5, <1>7 DEF HookInv
  <2> QED BY <1>1, <1>2, <1>3, <1>4, <1>5, <2>1, <2>4, <2>5, <2>6, <2>7 DEF HookInv
<1> QED BY <1>6, <1>7 DEF Reconnect

(* The cleanup closes the socket and clears the timeout it holds. *)
LEMMA UnmountKeeps ==
  ASSUME HookInv, Unmount
  PROVE  HookInv'
<1>1. /\ hook = "mounted" /\ hook' = "gone"
      /\ waiting' = IF held THEN waiting - 1 ELSE waiting
      /\ held' = FALSE
      /\ socket' = [s \in Sockets |-> IF s \in wsRef /\ socket[s] # "none" THEN "closing"
                                                                             ELSE socket[s]]
      /\ pinging' = pinging \ pingRef
      /\ UNCHANGED <<strict, wsRef>>
  BY DEF Unmount
<1>2. /\ waiting \in Nat /\ held \in BOOLEAN /\ (held => waiting > 0) /\ strict \in BOOLEAN
      /\ socket \in [Sockets -> Stages]
      /\ Cardinality(Live) + waiting <= IF strict THEN 2 ELSE 1
  BY DEF HookInv
<1>3. socket' \in [Sockets -> Stages]
  BY <1>1, <1>2 DEF Stages
<1>4. Live' = Live
  BY <1>1 DEF Live, Sockets
<1>5. Cardinality(Live') + waiting' <= IF strict THEN 2 ELSE 1
  <2>1. Cardinality(Live) \in Nat
    BY LiveFacts
  <2> QED BY <1>1, <1>2, <1>4, <2>1
<1>6. waiting' \in Nat
  BY <1>1, <1>2
<1>7. ASSUME ~strict PROVE waiting' = 0
  <2>1. waiting <= 1 /\ (waiting > 0 => held)
    BY <1>7, OnlyOne DEF HookInv
  <2> QED BY <1>1, <1>2, <2>1
<1>8. ASSUME ~strict PROVE \A s \in Feeds : ~Alive(s)' /\ socket'[s] # "open"
  <2> SUFFICES ASSUME NEW s \in Feeds PROVE socket'[s] \notin {"connecting", "open"}
    BY DEF Alive
  <2>1. socket[s] = "none" \/ s \in wsRef
    BY <1>8 DEF HookInv, Live
  <2> QED BY <1>1, <2>1 DEF Sockets
<1>9. ~strict => Live' \subseteq wsRef'
  BY <1>1, <1>4 DEF HookInv
<1>10. held' \in BOOLEAN /\ ~held' /\ (~strict => ~(waiting' > 0))
  <2>1. held' = FALSE
    BY <1>1
  <2>2. held' \in BOOLEAN /\ ~held'
    BY <2>1
  <2>3. ASSUME ~strict PROVE ~(waiting' > 0)
    <3>1. waiting' = 0
      BY <1>7, <2>3
    <3> QED BY <3>1
  <2> QED BY <2>2, <2>3
<1>11. strict' = strict /\ hook' = "gone" /\ strict' \in BOOLEAN
  BY <1>1, <1>2
<1>12. ~strict => pinging' = {}
  BY <1>1 DEF HookInv
<1> QED BY <1>3, <1>5, <1>6, <1>7, <1>8, <1>9, <1>10, <1>11, <1>12 DEF HookInv

(* The server closing a connection leaves a socket that will close. *)
LEMMA EndHandlerKeeps ==
  ASSUME HookInv, NEW s \in Sockets, EndHandler(s)
  PROVE  HookInv'
<1>1. /\ socket' = [socket EXCEPT ![s] = IF @ = "none" THEN "none" ELSE "closing"]
      /\ UNCHANGED <<strict, hook, wsRef, waiting, held, pinging, pingRef>>
  BY DEF EndHandler
<1>2. socket \in [Sockets -> Stages] /\ socket' \in [Sockets -> Stages]
  BY <1>1 DEF HookInv, Stages
<1>3. \A t \in Sockets :
        socket'[t] = IF t = s /\ socket[t] # "none" THEN "closing" ELSE socket[t]
  BY <1>1, <1>2
<1>4. Live' = Live
  BY <1>3 DEF Live, Sockets
<1>5. \A t \in Feeds : (Alive(t)' => Alive(t)) /\ (socket'[t] = "open" => socket[t] = "open")
  BY <1>3 DEF Alive, Sockets
<1> QED BY <1>1, <1>2, <1>4, <1>5 DEF HookInv

(* Every step keeps the hook's feeds. *)
LEMMA HookInvStep == HookInv /\ [FeedNext]_feedVars => HookInv'
<1> SUFFICES ASSUME HookInv, [FeedNext]_feedVars PROVE HookInv'
  OBVIOUS
<1>0. socket \in [Sockets -> Stages]
  BY DEF HookInv
<1>1. ASSUME UNCHANGED clientVars PROVE HookInv'
  BY <1>0, <1>1, FeedsUntouched DEF clientVars
<1>2. CASE UNCHANGED feedVars
  BY <1>1, <1>2 DEF feedVars
<1>3. CASE HookStep
  BY <1>3, MountKeeps, OpenedKeeps, ClosedKeeps, ReconnectKeeps, UnmountKeeps DEF HookStep
<1>4. ASSUME NEW s \in Watchers, Watch(s) \/ Leave(s) PROVE HookInv'
  <2>1. s \notin Feeds /\ s \in Sockets
    BY FeedsAssumption DEF Sockets
  <2>2. \E stage \in Stages : socket' = [socket EXCEPT ![s] = stage]
    BY <1>4 DEF Watch, Leave, Stages
  <2>3. UNCHANGED <<strict, hook, wsRef, waiting, held, pinging, pingRef>>
    BY <1>4 DEF Watch, Leave
  <2>4. /\ socket' \in [Sockets -> Stages] /\ \A t \in Feeds : socket'[t] = socket[t]
    BY <1>0, <2>1, <2>2 DEF Sockets
  <2> QED BY <2>3, <2>4, FeedsUntouched
<1>5. ASSUME NEW s \in Sockets,
             Accept(s) \/ Register(s) \/ FailAccept(s) \/ EndLoop(s) \/ FindDead(s) \/ DropDead(s)
      PROVE  HookInv'
  BY <1>1, <1>5 DEF Accept, Register, FailAccept, EndLoop, FindDead, DropDead
<1> QED BY <1>2, <1>3, <1>4, <1>5, EndHandlerKeeps DEF FeedNext, ServerStep

(* Nothing is open to begin with. *)
LEMMA HookInvInit == FeedInit => HookInv
<1> SUFFICES ASSUME FeedInit PROVE HookInv
  OBVIOUS
<1>1. /\ socket = [s \in Sockets |-> "none"] /\ waiting = 0 /\ held = FALSE
      /\ strict \in BOOLEAN /\ hook = "away"
  BY DEF FeedInit
<1>2. Live = {}
  BY <1>1 DEF Live, Sockets
<1>3. Cardinality(Live) = 0
  BY <1>2, FS_EmptySet
<1>4. socket \in [Sockets -> Stages] /\ \A s \in Feeds : socket[s] # "open"
  BY <1>1 DEF Stages, Sockets
<1>5. ~held /\ held \in BOOLEAN
  BY <1>1
<1>6. waiting \in Nat /\ ~(waiting > 0) /\ Cardinality(Live) + waiting = 0
  BY <1>1, <1>3
<1>7. Cardinality(Live) + waiting <= IF strict THEN 2 ELSE 1
  BY <1>6
<1>8. pinging = {}
  BY DEF FeedInit
<1> QED BY <1>1, <1>2, <1>4, <1>5, <1>6, <1>7, <1>8 DEF HookInv

\* What the hook's refs and the handlers hold, whatever the sockets do.
RefTypes ==
  /\ wsRef \subseteq Feeds /\ Cardinality(wsRef) <= 1
  /\ pinging \subseteq Feeds /\ pingRef \subseteq Feeds /\ Cardinality(pingRef) <= 1
  /\ server \in [Sockets -> {"none", "accepted", "serving", "leaving"}]
  /\ doomed \subseteq Sockets

(* Nothing is held to begin with. *)
LEMMA RefTypesInit == FeedInit => RefTypes
<1> SUFFICES ASSUME FeedInit PROVE RefTypes
  OBVIOUS
<1>1. /\ wsRef = {} /\ pinging = {} /\ pingRef = {} /\ doomed = {}
      /\ server = [s \in Sockets |-> "none"]
  BY DEF FeedInit
<1>2. Cardinality(wsRef) = 0 /\ Cardinality(pingRef) = 0
  BY <1>1, FS_EmptySet
<1> QED BY <1>1, <1>2 DEF RefTypes

(* Every step keeps the types. *)
LEMMA RefTypesStep == RefTypes /\ [FeedNext]_feedVars => RefTypes'
<1> SUFFICES ASSUME RefTypes, [FeedNext]_feedVars PROVE RefTypes'
  OBVIOUS
<1>1. /\ Cardinality({}) = 0
      /\ \A s : Cardinality({s}) = 1
  BY FS_EmptySet, FS_Singleton
<1>2. CASE UNCHANGED feedVars
  BY <1>2 DEF RefTypes, feedVars, clientVars
<1>3. ASSUME NEW first \in Feeds, NEW second \in Feeds, NEW token \in BOOLEAN,
             Mount(first, second, token)
      PROVE  RefTypes'
  <2>1. wsRef' = {first} \/ wsRef' = {second} \/ wsRef' = wsRef
    BY <1>3 DEF Mount
  <2>2. UNCHANGED <<pinging, pingRef, server, doomed>>
    BY <1>3 DEF Mount
  <2>3. Cardinality(wsRef') <= 1
    <3>1. CASE wsRef' = wsRef
      BY <3>1 DEF RefTypes
    <3>2. CASE wsRef' = {first}
      BY <1>1, <3>2
    <3>3. CASE wsRef' = {second}
      BY <1>1, <3>3
    <3> QED BY <2>1, <3>1, <3>2, <3>3
  <2>4. wsRef' \subseteq Feeds
    BY <2>1 DEF RefTypes
  <2> QED BY <2>2, <2>3, <2>4 DEF RefTypes
<1>4. ASSUME NEW s \in Sockets, Opened(s) PROVE RefTypes'
  <2>1. /\ pinging' = IF s \in Feeds THEN pinging \cup {s} ELSE pinging
        /\ pingRef' = IF s \in Feeds THEN {s} ELSE pingRef
        /\ UNCHANGED <<wsRef, server, doomed>>
    BY <1>4 DEF Opened
  <2>2. CASE s \in Feeds
    <3>1. pingRef' = {s} /\ pinging' = pinging \cup {s}
      BY <2>1, <2>2
    <3> QED BY <1>1, <2>1, <2>2, <3>1 DEF RefTypes
  <2>3. CASE s \notin Feeds
    BY <2>1, <2>3 DEF RefTypes
  <2> QED BY <2>2, <2>3
<1>5. ASSUME NEW s \in Sockets, Closed(s) PROVE RefTypes'
  BY <1>1, <1>5 DEF Closed, RefTypes
<1>6. ASSUME NEW ofRef \in BOOLEAN, NEW s \in Feeds, NEW token \in BOOLEAN,
             Reconnect(ofRef, s, token)
      PROVE  RefTypes'
  <2>1. wsRef' = {s} \/ wsRef' = wsRef
    BY <1>6 DEF Reconnect
  <2>2. pinging' \subseteq pinging /\ UNCHANGED <<pingRef, server, doomed>>
    BY <1>6 DEF Reconnect
  <2>3. Cardinality(wsRef') <= 1
    <3>1. Cardinality(wsRef) <= 1
      BY DEF RefTypes
    <3>2. CASE wsRef' = {s}
      BY <1>1, <3>2
    <3>3. CASE wsRef' = wsRef
      BY <3>1, <3>3
    <3> QED BY <2>1, <3>2, <3>3
  <2>4. wsRef' \subseteq Feeds
    BY <2>1 DEF RefTypes
  <2> QED BY <2>2, <2>3, <2>4 DEF RefTypes
<1>7. CASE Unmount
  BY <1>1, <1>7 DEF Unmount, RefTypes
<1>8. ASSUME NEW s \in Watchers, Watch(s) \/ Leave(s) PROVE RefTypes'
  BY <1>8 DEF Watch, Leave, RefTypes
<1>9. ASSUME NEW s \in Sockets,
             Accept(s) \/ Register(s) \/ FailAccept(s) \/ EndLoop(s) \/ EndHandler(s)
               \/ FindDead(s) \/ DropDead(s)
      PROVE  RefTypes'
  <2>1. UNCHANGED <<wsRef, pinging, pingRef>>
    BY <1>9 DEF Accept, Register, FailAccept, EndLoop, EndHandler, FindDead, DropDead, clientVars
  <2>2. PICK stage \in {"none", "accepted", "serving", "leaving"} :
          server' = [server EXCEPT ![s] = stage] \/ server' = server
    BY <1>9 DEF Accept, Register, FailAccept, EndLoop, EndHandler, FindDead, DropDead
  <2>3. doomed' \subseteq Sockets
    BY <1>9 DEF Accept, Register, FailAccept, EndLoop, EndHandler, FindDead, DropDead, RefTypes
  <2> QED BY <2>1, <2>2, <2>3 DEF RefTypes
<1> QED BY <1>2, <1>3, <1>4, <1>5, <1>6, <1>7, <1>8, <1>9 DEF FeedNext, HookStep, ServerStep

(* Types of the feed, for any sockets and channels: each ref holds one thing at most, and a
   timeout that is held is under way (usePriceFeed.ts:18-72, manager.py:20-69). *)
THEOREM FeedTypes == FeedSpec => []FeedTypeOK
<1>1. RegistryInv /\ HookInv /\ RefTypes => FeedTypeOK
  BY DEF RegistryInv, RegistryTypes, HookInv, Stages, RefTypes, FeedTypeOK
<1> QED BY <1>1, RegistryInvInit, RegistryInvStep, HookInvInit, HookInvStep,
           RefTypesInit, RefTypesStep, PTL DEF FeedSpec

(* For any number of sockets, of the feed and of other clients: the server's two maps stay each
   other's inverse and free of sockets nobody serves, and closing late, failing and reconnecting
   never multiply the feed nor let it outlive its component, where React ran the effect once
   (usePriceFeed.ts:18-72, manager.py:30-69, handlers.py:27-112). *)
THEOREM FeedsStayTended == FeedSpec => []FeedsAreTended
<1>1. RegistryInv /\ HookInv => FeedsAreTended
  BY DEF RegistryInv, HookInv, FeedsAreTended, FeedIsSingle, Live
<1> QED BY <1>1, RegistryInvInit, RegistryInvStep, HookInvInit, HookInvStep, PTL DEF FeedSpec

(***************************************************************************)
(*                         The condition evaluator                         *)
(***************************************************************************)
(* The leaves of all trees. *)
Leaves == {n \in Trees : IsLeaf(n)}

(* A node joins conditions of the levels before its own. *)
LEMMA TreeFacts ==
  ASSUME NEW k \in 1..Len(Levels), NEW n \in Levels[k]
  PROVE  /\ n \in Trees /\ k \in Nat
         /\ ~IsLeaf(n) =>
              /\ n.op \in {"AND", "OR"}
              /\ DOMAIN n.kids = 1..Len(n.kids) /\ Len(n.kids) \in Nat
              /\ \A i \in DOMAIN n.kids :
                   n.kids[i] \in Trees /\ \E j \in 1..(k - 1) : n.kids[i] \in Levels[j]
<1>1. k \in DOMAIN Levels /\ n \in Trees /\ Len(Levels) \in Nat /\ k \in Nat
  BY LevelsAssumption DEF Trees
<1>2. ASSUME ~IsLeaf(n), NEW i \in DOMAIN n.kids
      PROVE  n.kids[i] \in Trees /\ \E j \in 1..(k - 1) : n.kids[i] \in Levels[j]
  <2>1. PICK j \in 1..(k - 1) : n.kids[i] \in Levels[j]
    BY <1>1, <1>2, LevelsAssumption DEF Before
  <2>2. j \in DOMAIN Levels
    BY <1>1, LevelsAssumption
  <2> QED BY <2>1, <2>2 DEF Trees
<1> QED BY <1>1, <1>2, LevelsAssumption

(* Every tree is in some level. *)
LEMMA TreeHasLevel ==
  ASSUME NEW n \in Trees
  PROVE  \E k \in 1..Len(Levels) : n \in Levels[k]
BY LevelsAssumption DEF Trees

(* Of trees, if any, one joins none of them: the first level they occur in has it. *)
LEMMA LeastTree ==
  ASSUME NEW Bad \in SUBSET Trees, Bad # {}
  PROVE  \E n \in Bad : ~IsLeaf(n) => \A i \in DOMAIN n.kids : n.kids[i] \in Trees \ Bad
<1> DEFINE At == {k \in 1..Len(Levels) : \E n \in Bad : n \in Levels[k]}
<1>1. At \in SUBSET Nat /\ At # {}
  BY LevelsAssumption, TreeHasLevel
<1>2. PICK k \in At : \A j \in At : k <= j
  <2> HIDE DEF At
  <2> QED BY <1>1, LeastExists
<1>3. PICK n \in Bad : n \in Levels[k]
  BY <1>2
<1>4. ASSUME ~IsLeaf(n), NEW i \in DOMAIN n.kids PROVE n.kids[i] \in Trees \ Bad
  <2>1. k \in 1..Len(Levels) /\ Len(Levels) \in Nat
    BY <1>2, LevelsAssumption
  <2>2. PICK j \in 1..(k - 1) : n.kids[i] \in Trees /\ n.kids[i] \in Levels[j]
    BY <1>3, <1>4, <2>1, TreeFacts
  <2>3. j \in 1..Len(Levels) /\ ~(k <= j)
    BY <2>1
  <2>4. j \notin At
    <3> HIDE DEF At
    <3> QED BY <1>2, <2>3
  <2> QED BY <2>2, <2>3, <2>4
<1> QED BY <1>3, <1>4

(* What a recursive function over the trees makes of a tree, given what it makes of others:
   only those that the tree joins count. *)
IsTreeStep(step, V) ==
  /\ step \in [Trees \X [Trees -> V] -> V]
  /\ \A n \in Trees : \A f, g \in [Trees -> V] :
       (~IsLeaf(n) => \A i \in DOMAIN n.kids : f[n.kids[i]] = g[n.kids[i]])
       => step[<<n, f>>] = step[<<n, g>>]

(* Such a function exists: after as many rounds as there are levels nothing changes. *)
LEMMA TreeRecursionExists ==
  ASSUME NEW V, NEW v \in V, NEW step, IsTreeStep(step, V)
  PROVE  \E f \in [Trees -> V] : \A n \in Trees : f[n] = step[<<n, f>>]
<1> DEFINE F == [Trees -> V]
           N == Len(Levels)
           round == [p \in (1..(N + 1)) \X F |-> [n \in Trees |-> step[<<n, p[2]>>]]]
           first == [n \in Trees |-> v]
<1>1. N \in Nat /\ N + 1 \in Nat /\ first \in F
  BY LevelsAssumption
<1>2. round \in Steps(N + 1, F)
  BY DEF Steps, IsTreeStep
<1>3. PICK r : IsRun(r, F, first, N + 1, round)
  <2> HIDE DEF F, N, round, first
  <2> QED BY <1>1, <1>2, RecursionExists
<1>4. ASSUME NEW k \in 1..(N + 1) PROVE /\ k \in Nat /\ r[k] \in F /\ r[k - 1] \in F
                                        /\ \A n \in Trees : r[k][n] = step[<<n, r[k - 1]>>]
  <2>1. r \in [0..(N + 1) -> F] /\ k \in 0..(N + 1) /\ k - 1 \in 0..(N + 1) /\ k \in Nat
    BY <1>1, <1>3 DEF IsRun
  <2>2. r[k] = round[<<k, r[k - 1]>>] /\ r[k] \in F /\ r[k - 1] \in F
    BY <1>3, <2>1 DEF IsRun
  <2> QED BY <2>1, <2>2
<1> DEFINE Settled(k) == \A n \in Levels[k], j \in k..(N + 1) : r[j][n] = r[k][n]
           Bad == {k \in 1..N : ~Settled(k)}
<1>5. Bad = {}
  <2> SUFFICES ASSUME Bad # {} PROVE FALSE
    OBVIOUS
  <2>1. PICK k \in Bad : \A j \in Bad : k <= j
    <3>1. Bad \in SUBSET Nat
      BY <1>1
    <3> HIDE DEF Bad
    <3> QED BY <3>1, LeastExists
  <2>2. k \in 1..N /\ ~Settled(k)
    OBVIOUS
  <2>3. \A j \in 1..(k - 1) : j \in 1..N /\ Settled(j)
    <3> SUFFICES ASSUME NEW j \in 1..(k - 1) PROVE j \in 1..N /\ Settled(j)
      OBVIOUS
    <3>1. j \in 1..N /\ ~(k <= j)
      BY <1>1, <2>2
    <3>2. j \notin Bad
      <4> HIDE DEF Bad
      <4> QED BY <2>1, <3>1
    <3> HIDE DEF Settled
    <3> QED BY <3>1, <3>2
  <2>4. PICK n \in Levels[k], j \in k..(N + 1) : r[j][n] # r[k][n]
    BY <2>2
  <2>5. j \in 1..(N + 1) /\ k \in 1..(N + 1) /\ k <= j /\ n \in Trees
    BY <1>1, <2>2, TreeFacts
  <2>6. ASSUME ~IsLeaf(n), NEW i \in DOMAIN n.kids
        PROVE  r[j - 1][n.kids[i]] = r[k - 1][n.kids[i]]
    <3>1. PICK m \in 1..(k - 1) : n.kids[i] \in Levels[m]
      BY <2>2, <2>6, TreeFacts
    <3>2. m \in m..(N + 1) /\ k - 1 \in m..(N + 1) /\ j - 1 \in m..(N + 1)
      BY <1>1, <2>2, <2>5
    <3>3. Settled(m)
      BY <2>3
    <3> QED BY <3>1, <3>2, <3>3
  <2>7. /\ r[j][n] = step[<<n, r[j - 1]>>] /\ r[k][n] = step[<<n, r[k - 1]>>]
        /\ r[j - 1] \in F /\ r[k - 1] \in F
    BY <1>4, <2>5
  <2>8. step[<<n, r[j - 1]>>] = step[<<n, r[k - 1]>>]
    BY <2>5, <2>6, <2>7 DEF IsTreeStep
  <2> QED BY <2>4, <2>7, <2>8
<1>6. N + 1 \in 1..(N + 1)
  BY <1>1
<1>7. /\ r[N + 1] \in F /\ r[N] \in F
      /\ \A n \in Trees : r[N + 1][n] = step[<<n, r[N]>>]
  <2>1. (N + 1) - 1 = N
    BY <1>1
  <2> QED BY <1>4, <1>6, <2>1
<1>8. ASSUME NEW n \in Trees PROVE step[<<n, r[N + 1]>>] = step[<<n, r[N]>>]
  <2>1. PICK k \in 1..N : n \in Levels[k]
    BY TreeHasLevel
  <2>2. ASSUME ~IsLeaf(n), NEW i \in DOMAIN n.kids
        PROVE  r[N + 1][n.kids[i]] = r[N][n.kids[i]]
    <3>1. PICK j \in 1..(k - 1) : n.kids[i] \in Levels[j]
      BY <2>1, <2>2, TreeFacts
    <3>2. j \in 1..N /\ N \in j..(N + 1) /\ N + 1 \in j..(N + 1)
      BY <1>1, <2>1
    <3>3. Settled(j)
      <4> HIDE DEF Settled
      <4> QED BY <1>5, <3>2
    <3> QED BY <3>1, <3>2, <3>3
  <2> QED BY <1>7, <2>2 DEF IsTreeStep
<1> QED BY <1>7, <1>8

----------------------------------------------------------------------------
(* flatten is the recursion by which FlattenSeq joins the sequences ss. *)
IsFlatten(flatten, ss) ==
  flatten = [i \in 1..Len(ss) |-> IF i = 1 THEN ss[i] ELSE flatten[i - 1] \o ss[i]]

(* What two sequences joined hold. *)
LEMMA JoinedFacts ==
  ASSUME NEW A, NEW s \in Seq(A), NEW t \in Seq(A)
  PROVE  /\ s \o t \in Seq(A)
         /\ ToSet(s) \subseteq ToSet(s \o t) /\ ToSet(t) \subseteq ToSet(s \o t)
<1>1. /\ s \o t \in Seq(A) /\ Len(s \o t) = Len(s) + Len(t)
      /\ Len(s) \in Nat /\ Len(t) \in Nat
      /\ DOMAIN s = 1..Len(s) /\ DOMAIN t = 1..Len(t) /\ DOMAIN (s \o t) = 1..Len(s \o t)
  OBVIOUS
<1>2. \A i \in DOMAIN s : i \in DOMAIN (s \o t) /\ (s \o t)[i] = s[i]
  BY <1>1
<1>3. \A i \in DOMAIN t : Len(s) + i \in DOMAIN (s \o t) /\ (s \o t)[Len(s) + i] = t[i]
  BY <1>1
<1> QED BY <1>1, <1>2, <1>3 DEF ToSet

(* Sequences joined are a sequence that holds what they hold. *)
LEMMA FlattenFacts ==
  ASSUME NEW A, NEW ss \in Seq(Seq(A))
  PROVE  /\ FlattenSeq(ss) \in Seq(A)
         /\ \A i \in DOMAIN ss : ToSet(ss[i]) \subseteq ToSet(FlattenSeq(ss))
<1> DEFINE N == Len(ss)
           join == [p \in (1..N) \X Seq(A) |-> p[2] \o ss[p[1]]]
           all == CHOOSE f : IsFlatten(f, ss)
<1>1. N \in Nat /\ DOMAIN ss = 1..N /\ (\A i \in 1..N : ss[i] \in Seq(A)) /\ <<>> \in Seq(A)
  OBVIOUS
<1>2. CASE N = 0
  BY <1>1, <1>2 DEF FlattenSeq
<1>3. CASE N # 0
  <2>1. FlattenSeq(ss) = all[N]
    BY <1>3 DEF FlattenSeq, IsFlatten
  <2>2. PICK r : IsRun(r, Seq(A), <<>>, N, join)
    <3>1. join \in Steps(N, Seq(A))
      BY <1>1 DEF Steps
    <3> HIDE DEF N, join
    <3> QED BY <1>1, <3>1, RecursionExists
  <2>3. \A k \in 1..N : /\ k - 1 \in 0..N /\ r[k - 1] \in Seq(A) /\ r[k] \in Seq(A)
                         /\ r[k] = r[k - 1] \o ss[k]
    <3> SUFFICES ASSUME NEW k \in 1..N
                 PROVE  /\ k - 1 \in 0..N /\ r[k - 1] \in Seq(A) /\ r[k] \in Seq(A)
                        /\ r[k] = r[k - 1] \o ss[k]
      OBVIOUS
    <3>1. k - 1 \in 0..N /\ k \in 0..N
      BY <1>1
    <3>2. r[k - 1] \in Seq(A) /\ r[k] \in Seq(A) /\ r[k] = join[<<k, r[k - 1]>>]
      BY <2>2, <3>1 DEF IsRun
    <3> QED BY <3>1, <3>2
  <2>4. IsFlatten([k \in 1..N |-> r[k]], ss)
    <3> SUFFICES ASSUME NEW k \in 1..N
                 PROVE  r[k] = IF k = 1 THEN ss[k] ELSE [j \in 1..N |-> r[j]][k - 1] \o ss[k]
      BY DEF IsFlatten
    <3>1. CASE k = 1
      <4>1. k - 1 = 0 /\ ss[k] \in Seq(A) /\ r[k] = r[k - 1] \o ss[k]
        BY <1>1, <2>3, <3>1
      <4>2. r[0] = <<>>
        BY <2>2 DEF IsRun
      <4>3. <<>> \o ss[k] = ss[k]
        BY <4>1
      <4> QED BY <3>1, <4>1, <4>2, <4>3
    <3>2. CASE k # 1
      <4>1. k - 1 \in 1..N
        BY <1>1, <3>2
      <4> QED BY <2>3, <3>2, <4>1
    <3> QED BY <3>1, <3>2
  <2>5. IsFlatten(all, ss)
    BY <2>4
  <2> HIDE DEF all
  <2>6. \A k \in 1..N : all[k] = IF k = 1 THEN ss[k] ELSE all[k - 1] \o ss[k]
    BY <2>5 DEF IsFlatten
  <2> DEFINE Good(k) == /\ all[k] \in Seq(A)
                       /\ \A i \in 1..k : ToSet(ss[i]) \subseteq ToSet(all[k])
             Bad == {k \in 1..N : ~Good(k)}
  <2>7. Bad = {}
    <3> SUFFICES ASSUME Bad # {} PROVE FALSE
      OBVIOUS
    <3>1. PICK k \in Bad : \A j \in Bad : k <= j
      <4>1. Bad \in SUBSET Nat
        BY <1>1
      <4> HIDE DEF Bad
      <4> QED BY <4>1, LeastExists
    <3>2. k \in 1..N /\ ~Good(k)
      OBVIOUS
    <3>3. k # 1
      <4>1. 1 \in 1..N => all[1] = ss[1]
        BY <2>6
      <4>2. \A i \in 1..1 : i = 1
        OBVIOUS
      <4>3. 1 \in 1..N => Good(1)
        BY <1>1, <4>1, <4>2
      <4> HIDE DEF Good
      <4> QED BY <3>2, <4>3
    <3>4. /\ k - 1 \in 1..N /\ ~(k <= k - 1)
          /\ all[k] = all[k - 1] \o ss[k] /\ ss[k] \in Seq(A)
      <4>1. k \in 1..N /\ k # 1
        BY <3>2, <3>3
      <4> HIDE DEF Good, Bad
      <4>2. k - 1 \in 1..N /\ ~(k <= k - 1)
        BY <1>1, <4>1
      <4>3. all[k] = all[k - 1] \o ss[k]
        BY <2>6, <4>1
      <4> QED BY <1>1, <4>1, <4>2, <4>3
    <3>5. Good(k - 1)
      <4>1. k - 1 \notin Bad
        <5> HIDE DEF Bad
        <5> QED BY <3>1, <3>4
      <4> HIDE DEF Good
      <4> QED BY <3>4, <4>1
    <3>6. /\ all[k] \in Seq(A) /\ ToSet(all[k - 1]) \subseteq ToSet(all[k])
          /\ ToSet(ss[k]) \subseteq ToSet(all[k])
      BY <3>4, <3>5, JoinedFacts
    <3>7. \A i \in 1..k : i = k \/ i \in 1..(k - 1)
      BY <3>2
    <3> QED BY <3>2, <3>5, <3>6, <3>7
  <2>8. Good(N)
    <3> HIDE DEF Good
    <3> QED BY <1>1, <1>3, <2>7
  <2> QED BY <1>1, <2>1, <2>8
<1> QED BY <1>2, <1>3

----------------------------------------------------------------------------
(* The recursion by which LeavesOf walks the trees. *)
IsWalk(walk) ==
  walk = [n \in Trees |->
            IF IsLeaf(n) THEN <<n>> ELSE FlattenSeq([i \in DOMAIN n.kids |-> walk[n.kids[i]]])]

(* The walk of a node is in Seq(Leaves) if those of its conditions are. *)
LEMMA WalkOfNode ==
  ASSUME NEW n \in Trees, ~IsLeaf(n), NEW walk \in [Trees -> Seq(Leaves)]
  PROVE  LET ss == [i \in DOMAIN n.kids |-> walk[n.kids[i]]]
         IN /\ ss \in Seq(Seq(Leaves)) /\ FlattenSeq(ss) \in Seq(Leaves)
            /\ \A i \in DOMAIN n.kids : ToSet(walk[n.kids[i]]) \subseteq ToSet(FlattenSeq(ss))
<1> DEFINE ss == [i \in DOMAIN n.kids |-> walk[n.kids[i]]]
<1>1. PICK k \in 1..Len(Levels) : n \in Levels[k]
  BY TreeHasLevel
<1>2. /\ DOMAIN n.kids = 1..Len(n.kids) /\ Len(n.kids) \in Nat
      /\ \A i \in DOMAIN n.kids : n.kids[i] \in Trees
  BY <1>1, TreeFacts
<1>3. ss \in [1..Len(n.kids) -> Seq(Leaves)]
  BY <1>2
<1>4. ss \in Seq(Seq(Leaves)) /\ DOMAIN ss = DOMAIN n.kids
  BY <1>2, <1>3
<1>5. \A i \in DOMAIN n.kids : ss[i] = walk[n.kids[i]]
  OBVIOUS
<1> HIDE DEF ss
<1>6. /\ FlattenSeq(ss) \in Seq(Leaves)
      /\ \A i \in DOMAIN ss : ToSet(ss[i]) \subseteq ToSet(FlattenSeq(ss))
  BY <1>4, FlattenFacts
<1>7. /\ ss \in Seq(Seq(Leaves)) /\ FlattenSeq(ss) \in Seq(Leaves)
      /\ \A i \in DOMAIN n.kids : ToSet(walk[n.kids[i]]) \subseteq ToSet(FlattenSeq(ss))
  BY <1>4, <1>5, <1>6
<1> QED BY <1>7 DEF ss

(* LeavesOf gives leaves, that of a leaf itself, and loses none of those of a condition. *)
LEMMA LeavesFacts ==
  /\ LeavesOf \in [Trees -> Seq(Leaves)]
  /\ \A n \in Trees :
       /\ IsLeaf(n) => ToSet(LeavesOf[n]) = {n}
       /\ ~IsLeaf(n) => \A i \in DOMAIN n.kids :
                           ToSet(LeavesOf[n.kids[i]]) \subseteq ToSet(LeavesOf[n])
<1> DEFINE V == Seq(Leaves)
           W == [Trees -> V]
           Of(n, walk) == IF IsLeaf(n) THEN <<n>>
                          ELSE FlattenSeq([i \in DOMAIN n.kids |-> walk[n.kids[i]]])
           step == [p \in Trees \X W |-> Of(p[1], p[2])]
<1>1. \A n \in Trees, walk \in W : Of(n, walk) \in V
  <2> SUFFICES ASSUME NEW n \in Trees, NEW walk \in W PROVE Of(n, walk) \in V
    OBVIOUS
  <2>1. CASE IsLeaf(n)
    <3>1. n \in Leaves
      BY <2>1 DEF Leaves
    <3> QED BY <2>1, <3>1
  <2>2. CASE ~IsLeaf(n)
    BY <2>2, WalkOfNode
  <2> QED BY <2>1, <2>2
<1>2. \A n \in Trees : \A f, g \in W :
        (~IsLeaf(n) => \A i \in DOMAIN n.kids : f[n.kids[i]] = g[n.kids[i]]) => Of(n, f) = Of(n, g)
  <2> SUFFICES ASSUME NEW n \in Trees, NEW f \in W, NEW g \in W,
                      ~IsLeaf(n) => \A i \in DOMAIN n.kids : f[n.kids[i]] = g[n.kids[i]]
               PROVE  Of(n, f) = Of(n, g)
    OBVIOUS
  <2>1. ~IsLeaf(n) =>
          [i \in DOMAIN n.kids |-> f[n.kids[i]]] = [i \in DOMAIN n.kids |-> g[n.kids[i]]]
    OBVIOUS
  <2> QED BY <2>1
<1>3. IsTreeStep(step, V) /\ <<>> \in V
  <2> HIDE DEF Of, V
  <2>1. step \in [Trees \X [Trees -> V] -> V]
    BY <1>1
  <2>2. \A n \in Trees : \A f \in W : step[<<n, f>>] = Of(n, f)
    OBVIOUS
  <2>3. <<>> \in V
    BY DEF V
  <2> QED BY <1>2, <2>1, <2>2, <2>3 DEF IsTreeStep
<1>4. PICK walk \in [Trees -> V] : \A n \in Trees : walk[n] = step[<<n, walk>>]
  <2> HIDE DEF step, V
  <2> QED BY <1>3, TreeRecursionExists
<1>5. IsWalk(walk)
  <2>1. \A n \in Trees : walk[n] = Of(n, walk)
    <3> HIDE DEF Of, V
    <3> QED BY <1>4
  <2> QED BY <1>4, <2>1 DEF IsWalk
<1>6. IsWalk(LeavesOf)
  BY <1>5 DEF LeavesOf, IsWalk
<1>7. DOMAIN LeavesOf = Trees /\ \A n \in Trees : LeavesOf[n] = Of(n, LeavesOf)
  BY <1>6 DEF IsWalk
<1>8. LeavesOf = [n \in Trees |-> LeavesOf[n]]
  BY <1>6 DEF IsWalk
<1> DEFINE Bad == {n \in Trees : LeavesOf[n] # walk[n]}
<1>9. Bad = {}
  <2> SUFFICES ASSUME Bad # {} PROVE FALSE
    OBVIOUS
  <2>1. PICK n \in Bad : ~IsLeaf(n) => \A i \in DOMAIN n.kids : n.kids[i] \in Trees \ Bad
    <3>1. Bad \in SUBSET Trees
      OBVIOUS
    <3> HIDE DEF Bad
    <3> QED BY <3>1, LeastTree
  <2>2. n \in Trees /\ LeavesOf[n] # walk[n]
    OBVIOUS
  <2>3. ~IsLeaf(n) => \A i \in DOMAIN n.kids : LeavesOf[n.kids[i]] = walk[n.kids[i]]
    BY <2>1
  <2>4. ~IsLeaf(n) => [i \in DOMAIN n.kids |-> LeavesOf[n.kids[i]]]
                      = [i \in DOMAIN n.kids |-> walk[n.kids[i]]]
    BY <2>3
  <2>5. LeavesOf[n] = Of(n, LeavesOf) /\ walk[n] = Of(n, walk)
    <3>1. walk[n] = step[<<n, walk>>]
      BY <1>4, <2>2
    <3> HIDE DEF Of, V, Bad
    <3> QED BY <1>7, <2>2, <3>1
  <2>6. Of(n, LeavesOf) = Of(n, walk)
    BY <2>4
  <2> QED BY <2>2, <2>5, <2>6
<1>10. LeavesOf \in W
  <2> HIDE DEF V, Of, step
  <2> QED BY <1>4, <1>8, <1>9
<1>11. ASSUME NEW n \in Trees, IsLeaf(n) PROVE ToSet(LeavesOf[n]) = {n}
  <2>1. LeavesOf[n] = <<n>>
    BY <1>7, <1>11
  <2> QED BY <2>1 DEF ToSet
<1>12. ASSUME NEW n \in Trees, ~IsLeaf(n), NEW i \in DOMAIN n.kids
       PROVE  ToSet(LeavesOf[n.kids[i]]) \subseteq ToSet(LeavesOf[n])
  <2>1. LeavesOf[n] = FlattenSeq([j \in DOMAIN n.kids |-> LeavesOf[n.kids[j]]])
    BY <1>7, <1>12
  <2> QED BY <1>10, <1>12, <2>1, WalkOfNode
<1> QED BY <1>10, <1>11, <1>12

----------------------------------------------------------------------------
(* f says of every tree whether it is true, where `holds` says it of the leaves. *)
Joins(n, f) ==
  \/ n.op = "AND" /\ \A i \in DOMAIN n.kids : f[n.kids[i]]
  \/ n.op = "OR" /\ \E i \in DOMAIN n.kids : f[n.kids[i]]

IsVerdict(f, holds) ==
  f \in [Trees -> BOOLEAN] /\ \A n \in Trees : f[n] = IF IsLeaf(n) THEN holds[n] ELSE Joins(n, f)

(* There is such a function for any leaves. *)
LEMMA VerdictExists ==
  ASSUME NEW holds \in [Trees -> BOOLEAN]
  PROVE  \E f : IsVerdict(f, holds)
<1> DEFINE F == [Trees -> BOOLEAN]
           Of(n, f) == IF IsLeaf(n) THEN holds[n] ELSE Joins(n, f)
           step == [p \in Trees \X F |-> Of(p[1], p[2])]
<1>1. \A n \in Trees, f \in F : Of(n, f) \in BOOLEAN
  BY DEF Joins
<1>2. \A n \in Trees : \A f, g \in F :
        (~IsLeaf(n) => \A i \in DOMAIN n.kids : f[n.kids[i]] = g[n.kids[i]]) => Of(n, f) = Of(n, g)
  BY DEF Joins
<1>3. IsTreeStep(step, BOOLEAN)
  <2> HIDE DEF Of
  <2>1. step \in [Trees \X [Trees -> BOOLEAN] -> BOOLEAN]
    BY <1>1
  <2>2. \A n \in Trees : \A f \in F : step[<<n, f>>] = Of(n, f)
    OBVIOUS
  <2> QED BY <1>2, <2>1, <2>2 DEF IsTreeStep
<1>4. PICK f \in [Trees -> BOOLEAN] : \A n \in Trees : f[n] = step[<<n, f>>]
  <2> HIDE DEF step
  <2> QED BY <1>3, TreeRecursionExists
<1>5. \A n \in Trees : f[n] = Of(n, f)
  <2> HIDE DEF Of
  <2> QED BY <1>4
<1> QED BY <1>4, <1>5 DEF IsVerdict

(* Conditions are monotone in their leaves: there is no NOT. *)
LEMMA VerdictsFollow ==
  ASSUME NEW p, NEW q, NEW f, NEW g, IsVerdict(f, p), IsVerdict(g, q), NEW t \in Trees, f[t],
         \A l \in ToSet(LeavesOf[t]) : p[l] => q[l]
  PROVE  g[t]
<1> DEFINE Bad == {n \in Trees : /\ f[n] /\ ~g[n]
                                /\ \A l \in ToSet(LeavesOf[n]) : p[l] => q[l]}
<1>1. Bad = {}
  <2> SUFFICES ASSUME Bad # {} PROVE FALSE
    OBVIOUS
  <2>1. PICK n \in Bad : ~IsLeaf(n) => \A i \in DOMAIN n.kids : n.kids[i] \in Trees \ Bad
    <3>1. Bad \in SUBSET Trees
      OBVIOUS
    <3> HIDE DEF Bad
    <3> QED BY <3>1, LeastTree
  <2>2. n \in Trees /\ f[n] /\ ~g[n] /\ \A l \in ToSet(LeavesOf[n]) : p[l] => q[l]
    OBVIOUS
  <2>3. CASE IsLeaf(n)
    BY <2>2, <2>3, LeavesFacts DEF IsVerdict
  <2>4. CASE ~IsLeaf(n)
    <3>1. \A i \in DOMAIN n.kids : f[n.kids[i]] => g[n.kids[i]]
      <4> SUFFICES ASSUME NEW i \in DOMAIN n.kids, f[n.kids[i]] PROVE g[n.kids[i]]
        OBVIOUS
      <4>1. n.kids[i] \in Trees \ Bad
        BY <2>1, <2>4
      <4>2. ToSet(LeavesOf[n.kids[i]]) \subseteq ToSet(LeavesOf[n])
        BY <2>2, <2>4, LeavesFacts
      <4> QED BY <2>2, <4>1, <4>2
    <3>2. Joins(n, f) /\ ~Joins(n, g)
      BY <2>2, <2>4 DEF IsVerdict
    <3> QED BY <3>1, <3>2 DEF Joins
  <2> QED BY <2>3, <2>4
<1> QED BY <1>1 DEF IsVerdict

(* The recursions of the evaluator and of the meaning. *)
IsMatched(f, m, leaves) ==
  f = [n \in Trees |-> IF IsLeaf(n) THEN EvalLeaf(m, leaves, n)
                       ELSE \/ n.op = "AND" /\ \A i \in DOMAIN n.kids : f[n.kids[i]]
                            \/ n.op = "OR" /\ \E i \in DOMAIN n.kids : f[n.kids[i]]]
IsMeant(f, m, g) ==
  f = [n \in Trees |-> IF IsLeaf(n) THEN LeafMeans(m, g, n)
                       ELSE \/ n.op = "AND" /\ \A i \in DOMAIN n.kids : f[n.kids[i]]
                            \/ n.op = "OR" /\ \E i \in DOMAIN n.kids : f[n.kids[i]]]

(* What the code computes, and what the tree says, are such functions. *)
LEMMA EvalTreeIsVerdict ==
  ASSUME NEW m, NEW leaves
  PROVE  IsVerdict(EvalTree(m, leaves), [n \in Trees |-> EvalLeaf(m, leaves, n)])
<1> DEFINE holds == [n \in Trees |-> EvalLeaf(m, leaves, n)]
<1>1. holds \in [Trees -> BOOLEAN]
  BY DEF EvalLeaf
<1>2. \A n \in Trees : holds[n] = EvalLeaf(m, leaves, n)
  OBVIOUS
<1> HIDE DEF holds
<1>3. PICK f : IsVerdict(f, holds)
  BY <1>1, VerdictExists
<1>4. IsMatched(f, m, leaves)
  <2>1. \A n \in Trees : f[n] = IF IsLeaf(n) THEN EvalLeaf(m, leaves, n) ELSE Joins(n, f)
    BY <1>2, <1>3 DEF IsVerdict
  <2>2. f = [n \in Trees |-> f[n]]
    BY <1>3 DEF IsVerdict
  <2> QED BY <2>1, <2>2 DEF IsMatched, Joins
<1>5. EvalTree(m, leaves) = CHOOSE g : IsMatched(g, m, leaves)
  BY DEF EvalTree, IsMatched
<1>6. IsMatched(EvalTree(m, leaves), m, leaves)
  BY <1>4, <1>5
<1> DEFINE e == EvalTree(m, leaves)
<1> HIDE DEF e
<1>7. /\ e = [n \in Trees |-> e[n]]
      /\ \A n \in Trees : e[n] = IF IsLeaf(n) THEN EvalLeaf(m, leaves, n) ELSE Joins(n, e)
  BY <1>6 DEF IsMatched, Joins, e
<1>8. \A n \in Trees : e[n] \in BOOLEAN
  BY <1>1, <1>2, <1>7 DEF Joins
<1>9. IsVerdict(e, holds)
  BY <1>2, <1>7, <1>8 DEF IsVerdict
<1> QED BY <1>9 DEF e, holds

(* The way the tree asks to be read is a verdict too, of what its leaves mean. *)
LEMMA MeansIsVerdict ==
  ASSUME NEW m, NEW g
  PROVE  IsVerdict(Means(m, g), [n \in Trees |-> LeafMeans(m, g, n)])
<1> DEFINE holds == [n \in Trees |-> LeafMeans(m, g, n)]
<1>1. holds \in [Trees -> BOOLEAN]
  BY DEF LeafMeans
<1>2. \A n \in Trees : holds[n] = LeafMeans(m, g, n)
  OBVIOUS
<1> HIDE DEF holds
<1>3. PICK f : IsVerdict(f, holds)
  BY <1>1, VerdictExists
<1>4. IsMeant(f, m, g)
  <2>1. \A n \in Trees : f[n] = IF IsLeaf(n) THEN LeafMeans(m, g, n) ELSE Joins(n, f)
    BY <1>2, <1>3 DEF IsVerdict
  <2>2. f = [n \in Trees |-> f[n]]
    BY <1>3 DEF IsVerdict
  <2> QED BY <2>1, <2>2 DEF IsMeant, Joins
<1>5. Means(m, g) = CHOOSE h : IsMeant(h, m, g)
  BY DEF Means, IsMeant
<1>6. IsMeant(Means(m, g), m, g)
  BY <1>4, <1>5
<1> DEFINE e == Means(m, g)
<1> HIDE DEF e
<1>7. /\ e = [n \in Trees |-> e[n]]
      /\ \A n \in Trees : e[n] = IF IsLeaf(n) THEN LeafMeans(m, g, n) ELSE Joins(n, e)
  BY <1>6 DEF IsMeant, Joins, e
<1>8. \A n \in Trees : e[n] \in BOOLEAN
  BY <1>1, <1>2, <1>7 DEF Joins
<1>9. IsVerdict(e, holds)
  BY <1>2, <1>7, <1>8 DEF IsVerdict
<1> QED BY <1>9 DEF e, holds

----------------------------------------------------------------------------
(* Of naturals up to N, if any, one is the greatest. *)
LEMMA LastPlaceExists ==
  ASSUME NEW N \in Nat, NEW P \in SUBSET (0..N), P # {}
  PROVE  \E i \in P : \A k \in P : i >= k
<1> DEFINE Behind == {N - i : i \in P}
<1>1. Behind \in SUBSET Nat /\ Behind # {}
  <2>1. \A i \in P : i \in 0..N
    OBVIOUS
  <2>2. \A i \in 0..N : N - i \in Nat
    OBVIOUS
  <2> QED BY <2>1, <2>2
<1>2. PICK d \in Behind : \A e \in Behind : d <= e
  <2> HIDE DEF Behind
  <2> QED BY <1>1, LeastExists
<1>3. PICK i \in P : d = N - i
  BY <1>2
<1>4. \A k \in P : N - i <= N - k
  BY <1>2, <1>3
<1>5. \A k \in P : i >= k
  <2> SUFFICES ASSUME NEW k \in P PROVE i >= k
    OBVIOUS
  <2>1. i \in Nat /\ k \in Nat /\ N - i <= N - k
    BY <1>4
  <2> QED BY <2>1
<1> QED BY <1>5

(* The parameters of an indicator that is needed are those of one of its leaves. *)
LEMMA PlacesFacts ==
  ASSUME NEW leaves \in Seq(Leaves), NEW ind, Needed(leaves, ind)
  PROVE  /\ First(leaves, ind) \in 1..Len(leaves)
         /\ LastLeaf(leaves, ind) \in ToSet(leaves) /\ LastLeaf(leaves, ind).ind = ind
<1> DEFINE P == Places(leaves, ind)
<1>1. /\ P \subseteq 1..Len(leaves) /\ P # {} /\ Len(leaves) \in Nat
      /\ DOMAIN leaves = 1..Len(leaves)
  BY DEF Needed, Places
<1>2. \A i \in P : leaves[i].ind = ind
  BY DEF Places
<1> HIDE DEF P
<1>3. \E i \in P : \A k \in P : i <= k
  <2>1. P \in SUBSET Nat
    BY <1>1
  <2> QED BY <1>1, <2>1, LeastExists
<1>4. \E i \in P : \A k \in P : i >= k
  <2>1. P \in SUBSET (0..Len(leaves))
    BY <1>1
  <2> QED BY <1>1, <2>1, LastPlaceExists
<1>5. First(leaves, ind) \in P
  BY <1>3 DEF First, P
<1>6. PICK i \in P : LastLeaf(leaves, ind) = leaves[i]
  BY <1>4 DEF LastLeaf, P
<1> QED BY <1>1, <1>2, <1>5, <1>6 DEF ToSet

(* A look-up that finds a value finds that of the last leaf of an indicator kept under the key. *)
LEMMA LookedFacts ==
  ASSUME NEW m, NEW leaves \in Seq(Leaves), NEW ind, NEW tf
  PROVE  LET kept == {k \in Keepers(leaves, ind, tf) : Computed(m, LastLeaf(leaves, k)) # Absent}
         IN /\ kept = {} => Looked(m, leaves, ind, tf) = Absent
            /\ kept # {} =>
                 \E k \in kept : Looked(m, leaves, ind, tf) = Computed(m, LastLeaf(leaves, k))
<1> DEFINE kept == {k \in Keepers(leaves, ind, tf) : Computed(m, LastLeaf(leaves, k)) # Absent}
           last == CHOOSE k \in kept : \A l \in kept : First(leaves, k) >= First(leaves, l)
<1>1. Looked(m, leaves, ind, tf) = IF kept = {} THEN Absent ELSE Computed(m, LastLeaf(leaves, last))
  BY DEF Looked
<1>2. ASSUME kept # {} PROVE last \in kept
  <2> DEFINE P == {First(leaves, k) : k \in kept}
  <2>1. \A k \in kept : Needed(leaves, k)
    BY DEF Keepers
  <2>2. \A k \in kept : First(leaves, k) \in 1..Len(leaves)
    <3> HIDE DEF kept
    <3> QED BY <2>1, PlacesFacts
  <2>3. P \in SUBSET (0..Len(leaves)) /\ P # {} /\ Len(leaves) \in Nat
    <3> HIDE DEF kept
    <3> QED BY <1>2, <2>2
  <2>4. PICK i \in P : \A j \in P : i >= j
    <3> HIDE DEF P
    <3> QED BY <2>3, LastPlaceExists
  <2>5. \E k \in kept : \A l \in kept : First(leaves, k) >= First(leaves, l)
    <3> HIDE DEF kept
    <3> QED BY <2>4
  <2> HIDE DEF kept
  <2> QED BY <2>5
<1> HIDE DEF last, kept
<1>3. /\ kept = {} => Looked(m, leaves, ind, tf) = Absent
      /\ kept # {} => \E k \in kept : Looked(m, leaves, ind, tf) = Computed(m, LastLeaf(leaves, k))
  BY <1>1, <1>2
<1> QED BY <1>3 DEF kept

(* What the evaluator makes of one leaf of the tree, under the hypotheses of the property. *)
LEMMA LeafAsWritten ==
  ASSUME NEW all \in Markets, NEW g \in DOMAIN all,
         NEW leaves \in Seq(Leaves), NEW a \in ToSet(leaves),
         \A x \in ToSet(leaves) : Own(x, g) = g,
         \A x, y \in ToSet(leaves) : Series(x.ind) = Series(y.ind) => x.par = y.par,
         \A x \in ToSet(leaves) :
           x.ind \in Numbers /\ x.par # BadPar => all[g].at[Series(x.ind)][x.par] # Short,
         \A x \in ToSet(leaves) : x.op = "gt_multiple" =>
           x.to = "CLOSE" \/ (x.to = "volume_ma_20" /\ \E y \in ToSet(leaves) : y.ind = "VOLUME")
  PROVE  /\ EvalLeaf(all[g], leaves, a) => LeafMeans(all, g, a)
         /\ (\A x, y \in ToSet(leaves) : x.ind # "SMA" /\ (x.ind = y.ind => TfKey(x) = TfKey(y)))
              => (LeafMeans(all, g, a) => EvalLeaf(all[g], leaves, a))
<1> DEFINE m == all[g]
           tf == TfKey(a)
           kept == {k \in Keepers(leaves, a.ind, tf) : Computed(m, LastLeaf(leaves, k)) # Absent}
           here == m.at[Series(a.ind)][a.par]
<1>1. \A x \in ToSet(leaves) : x \in Trees /\ IsLeaf(x)
  BY DEF ToSet, Leaves
<1>2. \A x \in ToSet(leaves) : x.ind \in Supported => Needed(leaves, x.ind)
  BY DEF ToSet, Needed, Places
<1>3. ASSUME NEW k \in kept
      PROVE  /\ a.ind \in Supported /\ a.par # BadPar /\ here # Short
             /\ Computed(m, LastLeaf(leaves, k)) = here
  <2>1. /\ Needed(leaves, k) /\ k \in Supported /\ Series(k) = a.ind
        /\ Computed(m, LastLeaf(leaves, k)) # Absent
    BY DEF Keepers
  <2>2. LastLeaf(leaves, k) \in ToSet(leaves) /\ LastLeaf(leaves, k).ind = k
    BY <2>1, PlacesFacts
  <2>3. PICK b \in ToSet(leaves) : b = LastLeaf(leaves, k) /\ b.ind = k
    BY <2>2
  <2>4. a.ind \in Supported /\ Series(a.ind) = a.ind /\ Series(b.ind) = Series(a.ind)
    BY <2>1, <2>3 DEF Series, Supported, Numbers, Bands
  <2>5. b.par = a.par
    BY <2>4
  <2>6. b.par # BadPar
    BY <2>1, <2>3 DEF Computed
  <2>7. Computed(m, b) = IF here = Short THEN Fallback(b.ind) ELSE here
    BY <2>4, <2>5, <2>6 DEF Computed
  <2>8. here # Short
    <3>1. CASE b.ind \in Numbers
      BY <2>4, <2>5, <2>6, <3>1
    <3>2. CASE b.ind \notin Numbers
      <4>1. b.ind \in Bands /\ b.ind # "RSI"
        BY <2>1, <2>3, <3>2 DEF Supported, Bands
      <4>2. Fallback(b.ind) = Absent
        BY <4>1 DEF Fallback
      <4> QED BY <2>1, <2>3, <2>7, <4>2
    <3> QED BY <3>1, <3>2
  <2> QED BY <2>3, <2>4, <2>5, <2>6, <2>7, <2>8
<1>4. a.op = "gt_multiple" =>
        /\ a.to \in {"CLOSE", "volume_ma_20"}
        /\ a.to = "volume_ma_20" => Needed(leaves, "VOLUME")
  BY <1>2 DEF Supported, Numbers
<1> DEFINE v == Looked(m, leaves, a.ind, tf)
           base == Base(m, leaves, a.to)
           meant == BaseMeant(m, a.to)
<1>5. a.op = "gt_multiple" => base = meant
  BY <1>4 DEF Base, BaseMeant
<1>6. \A w : Compares(m.close, w, a.op, a.value, base) = Compares(m.close, w, a.op, a.value, meant)
  BY <1>5 DEF Compares
<1>7. EvalLeaf(m, leaves, a)
        <=> v # Absent /\ Applies(a) /\ Compares(m.close, v, a.op, a.value, meant)
  BY <1>6 DEF EvalLeaf
<1>8. /\ kept = {} => v = Absent
      /\ kept # {} => \E k \in kept : v = Computed(m, LastLeaf(leaves, k))
  BY LookedFacts
<1>9. kept # {} => v = here /\ a.ind \in Supported /\ a.par # BadPar /\ here # Short
  <2> HIDE DEF kept, v, here
  <2> QED BY <1>3, <1>8
<1>10. LeafMeans(all, g, a)
         <=> /\ a.ind \in Supported /\ a.par # BadPar /\ Applies(a) /\ here # Short
             /\ Compares(m.close, here, a.op, a.value, meant)
  <2>1. Own(a, g) = g
    OBVIOUS
  <2> QED BY <1>4, <2>1 DEF LeafMeans
<1>11. EvalLeaf(m, leaves, a) => LeafMeans(all, g, a)
  <2> HIDE DEF kept, v, here, base, meant
  <2> QED BY <1>7, <1>8, <1>9, <1>10
<1>12. ASSUME \A x, y \in ToSet(leaves) : x.ind # "SMA" /\ (x.ind = y.ind => TfKey(x) = TfKey(y)),
              LeafMeans(all, g, a)
       PROVE  EvalLeaf(m, leaves, a)
  <2>1. a.ind \in Supported /\ a.par # BadPar /\ here # Short /\ a.ind # "SMA"
    BY <1>10, <1>12
  <2>2. Needed(leaves, a.ind)
    BY <1>2, <2>1
  <2>3. PICK b \in ToSet(leaves) : b = LastLeaf(leaves, a.ind) /\ b.ind = a.ind
    BY <2>2, PlacesFacts
  <2>4. TfKey(b) = tf /\ b.par = a.par
    BY <1>12, <2>3
  <2>5. here # Absent
    BY <1>1, <2>1, MarketsAssumption
  <2>6. Computed(m, b) = here
    BY <2>1, <2>3, <2>4 DEF Computed
  <2>7. a.ind \in kept
    BY <2>1, <2>2, <2>3, <2>4, <2>5, <2>6 DEF Keepers, Series
  <2>8. kept # {} /\ v = here
    BY <1>9, <2>7
  <2> HIDE DEF kept, v, here, base, meant
  <2> QED BY <1>7, <1>10, <1>12, <2>5, <2>8
<1> QED BY <1>11, <1>12

----------------------------------------------------------------------------
(* What is known of a call. *)
EvaluatorInv ==
  evaluated => /\ tree \in Trees /\ market \in Markets /\ given \in DOMAIN market
               /\ matched = Evaluate(market[given], tree)

(* For condition trees of any depth, width and leaves, and for any markets and timeframes: if
   the leaves are of the strategy's timeframe, each indicator has one period and the candles
   suffice, a signal is never invented, and none missed if moreover the leaves of an indicator
   share one key.  Of leaves of other timeframes nothing is claimed
   (strategy_evaluator.py:58-275). *)
THEOREM EvaluatorAsWritten == EvaluatorSpec => []EvaluatesAsWritten
<1>1. EvaluatorInit => EvaluatorInv
  BY DEF EvaluatorInit, EvaluatorInv
<1>2. EvaluatorInv /\ [EvaluateTree]_evaluatorVars => EvaluatorInv'
  BY DEF EvaluatorInv, EvaluateTree, evaluatorVars
<1>3. EvaluatorInv => EvaluatesAsWritten
  <2> SUFFICES ASSUME EvaluatorInv, evaluated, OwnTimeframe, OnePeriod, Filled, BaseIsThere
               PROVE  /\ matched => Means(market, given)[tree]
                      /\ OneKey => (Means(market, given)[tree] => matched)
    BY DEF EvaluatesAsWritten
  <2> DEFINE leaves == LeavesOf[tree]
             e == EvalTree(market[given], leaves)
             p == [n \in Trees |-> EvalLeaf(market[given], leaves, n)]
             q == [n \in Trees |-> LeafMeans(market, given, n)]
  <2>1. tree \in Trees /\ market \in Markets /\ given \in DOMAIN market /\ matched = e[tree]
    BY DEF EvaluatorInv, Evaluate
  <2>2. leaves \in Seq(Leaves) /\ \A l \in ToSet(leaves) : l \in Trees
    <3>1. leaves \in Seq(Leaves)
      BY <2>1, LeavesFacts
    <3> HIDE DEF leaves
    <3> QED BY <3>1 DEF ToSet, Leaves
  <2>3. IsVerdict(e, p) /\ IsVerdict(Means(market, given), q)
    BY EvalTreeIsVerdict, MeansIsVerdict
  <2>4. ASSUME NEW l \in ToSet(leaves)
        PROVE  p[l] => q[l]
    <3>1. EvalLeaf(market[given], leaves, l) => LeafMeans(market, given, l)
      <4> HIDE DEF leaves
      <4> QED BY <2>1, <2>2, LeafAsWritten DEF OwnTimeframe, OnePeriod, Filled, BaseIsThere, Here, leaves
    <3> QED BY <2>2, <3>1
  <2>5. ASSUME OneKey, NEW l \in ToSet(leaves)
        PROVE  q[l] => p[l]
    <3>1. LeafMeans(market, given, l) => EvalLeaf(market[given], leaves, l)
      BY <2>1, <2>2, <2>5, LeafAsWritten DEF OneKey, OwnTimeframe, OnePeriod, Filled, BaseIsThere, Here
    <3> QED BY <2>2, <3>1
  <2> HIDE DEF e, p, q
  <2> QED BY <2>1, <2>3, <2>4, <2>5, VerdictsFollow
<1> QED BY <1>1, <1>2, <1>3, PTL DEF EvaluatorSpec

----------------------------------------------------------------------------
(***************************************************************************)
(*                       The components, side by side                      *)
(***************************************************************************)
(* What MCBackend composes behaves, part by part, as each component's own specification says:
   a step of one is a stutter of the others. *)
THEOREM BackendParts ==
  Spec => SessionsSpec /\ FeedSpec /\ JobsSpec /\ EngineSpec /\ EvaluatorSpec
<1>1. Init => SessionsInit /\ FeedInit /\ JobsInit /\ EngineInit /\ EvaluatorInit
  BY DEF Init
<1> USE DEF Next, backendVars, sessionsAll, TokensStep, SecondFactorStep, FeedStep, JobsStep,
            EngineStep, EvaluatorStep
<1>2. [Next]_backendVars => [SessionsNext]_<<sessionVars, factorVars>>
  BY DEF SessionsNext
<1>3. [Next]_backendVars => [FeedNext]_feedVars
  OBVIOUS
<1>4. [Next]_backendVars => [JobsNext]_jobVars
  OBVIOUS
<1>5. [Next]_backendVars => [EngineNext]_engineVars
  OBVIOUS
<1>6. [Next]_backendVars => [EvaluateTree]_evaluatorVars
  OBVIOUS
<1> QED
  BY <1>1, <1>2, <1>3, <1>4, <1>5, <1>6, PTL
     DEF Spec, SessionsSpec, FeedSpec, JobsSpec, EngineSpec, EvaluatorSpec

(* So the composition has the types of its parts, for any constants. *)
THEOREM BackendTypes == Spec => []TypesOK
<1>1. SessionsTypeOK /\ FeedTypeOK /\ JobsTypeOK /\ EngineTypeOK => TypesOK
  BY DEF TypesOK
<1> QED
  BY <1>1, BackendParts, SessionsTypes, FeedTypes, JobsTypes, EngineTypeCorrect, PTL
=============================================================================
