------------------------------ MODULE RateLimiter ------------------------------
(***************************************************************************)
(* The token bucket of one rate-limit key, kept in Redis by a Lua script   *)
(* and asked by every gateway process (plugins/ratelimit).                 *)
(*                                                                         *)
(* A request reads its own clock and then sends the script, so between the *)
(* two other requests run theirs, and the clocks of two gateways differ.   *)
(* The unit of time is the tick in which one unit of tokens is refilled: a *)
(* request costs Cost units, the bucket holds Capacity, and a full refill  *)
(* takes Capacity ticks.                                                   *)
(***************************************************************************)
EXTENDS Integers

CONSTANTS
  Slots,      \* places for one request each, at any gateways
  Capacity,   \* limit, in units
  Cost,       \* a token, in units
  Grace,      \* the two seconds EXPIRE adds to a full refill, in ticks
  MaxSkew,    \* how far a gateway's clock may be ahead
  MaxDelay,   \* how long a command may be on its way (socket_timeout)
  MaxTime,    \* bound: ticks
  MaxAsked,   \* bound: requests
  MaxRestarts \* bound: restarts of Redis

ASSUME CapacityAssumption == Capacity \in Nat
ASSUME CostAssumption == Cost \in Nat
ASSUME GraceAssumption == Grace \in Nat
ASSUME SkewAssumption == MaxSkew \in Nat
ASSUME DelayAssumption == MaxDelay \in Nat
ASSUME TimeAssumption == MaxTime \in Nat
ASSUME AskedAssumption == MaxAsked \in Nat
ASSUME RestartsAssumption == MaxRestarts \in Nat

VARIABLES
  clock,     \* the time at Redis
  offset,    \* how far the clock of each slot's gateway is ahead of it
  stamp,     \* the `now` each pending request sends, None if it has none
  cachedSha, \* _SCRIPT_SHA_CACHE of each slot's gateway is filled
  script,    \* Redis holds the script
  asked,     \* requests so far
  restarts,  \* restarts of Redis so far
  bucket,    \* the hash at the key; the key is gone once clock reaches expires
  spent,     \* history: units granted
  credit,    \* history: units that no passing of time accounts for
  disorder   \* history: a request ran after one with a later stamp, a stamp was
             \* older than Grace when it ran, or Redis lost the bucket

history == <<spent, credit, disorder>>
limiterVars == <<clock, offset, stamp, cachedSha, script, asked, restarts, bucket, history>>

None == -1

LimiterTypeOK ==
  /\ clock \in 0..MaxTime
  /\ offset \in [Slots -> 0..MaxSkew]
  /\ stamp \in [Slots -> {None} \cup 0..(MaxTime + MaxSkew)]
  /\ cachedSha \in [Slots -> BOOLEAN]
  /\ script \in BOOLEAN
  /\ asked \in 0..MaxAsked
  /\ restarts \in 0..MaxRestarts
  /\ bucket \in [tokens : 0..Capacity, last : Nat, expires : Nat]
  /\ spent \in Nat
  /\ credit \in Nat
  /\ disorder \in BOOLEAN

LimiterInit ==
  /\ clock = 0
  /\ offset \in [Slots -> 0..MaxSkew]
  /\ stamp = [s \in Slots |-> None]
  /\ cachedSha = [s \in Slots |-> FALSE]
  /\ script = FALSE
  /\ asked = 0
  /\ restarts = 0
  /\ bucket = [tokens |-> Capacity, last |-> 0, expires |-> 0]
  /\ spent = 0
  /\ credit = 0
  /\ disorder = FALSE

Positive(n) == IF n > 0 THEN n ELSE 0

Least(a, b) == IF a < b THEN a ELSE b

Gone == clock >= bucket.expires

\* Mutant: the first refill adds to what the script has just filled.
FilledTwice(now) ==
  IF Gone THEN Capacity + Positive(now - bucket.last)
          ELSE Least(Capacity, bucket.tokens + Positive(now - bucket.last))

\* Mutant: the time between the two stamps, whichever is the later.
Apart(now) ==
  IF Gone THEN Capacity
          ELSE Least(Capacity, bucket.tokens + Positive(now - bucket.last)
                                             + Positive(bucket.last - now))

\* Tokens the script finds at time `now`: a new bucket is full, an old one has
\* been refilled since last_refill, and not when that lies ahead.
Found(now) ==
  IF Gone THEN Capacity
          ELSE Least(Capacity, bucket.tokens + Positive(now - bucket.last))

\* Mutant: the key lives as long as a refill from half.
HalfLife == (Capacity \div 2) + Grace

\* EXPIRE key ceil(capacity / rate) + 2
Lifetime == Capacity + Grace

\* Units this run of the script adds beyond the time that has passed: a last_refill
\* that moves backwards, or a bucket forgotten before it could be full.
Unaccounted(now) ==
  IF Gone THEN Positive(Capacity - bucket.tokens + bucket.last - now)
          ELSE Positive(bucket.last - now)

----------------------------------------------------------------------------
\* The plugin up to `now = time.time()`; the first request of a process loads the script.
Stamp(s) ==
  /\ stamp[s] = None /\ asked < MaxAsked
  /\ asked' = asked + 1
  /\ script' = (script \/ ~cachedSha[s])
  /\ cachedSha' = [cachedSha EXCEPT ![s] = TRUE]
  /\ stamp' = [stamp EXCEPT ![s] = clock + offset[s]]
  /\ UNCHANGED <<clock, offset, restarts, bucket, history>>

\* EVALSHA: the whole script is one step of Redis.
RunScript(s) ==
  LET now == stamp[s]
      granted == Found(now) >= Cost
  IN /\ now # None
     /\ script
     /\ bucket' = [tokens  |-> IF granted THEN Found(now) - Cost ELSE Found(now),
                   last    |-> now,
                   expires |-> clock + Lifetime]
     /\ spent' = IF granted THEN spent + Cost ELSE spent
     /\ credit' = credit + Unaccounted(now)
     /\ disorder' = (disorder \/ now < bucket.last \/ clock - now > Grace)
     /\ stamp' = [stamp EXCEPT ![s] = None]
     /\ UNCHANGED <<clock, offset, cachedSha, script, asked, restarts>>

\* The command is lost, or Redis answers NOSCRIPT: the request goes on unlimited.
FailOpen(s) ==
  /\ stamp[s] # None
  /\ stamp' = [stamp EXCEPT ![s] = None]
  /\ UNCHANGED <<clock, offset, cachedSha, script, asked, restarts, bucket, history>>

\* Redis restarts: its script cache is empty, and the bucket is gone unless it was saved.
RestartRedis(saved) ==
  /\ restarts < MaxRestarts
  /\ restarts' = restarts + 1
  /\ script' = FALSE
  /\ IF saved
     THEN UNCHANGED <<bucket, credit, disorder>>
     ELSE /\ bucket' = [tokens |-> Capacity, last |-> bucket.last, expires |-> 0]
          /\ credit' = credit + (Capacity - bucket.tokens)
          /\ disorder' = TRUE
  /\ UNCHANGED <<clock, offset, stamp, cachedSha, asked, spent>>

\* A gateway process restarts: its request and its cached SHA are gone.
RestartGateway(s) ==
  /\ cachedSha[s]
  /\ cachedSha' = [cachedSha EXCEPT ![s] = FALSE]
  /\ stamp' = [stamp EXCEPT ![s] = None]
  /\ UNCHANGED <<clock, offset, script, asked, restarts, bucket, history>>

\* A tick; a command that would be late by more than its timeout is given up before.
PassTime ==
  /\ clock < MaxTime
  /\ \A s \in Slots : stamp[s] # None => clock + offset[s] - stamp[s] < MaxDelay
  /\ clock' = clock + 1
  /\ UNCHANGED <<offset, stamp, cachedSha, script, asked, restarts, bucket, history>>

LimiterNext ==
  \/ \E s \in Slots : Stamp(s)
  \/ \E s \in Slots : RunScript(s)
  \/ \E s \in Slots : FailOpen(s)
  \/ \E saved \in BOOLEAN : RestartRedis(saved)
  \/ \E s \in Slots : RestartGateway(s)
  \/ PassTime

LimiterSpec == LimiterInit /\ [][LimiterNext]_limiterVars

----------------------------------------------------------------------------
(* However requests overtake each other and gateway clocks differ, what the bucket
   has granted is at most its capacity and one unit per tick (up to the clock of the
   gateway furthest ahead), plus exactly the credit that late stamps and lost
   buckets add (ratelimit_plugin.py:41-66: last_refill is set to `now` even when it
   moves backwards). *)
GrantsAreBounded == spent <= Capacity + clock + MaxSkew + credit

(* Where the gateways' clocks agree, the bucket never grants more than capacity and
   time allow, unless a request was overtaken, was on its way for longer than the
   two seconds EXPIRE leaves, or Redis lost the bucket: the lifetime of the key is
   long enough that forgetting a bucket gives nothing away (ratelimit_plugin.py:62). *)
ExtraHasCause ==
  (\A s \in Slots : offset[s] = 0) /\ ~disorder => credit = 0
=============================================================================
