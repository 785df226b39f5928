---------------------------- MODULE Gateway_proofs ----------------------------
(***************************************************************************)
(* Proofs about the parts of the gateway that serve, for every value of    *)
(* their constants: the token bucket (what it grants is bounded), the      *)
(* WebSocket relay (each direction stays in order and complete) and the    *)
(* traffic (turns are dealt evenly, retries end where they should, keys    *)
(* of the past are refused); and about the five components as MCGateway    *)
(* composes them, the administrators' two among them.                      *)
(***************************************************************************)
EXTENDS MCGateway, Admin_proofs

(***************************************************************************)
(*                             The token bucket                            *)
(***************************************************************************)
\* What was granted and what is left in the bucket came from the first fill, from the time
\* up to the last stamp and from the credit.
NothingFromNowhere == spent + bucket.tokens <= Capacity + bucket.last + credit

\* No clock is ahead by more than MaxSkew, and none at all where the gateways agree.
StampsAreKnown ==
  /\ bucket.last <= clock + MaxSkew
  /\ \A s \in Slots : stamp[s] # None => stamp[s] <= clock + offset[s]

\* Where clocks agree and nothing was out of order, no credit was given, and a bucket is
\* forgotten only when it would be full.
OrderGivesNothing ==
  (\A s \in Slots : offset[s] = 0) /\ ~disorder =>
    /\ credit = 0
    /\ bucket.last <= clock
    /\ bucket.tokens = Capacity \/ bucket.expires >= bucket.last + Lifetime

(* The inductive invariant of the bucket. *)
LimiterInv == LimiterTypeOK /\ NothingFromNowhere /\ StampsAreKnown /\ OrderGivesNothing

(* What the assumptions say of the constants. *)
LEMMA LimiterNumbers ==
  /\ Capacity \in Nat /\ Cost \in Nat /\ Grace \in Nat /\ MaxSkew \in Nat /\ MaxDelay \in Nat
  /\ MaxTime \in Nat /\ MaxAsked \in Nat /\ MaxRestarts \in Nat /\ Lifetime = Capacity + Grace
BY CapacityAssumption, CostAssumption, GraceAssumption, SkewAssumption, DelayAssumption,
   TimeAssumption, AskedAssumption, RestartsAssumption DEF Lifetime

(* A full bucket that nobody has touched yet. *)
LEMMA LimiterInvInit == LimiterInit => LimiterInv
<1> SUFFICES ASSUME LimiterInit PROVE LimiterInv
  OBVIOUS
<1>1. LimiterTypeOK
  <2>1. bucket \in [tokens : 0..Capacity, last : Nat, expires : Nat]
    BY LimiterNumbers DEF LimiterInit
  <2>2. /\ offset \in [Slots -> 0..MaxSkew]
        /\ stamp \in [Slots -> {None} \cup 0..(MaxTime + MaxSkew)]
        /\ cachedSha \in [Slots -> BOOLEAN]
    BY DEF LimiterInit
  <2>3. /\ clock \in 0..MaxTime /\ asked \in 0..MaxAsked /\ restarts \in 0..MaxRestarts
        /\ spent \in Nat /\ credit \in Nat
    BY LimiterNumbers DEF LimiterInit
  <2>4. script \in BOOLEAN /\ disorder \in BOOLEAN
    BY DEF LimiterInit
  <2> QED
    BY <2>1, <2>2, <2>3, <2>4 DEF LimiterTypeOK
<1>2. NothingFromNowhere /\ StampsAreKnown /\ OrderGivesNothing
  BY LimiterNumbers
     DEF LimiterInit, NothingFromNowhere, StampsAreKnown, OrderGivesNothing, None
<1> QED
  BY <1>1, <1>2 DEF LimiterInv

(* What the script finds: never less than nothing nor more than the bucket holds, and beyond
   what was there at most the time since the last stamp and what is booked as credit. *)
LEMMA ScriptFinds ==
  ASSUME LimiterTypeOK, NEW now \in Nat
  PROVE  /\ Found(now) \in 0..Capacity
         /\ Unaccounted(now) \in Nat
         /\ Found(now) <= bucket.tokens + now - bucket.last + Unaccounted(now)
         /\ now >= bucket.last /\ ~Gone => Unaccounted(now) = 0
<1>1. bucket.tokens \in 0..Capacity /\ bucket.last \in Nat /\ bucket.expires \in Nat
  BY DEF LimiterTypeOK
<1>2. CASE Gone
  BY <1>1, <1>2, LimiterNumbers DEF Found, Unaccounted, Positive, Least
<1>3. CASE ~Gone
  BY <1>1, <1>3, LimiterNumbers DEF Found, Unaccounted, Positive, Least
<1> QED
  BY <1>2, <1>3

(* One run of the script: what it grants it takes from what it finds. *)
LEMMA RunScriptKeeps ==
  ASSUME LimiterInv, NEW s \in Slots, RunScript(s)
  PROVE  LimiterInv'
<1> DEFINE now == stamp[s]
<1>1. now \in Nat /\ now <= clock + offset[s] /\ offset[s] \in 0..MaxSkew
      /\ clock \in Nat
  <2>1. now # None /\ now \in {None} \cup 0..(MaxTime + MaxSkew)
    BY DEF RunScript, LimiterInv, LimiterTypeOK
  <2> QED
    BY <2>1, LimiterNumbers DEF LimiterInv, LimiterTypeOK, StampsAreKnown, None
<1>2. /\ bucket.tokens \in 0..Capacity /\ bucket.last \in Nat /\ bucket.expires \in Nat
      /\ spent \in Nat /\ credit \in Nat
  BY DEF LimiterInv, LimiterTypeOK
<1> HIDE DEF now
<1>3. /\ Found(now) \in 0..Capacity /\ Unaccounted(now) \in Nat
      /\ Found(now) <= bucket.tokens + now - bucket.last + Unaccounted(now)
      /\ now >= bucket.last /\ ~Gone => Unaccounted(now) = 0
  BY <1>1, ScriptFinds DEF LimiterInv
<1>4. /\ bucket'.last = now /\ bucket'.expires = clock + Lifetime
      /\ bucket' \in [tokens : 0..Capacity, last : Nat, expires : Nat]
      /\ spent' \in Nat
      /\ spent' + bucket'.tokens = spent + Found(now)
      /\ bucket'.tokens \in 0..Capacity
  <2>1. CASE Found(now) >= Cost
    BY <2>1, <1>1, <1>2, <1>3, LimiterNumbers DEF RunScript, now
  <2>2. CASE ~(Found(now) >= Cost)
    BY <2>2, <1>1, <1>2, <1>3, LimiterNumbers DEF RunScript, now
  <2> QED
    BY <2>1, <2>2
<1>5. /\ credit' = credit + Unaccounted(now)
      /\ disorder' = (disorder \/ now < bucket.last \/ clock - now > Grace)
      /\ stamp' = [stamp EXCEPT ![s] = None]
      /\ UNCHANGED <<clock, offset, cachedSha, script, asked, restarts>>
  BY DEF RunScript, now
<1>6. LimiterTypeOK'
  <2>1. disorder' \in BOOLEAN
    BY <1>5, <1>2 DEF LimiterInv, LimiterTypeOK
  <2>2. credit' \in Nat
    BY <1>5, <1>2, <1>3
  <2>3. stamp' \in [Slots -> {None} \cup 0..(MaxTime + MaxSkew)]
    BY <1>5 DEF LimiterInv, LimiterTypeOK
  <2> QED
    BY <2>1, <2>2, <2>3, <1>4, <1>5 DEF LimiterInv, LimiterTypeOK
<1>7. NothingFromNowhere'
  BY <1>1, <1>2, <1>3, <1>4, <1>5, LimiterNumbers DEF LimiterInv, NothingFromNowhere
<1>8. StampsAreKnown'
  <2>1. bucket'.last <= clock' + MaxSkew
    BY <1>1, <1>4, <1>5, LimiterNumbers
  <2>2. \A r \in Slots : stamp'[r] # None => stamp'[r] <= clock' + offset'[r]
    BY <1>5 DEF LimiterInv, LimiterTypeOK, StampsAreKnown
  <2> QED
    BY <2>1, <2>2 DEF StampsAreKnown
<1>9. OrderGivesNothing'
  <2> SUFFICES ASSUME \A r \in Slots : offset'[r] = 0, ~disorder'
               PROVE  /\ credit' = 0
                      /\ bucket'.last <= clock'
                      /\ bucket'.expires >= bucket'.last + Lifetime
    BY DEF OrderGivesNothing
  <2>1. ~disorder /\ now >= bucket.last /\ clock - now <= Grace
    <3>1. ~disorder /\ ~(now < bucket.last) /\ ~(clock - now > Grace)
      BY <1>5
    <3> QED
      BY <3>1, <1>1, <1>2, LimiterNumbers
  <2>2. /\ credit = 0 /\ now <= clock
        /\ bucket.tokens = Capacity \/ bucket.expires >= bucket.last + Lifetime
    BY <2>1, <1>1, <1>5 DEF LimiterInv, OrderGivesNothing
  <2>3. Unaccounted(now) = 0
    <3>1. CASE ~Gone
      BY <3>1, <2>1, <1>3
    <3>2. CASE Gone
      BY <3>2, <2>1, <2>2, <1>1, <1>2, LimiterNumbers DEF Gone, Unaccounted, Positive
    <3> QED
      BY <3>1, <3>2
  <2> QED
    BY <2>2, <2>3, <1>1, <1>2, <1>4, <1>5, LimiterNumbers
<1> QED
  BY <1>6, <1>7, <1>8, <1>9 DEF LimiterInv

(* Every step of the limiter keeps the invariant. *)
LEMMA LimiterInvStep == LimiterInv /\ [LimiterNext]_limiterVars => LimiterInv'
<1> SUFFICES ASSUME LimiterInv, [LimiterNext]_limiterVars PROVE LimiterInv'
  OBVIOUS
<1> USE LimiterNumbers
        DEF LimiterInv, LimiterTypeOK, NothingFromNowhere, StampsAreKnown, OrderGivesNothing,
            history
<1>1. ASSUME NEW s \in Slots, Stamp(s) PROVE LimiterInv'
  <2>1. clock + offset[s] \in 0..(MaxTime + MaxSkew)
    BY <1>1
  <2>2. stamp' \in [Slots -> {None} \cup 0..(MaxTime + MaxSkew)]
    BY <1>1, <2>1 DEF Stamp
  <2>3. LimiterTypeOK'
    BY <1>1, <2>2 DEF Stamp
  <2>4. StampsAreKnown'
    BY <1>1, <2>1 DEF Stamp
  <2> QED
    BY <1>1, <2>3, <2>4 DEF Stamp
<1>2. ASSUME NEW s \in Slots, RunScript(s) PROVE LimiterInv'
  BY <1>2, RunScriptKeeps
<1>3. ASSUME NEW s \in Slots, FailOpen(s) PROVE LimiterInv'
  BY <1>3 DEF FailOpen, None
<1>4. ASSUME NEW kept \in BOOLEAN, RestartRedis(kept) PROVE LimiterInv'
  <2>1. CASE kept
    <3>1. UNCHANGED <<bucket, credit, disorder, clock, offset, stamp, cachedSha, asked, spent>>
      BY <1>4, <2>1 DEF RestartRedis
    <3>2. restarts' = restarts + 1 /\ restarts < MaxRestarts /\ script' = FALSE
      BY <1>4 DEF RestartRedis
    <3>3. restarts' \in 0..MaxRestarts
      BY <3>2
    <3> QED
      BY <3>1, <3>2, <3>3
  <2>2. CASE ~kept
    <3>1. /\ bucket' = [tokens |-> Capacity, last |-> bucket.last, expires |-> 0]
          /\ credit' = credit + (Capacity - bucket.tokens)
          /\ disorder' = TRUE
      BY <1>4, <2>2 DEF RestartRedis
    <3>2. /\ bucket'.tokens = Capacity /\ bucket'.last = bucket.last
          /\ bucket' \in [tokens : 0..Capacity, last : Nat, expires : Nat]
      BY <3>1
    <3>3. credit' \in Nat
      <4>1. Capacity - bucket.tokens \in Nat /\ credit \in Nat
        OBVIOUS
      <4>2. credit' = credit + (Capacity - bucket.tokens)
        BY <3>1
      <4> HIDE DEF LimiterInv
      <4> QED
        BY <4>1, <4>2
    <3>4. restarts' \in 0..MaxRestarts
      BY <1>4 DEF RestartRedis
    <3>5. script' \in BOOLEAN /\ disorder' \in BOOLEAN /\ disorder'
      BY <1>4, <3>1 DEF RestartRedis
    <3>6. UNCHANGED <<clock, offset, stamp, cachedSha, asked, spent>>
      BY <1>4 DEF RestartRedis
    <3>7. LimiterTypeOK'
      BY <3>2, <3>3, <3>4, <3>5, <3>6
    <3>8. NothingFromNowhere'
      BY <3>1, <3>2, <3>6
    <3>9. StampsAreKnown' /\ OrderGivesNothing'
      BY <3>2, <3>5, <3>6
    <3> QED
      BY <3>7, <3>8, <3>9
  <2> QED
    BY <2>1, <2>2
<1>5. ASSUME NEW s \in Slots, RestartGateway(s) PROVE LimiterInv'
  BY <1>5 DEF RestartGateway, None
<1>6. CASE PassTime
  <2>1. LimiterTypeOK' /\ NothingFromNowhere' /\ OrderGivesNothing'
    BY <1>6 DEF PassTime
  <2>2. StampsAreKnown'
    BY <1>6 DEF PassTime, None
  <2> QED
    BY <2>1, <2>2
<1>7. CASE UNCHANGED limiterVars
  BY <1>7 DEF limiterVars
<1> QED
  BY <1>1, <1>2, <1>3, <1>4, <1>5, <1>6, <1>7 DEF LimiterNext

(* Types of the bucket and of the requests on their way to it, for any rate, capacity and
   number of gateways (ratelimit_plugin.py:41-66). *)
THEOREM LimiterTypes == LimiterSpec => []LimiterTypeOK
<1>1. LimiterInv => LimiterTypeOK
  BY DEF LimiterInv
<1> QED
  BY <1>1, LimiterInvInit, LimiterInvStep, PTL DEF LimiterSpec

(* However far apart the clocks are and in whatever order the stamps arrive, the script of the
   bucket (ratelimit_plugin.py:41-66) grants no more than the capacity, the time that passed
   and what skew, disorder and a lost Redis hand out beyond. *)
THEOREM GrantsAlwaysBounded == LimiterSpec => []GrantsAreBounded
<1>1. LimiterInv => GrantsAreBounded
  BY LimiterNumbers
     DEF LimiterInv, LimiterTypeOK, NothingFromNowhere, StampsAreKnown, GrantsAreBounded
<1> QED
  BY <1>1, LimiterInvInit, LimiterInvStep, PTL DEF LimiterSpec

(* Where the clocks agree and every stamp arrived in order and in time the script (same lines)
   hands out nothing beyond: the key outlives the time the bucket takes to fill. *)
THEOREM ExtraAlwaysHasCause == LimiterSpec => []ExtraHasCause
<1>1. LimiterInv => ExtraHasCause
  BY DEF LimiterInv, OrderGivesNothing, ExtraHasCause
<1> QED
  BY <1>1, LimiterInvInit, LimiterInvStep, PTL DEF LimiterSpec

------------------------------------------------------------------------------
(***************************************************************************)
(*                           The WebSocket relay                           *)
(***************************************************************************)
\* How many messages a pump has in its hands.
Holding(w) == IF held[w] = 0 THEN 0 ELSE 1

\* Of one direction: what was sent on, then what the pump holds, then what waits, are the
\* messages in the order they were said; after the pump has stopped only the first, and they
\* are all, unless the end it sends to has left.
InOrder(w) ==
  /\ \A i \in 1..Len(got[w]) : got[w][i] = i
  /\ pump[w] # "done" =>
       /\ held[w] # 0 => held[w] = Len(got[w]) + 1
       /\ \A i \in 1..Len(queue[w]) : queue[w][i] = Len(got[w]) + Holding(w) + i
       /\ said[w] = Len(got[w]) + Holding(w) + Len(queue[w])
  /\ pump[w] = "done" /\ Sink[w] \notin left => Len(got[w]) = said[w] /\ Source[w] \in left

(* The inductive invariant of the relay. *)
RelayInv ==
  /\ RelayTypeOK
  /\ session = "connecting" => \A w \in Way : pump[w] = "off"
  /\ \A w \in Way : InOrder(w)

(* Nothing said is a sequence of messages. *)
LEMMA EmptyMessages == <<>> \in Seq(1..MaxSaid) /\ Len(<<>>) = 0
OBVIOUS

(* A run of consecutive numbers can be added to at its end, ... *)
LEMMA RunGrows ==
  ASSUME NEW n \in Nat, NEW q \in Seq(1..MaxSaid), NEW x \in 1..MaxSaid,
         \A i \in 1..Len(q) : q[i] = n + i, x = n + Len(q) + 1
  PROVE  /\ Append(q, x) \in Seq(1..MaxSaid) /\ Len(Append(q, x)) = Len(q) + 1
         /\ \A i \in 1..Len(Append(q, x)) : Append(q, x)[i] = n + i
<1>1. /\ Append(q, x) \in Seq(1..MaxSaid) /\ Len(Append(q, x)) = Len(q) + 1
      /\ \A i \in 1..Len(q) : Append(q, x)[i] = q[i]
      /\ Append(q, x)[Len(q) + 1] = x
      /\ Len(q) \in Nat
  OBVIOUS
<1>2. ASSUME NEW i \in 1..(Len(q) + 1) PROVE Append(q, x)[i] = n + i
  <2>1. CASE i = Len(q) + 1
    BY <1>1, <2>1
  <2>2. CASE i # Len(q) + 1
    <3>1. i \in 1..Len(q)
      BY <1>1, <2>2
    <3> QED
      BY <1>1, <3>1
  <2> QED
    BY <2>1, <2>2
<1> QED
  BY <1>1, <1>2

(* ... and taken from at its front. *)
LEMMA RunShrinks ==
  ASSUME NEW n \in Nat, NEW q \in Seq(1..MaxSaid), q # <<>>,
         \A i \in 1..Len(q) : q[i] = n + i
  PROVE  /\ Head(q) = n + 1 /\ Head(q) \in 1..MaxSaid /\ Tail(q) \in Seq(1..MaxSaid)
         /\ Len(Tail(q)) = Len(q) - 1
         /\ \A i \in 1..Len(Tail(q)) : Tail(q)[i] = (n + 1) + i
<1>1. Len(q) \in Nat /\ Len(q) # 0
  BY EmptySeq
<1>2. 1 \in 1..Len(q)
  BY <1>1
<1>3. Head(q) = q[1]
  OBVIOUS
<1>4. /\ Head(q) \in 1..MaxSaid /\ Tail(q) \in Seq(1..MaxSaid) /\ Len(Tail(q)) = Len(q) - 1
      /\ \A i \in 1..Len(Tail(q)) : Tail(q)[i] = q[i + 1]
  BY HeadTailProperties
<1>5. ASSUME NEW i \in 1..(Len(q) - 1) PROVE Tail(q)[i] = (n + 1) + i
  <2>1. i + 1 \in 1..Len(q)
    BY <1>1
  <2>2. Tail(q)[i] = q[i + 1]
    BY <1>4
  <2> QED
    BY <2>1, <2>2
<1> QED
  BY <1>2, <1>3, <1>4, <1>5

(* Nothing was said yet and no pump runs. *)
LEMMA RelayInvInit == RelayInit => RelayInv
<1> SUFFICES ASSUME RelayInit PROVE RelayInv
  OBVIOUS
<1>1. \A w \in Way : queue[w] = <<>> /\ got[w] = <<>> /\ held[w] = 0 /\ said[w] = 0
                     /\ pump[w] = "off"
  BY DEF RelayInit
<1>2. RelayTypeOK
  <2>1. queue \in [Way -> Seq(1..MaxSaid)] /\ got \in [Way -> Seq(1..MaxSaid)]
    BY EmptyMessages DEF RelayInit
  <2>2. held \in [Way -> 0..MaxSaid] /\ said \in [Way -> 0..MaxSaid]
    BY SaidAssumption DEF RelayInit
  <2> QED
    BY <2>1, <2>2, <1>1 DEF RelayInit, RelayTypeOK
<1>3. ASSUME NEW w \in Way PROVE InOrder(w)
  <2>1. Len(got[w]) = 0 /\ Len(queue[w]) = 0 /\ Holding(w) = 0
    BY <1>1, EmptyMessages DEF Holding
  <2> QED
    BY <2>1, <1>1 DEF InOrder
<1> QED
  BY <1>1, <1>2, <1>3 DEF RelayInv

(* What a step leaves of one direction alone stays in order there. *)
LEMMA OtherWay ==
  ASSUME NEW v \in Way, InOrder(v),
         pump'[v] = pump[v], queue'[v] = queue[v], got'[v] = got[v], held'[v] = held[v],
         said'[v] = said[v], left' = left
  PROVE  InOrder(v)'
BY DEF InOrder, Holding

(* Every step of the relay keeps both directions in order. *)
LEMMA RelayInvStep == RelayInv /\ [RelayNext]_relayVars => RelayInv'
<1> SUFFICES ASSUME RelayInv, [RelayNext]_relayVars PROVE RelayInv'
  OBVIOUS
<1>t. /\ RelayTypeOK /\ \A w \in Way : InOrder(w)
      /\ session = "connecting" => \A w \in Way : pump[w] = "off"
  BY DEF RelayInv
<1>f. /\ pump \in [Way -> {"off", "reading", "sending", "done"}]
      /\ queue \in [Way -> Seq(1..MaxSaid)] /\ got \in [Way -> Seq(1..MaxSaid)]
      /\ held \in [Way -> 0..MaxSaid] /\ said \in [Way -> 0..MaxSaid]
  BY <1>t DEF RelayTypeOK
<1>s. \A w \in Way : /\ queue[w] \in Seq(1..MaxSaid) /\ got[w] \in Seq(1..MaxSaid)
                     /\ held[w] \in 0..MaxSaid /\ said[w] \in 0..MaxSaid
                     /\ Len(queue[w]) \in Nat /\ Len(got[w]) \in Nat
  BY <1>f
<1>1. CASE OpenSession
  <2>1. /\ \A w \in Way : pump[w] = "off" /\ pump'[w] # "done"
        /\ UNCHANGED <<left, queue, held, said, got>>
        /\ pump' \in [Way -> {"off", "reading"}]
    BY <1>1, <1>t, <1>f DEF OpenSession
  <2>2. \A w \in Way : InOrder(w)'
    BY <2>1, <1>t DEF InOrder, Holding
  <2>3. RelayTypeOK'
    BY <1>1, <2>1, <1>t DEF OpenSession, RelayTypeOK
  <2> QED
    BY <1>1, <2>2, <2>3 DEF OpenSession, RelayInv
<1>2. ASSUME NEW w \in Way, Say(w) PROVE RelayInv'
  <2>1. /\ queue' = [queue EXCEPT ![w] = Append(queue[w], said[w] + 1)]
        /\ said' = [said EXCEPT ![w] = said[w] + 1]
        /\ UNCHANGED <<session, code, left, pump, held, got>>
        /\ Source[w] \notin left /\ said[w] < MaxSaid
    BY <1>2 DEF Say
  <2>2. said[w] + 1 \in 1..MaxSaid
    BY <1>s, <2>1, SaidAssumption
  <2>3. /\ Append(queue[w], said[w] + 1) \in Seq(1..MaxSaid)
        /\ Len(Append(queue[w], said[w] + 1)) = Len(queue[w]) + 1
        /\ \A i \in 1..Len(queue[w]) : Append(queue[w], said[w] + 1)[i] = queue[w][i]
        /\ Append(queue[w], said[w] + 1)[Len(queue[w]) + 1] = said[w] + 1
    BY <1>s, <2>2
  <2>4. queue' \in [Way -> Seq(1..MaxSaid)] /\ said' \in [Way -> 0..MaxSaid]
    BY <1>f, <2>1, <2>2, <2>3
  <2>5. RelayTypeOK'
    BY <1>t, <2>1, <2>4 DEF RelayTypeOK
  <2>6. InOrder(w)'
    <3>1. InOrder(w)
      BY <1>t
    <3>2. queue'[w] = Append(queue[w], said[w] + 1) /\ said'[w] = said[w] + 1
      BY <1>f, <2>1
    <3>3. CASE pump[w] = "done"
      BY <3>1, <3>2, <3>3, <2>1 DEF InOrder, Holding
    <3>4. CASE pump[w] # "done"
      <4>0. Holding(w) \in Nat /\ Len(got[w]) \in Nat
        BY <1>s DEF Holding
      <4>n. PICK n \in Nat : n = Len(got[w]) + Holding(w)
        BY <4>0
      <4>1. /\ n \in Nat /\ \A i \in 1..Len(queue[w]) : queue[w][i] = n + i
            /\ said[w] = n + Len(queue[w])
        BY <3>1, <3>4, <4>n DEF InOrder
      <4>2. /\ Len(queue'[w]) = Len(queue[w]) + 1
            /\ \A i \in 1..Len(queue'[w]) : queue'[w][i] = n + i
        <5>1. said[w] + 1 = n + Len(queue[w]) + 1
          BY <4>1, <1>s
        <5>2. queue[w] \in Seq(1..MaxSaid)
          BY <1>s
        <5>3. /\ Len(Append(queue[w], said[w] + 1)) = Len(queue[w]) + 1
              /\ \A i \in 1..Len(Append(queue[w], said[w] + 1)) :
                   Append(queue[w], said[w] + 1)[i] = n + i
          BY <4>1, <5>1, <5>2, <2>2, RunGrows
        <5> QED
          BY <5>3, <3>2
      <4>3. said'[w] = n + Len(queue'[w])
        BY <4>1, <4>2, <3>2, <1>s
      <4>4. n = Len(got'[w]) + Holding(w)'
        BY <4>n, <2>1 DEF Holding
      <4> QED
        BY <4>2, <4>3, <4>4, <3>1, <3>4, <2>1 DEF InOrder
    <3> QED
      BY <3>3, <3>4
  <2>7. \A v \in Way \ {w} : InOrder(v)'
    BY <2>1, OtherWay, <1>t, <1>f
  <2> QED
    BY <1>t, <2>1, <2>5, <2>6, <2>7 DEF RelayInv
<1>3. ASSUME NEW e \in End, Leave(e) PROVE RelayInv'
  <2>1. UNCHANGED <<session, code, pump, queue, held, said, got>> /\ left' = left \cup {e}
    BY <1>3 DEF Leave
  <2>2. \A w \in Way : InOrder(w)'
    BY <2>1, <1>t DEF InOrder, Holding
  <2>3. RelayTypeOK'
    BY <2>1, <1>t DEF RelayTypeOK
  <2> QED
    BY <1>t, <2>1, <2>2, <2>3 DEF RelayInv
<1>4. ASSUME NEW w \in Way, Read(w) PROVE RelayInv'
  <2>1. /\ pump[w] = "reading" /\ queue[w] # <<>>
        /\ held' = [held EXCEPT ![w] = Head(queue[w])]
        /\ queue' = [queue EXCEPT ![w] = Tail(queue[w])]
        /\ pump' = [pump EXCEPT ![w] = "sending"]
        /\ UNCHANGED <<session, code, left, said, got>>
    BY <1>4 DEF Read
  <2>2. /\ Head(queue[w]) \in 1..MaxSaid /\ Tail(queue[w]) \in Seq(1..MaxSaid)
    BY <1>s, <2>1, HeadTailProperties
  <2>3. /\ held'[w] = Head(queue[w]) /\ queue'[w] = Tail(queue[w]) /\ pump'[w] = "sending"
        /\ \A v \in Way \ {w} : held'[v] = held[v] /\ queue'[v] = queue[v] /\ pump'[v] = pump[v]
    BY <1>f, <2>1
  <2>4. /\ queue' \in [Way -> Seq(1..MaxSaid)] /\ held' \in [Way -> 0..MaxSaid]
        /\ pump' \in [Way -> {"off", "reading", "sending", "done"}]
    BY <1>f, <2>1, <2>2, SaidAssumption
  <2>5. RelayTypeOK'
    BY <1>t, <2>1, <2>2, <2>3, <2>4 DEF RelayTypeOK
  <2>6. InOrder(w)'
    <3>1. InOrder(w) /\ held[w] = 0
      BY <1>t, <2>1 DEF RelayTypeOK
    <3>n. PICK n \in Nat : n = Len(got[w])
      BY <1>s
    <3>2. /\ n \in Nat /\ \A i \in 1..Len(queue[w]) : queue[w][i] = n + i
          /\ said[w] = n + Len(queue[w])
      <4>1. /\ \A i \in 1..Len(queue[w]) : queue[w][i] = n + Holding(w) + i
            /\ said[w] = n + Holding(w) + Len(queue[w])
            /\ Holding(w) = 0
        BY <3>1, <3>n, <2>1 DEF InOrder, Holding
      <4>2. n + 0 = n
        OBVIOUS
      <4> QED
        BY <4>1, <4>2
    <3>3. /\ held'[w] = n + 1 /\ Len(queue'[w]) = Len(queue[w]) - 1
          /\ \A i \in 1..Len(queue'[w]) : queue'[w][i] = (n + 1) + i
      <4>1. queue[w] \in Seq(1..MaxSaid) /\ queue[w] # <<>>
        BY <1>s, <2>1
      <4>2. /\ Head(queue[w]) = n + 1 /\ Len(Tail(queue[w])) = Len(queue[w]) - 1
            /\ \A i \in 1..Len(Tail(queue[w])) : Tail(queue[w])[i] = (n + 1) + i
        BY <4>1, <3>2, RunShrinks
      <4> QED
        BY <4>2, <2>3
    <3>4. Holding(w)' = 1 /\ Len(got'[w]) = n /\ held'[w] # 0
      BY <3>n, <3>2, <3>3, <2>1 DEF Holding
    <3>5. said'[w] = n + 1 + Len(queue'[w])
      <4>1. said'[w] = said[w] /\ Len(queue[w]) \in Nat
        BY <2>1, <1>s
      <4>2. PICK l \in Nat : l = Len(queue[w])
        BY <4>1
      <4>3. Len(queue'[w]) = l - 1
        BY <4>2, <3>3
      <4>4. said'[w] = n + l
        BY <4>1, <4>2, <3>2
      <4>5. n + l = n + 1 + (l - 1)
        OBVIOUS
      <4> QED
        BY <4>3, <4>4, <4>5
    <3> QED
      BY <3>1, <3>3, <3>4, <3>5, <2>1, <2>3 DEF InOrder
  <2>7. \A v \in Way \ {w} : InOrder(v)'
    BY <2>1, <2>3, OtherWay, <1>t
  <2>8. session # "connecting"
    BY <1>t, <2>1
  <2> QED
    BY <2>1, <2>5, <2>6, <2>7, <2>8 DEF RelayInv
<1>5. ASSUME NEW w \in Way, Forward(w) PROVE RelayInv'
  <2>1. /\ pump[w] = "sending" /\ held' = [held EXCEPT ![w] = 0]
        /\ UNCHANGED <<session, code, left, queue, said>>
    BY <1>5 DEF Forward
  <2>2. InOrder(w) /\ held[w] # 0 /\ held[w] = Len(got[w]) + 1 /\ held[w] \in 1..MaxSaid
    <3>1. InOrder(w) /\ held[w] # 0 /\ held[w] \in 0..MaxSaid
      BY <1>t, <2>1 DEF RelayTypeOK
    <3>2. held[w] = Len(got[w]) + 1
      BY <2>1, <3>1 DEF InOrder
    <3>3. held[w] \in 1..MaxSaid
      BY <3>1, SaidAssumption
    <3> QED
      BY <3>1, <3>2, <3>3
  <2>3. /\ held'[w] = 0 /\ \A v \in Way \ {w} : held'[v] = held[v]
        /\ held' \in [Way -> 0..MaxSaid]
    BY <1>f, <2>1, SaidAssumption
  <2>4. session # "connecting"
    BY <1>t, <2>1
  <2>5. CASE Sink[w] \in left
    <3>1. pump' = [pump EXCEPT ![w] = "done"] /\ got' = got
      BY <1>5, <2>5 DEF Forward
    <3>2. /\ pump'[w] = "done" /\ \A v \in Way \ {w} : pump'[v] = pump[v]
          /\ pump' \in [Way -> {"off", "reading", "sending", "done"}]
      BY <1>f, <3>1
    <3>3. RelayTypeOK'
      BY <1>t, <2>1, <2>3, <3>1, <3>2 DEF RelayTypeOK
    <3>4. InOrder(w)'
      BY <2>1, <2>2, <2>3, <2>5, <3>1, <3>2 DEF InOrder, Holding
    <3>5. \A v \in Way \ {w} : InOrder(v)'
      BY <2>1, <2>3, <3>1, <3>2, OtherWay, <1>t
    <3> QED
      BY <2>1, <2>4, <3>3, <3>4, <3>5 DEF RelayInv
  <2>6. CASE Sink[w] \notin left
    <3>1. /\ pump' = [pump EXCEPT ![w] = "reading"]
          /\ got' = [got EXCEPT ![w] = Append(got[w], held[w])]
      BY <1>5, <2>6 DEF Forward
    <3>2. /\ pump'[w] = "reading" /\ \A v \in Way \ {w} : pump'[v] = pump[v] /\ got'[v] = got[v]
          /\ got'[w] = Append(got[w], held[w])
          /\ pump' \in [Way -> {"off", "reading", "sending", "done"}]
      BY <1>f, <3>1
    <3>3. /\ Append(got[w], held[w]) \in Seq(1..MaxSaid)
          /\ Len(Append(got[w], held[w])) = Len(got[w]) + 1
          /\ \A i \in 1..(Len(got[w]) + 1) : Append(got[w], held[w])[i] = i
      <4>1. held[w] = 0 + Len(got[w]) + 1 /\ \A i \in 1..Len(got[w]) : got[w][i] = 0 + i
        BY <2>2, <1>s DEF InOrder
      <4>2. 0 \in Nat /\ got[w] \in Seq(1..MaxSaid)
        BY <1>s
      <4> QED
        BY <4>1, <4>2, <2>2, RunGrows
    <3>4. got' \in [Way -> Seq(1..MaxSaid)]
      BY <1>f, <3>1, <3>3
    <3>5. RelayTypeOK'
      BY <1>t, <2>1, <2>3, <3>1, <3>2, <3>4 DEF RelayTypeOK
    <3>6. InOrder(w)'
      <4>1. /\ Len(got'[w]) = Len(got[w]) + 1 /\ \A i \in 1..Len(got'[w]) : got'[w][i] = i
            /\ Holding(w) = 1 /\ Holding(w)' = 0
        BY <2>2, <2>3, <3>2, <3>3 DEF Holding
      <4>n. PICK n \in Nat : n = Len(got[w])
        BY <1>s
      <4>2. /\ \A i \in 1..Len(queue[w]) : queue[w][i] = Len(got[w]) + 1 + i
            /\ said[w] = Len(got[w]) + 1 + Len(queue[w])
        BY <4>1, <2>1, <2>2 DEF InOrder
      <4>3. /\ \A i \in 1..Len(queue'[w]) : queue'[w][i] = Len(got'[w]) + Holding(w)' + i
            /\ said'[w] = Len(got'[w]) + Holding(w)' + Len(queue'[w])
        <5>1. /\ Len(got'[w]) + Holding(w)' = n + 1 + 0 /\ n + 1 + 0 = n + 1
          BY <4>1, <4>n
        <5> QED
          BY <5>1, <4>2, <4>n, <2>1
      <4> QED
        BY <4>1, <4>3, <2>1, <2>3, <3>2 DEF InOrder
    <3>7. \A v \in Way \ {w} : InOrder(v)'
      BY <2>1, <2>3, <3>2, OtherWay, <1>t
    <3> QED
      BY <2>1, <2>4, <3>5, <3>6, <3>7 DEF RelayInv
  <2> QED
    BY <2>5, <2>6
<1>6. ASSUME NEW w \in Way, StopPump(w) PROVE RelayInv'
  <2>1. /\ pump[w] = "reading" /\ Source[w] \in left /\ queue[w] = <<>>
        /\ pump' = [pump EXCEPT ![w] = "done"]
        /\ UNCHANGED <<session, code, left, queue, held, said, got>>
    BY <1>6 DEF StopPump, IsOver
  <2>2. /\ pump'[w] = "done" /\ \A v \in Way \ {w} : pump'[v] = pump[v]
        /\ pump' \in [Way -> {"off", "reading", "sending", "done"}]
    BY <1>f, <2>1
  <2>3. RelayTypeOK'
    BY <1>t, <2>1, <2>2 DEF RelayTypeOK
  <2>4. InOrder(w)'
    <3>1. InOrder(w) /\ held[w] = 0 /\ Len(queue[w]) = 0
      BY <1>t, <2>1, EmptyMessages DEF RelayTypeOK
    <3> QED
      BY <3>1, <2>1, <2>2, <1>s DEF InOrder, Holding
  <2>5. \A v \in Way \ {w} : InOrder(v)'
    BY <2>1, <2>2, OtherWay, <1>t
  <2>6. session # "connecting"
    BY <1>t, <2>1
  <2> QED
    BY <2>1, <2>3, <2>4, <2>5, <2>6 DEF RelayInv
<1>7. CASE EndSession
  <2>1. /\ \A w \in Way : pump[w] = "done"
        /\ session' = "ended" /\ UNCHANGED <<code, left, pump, queue, held, said, got>>
    BY <1>7 DEF EndSession, BothDone
  <2>2. \A w \in Way : InOrder(w)'
    BY <2>1, OtherWay, <1>t
  <2>3. RelayTypeOK'
    BY <2>1, <1>t DEF RelayTypeOK
  <2> QED
    BY <2>1, <2>2, <2>3 DEF RelayInv
<1>8. CASE UNCHANGED relayVars
  <2>1. UNCHANGED <<session, code, left, pump, queue, held, said, got>>
    BY <1>8 DEF relayVars
  <2>2. \A w \in Way : InOrder(w)'
    BY <2>1, OtherWay, <1>t
  <2>3. RelayTypeOK'
    BY <2>1, <1>t DEF RelayTypeOK
  <2> QED
    BY <2>1, <2>2, <2>3, <1>t DEF RelayInv
<1> QED
  BY <1>1, <1>2, <1>3, <1>4, <1>5, <1>6, <1>7, <1>8 DEF RelayNext

(* Types of the two pumps and of what waits for them (websocket_listener.py:101-132). *)
THEOREM RelayTypes == RelaySpec => []RelayTypeOK
<1>1. RelayInv => RelayTypeOK
  BY DEF RelayInv
<1> QED
  BY <1>1, RelayInvInit, RelayInvStep, PTL DEF RelaySpec

(* What a pump (websocket_listener.py:101-132) has sent on are the first messages of the other
   end in their order, and all of them when the pump stopped with its sink still there, for
   any number of messages. *)
THEOREM RelaysAreFaithful == RelaySpec => []RelayIsFaithful
<1>1. RelayInv => RelayIsFaithful
  <2> SUFFICES ASSUME RelayInv, NEW w \in Way
               PROVE  /\ \A i \in DOMAIN got[w] : got[w][i] = i
                      /\ pump[w] = "done" /\ Sink[w] \notin left => Len(got[w]) = said[w]
    BY DEF RelayIsFaithful
  <2>1. InOrder(w) /\ got[w] \in Seq(1..MaxSaid)
    BY DEF RelayInv, RelayTypeOK
  <2>2. DOMAIN got[w] = 1..Len(got[w])
    BY <2>1
  <2> QED
    BY <2>1, <2>2 DEF InOrder
<1> QED
  BY <1>1, RelayInvInit, RelayInvStep, PTL DEF RelaySpec

------------------------------------------------------------------------------
(***************************************************************************)
(*                               The traffic                               *)
(***************************************************************************)
(* Sorting keeps the registered plugins: the list the CHOOSE speaks of exists. *)
LEMMA SortedTypes ==
  ASSUME NEW plugins, plugins \in Seq(Range(plugins))
  PROVE  Sorted(plugins) \in Seq(DOMAIN Order)
<1>1. PICK K : K = Registered(plugins)
  OBVIOUS
<1>2. /\ K \in SUBSET (1..Len(plugins)) /\ IsFiniteSet(K) /\ Cardinality(K) \in Nat
      /\ \A i \in K : plugins[i] \in DOMAIN Order /\ i \in Int
  <2>1. Len(plugins) \in Nat /\ DOMAIN plugins = 1..Len(plugins)
    OBVIOUS
  <2>2. K \in SUBSET (1..Len(plugins)) /\ \A i \in K : plugins[i] \in DOMAIN Order /\ i \in Int
    BY <1>1, <2>1 DEF Registered
  <2>3. IsFiniteSet(1..Len(plugins))
    BY <2>1, FS_Interval
  <2> QED BY <2>2, <2>3, FS_Subset, FS_CardinalityType
<1>3. PICK R : R = {p \in K \X K : ComesFirst(plugins, p[1], p[2])}
  OBVIOUS
<1>4. \A i, j \in K : <<i, j>> \in R <=> ComesFirst(plugins, i, j)
  BY <1>3
<1>5. IsOrder(R, K)
  <2>1. \A i \in K : Order[plugins[i]] \in Int
    BY <1>2, OrderAssumption
  <2>2. \A i, j \in K : i # j => ComesFirst(plugins, i, j) \/ ComesFirst(plugins, j, i)
    BY <1>2, <2>1 DEF ComesFirst
  <2>3. \A i, j, k \in K : ComesFirst(plugins, i, j) /\ ComesFirst(plugins, j, k)
                             => ComesFirst(plugins, i, k)
    BY <1>2, <2>1 DEF ComesFirst
  <2> QED BY <1>4, <2>2, <2>3 DEF IsOrder
<1>6. PICK s : Lists(s, K, R)
  BY <1>2, <1>5, ListExists
<1>7. PICK places \in [1..Cardinality(K) -> K] :
        Sorted(plugins) = [n \in DOMAIN places |-> plugins[places[n]]]
  <2>1. /\ s \in [1..Cardinality(K) -> K]
        /\ \A m, n \in DOMAIN s : m < n => ComesFirst(plugins, s[m], s[n])
    BY <1>4, <1>6 DEF Lists
  <2> QED BY <1>1, <2>1 DEF Sorted
<1> QED BY <1>2, <1>7

(* A route's chain holds registered plugins. *)
LEMMA ChainTypes ==
  ASSUME NEW g \in Globals, globals = g, NEW r \in Routes
  PROVE  Chain(r) \in Seq(DOMAIN Order)
<1>1. globals \in Seq(Range(globals)) /\ PluginsOf[r] \in Seq(Range(PluginsOf[r]))
  BY PluginsAssumption
<1> QED BY <1>1, SortedTypes DEF Chain

(* The first match is a route that fits, or none. *)
LEMMA MatchFacts ==
  ASSUME table \in Tables, NEW fits
  PROVE  FirstMatch(fits) \in (Routes \cap fits) \cup {NoMatch}
<1> DEFINE I == {i \in 1..Len(table) : table[i] \in fits}
           at == IF I # {} THEN Min(I) ELSE 0
<1>1. SelectInSeq(table, LAMBDA r : r \in fits) = at
  BY DEF SelectInSeq
<1>2. FirstMatch(fits) = IF at = 0 THEN NoMatch ELSE table[at]
  BY <1>1 DEF FirstMatch
<1>3. Len(table) \in Nat /\ \A i \in 1..Len(table) : table[i] \in Routes
  BY TablesAssumption
<1>4. CASE I = {}
  BY <1>2, <1>4
<1>5. CASE I # {}
  <2>1. \E n \in I : \A m \in I : n <= m
    <3>1. I \in SUBSET Nat
      BY <1>3
    <3> HIDE DEF I
    <3> QED BY <1>5, <3>1, LeastExists
  <2>2. Min(I) \in I
    <3> HIDE DEF I
    <3> QED BY <2>1 DEF Min
  <2> QED BY <1>2, <1>3, <1>5, <2>2
<1> QED BY <1>4, <1>5

----------------------------------------------------------------------------
(* What a request is, wherever it stands. *)
Stage == {"idle", "bound", "checking", "fetching", "sending", "done"}
Answers == {"none", "404", "401", "refused by plugin", "no upstream", "upstream's", "504", "502",
            "500", "aborted"}
RequestType ==
  [at : Stage, route : Routes \cup {NoMatch}, token : Nat, chain : Seq(DOMAIN Order), set : Nat,
   target : Nat, outcomes : Seq(Outcome), answer : Answers]

(* The outcomes after which a proxy tries again, and how often it may (proxy.py:119-156;
   gRPC calls once). *)
Retryable == {"again", "timeout", "refused"}
Most(r) == IF r \in Grpc THEN 1 ELSE Retries[r] + 1

\* The attempts of a request, while it is sending and when it is answered.
Sending(q) ==
  /\ Len(q.outcomes) < Most(q.route)
  /\ \A i \in DOMAIN q.outcomes : q.outcomes[i] \in Retryable

(* The attempts of a request that is answered: only the last may be none to retry, unless
   none was left. *)
Ended(q) ==
  LET n == Len(q.outcomes)
  IN n > 0 =>
     /\ q.route \in Routes /\ n <= Most(q.route)
     /\ \A i \in 1..(n - 1) : q.outcomes[i] \in Retryable
     /\ n < Most(q.route) => q.outcomes[n] \notin Retryable
     /\ q.answer = "upstream's" <=> q.outcomes[n] \in {"good", "again"}

(* What a request has tried so far fits the stage it is at. *)
AttemptsOK(q) ==
  /\ q.at \notin {"sending", "done"} => q.outcomes = <<>>
  /\ q.at = "sending" => Sending(q)
  /\ q.at = "done" => Ended(q)

\* The key set a request has seen, and the ones published meanwhile.
KeysOK(q, newest, oldest) ==
  /\ q.token <= newest /\ q.set <= newest
  /\ q.at = "bound" => q.set = 0
  /\ q.at \in {"fetching", "checking", "sending"} /\ q.set # 0 => q.set >= oldest
  /\ q.at \in {"checking", "sending"} /\ q.set # 0 => q.token = q.set

\* A target is picked before the chain runs, or after it.
TargetOK(q) ==
  /\ q.at \notin {"idle", "done"} => q.route \in Routes
  /\ q.at \in {"checking", "fetching"} /\ q.route \notin Grpc /\ Targets[q.route] > 0
       => q.target < Targets[q.route]
  /\ q.at = "sending" => q.target < Targets[q.route]
  /\ q.at = "bound" => q.route \in Grpc
  /\ q.at = "fetching" => q.chain # <<>>
  /\ q.at = "done" <=> q.answer # "none"

(* The inductive invariant, as far as it is about one request. *)
RequestOK(q, newest, oldest) ==
  q \in RequestType /\ AttemptsOK(q) /\ KeysOK(q, newest, oldest) /\ TargetOK(q)

(* What the requests are carried out in: the configuration, the key set of this process and
   the one the provider publishes. *)
SurroundingsInv ==
  /\ table \in Tables /\ globals \in Globals
  /\ published \in Nat /\ jwks \in 0..published /\ startedAt \in 1..published
  /\ jwks # 0 => jwks >= startedAt
  /\ arrivals \in 0..MaxArrivals /\ reloads \in 0..MaxReloads
  /\ DOMAIN request = InFlight /\ counters \in [Routes -> Nat]

(* Every request is one of those. *)
AllOK == \A s \in InFlight : RequestOK(request[s], published, startedAt)

(* Both together. *)
TrafficInv == SurroundingsInv /\ AllOK

----------------------------------------------------------------------------
(* Neither come nor on its way. *)
IdleLike(q) == q.at \in {"idle", "done"}

(* A request that has not come. *)
LEMMA IdleOK == ASSUME NEW n \in Nat, NEW o \in Nat PROVE RequestOK(Idle, n, o)
<1>1. Idle \in RequestType
  BY DEF Idle, RequestType, Stage, Answers
<1> QED BY <1>1 DEF RequestOK, AttemptsOK, KeysOK, TargetOK, Idle

(* An answer ends a request, whatever it was at. *)
LEMMA AnsweredOK ==
  ASSUME NEW q \in RequestType, NEW answer \in Answers \ {"none"}, NEW n \in Nat, NEW o \in Nat,
         q.outcomes = <<>> \/ Ended([q EXCEPT !.answer = answer])
  PROVE  RequestOK(Answered(q, answer), n, o)
<1>1. PICK a : a = Answered(q, answer)
  OBVIOUS
<1>2. /\ a \in RequestType /\ a.at = "done" /\ a.answer = answer /\ a.route = q.route
      /\ a.outcomes = q.outcomes /\ a.token = 0 /\ a.set = 0
  <2>1. a = [at |-> "done", route |-> q.route, token |-> 0, chain |-> <<>>, set |-> 0,
             target |-> 0, outcomes |-> q.outcomes, answer |-> answer]
    BY <1>1 DEF Answered, Idle
  <2>2. q.route \in Routes \cup {NoMatch} /\ q.outcomes \in Seq(Outcome)
    BY DEF RequestType
  <2> QED BY <2>1, <2>2 DEF RequestType, Stage
<1>3. AttemptsOK(a)
  <2>1. CASE q.outcomes = <<>>
    <3>1. Len(a.outcomes) = 0
      BY <1>2, <2>1
    <3> QED BY <1>2, <3>1 DEF AttemptsOK, Ended
  <2>2. CASE Ended([q EXCEPT !.answer = answer])
    <3>1. PICK b : b = [q EXCEPT !.answer = answer]
      OBVIOUS
    <3>2. b.route = q.route /\ b.outcomes = q.outcomes /\ b.answer = answer
      BY <3>1 DEF RequestType
    <3> QED BY <1>2, <2>2, <3>1, <3>2 DEF AttemptsOK, Ended
  <2> QED BY <2>1, <2>2
<1>4. KeysOK(a, n, o) /\ TargetOK(a)
  BY <1>2 DEF KeysOK, TargetOK
<1> QED BY <1>1, <1>2, <1>3, <1>4 DEF RequestOK

(* A step of one request leaves the others. *)
LEMMA OneRequest ==
  ASSUME TrafficInv, NEW s \in InFlight, NEW q, request' = [request EXCEPT ![s] = q],
         RequestOK(q, published, startedAt), UNCHANGED <<published, startedAt>>
  PROVE  AllOK' /\ DOMAIN request' = InFlight
<1>1. DOMAIN request = InFlight
  BY DEF TrafficInv, SurroundingsInv
<1>2. \A t \in InFlight : request'[t] = IF t = s THEN q ELSE request[t]
  BY <1>1
<1>3. \A t \in InFlight : RequestOK(request[t], published, startedAt)
  BY DEF TrafficInv, AllOK
<1>4. \A t \in InFlight : RequestOK(request'[t], published', startedAt')
  BY <1>2, <1>3
<1> QED BY <1>1, <1>4 DEF AllOK

\* What the steps of a request need of it.
LEMMA RequestFacts ==
  ASSUME TrafficInv, NEW s \in InFlight
  PROVE  /\ request[s] \in RequestType /\ RequestOK(request[s], published, startedAt)
         /\ published \in Nat /\ startedAt \in Nat /\ jwks \in Nat /\ jwks <= published
         /\ jwks # 0 => jwks >= startedAt
         /\ startedAt <= published /\ startedAt > 0
BY DEF TrafficInv, SurroundingsInv, AllOK, RequestOK

(* An HTTP request comes: a target is picked at once, or none of the routes fits. *)
LEMMA ArriveOK ==
  ASSUME TrafficInv, NEW s \in InFlight, NEW fits \in SUBSET (Routes \ Grpc),
         NEW token \in 0..published, Arrive(s, fits, token)
  PROVE  \E q : /\ request' = [request EXCEPT ![s] = q]
                /\ RequestOK(q, published, startedAt)
                /\ q.at \in {"checking", "done"} /\ q.route \notin Grpc
<1>1. PICK route : route = FirstMatch(fits)
  OBVIOUS
<1>2. route \in (Routes \ Grpc) \cup {NoMatch}
  BY <1>1, MatchFacts DEF TrafficInv, SurroundingsInv
<1>3. PICK idle : idle = [Idle EXCEPT !.route = route, !.token = token]
  OBVIOUS
<1>4. published \in Nat /\ startedAt \in Nat /\ token \in Nat /\ token <= published
  BY RequestFacts
<1>5. idle = [at |-> "idle", route |-> route, token |-> token, chain |-> <<>>, set |-> 0,
              target |-> 0, outcomes |-> <<>>, answer |-> "none"]
  BY <1>3 DEF Idle
<1>6. idle \in RequestType
  BY <1>2, <1>4, <1>5 DEF RequestType, Stage, Answers
<1>7. CASE route = NoMatch
  <2>1. request' = [request EXCEPT ![s] = Answered(idle, "404")]
    BY <1>1, <1>3, <1>7 DEF Arrive
  <2>2. RequestOK(Answered(idle, "404"), published, startedAt)
    BY <1>4, <1>5, <1>6, AnsweredOK DEF Answers
  <2>3. Answered(idle, "404").at = "done" /\ Answered(idle, "404").route \notin Grpc
    BY <1>5, <1>7, GrpcAssumption, NoMatchAssumption DEF Answered, Idle
  <2> QED BY <2>1, <2>2, <2>3
<1>8. CASE route # NoMatch
  <2>1. PICK chain \in Seq(DOMAIN Order) : chain = Chain(route)
    BY <1>2, <1>8, ChainTypes DEF TrafficInv, SurroundingsInv
  <2>2. PICK target : target = IF Targets[route] > 0 THEN NextTarget(route) ELSE 0
    OBVIOUS
  <2>3. PICK q : q = [idle EXCEPT !.at = "checking", !.chain = chain, !.target = target]
    OBVIOUS
  <2>4. request' = [request EXCEPT ![s] = q]
    BY <1>1, <1>3, <1>8, <2>1, <2>2, <2>3 DEF Arrive
  <2>5. target \in Nat /\ (Targets[route] > 0 => target < Targets[route])
    <3>1. PICK n \in Nat : n = Targets[route]
      BY <1>2, <1>8, TargetsAssumption
    <3>2. PICK c \in Nat : c = counters[route]
      BY <1>2, <1>8 DEF TrafficInv, SurroundingsInv
    <3>3. n > 0 => c % n \in 0..n - 1
      BY <3>1, <3>2
    <3> QED BY <2>2, <3>1, <3>2, <3>3 DEF NextTarget
  <2>6. /\ q \in RequestType /\ q.at = "checking" /\ q.target = target /\ q.chain = chain
        /\ q.route = route /\ q.token = token /\ q.set = 0 /\ q.outcomes = <<>>
        /\ q.answer = "none"
    <3>1. /\ idle.route = route /\ idle.token = token /\ idle.set = 0 /\ idle.outcomes = <<>>
          /\ idle.answer = "none"
      BY <1>5
    <3>2. "checking" \in Stage
      BY DEF Stage
    <3> QED BY <1>6, <2>3, <2>5, <3>1, <3>2 DEF RequestType
  <2>7. RequestOK(q, published, startedAt)
    <3>1. AttemptsOK(q)
      BY <2>6 DEF AttemptsOK
    <3>2. KeysOK(q, published, startedAt)
      BY <1>4, <2>6 DEF KeysOK
    <3>3. TargetOK(q)
      BY <1>2, <1>8, <2>5, <2>6 DEF TargetOK
    <3> QED BY <2>6, <3>1, <3>2, <3>3 DEF RequestOK
  <2> QED BY <1>2, <1>8, <2>4, <2>6, <2>7
<1> QED BY <1>7, <1>8

\* A request whose target has still to be picked: gRPC before the end of the chain.
ToPick(q) == q.at \in {"bound", "checking", "fetching"} /\ q.route \in Grpc

(* A gRPC call comes: it is bound to its route, and its target is picked at the end of the chain. *)
LEMMA ServeOK ==
  ASSUME TrafficInv, NEW s \in InFlight, NEW fits \in SUBSET Grpc,
         NEW token \in 0..published, Serve(s, fits, token)
  PROVE  \E q : /\ request' = [request EXCEPT ![s] = q]
                /\ RequestOK(q, published, startedAt)
<1>1. PICK route : route = FirstMatch(fits)
  OBVIOUS
<1>2. route \in (Routes \cap Grpc) \cup {NoMatch}
  BY <1>1, MatchFacts, GrpcAssumption DEF TrafficInv, SurroundingsInv
<1>3. PICK idle : idle = [Idle EXCEPT !.route = route, !.token = token]
  OBVIOUS
<1>4. published \in Nat /\ startedAt \in Nat /\ token \in Nat /\ token <= published
  BY RequestFacts
<1>5. idle = [at |-> "idle", route |-> route, token |-> token, chain |-> <<>>, set |-> 0,
              target |-> 0, outcomes |-> <<>>, answer |-> "none"]
  BY <1>3 DEF Idle
<1>6. idle \in RequestType
  BY <1>2, <1>4, <1>5 DEF RequestType, Stage, Answers
<1>7. CASE route = NoMatch
  <2>1. request' = [request EXCEPT ![s] = Answered(idle, "404")]
    BY <1>1, <1>3, <1>7 DEF Serve
  <2>2. RequestOK(Answered(idle, "404"), published, startedAt)
    BY <1>4, <1>5, <1>6, AnsweredOK DEF Answers
  <2> QED BY <2>1, <2>2
<1>8. CASE route # NoMatch
  <2>1. PICK q : q = [idle EXCEPT !.at = "bound"]
    OBVIOUS
  <2>2. request' = [request EXCEPT ![s] = q]
    BY <1>1, <1>3, <1>8, <2>1 DEF Serve
  <2>3. /\ q \in RequestType /\ q.at = "bound" /\ q.route = route /\ q.token = token
        /\ q.set = 0 /\ q.outcomes = <<>> /\ q.answer = "none"
    <3>1. /\ idle.route = route /\ idle.token = token /\ idle.set = 0 /\ idle.outcomes = <<>>
          /\ idle.answer = "none" /\ "bound" \in Stage
      BY <1>5 DEF Stage
    <3> QED BY <1>6, <2>1, <3>1 DEF RequestType
  <2>4. AttemptsOK(q)
    BY <2>3 DEF AttemptsOK
  <2>5. KeysOK(q, published, startedAt)
    BY <1>4, <2>3 DEF KeysOK
  <2>6. TargetOK(q)
    BY <1>2, <1>8, <2>3 DEF TargetOK
  <2> QED BY <2>2, <2>3, <2>4, <2>5, <2>6 DEF RequestOK
<1> QED BY <1>7, <1>8

\* What a step of the chain or of a proxy may make of a request.
Follows(r, q) == RequestOK(r, published, startedAt) /\ (ToPick(r) => ToPick(q))

(* Answered, a request waits for no target. *)
LEMMA AnsweredFollows ==
  ASSUME TrafficInv, NEW q \in RequestType, NEW answer \in Answers \ {"none"},
         q.outcomes = <<>> \/ Ended([q EXCEPT !.answer = answer])
  PROVE  Follows(Answered(q, answer), q)
<1>1. published \in Nat /\ startedAt \in Nat
  BY DEF TrafficInv, SurroundingsInv
<1>2. Answered(q, answer).at = "done"
  BY DEF Answered, Idle
<1> QED BY <1>1, <1>2, AnsweredOK DEF Follows, ToPick

(* The call's chain is built. *)
LEMMA PrepareOK ==
  ASSUME TrafficInv, NEW s \in InFlight, Prepare(s)
  PROVE  \E r : request' = [request EXCEPT ![s] = r] /\ Follows(r, request[s])
<1>1. PICK q \in RequestType : q = request[s]
  BY RequestFacts
<1>2. q.at = "bound" /\ RequestOK(q, published, startedAt)
  BY <1>1, RequestFacts DEF Prepare
<1>3. q.route \in Routes /\ q.route \in Grpc /\ q.outcomes = <<>> /\ q.answer = "none"
  BY <1>2 DEF RequestOK, TargetOK, AttemptsOK
<1>4. PICK chain \in Seq(DOMAIN Order) : chain = Chain(q.route)
  BY <1>3, ChainTypes DEF TrafficInv, SurroundingsInv
<1>5. PICK r : r = [q EXCEPT !.at = "checking", !.chain = chain]
  OBVIOUS
<1>6. request' = [request EXCEPT ![s] = r]
  BY <1>1, <1>4, <1>5 DEF Prepare
<1>7. /\ r \in RequestType /\ r.at = "checking" /\ r.route = q.route /\ r.token = q.token
      /\ r.set = q.set /\ r.outcomes = <<>> /\ r.answer = "none"
  <2>1. "checking" \in Stage
    BY DEF Stage
  <2> QED BY <1>3, <1>5, <2>1 DEF RequestType
<1>8. AttemptsOK(r) /\ TargetOK(r)
  BY <1>3, <1>7 DEF AttemptsOK, TargetOK
<1>9. KeysOK(r, published, startedAt)
  BY <1>2, <1>7 DEF RequestOK, KeysOK
<1> QED BY <1>1, <1>2, <1>3, <1>6, <1>7, <1>8, <1>9 DEF Follows, RequestOK, ToPick

\* The next plugin is called: the chain gets shorter, whatever else it has learned.
LEMMA PassedFollows ==
  ASSUME TrafficInv, NEW q \in RequestType, RequestOK(q, published, startedAt),
         q.at \in {"checking", "fetching"}, q.chain # <<>>,
         NEW set \in Nat, set <= published,
         set # 0 => set >= startedAt /\ q.token = set
  PROVE  Follows([q EXCEPT !.at = "checking", !.chain = Tail(@), !.set = set], q)
<1>1. Tail(q.chain) \in Seq(DOMAIN Order)
  BY DEF RequestType
<1>2. PICK r : r = [q EXCEPT !.at = "checking", !.chain = Tail(@), !.set = set]
  OBVIOUS
<1>3. /\ r \in RequestType /\ r.at = "checking" /\ r.route = q.route /\ r.token = q.token
      /\ r.set = set /\ r.outcomes = q.outcomes /\ r.answer = q.answer /\ r.target = q.target
  <2>1. "checking" \in Stage
    BY DEF Stage
  <2> QED BY <1>1, <1>2, <2>1 DEF RequestType
<1>4. AttemptsOK(r) /\ TargetOK(r)
  BY <1>3 DEF RequestOK, AttemptsOK, TargetOK
<1>5. KeysOK(r, published, startedAt)
  BY <1>3 DEF RequestOK, KeysOK
<1> QED BY <1>2, <1>3, <1>4, <1>5 DEF Follows, RequestOK, ToPick

(* A token is judged by the key set: the chain goes on, or 401. *)
LEMMA JudgeFollows ==
  ASSUME TrafficInv, NEW q \in RequestType, RequestOK(q, published, startedAt),
         q.at \in {"checking", "fetching"}, q.chain # <<>>,
         NEW set \in Nat, set <= published, set >= startedAt
  PROVE  Follows(Judge(q, set), q)
<1>1. CASE Verifies(set, q.token)
  <2>1. Judge(q, set) = [q EXCEPT !.at = "checking", !.chain = Tail(@), !.set = set]
    BY <1>1 DEF Judge
  <2>2. q.token = set
    BY <1>1 DEF Verifies
  <2> QED BY <2>1, <2>2, PassedFollows
<1>2. CASE ~Verifies(set, q.token)
  <2>1. Judge(q, set) = Answered(q, "401")
    BY <1>2 DEF Judge
  <2>2. q.outcomes = <<>>
    BY DEF RequestOK, AttemptsOK
  <2> QED BY <2>1, <2>2, AnsweredFollows DEF Answers
<1> QED BY <1>1, <1>2

(* One plugin of the chain runs. *)
LEMMA RunPluginOK ==
  ASSUME TrafficInv, NEW s \in InFlight, RunPlugin(s)
  PROVE  \E r : request' = [request EXCEPT ![s] = r] /\ Follows(r, request[s])
<1>1. PICK q \in RequestType : q = request[s]
  BY RequestFacts
<1>2. q.at = "checking" /\ q.chain # <<>> /\ RequestOK(q, published, startedAt)
  BY <1>1, RequestFacts DEF RunPlugin
<1>3. /\ q.outcomes = <<>> /\ published \in Nat /\ startedAt \in Nat /\ jwks \in Nat
      /\ jwks <= published /\ (jwks # 0 => jwks >= startedAt)
  BY <1>2, RequestFacts DEF RequestOK, AttemptsOK
<1>4. CASE request' = [request EXCEPT ![s].chain = Tail(@)]
  <2>1. PICK r : r = [q EXCEPT !.chain = Tail(@)]
    OBVIOUS
  <2>2. request' = [request EXCEPT ![s] = r]
    BY <1>1, <1>4, <2>1
  <2>3. Tail(q.chain) \in Seq(DOMAIN Order)
    BY <1>2 DEF RequestType
  <2>4. /\ r \in RequestType /\ r.at = q.at /\ r.route = q.route /\ r.token = q.token
        /\ r.set = q.set /\ r.outcomes = q.outcomes /\ r.answer = q.answer /\ r.target = q.target
    BY <2>1, <2>3 DEF RequestType
  <2>5. AttemptsOK(r) /\ TargetOK(r)
    BY <1>2, <2>4 DEF RequestOK, AttemptsOK, TargetOK
  <2>6. KeysOK(r, published, startedAt)
    BY <1>2, <2>4 DEF RequestOK, KeysOK
  <2> QED BY <1>1, <2>2, <2>4, <2>5, <2>6 DEF Follows, RequestOK, ToPick
<1>5. CASE request' = [request EXCEPT ![s] = Answered(q, "refused by plugin")]
  BY <1>1, <1>3, <1>5, AnsweredFollows DEF Answers
<1>6. CASE jwks # 0 /\ request' = [request EXCEPT ![s] = Judge(q, jwks)]
  BY <1>1, <1>2, <1>3, <1>6, JudgeFollows
<1>7. CASE request' = [request EXCEPT ![s].at = "fetching", ![s].set = 0]
  <2>1. PICK r : r = [q EXCEPT !.at = "fetching", !.set = 0]
    OBVIOUS
  <2>2. request' = [request EXCEPT ![s] = r]
    BY <1>1, <1>7, <2>1
  <2>3. /\ r \in RequestType /\ r.at = "fetching" /\ r.route = q.route /\ r.token = q.token
        /\ r.set = 0 /\ r.outcomes = q.outcomes /\ r.answer = q.answer /\ r.target = q.target
        /\ r.chain = q.chain
    <3>1. "fetching" \in Stage
      BY DEF Stage
    <3> QED BY <2>1, <3>1 DEF RequestType
  <2>4. AttemptsOK(r) /\ TargetOK(r)
    BY <1>2, <2>3 DEF RequestOK, AttemptsOK, TargetOK
  <2>5. KeysOK(r, published, startedAt)
    BY <1>2, <1>3, <2>3 DEF RequestOK, KeysOK
  <2> QED BY <1>1, <1>2, <2>2, <2>3, <2>4, <2>5 DEF Follows, RequestOK, ToPick
<1>8. CASE request' = [request EXCEPT ![s] = Answered(q, "401")]
  BY <1>1, <1>3, <1>8, AnsweredFollows DEF Answers
<1> QED BY <1>1, <1>4, <1>5, <1>6, <1>7, <1>8 DEF RunPlugin

(* The provider answers with the key set it publishes. *)
LEMMA ProviderAnswersOK ==
  ASSUME TrafficInv, NEW s \in InFlight, ProviderAnswers(s)
  PROVE  \E r : request' = [request EXCEPT ![s] = r] /\ Follows(r, request[s])
<1>1. PICK q \in RequestType : q = request[s]
  BY RequestFacts
<1>2. q.at = "fetching" /\ q.set = 0 /\ RequestOK(q, published, startedAt)
  BY <1>1, RequestFacts DEF ProviderAnswers
<1>3. q.outcomes = <<>> /\ published \in Nat /\ startedAt \in Nat /\ startedAt <= published
  BY <1>2, RequestFacts DEF RequestOK, AttemptsOK
<1>4. CASE request' = [request EXCEPT ![s].set = published]
  <2>1. PICK r : r = [q EXCEPT !.set = published]
    OBVIOUS
  <2>2. request' = [request EXCEPT ![s] = r]
    BY <1>1, <1>4, <2>1
  <2>3. /\ r \in RequestType /\ r.at = "fetching" /\ r.route = q.route /\ r.token = q.token
        /\ r.set = published /\ r.outcomes = q.outcomes /\ r.answer = q.answer
        /\ r.target = q.target /\ r.chain = q.chain
    BY <1>2, <1>3, <2>1 DEF RequestType
  <2>4. AttemptsOK(r) /\ TargetOK(r)
    BY <1>2, <2>3 DEF RequestOK, AttemptsOK, TargetOK
  <2>5. KeysOK(r, published, startedAt)
    BY <1>2, <1>3, <2>3 DEF RequestOK, KeysOK
  <2> QED BY <1>1, <1>2, <2>2, <2>3, <2>4, <2>5 DEF Follows, RequestOK, ToPick
<1>5. CASE request' = [request EXCEPT ![s] = Answered(q, "401")]
  BY <1>1, <1>3, <1>5, AnsweredFollows DEF Answers
<1> QED BY <1>1, <1>4, <1>5 DEF ProviderAnswers

(* The key set fetched is the process's from now on, and judges the token it was fetched for. *)
LEMMA StoreKeySetOK ==
  ASSUME TrafficInv, NEW s \in InFlight, StoreKeySet(s)
  PROVE  /\ \E r : request' = [request EXCEPT ![s] = r] /\ Follows(r, request[s])
         /\ jwks' \in startedAt..published
<1>1. PICK q \in RequestType : q = request[s]
  BY RequestFacts
<1>2. /\ q.at = "fetching" /\ q.set # 0 /\ RequestOK(q, published, startedAt)
      /\ jwks' = q.set /\ request' = [request EXCEPT ![s] = Judge(q, q.set)]
  BY <1>1, RequestFacts DEF StoreKeySet
<1>3. /\ q.chain # <<>> /\ q.set \in Nat /\ q.set <= published /\ q.set >= startedAt
      /\ published \in Nat /\ startedAt \in Nat
  BY <1>2, RequestFacts DEF RequestOK, KeysOK, TargetOK, RequestType
<1>4. Follows(Judge(q, q.set), q)
  BY <1>2, <1>3, JudgeFollows
<1>5. jwks' \in startedAt..published
  BY <1>2, <1>3
<1> QED BY <1>1, <1>2, <1>4, <1>5

(* The chain is through: the first attempt may be made, or there is no target. *)
LEMMA AdmitOK ==
  ASSUME TrafficInv, NEW s \in InFlight, Admit(s)
  PROVE  \E r : /\ request' = [request EXCEPT ![s] = r] /\ RequestOK(r, published, startedAt)
                /\ ~ToPick(r)
<1>1. PICK q \in RequestType : q = request[s]
  BY RequestFacts
<1>2. q.at = "checking" /\ RequestOK(q, published, startedAt)
  BY <1>1, RequestFacts DEF Admit
<1>3. /\ q.route \in Routes /\ q.outcomes = <<>> /\ q.answer = "none" /\ "sending" \in Stage
      /\ Targets[q.route] \in Nat /\ Most(q.route) \in Nat /\ Most(q.route) > 0
  BY <1>2, TargetsAssumption DEF RequestOK, AttemptsOK, TargetOK, Stage, Most
<1>4. ASSUME NEW r \in RequestType, r.at = "sending", r.route = q.route, r.token = q.token,
             r.set = q.set, r.outcomes = <<>>, r.answer = "none", r.target < Targets[q.route]
      PROVE  RequestOK(r, published, startedAt) /\ ~ToPick(r)
  <2>1. AttemptsOK(r)
    BY <1>3, <1>4 DEF AttemptsOK, Sending
  <2>2. TargetOK(r)
    BY <1>3, <1>4 DEF TargetOK
  <2>3. KeysOK(r, published, startedAt)
    BY <1>2, <1>4 DEF RequestOK, KeysOK
  <2> QED BY <1>4, <2>1, <2>2, <2>3 DEF RequestOK, ToPick
<1>5. CASE request' = [request EXCEPT ![s] = Answered(q, "no upstream")]
  <2>1. Follows(Answered(q, "no upstream"), q) /\ Answered(q, "no upstream").at = "done"
    BY <1>3, AnsweredFollows DEF Answers, Answered, Idle
  <2> QED BY <1>5, <2>1 DEF Follows, ToPick
<1>6. CASE Targets[q.route] > 0 /\ request' = [request EXCEPT ![s] = ToSend(q)]
  <2>1. PICK target : target = NextTarget(q.route)
    OBVIOUS
  <2>2. target \in Nat /\ target < Targets[q.route]
    <3>1. PICK n \in Nat : n = Targets[q.route]
      BY <1>3
    <3>2. PICK c \in Nat : c = counters[q.route]
      BY <1>3 DEF TrafficInv, SurroundingsInv
    <3>3. n > 0 => c % n \in 0..n - 1
      BY <3>1, <3>2
    <3> QED BY <1>6, <2>1, <3>1, <3>2, <3>3 DEF NextTarget
  <2>3. PICK r : r = [q EXCEPT !.at = "sending", !.target = target]
    OBVIOUS
  <2>4. ToSend(q) = r
    BY <2>1, <2>3 DEF ToSend
  <2>5. /\ r \in RequestType /\ r.at = "sending" /\ r.route = q.route /\ r.token = q.token
        /\ r.set = q.set /\ r.outcomes = <<>> /\ r.answer = "none" /\ r.target = target
    BY <1>3, <2>2, <2>3 DEF RequestType
  <2> QED BY <1>4, <1>6, <2>2, <2>4, <2>5
<1>7. CASE /\ Targets[q.route] > 0 /\ q.route \notin Grpc
           /\ request' = [request EXCEPT ![s].at = "sending"]
  <2>1. PICK r : r = [q EXCEPT !.at = "sending"]
    OBVIOUS
  <2>2. request' = [request EXCEPT ![s] = r]
    BY <1>1, <1>7, <2>1
  <2>3. /\ r \in RequestType /\ r.at = "sending" /\ r.route = q.route /\ r.token = q.token
        /\ r.set = q.set /\ r.outcomes = <<>> /\ r.answer = "none" /\ r.target = q.target
    BY <1>3, <2>1 DEF RequestType
  <2>4. q.target < Targets[q.route]
    BY <1>2, <1>7 DEF RequestOK, TargetOK
  <2> QED BY <1>4, <2>2, <2>3, <2>4
<1> QED BY <1>1, <1>5, <1>6, <1>7 DEF Admit

\* One more outcome.
LEMMA TriedFacts ==
  ASSUME NEW q \in RequestType, NEW outcome \in Outcome
  PROVE  \E r \in RequestType :
           /\ r = [q EXCEPT !.outcomes = Append(@, outcome)]
           /\ r.at = q.at /\ r.route = q.route /\ r.token = q.token /\ r.set = q.set
           /\ r.answer = q.answer /\ r.target = q.target /\ r.chain = q.chain
           /\ Len(q.outcomes) \in Nat /\ Len(r.outcomes) = Len(q.outcomes) + 1
           /\ DOMAIN q.outcomes = 1..Len(q.outcomes)
           /\ DOMAIN r.outcomes = 1..Len(q.outcomes) + 1
           /\ \A i \in 1..Len(q.outcomes) : r.outcomes[i] = q.outcomes[i]
           /\ r.outcomes[Len(q.outcomes) + 1] = outcome
<1>1. PICK os \in Seq(Outcome) : os = q.outcomes
  BY DEF RequestType
<1>2. PICK ps \in Seq(Outcome) : ps = Append(os, outcome)
  <2>1. PICK O : O = Outcome
    OBVIOUS
  <2>2. os \in Seq(O) /\ outcome \in O
    BY <2>1
  <2>3. Append(os, outcome) \in Seq(O)
    BY <2>2
  <2> QED BY <2>1, <2>3
<1>3. /\ Len(os) \in Nat /\ Len(ps) = Len(os) + 1 /\ DOMAIN os = 1..Len(os)
      /\ DOMAIN ps = 1..Len(os) + 1 /\ \A i \in 1..Len(os) : ps[i] = os[i]
      /\ ps[Len(os) + 1] = outcome
  BY <1>2
<1>4. PICK r : r = [q EXCEPT !.outcomes = ps]
  OBVIOUS
<1>5. /\ r \in RequestType /\ r.outcomes = ps
      /\ r.at = q.at /\ r.route = q.route /\ r.token = q.token /\ r.set = q.set
      /\ r.answer = q.answer /\ r.target = q.target /\ r.chain = q.chain
  BY <1>4 DEF RequestType
<1>6. r = [q EXCEPT !.outcomes = Append(@, outcome)]
  BY <1>1, <1>2, <1>4
<1> QED BY <1>1, <1>3, <1>5, <1>6

(* An HTTP attempt ends: it is answered, or one more is left. *)
LEMMA AttemptOK ==
  ASSUME TrafficInv, NEW s \in InFlight, NEW outcome \in Outcome, Attempt(s, outcome)
  PROVE  \E r : request' = [request EXCEPT ![s] = r] /\ Follows(r, request[s])
<1>1. PICK q \in RequestType : q = request[s]
  BY RequestFacts
<1>2. q.at = "sending" /\ q.route \notin Grpc /\ RequestOK(q, published, startedAt)
  BY <1>1, RequestFacts DEF Attempt
<1>3. /\ q.route \in Routes /\ Retries[q.route] \in Nat
      /\ Most(q.route) = Retries[q.route] + 1
      /\ Len(q.outcomes) < Most(q.route)
      /\ \A i \in DOMAIN q.outcomes : q.outcomes[i] \in Retryable
  BY <1>2, TargetsAssumption DEF RequestOK, TargetOK, AttemptsOK, Sending, Most
<1>4. PICK r \in RequestType :
        /\ r = [q EXCEPT !.outcomes = Append(@, outcome)]
        /\ r.at = q.at /\ r.route = q.route /\ r.token = q.token /\ r.set = q.set
        /\ r.answer = q.answer /\ r.target = q.target /\ r.chain = q.chain
        /\ Len(q.outcomes) \in Nat /\ Len(r.outcomes) = Len(q.outcomes) + 1
        /\ DOMAIN q.outcomes = 1..Len(q.outcomes)
        /\ DOMAIN r.outcomes = 1..Len(q.outcomes) + 1
        /\ \A i \in 1..Len(q.outcomes) : r.outcomes[i] = q.outcomes[i]
        /\ r.outcomes[Len(q.outcomes) + 1] = outcome
  BY TriedFacts
<1>5. CASE TriesAgain(q, outcome)
  <2>1. request' = [request EXCEPT ![s] = r]
    BY <1>1, <1>4, <1>5 DEF Attempt
  <2>2. outcome \in Retryable /\ Len(q.outcomes) < Retries[q.route]
    BY <1>5 DEF TriesAgain, Retryable
  <2>3. AttemptsOK(r)
    <3>1. Len(r.outcomes) < Most(r.route)
      BY <1>3, <1>4, <2>2
    <3>2. \A i \in 1..Len(q.outcomes) + 1 : i \in 1..Len(q.outcomes) \/ i = Len(q.outcomes) + 1
      BY <1>4
    <3>3. \A i \in DOMAIN r.outcomes : r.outcomes[i] \in Retryable
      BY <1>3, <1>4, <2>2, <3>2
    <3> QED BY <1>2, <1>4, <3>1, <3>3 DEF AttemptsOK, Sending
  <2>4. TargetOK(r)
    BY <1>2, <1>4 DEF RequestOK, TargetOK
  <2>5. KeysOK(r, published, startedAt)
    BY <1>2, <1>4 DEF RequestOK, KeysOK
  <2> QED BY <1>1, <1>2, <1>4, <2>1, <2>3, <2>4, <2>5 DEF Follows, RequestOK, ToPick
<1>6. CASE ~TriesAgain(q, outcome)
  <2>1. PICK answer \in Answers \ {"none"} :
          answer = AnswerTo(outcome) /\ (answer = "upstream's" <=> outcome \in {"good", "again"})
    <3>1. CASE outcome \in {"good", "again"}
      <4>1. AnswerTo(outcome) = "upstream's"
        BY <3>1 DEF AnswerTo
      <4> QED BY <3>1, <4>1 DEF Answers
    <3>2. CASE outcome \notin {"good", "again"}
      <4>1. AnswerTo(outcome) \in {"504", "502", "500"}
        BY <3>2 DEF AnswerTo, Outcome
      <4>2. AnswerTo(outcome) \in Answers \ {"none"} /\ AnswerTo(outcome) # "upstream's"
        BY <4>1 DEF Answers
      <4> QED BY <3>2, <4>2
    <3> QED BY <3>1, <3>2
  <2>2. request' = [request EXCEPT ![s] = Answered(r, answer)]
    BY <1>1, <1>4, <1>6, <2>1 DEF Attempt
  <2>3. PICK e : e = [r EXCEPT !.answer = answer]
    OBVIOUS
  <2>4. e.route = r.route /\ e.outcomes = r.outcomes /\ e.answer = answer
    BY <2>3 DEF RequestType
  <2>5. Ended(e)
    <3>1. Len(e.outcomes) = Len(q.outcomes) + 1 /\ Len(e.outcomes) <= Most(e.route)
      BY <1>3, <1>4, <2>4
    <3>2. \A i \in 1..(Len(e.outcomes) - 1) : e.outcomes[i] \in Retryable
      BY <1>3, <1>4, <2>4, <3>1
    <3>3. Len(e.outcomes) < Most(e.route) => outcome \notin Retryable
      BY <1>3, <1>4, <1>6, <2>4, <3>1 DEF TriesAgain, Retryable
    <3>4. e.outcomes[Len(e.outcomes)] = outcome
      BY <1>4, <2>4, <3>1
    <3> QED BY <1>3, <1>4, <2>1, <2>4, <3>1, <3>2, <3>3, <3>4 DEF Ended
  <2>6. Follows(Answered(r, answer), r)
    BY <2>3, <2>5, AnsweredFollows
  <2>7. ~ToPick(r)
    BY <1>2, <1>4 DEF ToPick
  <2> QED BY <2>2, <2>6, <2>7 DEF Follows
<1> QED BY <1>5, <1>6

(* A gRPC call ends, and so does its request. *)
LEMMA CallOK ==
  ASSUME TrafficInv, NEW s \in InFlight, NEW outcome \in CallOutcome, Call(s, outcome)
  PROVE  \E r : request' = [request EXCEPT ![s] = r] /\ Follows(r, request[s])
<1>0. outcome \in Outcome
  BY DEF CallOutcome, Outcome
<1>1. PICK q \in RequestType : q = request[s]
  BY RequestFacts
<1>2. q.at = "sending" /\ q.route \in Grpc /\ RequestOK(q, published, startedAt)
  BY <1>1, RequestFacts DEF Call
<1>3. PICK r \in RequestType :
        /\ r = [q EXCEPT !.outcomes = Append(@, outcome)]
        /\ r.at = q.at /\ r.route = q.route
        /\ Len(q.outcomes) \in Nat /\ Len(r.outcomes) = Len(q.outcomes) + 1
        /\ r.outcomes[Len(q.outcomes) + 1] = outcome
  BY <1>0, TriedFacts
<1>4. q.route \in Routes /\ Most(q.route) = 1 /\ Len(q.outcomes) < 1
  BY <1>2 DEF RequestOK, TargetOK, AttemptsOK, Sending, Most
<1>5. PICK answer \in Answers \ {"none"} :
        /\ answer = IF outcome = "good" THEN "upstream's" ELSE "aborted"
        /\ answer = "upstream's" <=> outcome \in {"good", "again"}
  <2>1. PICK answer : answer = IF outcome = "good" THEN "upstream's" ELSE "aborted"
    OBVIOUS
  <2>2. answer \in Answers \ {"none"}
    BY <2>1 DEF Answers
  <2>3. answer = "upstream's" <=> outcome \in {"good", "again"}
    BY <2>1 DEF CallOutcome
  <2> QED BY <2>1, <2>2, <2>3
<1>6. request' = [request EXCEPT ![s] = Answered(r, answer)]
  BY <1>1, <1>3, <1>5 DEF Call
<1>7. PICK e : e = [r EXCEPT !.answer = answer]
  OBVIOUS
<1>8. e.route = r.route /\ e.outcomes = r.outcomes /\ e.answer = answer
  BY <1>7 DEF RequestType
<1>9. Ended(e)
  <2>1. Len(q.outcomes) = 0 /\ Len(e.outcomes) = 1 /\ e.outcomes[1] = outcome /\ Most(e.route) = 1
    BY <1>3, <1>4, <1>8
  <2> QED BY <1>3, <1>4, <1>5, <1>8, <2>1 DEF Ended
<1>10. Follows(Answered(r, answer), r)
  BY <1>7, <1>9, AnsweredFollows
<1>11. ~ToPick(r)
  BY <1>2, <1>3 DEF ToPick
<1> QED BY <1>6, <1>10, <1>11 DEF Follows

----------------------------------------------------------------------------
\* c turns have been dealt out among n targets.
DealtEvenly(p, c, n) ==
  /\ p \in [0..(n - 1) -> Nat]
  /\ n > 0 => \E rounds \in Nat : \A t \in 0..(n - 1) :
                p[t] = IF t < c % n THEN rounds + 1 ELSE rounds

(* The requests that will still take a turn. *)
Picking == {s \in InFlight : ToPick(request[s])}

(* Every route's counter has dealt out its turns in order. *)
DealtInv ==
  /\ DOMAIN picked = Routes
  /\ \A r \in Routes : DealtEvenly(picked[r], counters[r], Targets[r])

(* No more turns are taken than requests have come. *)
CountedInv == \A r \in Routes : counters[r] + Cardinality(Picking) <= arrivals

(* The inductive invariant of the gateway's traffic. *)
TrafficAll == TrafficInv /\ DealtInv /\ CountedInv

(* No turn dealt, none had. *)
LEMMA NothingDealt ==
  ASSUME NEW n \in Nat
  PROVE  DealtEvenly([t \in 0..(n - 1) |-> 0], 0, n)
<1>1. PICK p : p = [t \in 0..(n - 1) |-> 0]
  OBVIOUS
<1>2. p \in [0..(n - 1) -> Nat] /\ \A t \in 0..(n - 1) : p[t] = 0
  BY <1>1
<1>3. ASSUME n > 0 PROVE \A t \in 0..(n - 1) : ~(t < 0 % n)
  <2>1. 0 % n = 0
    BY <1>3
  <2> QED BY <2>1
<1> QED BY <1>1, <1>2, <1>3 DEF DealtEvenly

(* The next turn goes to the target after the last one, round the ring. *)
LEMMA DealtNext ==
  ASSUME NEW n \in Nat \ {0}, NEW c \in Nat, NEW p, DealtEvenly(p, c, n)
  PROVE  DealtEvenly([p EXCEPT ![c % n] = @ + 1], c + 1, n)
<1>1. PICK rounds \in Nat :
          \A t \in 0..(n - 1) : p[t] = IF t < c % n THEN rounds + 1 ELSE rounds
  BY DEF DealtEvenly
<1>2. PICK m \in 0..(n - 1) : m = c % n
  OBVIOUS
<1>3. PICK k \in 0..(n - 1) : k = (c + 1) % n /\ k = IF m = n - 1 THEN 0 ELSE m + 1
  <2>1. (c + 1) % n = IF m = n - 1 THEN 0 ELSE m + 1
    BY <1>2, NextRemainder
  <2>2. (IF m = n - 1 THEN 0 ELSE m + 1) \in 0..(n - 1)
    BY <1>2
  <2> QED BY <2>1, <2>2
<1>4. PICK q : q = [p EXCEPT ![m] = @ + 1]
  OBVIOUS
<1>5. /\ p \in [0..(n - 1) -> Nat]
      /\ \A t \in 0..(n - 1) : p[t] = IF t < m THEN rounds + 1 ELSE rounds
  BY <1>1, <1>2 DEF DealtEvenly
<1>6. /\ q \in [0..(n - 1) -> Nat]
      /\ \A t \in 0..(n - 1) : q[t] = IF t <= m THEN rounds + 1 ELSE rounds
  BY <1>2, <1>4, <1>5
<1>7. \E more \in Nat : \A t \in 0..(n - 1) : q[t] = IF t < k THEN more + 1 ELSE more
  <2>1. CASE m = n - 1
    <3>1. k = 0 /\ \A t \in 0..(n - 1) : t <= m /\ ~(t < k)
      BY <1>3, <2>1
    <3>2. rounds + 1 \in Nat /\ \A t \in 0..(n - 1) : q[t] = rounds + 1
      BY <1>6, <3>1
    <3> QED BY <3>1, <3>2
  <2>2. CASE m # n - 1
    <3>1. \A t \in 0..(n - 1) : t <= m <=> t < k
      BY <1>2, <1>3, <2>2
    <3> QED BY <1>6, <3>1
  <2> QED BY <2>1, <2>2
<1> QED BY <1>2, <1>3, <1>4, <1>6, <1>7 DEF DealtEvenly

(* Picking a target deals one turn. *)
LEMMA PickDeals ==
  ASSUME TrafficAll, NEW r \in Routes, Targets[r] > 0, Pick(r)
  PROVE  /\ DealtInv'
         /\ counters' \in [Routes -> Nat]
         /\ \A u \in Routes : counters'[u] <= counters[u] + 1
<1>1. PICK n \in Nat \ {0} : n = Targets[r]
  BY TargetsAssumption
<1>2. counters \in [Routes -> Nat] /\ DOMAIN picked = Routes
  BY DEF TrafficAll, TrafficInv, SurroundingsInv, DealtInv
<1>3. PICK c \in Nat : c = counters[r]
  BY <1>2
<1>4. PICK p : p = picked[r] /\ DealtEvenly(p, c, n)
  BY <1>1, <1>3 DEF TrafficAll, DealtInv
<1>5. counters' = [counters EXCEPT ![r] = c + 1]
  BY <1>3 DEF Pick
<1>6. picked' = [picked EXCEPT ![r] = [p EXCEPT ![c % n] = @ + 1]]
  BY <1>1, <1>3, <1>4 DEF Pick, NextTarget
<1>7. /\ counters' \in [Routes -> Nat] /\ counters'[r] = c + 1
      /\ \A u \in Routes : u # r => counters'[u] = counters[u]
  BY <1>2, <1>5
<1>8. /\ DOMAIN picked' = Routes /\ picked'[r] = [p EXCEPT ![c % n] = @ + 1]
      /\ \A u \in Routes : u # r => picked'[u] = picked[u]
  BY <1>2, <1>6
<1>9. \A u \in Routes : DealtEvenly(picked'[u], counters'[u], Targets[u])
  <2>1. DealtEvenly([p EXCEPT ![c % n] = @ + 1], c + 1, n)
    BY <1>4, DealtNext
  <2>2. \A u \in Routes : DealtEvenly(picked[u], counters[u], Targets[u])
    BY DEF TrafficAll, DealtInv
  <2> QED BY <1>1, <1>7, <1>8, <2>1, <2>2
<1>10. \A u \in Routes : counters'[u] <= counters[u] + 1
  BY <1>2, <1>3, <1>7
<1> QED BY <1>7, <1>8, <1>9, <1>10 DEF DealtInv

\* Picking when one request changes.
LEMMA PickingFacts ==
  ASSUME TrafficInv, NEW s \in InFlight, NEW q, request' = [request EXCEPT ![s] = q]
  PROVE  /\ IsFiniteSet(Picking) /\ Cardinality(Picking) \in Nat /\ Cardinality(Picking') \in Nat
         /\ (ToPick(q) => ToPick(request[s])) => Cardinality(Picking') <= Cardinality(Picking)
         /\ Cardinality(Picking') <= Cardinality(Picking) + 1
         /\ ToPick(request[s]) /\ ~ToPick(q) => Cardinality(Picking') = Cardinality(Picking) - 1
<1>1. \A t \in InFlight : request'[t] = IF t = s THEN q ELSE request[t]
  BY DEF TrafficInv, SurroundingsInv
<1>2. PICK P : P = Picking
  OBVIOUS
<1>3. PICK R : R = Picking'
  OBVIOUS
<1>4. R = {t \in InFlight : IF t = s THEN ToPick(q) ELSE ToPick(request[t])}
  BY <1>1, <1>3 DEF Picking, ToPick
<1>5. P = {t \in InFlight : ToPick(request[t])}
  BY <1>2 DEF Picking
<1>6. IsFiniteSet(P) /\ IsFiniteSet(R) /\ Cardinality(P) \in Nat /\ Cardinality(R) \in Nat
  BY <1>4, <1>5, InFlightAssumption, FS_Subset, FS_CardinalityType
<1>7. ASSUME ToPick(q) => ToPick(request[s]) PROVE Cardinality(R) <= Cardinality(P)
  <2>1. R \subseteq P
    BY <1>4, <1>5, <1>7
  <2> QED BY <1>6, <2>1, FS_Subset
<1>8. Cardinality(R) <= Cardinality(P) + 1
  <2>1. R \subseteq P \cup {s}
    BY <1>4, <1>5
  <2>2. PICK U : U = P \cup {s}
    OBVIOUS
  <2>3. IsFiniteSet(U) /\ Cardinality(U) <= Cardinality(P) + 1 /\ Cardinality(U) \in Nat
    <3>1. IsFiniteSet(U) /\ Cardinality(U) = IF s \in P THEN Cardinality(P) ELSE Cardinality(P) + 1
      BY <1>6, <2>2, FS_AddElement
    <3> QED BY <1>6, <3>1
  <2>4. Cardinality(R) <= Cardinality(U)
    BY <2>1, <2>2, <2>3, FS_Subset
  <2> QED BY <1>6, <2>3, <2>4
<1>9. ASSUME ToPick(request[s]), ~ToPick(q) PROVE Cardinality(R) = Cardinality(P) - 1
  <2>1. R = P \ {s} /\ s \in P
    BY <1>4, <1>5, <1>9
  <2> QED BY <1>6, <2>1, FS_RemoveElement
<1> QED BY <1>2, <1>3, <1>6, <1>7, <1>8, <1>9

----------------------------------------------------------------------------
(* What the steps need of the invariant. *)
LEMMA AllFacts ==
  ASSUME TrafficAll
  PROVE  /\ TrafficInv /\ DealtInv /\ CountedInv
         /\ counters \in [Routes -> Nat] /\ arrivals \in 0..MaxArrivals
         /\ reloads \in 0..MaxReloads /\ MaxArrivals \in Nat /\ MaxReloads \in Nat
         /\ published \in Nat /\ jwks \in 0..published /\ startedAt \in 1..published
BY ArrivalsAssumption DEF TrafficAll, TrafficInv, SurroundingsInv

(* A step of a request that takes no turn. *)
LEMMA QuietStep ==
  ASSUME TrafficAll, NEW s \in InFlight, NEW q,
         request' = [request EXCEPT ![s] = q], Follows(q, request[s]),
         UNCHANGED <<table, globals, counters, published, arrivals, reloads, picked, startedAt>>,
         jwks' = jwks \/ jwks' \in startedAt..published
  PROVE  TrafficAll'
<1>1. TrafficInv /\ RequestOK(q, published, startedAt) /\ (ToPick(q) => ToPick(request[s]))
  BY DEF TrafficAll, Follows
<1>2. AllOK' /\ DOMAIN request' = InFlight
  BY <1>1, OneRequest
<1>3. SurroundingsInv'
  BY <1>1, <1>2 DEF TrafficInv, SurroundingsInv
<1>4. Cardinality(Picking') <= Cardinality(Picking)
      /\ Cardinality(Picking') \in Nat /\ Cardinality(Picking) \in Nat
  BY <1>1, PickingFacts
<1>5. CountedInv'
  <2> SUFFICES ASSUME NEW r \in Routes PROVE counters'[r] + Cardinality(Picking') <= arrivals'
    BY DEF CountedInv
  <2>1. counters[r] \in Nat /\ arrivals \in Nat /\ counters[r] + Cardinality(Picking) <= arrivals
    BY AllFacts DEF CountedInv
  <2>2. counters'[r] = counters[r] /\ arrivals' = arrivals
    OBVIOUS
  <2> QED BY <1>4, <2>1, <2>2
<1>6. DealtInv'
  BY DEF TrafficAll, DealtInv
<1> QED BY <1>2, <1>3, <1>5, <1>6 DEF TrafficAll, TrafficInv

(* A request that comes takes its turn at once, or none. *)
LEMMA ArriveStep ==
  ASSUME TrafficAll, NEW s \in InFlight, NEW fits \in SUBSET (Routes \ Grpc),
         NEW token \in 0..published, Arrive(s, fits, token)
  PROVE  TrafficAll'
<1>1. PICK q : /\ request' = [request EXCEPT ![s] = q] /\ RequestOK(q, published, startedAt)
               /\ q.at \in {"checking", "done"} /\ q.route \notin Grpc
  BY ArriveOK DEF TrafficAll
<1>2. /\ arrivals' = arrivals + 1 /\ arrivals < MaxArrivals
      /\ UNCHANGED <<table, globals, jwks, published, reloads, startedAt>>
  BY DEF Arrive
<1>3. AllOK' /\ DOMAIN request' = InFlight
  BY <1>1, <1>2, OneRequest DEF TrafficAll
<1>4. /\ DealtInv' /\ counters' \in [Routes -> Nat]
      /\ \A u \in Routes : counters'[u] <= counters[u] + 1
  <2>1. CASE UNCHANGED <<counters, picked>>
    <3>1. \A u \in Routes : counters[u] <= counters[u] + 1
      BY AllFacts
    <3> QED BY <2>1, <3>1, AllFacts DEF DealtInv
  <2>2. ASSUME NEW r \in Routes, Targets[r] > 0, Pick(r)
        PROVE  /\ DealtInv' /\ counters' \in [Routes -> Nat]
               /\ \A u \in Routes : counters'[u] <= counters[u] + 1
    BY <2>2, PickDeals
  <2>3. FirstMatch(fits) \in Routes \cup {NoMatch}
    BY MatchFacts DEF TrafficAll, TrafficInv, SurroundingsInv
  <2>4. \/ UNCHANGED <<counters, picked>>
        \/ FirstMatch(fits) \in Routes /\ Targets[FirstMatch(fits)] > 0 /\ Pick(FirstMatch(fits))
    BY <2>3 DEF Arrive
  <2> QED BY <2>1, <2>2, <2>4
<1>5. SurroundingsInv'
  BY <1>2, <1>3, <1>4, AllFacts DEF TrafficInv, SurroundingsInv
<1>6. /\ Cardinality(Picking') <= Cardinality(Picking)
      /\ Cardinality(Picking') \in Nat /\ Cardinality(Picking) \in Nat
  <2>1. ~ToPick(q)
    BY <1>1 DEF ToPick
  <2> QED BY <1>1, <2>1, PickingFacts DEF TrafficAll
<1>7. CountedInv'
  <2> SUFFICES ASSUME NEW r \in Routes PROVE counters'[r] + Cardinality(Picking') <= arrivals'
    BY DEF CountedInv
  <2>1. counters[r] \in Nat /\ arrivals \in Nat /\ counters[r] + Cardinality(Picking) <= arrivals
    BY AllFacts DEF CountedInv
  <2>2. counters'[r] <= counters[r] + 1 /\ counters'[r] \in Nat /\ arrivals' = arrivals + 1
    BY <1>2, <1>4
  <2> QED BY <1>6, <2>1, <2>2
<1> QED BY <1>3, <1>4, <1>5, <1>7 DEF TrafficAll, TrafficInv

(* A call that comes will take one. *)
LEMMA ServeStep ==
  ASSUME TrafficAll, NEW s \in InFlight, NEW fits \in SUBSET Grpc,
         NEW token \in 0..published, Serve(s, fits, token)
  PROVE  TrafficAll'
<1>1. PICK q : request' = [request EXCEPT ![s] = q] /\ RequestOK(q, published, startedAt)
  BY ServeOK DEF TrafficAll
<1>2. /\ arrivals' = arrivals + 1 /\ arrivals < MaxArrivals
      /\ UNCHANGED <<table, globals, counters, jwks, published, reloads, picked, startedAt>>
  BY DEF Serve
<1>3. AllOK' /\ DOMAIN request' = InFlight
  BY <1>1, <1>2, OneRequest DEF TrafficAll
<1>4. SurroundingsInv'
  BY <1>2, <1>3, AllFacts DEF TrafficInv, SurroundingsInv
<1>5. /\ Cardinality(Picking') <= Cardinality(Picking) + 1
      /\ Cardinality(Picking') \in Nat /\ Cardinality(Picking) \in Nat
  BY <1>1, PickingFacts DEF TrafficAll
<1>6. CountedInv'
  <2> SUFFICES ASSUME NEW r \in Routes PROVE counters'[r] + Cardinality(Picking') <= arrivals'
    BY DEF CountedInv
  <2>1. counters[r] \in Nat /\ arrivals \in Nat /\ counters[r] + Cardinality(Picking) <= arrivals
    BY AllFacts DEF CountedInv
  <2>2. counters'[r] = counters[r] /\ arrivals' = arrivals + 1
    BY <1>2
  <2> QED BY <1>5, <2>1, <2>2
<1>7. DealtInv'
  BY <1>2, AllFacts DEF DealtInv
<1> QED BY <1>3, <1>4, <1>6, <1>7 DEF TrafficAll, TrafficInv

(* A call takes its turn. *)
LEMMA AdmitStep ==
  ASSUME TrafficAll, NEW s \in InFlight, Admit(s)
  PROVE  TrafficAll'
<1>1. PICK q : /\ request' = [request EXCEPT ![s] = q] /\ RequestOK(q, published, startedAt)
               /\ ~ToPick(q)
  BY AdmitOK DEF TrafficAll
<1>2. UNCHANGED <<table, globals, jwks, published, arrivals, reloads, startedAt>>
  BY DEF Admit
<1>3. AllOK' /\ DOMAIN request' = InFlight
  BY <1>1, <1>2, OneRequest DEF TrafficAll
<1>4. PICK route : route = request[s].route
  OBVIOUS
<1>5. route \in Routes
  BY <1>4, RequestFacts DEF TrafficAll, RequestOK, TargetOK, Admit
<1>6. \/ UNCHANGED <<counters, picked>>
      \/ Targets[route] > 0 /\ route \in Grpc /\ Pick(route) /\ request[s].at = "checking"
  BY <1>4 DEF Admit
<1>7. CASE UNCHANGED <<counters, picked>>
  <2>1. Follows(q, request[s])
    BY <1>1 DEF Follows
  <2> QED BY <1>1, <1>2, <1>7, <2>1, QuietStep
<1>8. CASE Targets[route] > 0 /\ route \in Grpc /\ Pick(route) /\ request[s].at = "checking"
  <2>1. /\ DealtInv' /\ counters' \in [Routes -> Nat]
        /\ \A u \in Routes : counters'[u] <= counters[u] + 1
    BY <1>5, <1>8, PickDeals
  <2>2. ToPick(request[s])
    BY <1>4, <1>8 DEF ToPick
  <2>3. /\ Cardinality(Picking') = Cardinality(Picking) - 1
        /\ Cardinality(Picking') \in Nat /\ Cardinality(Picking) \in Nat
    BY <1>1, <2>2, PickingFacts DEF TrafficAll
  <2>4. CountedInv'
    <3> SUFFICES ASSUME NEW r \in Routes PROVE counters'[r] + Cardinality(Picking') <= arrivals'
      BY DEF CountedInv
    <3>1. counters[r] \in Nat /\ arrivals \in Nat /\ counters[r] + Cardinality(Picking) <= arrivals
      BY AllFacts DEF CountedInv
    <3>2. counters'[r] <= counters[r] + 1 /\ counters'[r] \in Nat /\ arrivals' = arrivals
      BY <1>2, <2>1
    <3> QED BY <2>3, <3>1, <3>2
  <2>5. SurroundingsInv'
    BY <1>2, <1>3, <2>1, AllFacts DEF TrafficInv, SurroundingsInv
  <2> QED BY <1>3, <2>1, <2>4, <2>5 DEF TrafficAll, TrafficInv
<1> QED BY <1>6, <1>7, <1>8

(* A reload drops the counters of the routes it drops, and the turns dealt with them. *)
LEMMA ReloadStep ==
  ASSUME TrafficAll, NEW t \in Tables, NEW g \in Globals, Reload(t, g)
  PROVE  TrafficAll'
<1>1. /\ table' = t /\ globals' = g /\ reloads' = reloads + 1 /\ reloads < MaxReloads
      /\ counters' = [r \in Routes |-> IF r \in ToSet(t) THEN counters[r] ELSE 0]
      /\ picked' = [r \in Routes |-> IF r \in ToSet(t) THEN picked[r] ELSE NoPicks[r]]
      /\ UNCHANGED <<jwks, published, request, arrivals, startedAt>>
  BY DEF Reload, KeptCounters
<1>2. SurroundingsInv'
  BY <1>1, AllFacts DEF TrafficInv, SurroundingsInv
<1>3. AllOK'
  BY <1>1, AllFacts DEF TrafficInv, AllOK
<1>4. DealtInv'
  <2>1. \A r \in Routes : NoPicks[r] = [u \in 0..(Targets[r] - 1) |-> 0]
    BY DEF NoPicks
  <2>2. \A r \in Routes : DealtEvenly(NoPicks[r], 0, Targets[r])
    BY <2>1, NothingDealt, TargetsAssumption
  <2>3. DOMAIN picked' = Routes
    BY <1>1
  <2>4. \A r \in Routes : DealtEvenly(picked'[r], counters'[r], Targets[r])
    BY <1>1, <2>2, AllFacts DEF DealtInv
  <2> QED BY <2>3, <2>4 DEF DealtInv
<1>5. CountedInv'
  <2>1. Picking' = Picking
    BY <1>1 DEF Picking
  <2>2. Cardinality(Picking) \in Nat
    BY InFlightAssumption, FS_Subset, FS_CardinalityType DEF Picking
  <2> SUFFICES ASSUME NEW r \in Routes PROVE counters'[r] + Cardinality(Picking) <= arrivals
    BY <1>1, <2>1 DEF CountedInv
  <2>3. counters[r] \in Nat /\ arrivals \in Nat /\ counters[r] + Cardinality(Picking) <= arrivals
    BY AllFacts DEF CountedInv
  <2>4. counters'[r] <= counters[r] /\ counters'[r] \in Nat
    BY <1>1, <2>3
  <2> QED BY <2>2, <2>3, <2>4
<1> QED BY <1>2, <1>3, <1>4, <1>5 DEF TrafficAll, TrafficInv

(* A new key set makes the older ones no newer. *)
LEMMA RotateStep ==
  ASSUME TrafficAll, RotateKeySet
  PROVE  TrafficAll'
<1>1. /\ published' = published + 1 /\ reloads' = reloads + 1 /\ reloads < MaxReloads
      /\ UNCHANGED <<table, globals, counters, jwks, request, arrivals, picked, startedAt>>
  BY DEF RotateKeySet
<1>2. SurroundingsInv'
  BY <1>1, AllFacts DEF TrafficInv, SurroundingsInv
<1>3. AllOK'
  <2> SUFFICES ASSUME NEW s \in InFlight PROVE RequestOK(request[s], published + 1, startedAt)
    BY <1>1 DEF AllOK
  <2>1. PICK q \in RequestType : q = request[s] /\ RequestOK(q, published, startedAt)
    BY AllFacts, RequestFacts
  <2>2. q.token \in Nat /\ q.set \in Nat /\ published \in Nat
    BY AllFacts DEF RequestType
  <2>3. KeysOK(q, published + 1, startedAt)
    BY <2>1, <2>2 DEF RequestOK, KeysOK
  <2> QED BY <2>1, <2>3 DEF RequestOK
<1>4. DealtInv'
  BY <1>1, AllFacts DEF DealtInv
<1>5. CountedInv'
  <2>1. Picking' = Picking
    BY <1>1 DEF Picking
  <2> QED BY <1>1, <2>1, AllFacts DEF CountedInv
<1> QED BY <1>2, <1>3, <1>4, <1>5 DEF TrafficAll, TrafficInv

\* A process that starts: no request, no key set, no turn dealt.
LEMMA FreshProcess ==
  ASSUME counters = [r \in Routes |-> 0], picked = NoPicks, jwks = 0,
         published \in Nat, startedAt = published, published > 0,
         request = [s \in InFlight |-> Idle], arrivals \in 0..MaxArrivals,
         reloads \in 0..MaxReloads, table \in Tables, globals \in Globals
  PROVE  TrafficAll
<1>1. SurroundingsInv
  BY DEF SurroundingsInv
<1>2. AllOK
  BY IdleOK DEF AllOK
<1>3. DealtInv
  <2>1. \A r \in Routes : NoPicks[r] = [u \in 0..(Targets[r] - 1) |-> 0]
    BY DEF NoPicks
  <2>2. \A r \in Routes : DealtEvenly(NoPicks[r], 0, Targets[r])
    BY <2>1, NothingDealt, TargetsAssumption
  <2>3. DOMAIN NoPicks = Routes
    BY DEF NoPicks
  <2> QED BY <2>2, <2>3 DEF DealtInv
<1>4. CountedInv
  <2>1. \A s \in InFlight : ~ToPick(request[s])
    BY DEF ToPick, Idle
  <2>2. Picking = {}
    BY <2>1 DEF Picking
  <2>3. Cardinality(Picking) = 0
    BY <2>2, FS_EmptySet
  <2>4. \A r \in Routes : counters[r] = 0
    OBVIOUS
  <2> QED BY <2>3, <2>4, ArrivalsAssumption DEF CountedInv
<1> QED BY <1>1, <1>2, <1>3, <1>4 DEF TrafficAll, TrafficInv

(* The gateway starts. *)
LEMMA TrafficAllInit == TrafficInit => TrafficAll
<1> SUFFICES ASSUME TrafficInit PROVE TrafficAll
  OBVIOUS
<1> QED BY FreshProcess, ArrivalsAssumption DEF TrafficInit

(* The gateway starts again: the requests are gone, and with them the key set. *)
LEMMA RestartStep ==
  ASSUME TrafficAll, RestartProcess
  PROVE  TrafficAll'
<1>1. /\ counters' = [r \in Routes |-> 0] /\ picked' = NoPicks /\ jwks' = 0
      /\ startedAt' = published /\ request' = [s \in InFlight |-> Idle]
      /\ reloads' = reloads + 1 /\ reloads < MaxReloads
      /\ UNCHANGED <<table, globals, published, arrivals>>
  BY DEF RestartProcess
<1>2. SurroundingsInv'
  BY <1>1, AllFacts DEF TrafficInv, SurroundingsInv
<1>3. AllOK'
  BY <1>1, IdleOK, AllFacts DEF AllOK
<1>4. DealtInv'
  <2>1. \A r \in Routes : NoPicks[r] = [u \in 0..(Targets[r] - 1) |-> 0]
    BY DEF NoPicks
  <2>2. \A r \in Routes : DealtEvenly(NoPicks[r], 0, Targets[r])
    BY <2>1, NothingDealt, TargetsAssumption
  <2>3. DOMAIN NoPicks = Routes
    BY DEF NoPicks
  <2> QED BY <1>1, <2>2, <2>3 DEF DealtInv
<1>5. CountedInv'
  <2>1. \A s \in InFlight : ~ToPick(request'[s])
    BY <1>1 DEF ToPick, Idle
  <2>2. Picking' = {}
    BY <2>1 DEF Picking, ToPick
  <2>3. Cardinality(Picking') = 0
    BY <2>2, FS_EmptySet
  <2>4. \A r \in Routes : counters'[r] = 0
    BY <1>1
  <2> QED BY <1>1, <2>3, <2>4, AllFacts DEF CountedInv
<1> QED BY <1>2, <1>3, <1>4, <1>5 DEF TrafficAll, TrafficInv

(* Every step keeps the invariant. *)
LEMMA TrafficAllStep == TrafficAll /\ [TrafficNext]_trafficVars => TrafficAll'
<1> SUFFICES ASSUME TrafficAll, [TrafficNext]_trafficVars PROVE TrafficAll'
  OBVIOUS
<1>0. TrafficInv
  BY DEF TrafficAll
<1>1. ASSUME NEW s \in InFlight, Prepare(s) PROVE TrafficAll'
  <2>1. UNCHANGED <<table, globals, counters, jwks, published, arrivals, reloads, picked,
                   startedAt>>
    BY <1>1 DEF Prepare
  <2> QED BY <1>0, <1>1, <2>1, PrepareOK, QuietStep
<1>2. ASSUME NEW s \in InFlight, RunPlugin(s) PROVE TrafficAll'
  <2>1. UNCHANGED <<table, globals, counters, jwks, published, arrivals, reloads, picked,
                   startedAt>>
    BY <1>2 DEF RunPlugin
  <2> QED BY <1>0, <1>2, <2>1, RunPluginOK, QuietStep
<1>3. ASSUME NEW s \in InFlight, ProviderAnswers(s) PROVE TrafficAll'
  <2>1. UNCHANGED <<table, globals, counters, jwks, published, arrivals, reloads, picked,
                   startedAt>>
    BY <1>3 DEF ProviderAnswers
  <2> QED BY <1>0, <1>3, <2>1, ProviderAnswersOK, QuietStep
<1>4. ASSUME NEW s \in InFlight, StoreKeySet(s) PROVE TrafficAll'
  <2>1. UNCHANGED <<table, globals, counters, published, arrivals, reloads, picked, startedAt>>
    BY <1>4 DEF StoreKeySet
  <2> QED BY <1>0, <1>4, <2>1, StoreKeySetOK, QuietStep
<1>5. ASSUME NEW s \in InFlight, NEW o \in Outcome, Attempt(s, o) PROVE TrafficAll'
  <2>1. UNCHANGED <<table, globals, counters, jwks, published, arrivals, reloads, picked,
                   startedAt>>
    BY <1>5 DEF Attempt
  <2> QED BY <1>0, <1>5, <2>1, AttemptOK, QuietStep
<1>6. ASSUME NEW s \in InFlight, NEW o \in CallOutcome, Call(s, o) PROVE TrafficAll'
  <2>1. UNCHANGED <<table, globals, counters, jwks, published, arrivals, reloads, picked,
                   startedAt>>
    BY <1>6 DEF Call
  <2> QED BY <1>0, <1>6, <2>1, CallOK, QuietStep
<1>7. CASE UNCHANGED trafficVars
  BY <1>7 DEF trafficVars, TrafficAll, TrafficInv, SurroundingsInv, AllOK, DealtInv, CountedInv,
              Picking
<1> QED BY <1>1, <1>2, <1>3, <1>4, <1>5, <1>6, <1>7, ArriveStep, ServeStep, AdmitStep,
           ReloadStep, RotateStep, RestartStep DEF TrafficNext

(* Types of the traffic, for any routes, plugins, targets and retries: no counter exceeds the
   requests that came, and no request makes more attempts than its route allows
   (app.py:226-248, proxy.py:119-156, router.py:146-178). *)
THEOREM TrafficTypes == TrafficSpec => []TrafficTypeOK
<1>1. TrafficAll => TrafficTypeOK
  <2> SUFFICES ASSUME TrafficAll PROVE TrafficTypeOK
    OBVIOUS
  <2>1. /\ table \in Tables /\ globals \in Globals
        /\ jwks \in 0..published /\ startedAt \in 1..published
        /\ arrivals \in 0..MaxArrivals /\ reloads \in 0..MaxReloads
    BY DEF TrafficAll, TrafficInv, SurroundingsInv
  <2>2. ASSUME NEW r \in Routes PROVE counters[r] \in 0..MaxArrivals
    <3>1. Cardinality(Picking) \in Nat
      BY InFlightAssumption, FS_Subset, FS_CardinalityType DEF Picking
    <3>2. counters[r] \in Nat /\ counters[r] + Cardinality(Picking) <= arrivals
      BY AllFacts DEF CountedInv
    <3> QED BY <3>1, <3>2, AllFacts
  <2>3. ASSUME NEW s \in InFlight, NEW q, q = request[s]
        PROVE  /\ q.at \in {"idle", "bound", "checking", "fetching", "sending", "done"}
               /\ q.at \notin {"idle", "done"} => q.route \in Routes
               /\ q.token \in 0..published
               /\ ToSet(q.chain) \subseteq DOMAIN Order
               /\ q.outcomes \in Seq(Outcome)
               /\ q.at = "sending" => q.target \in 0..(Targets[q.route] - 1)
               /\ (q.at = "done") <=> (q.answer # "none")
    <3>1. q \in RequestType /\ RequestOK(q, published, startedAt) /\ published \in Nat
      BY <2>3, AllFacts, RequestFacts
    <3>2. /\ q.at \in {"idle", "bound", "checking", "fetching", "sending", "done"}
          /\ q.outcomes \in Seq(Outcome)
      BY <3>1 DEF RequestType, Stage
    <3>3. ToSet(q.chain) \subseteq DOMAIN Order
      BY <3>1 DEF RequestType, ToSet
    <3>4. q.token \in 0..published
      BY <3>1 DEF RequestType, RequestOK, KeysOK
    <3>5. /\ q.at \notin {"idle", "done"} => q.route \in Routes
          /\ (q.at = "done") <=> (q.answer # "none")
      BY <3>1 DEF RequestOK, TargetOK
    <3>6. q.at = "sending" => q.target \in 0..(Targets[q.route] - 1)
      <4> SUFFICES ASSUME q.at = "sending" PROVE q.target \in 0..(Targets[q.route] - 1)
        OBVIOUS
      <4>1. q.target \in Nat /\ q.target < Targets[q.route] /\ Targets[q.route] \in Nat
        BY <3>1, <3>5, TargetsAssumption DEF RequestType, RequestOK, TargetOK
      <4> QED BY <4>1
    <3> QED BY <3>2, <3>3, <3>4, <3>5, <3>6
  <2> QED BY <2>1, <2>2, <2>3 DEF TrafficTypeOK
<1> QED BY <1>1, TrafficAllInit, TrafficAllStep, PTL DEF TrafficSpec

(* For any number of targets and requests, whatever is reloaded meanwhile: no target of a route
   gets two turns more than another (router.py:70-80,
   165-168). *)
THEOREM RoundRobinStaysFair == TrafficSpec => []RoundRobinIsFair
<1>1. TrafficAll => RoundRobinIsFair
  <2> SUFFICES ASSUME TrafficAll, NEW r \in Routes, NEW t \in DOMAIN picked[r],
                      NEW u \in DOMAIN picked[r]
               PROVE  picked[r][t] <= picked[r][u] + 1
    BY DEF RoundRobinIsFair
  <2>1. PICK n, p : n \in Nat /\ n = Targets[r] /\ p = picked[r]
    BY TargetsAssumption
  <2>2. DealtEvenly(p, counters[r], n)
    BY <2>1 DEF TrafficAll, DealtInv
  <2>3. t \in 0..(n - 1) /\ u \in 0..(n - 1) /\ n > 0
    BY <2>1, <2>2 DEF DealtEvenly
  <2>4. PICK rounds \in Nat : \A v \in 0..(n - 1) : p[v] \in {rounds, rounds + 1}
    BY <2>2, <2>3 DEF DealtEvenly
  <2>5. p[t] \in {rounds, rounds + 1} /\ p[u] \in {rounds, rounds + 1}
    BY <2>3, <2>4
  <2> QED BY <2>1, <2>5
<1> QED BY <1>1, TrafficAllInit, TrafficAllStep, PTL DEF TrafficSpec

(* For any routes and numbers of retries: nothing is tried again after an answer that says not
   to, nor more often than configured, and the client gets the upstream's answer exactly if the
   last attempt had one (proxy.py:131-156, grpc_proxy.py:109-271). *)
THEOREM RetriesStayFaithful == TrafficSpec => []RetriesAreFaithful
<1>1. TrafficAll => RetriesAreFaithful
  <2> SUFFICES ASSUME TrafficAll, NEW s \in InFlight, NEW q, q = request[s],
                      Len(q.outcomes) > 0
               PROVE  LET n == Len(q.outcomes)
                      IN /\ n <= Most(q.route)
                         /\ \A i \in 1..(n - 1) : q.outcomes[i] \in Retryable
                         /\ q.at = "done" =>
                              /\ n < Most(q.route) => q.outcomes[n] \notin Retryable
                              /\ q.answer = "upstream's" <=> q.outcomes[n] \in {"good", "again"}
    BY DEF RetriesAreFaithful, Most, Retryable
  <2>1. q \in RequestType /\ AttemptsOK(q) /\ TargetOK(q)
    BY AllFacts, RequestFacts DEF RequestOK
  <2>2. q.outcomes # <<>>
    OBVIOUS
  <2>3. CASE q.at = "sending"
    <3>1. /\ Len(q.outcomes) < Most(q.route) /\ q.route \in Routes
          /\ \A i \in DOMAIN q.outcomes : q.outcomes[i] \in Retryable
      BY <2>1, <2>3 DEF AttemptsOK, Sending, TargetOK
    <3>2. /\ Len(q.outcomes) \in Nat /\ DOMAIN q.outcomes = 1..Len(q.outcomes)
          /\ Most(q.route) \in Nat
      BY <2>1, <3>1, TargetsAssumption DEF RequestType, Most
    <3>3. \A i \in 1..(Len(q.outcomes) - 1) : i \in DOMAIN q.outcomes
      BY <3>2
    <3> QED BY <2>3, <3>1, <3>2, <3>3
  <2>4. CASE q.at = "done"
    BY <2>1, <2>4 DEF AttemptsOK, Ended
  <2> QED BY <2>1, <2>2, <2>3, <2>4 DEF AttemptsOK
<1> QED BY <1>1, TrafficAllInit, TrafficAllStep, PTL DEF TrafficSpec

(* For any number of rotations, requests under way and restarts: no token that was signed before
   the key set in use when the process started gets past the JWT plugin
   (jwt_plugin.py:32-104). *)
THEOREM OldKeysStayRefused == TrafficSpec => []OldKeysAreRefused
<1>1. TrafficAll => OldKeysAreRefused
  <2> SUFFICES ASSUME TrafficAll, NEW s \in InFlight, NEW q, q = request[s],
                      q.set # 0, q.at \in {"checking", "sending"}
               PROVE  q.token >= startedAt
    BY DEF OldKeysAreRefused
  <2>1. KeysOK(q, published, startedAt)
    BY AllFacts, RequestFacts DEF RequestOK
  <2> QED BY <2>1 DEF KeysOK
<1> QED BY <1>1, TrafficAllInit, TrafficAllStep, PTL DEF TrafficSpec

------------------------------------------------------------------------------
(***************************************************************************)
(*                       The components, side by side                      *)
(***************************************************************************)
(* What MCGateway composes behaves, part by part, as each component's own specification
   says: a step of one is a stutter of the others. *)
THEOREM PartsAreComponents ==
  Spec => LimiterSpec /\ ConsoleSpec /\ KeysSpec /\ TrafficSpec /\ RelaySpec
<1>1. Init => LimiterInit /\ ConsoleInit /\ KeysInit /\ TrafficInit /\ RelayInit
  BY DEF Init
<1>2. [Next]_gatewayVars => [LimiterNext]_limiterVars
  BY DEF Next, gatewayVars, LimiterStep, ConsoleStep, KeysStep, TrafficStep, RelayStep
<1>3. [Next]_gatewayVars => [ConsoleNext]_consoleVars
  BY DEF Next, gatewayVars, LimiterStep, ConsoleStep, KeysStep, TrafficStep, RelayStep
<1>4. [Next]_gatewayVars => [KeysNext]_keyVars
  BY DEF Next, gatewayVars, LimiterStep, ConsoleStep, KeysStep, TrafficStep, RelayStep
<1>5. [Next]_gatewayVars => [TrafficNext]_trafficVars
  BY DEF Next, gatewayVars, LimiterStep, ConsoleStep, KeysStep, TrafficStep, RelayStep
<1>6. [Next]_gatewayVars => [RelayNext]_relayVars
  BY DEF Next, gatewayVars, LimiterStep, ConsoleStep, KeysStep, TrafficStep, RelayStep
<1> QED
  BY <1>1, <1>2, <1>3, <1>4, <1>5, <1>6, PTL
     DEF Spec, LimiterSpec, ConsoleSpec, KeysSpec, TrafficSpec, RelaySpec

(* So the composition has the types of all five, for any constants. *)
THEOREM GatewayTypes == Spec => []TypesOK
<1>1. LimiterTypeOK /\ ConsoleTypeOK /\ KeysTypeOK /\ TrafficTypeOK /\ RelayTypeOK => TypesOK
  BY DEF TypesOK
<1> QED
  BY <1>1, PartsAreComponents, LimiterTypes, ConsoleTypes, KeysTypes, TrafficTypes, RelayTypes, PTL
=============================================================================
