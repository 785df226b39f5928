-------------------------- MODULE CircuitBreaker_proofs --------------------------
(***************************************************************************)
(* Type correctness of the circuit breaker, that no count of failures is   *)
(* abandoned, and that the breaker implements the circuit its callers      *)
(* know, for any number of calls, threshold and lifetimes.                 *)
(***************************************************************************)
EXTENDS CircuitBreaker, TLAPS

LEMMA Numbers ==
  /\ Threshold \in Nat /\ Threshold > 0
  /\ Window \in Nat /\ Window > 0
  /\ Recovery \in Nat
  /\ MaxFails \in Nat
BY ThresholdAssumption, WindowAssumption, RecoveryAssumption, MaxFailsAssumption

Call == [pc : {"idle", "calling"} \cup Commands,
         mode : {"none", "response", "exception"}, cnt : 0..MaxFails]

Fits(cl) == cl \in Call /\ (cl.pc \in Commands => cl.mode # "none")

LEMMA IdleFits == Fits(Idle)
BY Numbers DEF Fits, Call, Idle, Commands

LEMMA ErrorFits ==
  ASSUME NEW cl
  PROVE  Fits(Error(cl))
BY Numbers, IdleFits DEF Fits, Call, Error, Commands

\* An answered command leaves a call that fits, if the count has room.
LEMMA AnswerFits ==
  ASSUME NEW cl \in Call, Fits(cl), cl.pc \in Commands,
         fails \in 0..MaxFails, cl.pc = "incr" => fails < MaxFails
  PROVE  Fits(Settle(Answer(cl)))
<1> DEFINE a == Answer(cl)
<1>1. AfterCount(fails + 1) \in {"open", "idle"} /\ AfterCount(cl.cnt) \in {"open", "idle"}
  BY DEF AfterCount
<1>2. CASE cl.pc = "incr"
  <2>1. fails + 1 \in 0..MaxFails
    BY <1>2, Numbers
  <2>2. a = [cl EXCEPT !.pc = IF FirstFailure(fails + 1) THEN "expire"
                              ELSE AfterCount(fails + 1), !.cnt = fails + 1]
    BY <1>2 DEF Answer
  <2>3. a \in Call /\ a.mode = cl.mode
    BY <1>1, <2>1, <2>2 DEF Call, Commands
  <2> QED
    BY <2>3, IdleFits DEF Settle, Fits
<1>3. CASE cl.pc = "expire"
  <2>1. a = [cl EXCEPT !.pc = AfterCount(cl.cnt)]
    BY <1>3 DEF Answer
  <2>2. a \in Call /\ a.mode = cl.mode
    BY <1>1, <2>1 DEF Call, Commands
  <2> QED
    BY <2>2, IdleFits DEF Settle, Fits
<1>4. CASE cl.pc = "open"
  <2>1. a = [cl EXCEPT !.pc = "clear"]
    BY <1>4 DEF Answer
  <2>2. a \in Call /\ a.mode = cl.mode
    BY <2>1 DEF Call, Commands
  <2> QED
    BY <2>2, IdleFits DEF Settle, Fits
<1>5. CASE cl.pc = "clear"
  BY <1>5, IdleFits DEF Answer, Settle, Idle, Fits
<1> QED
  BY <1>2, <1>3, <1>4, <1>5 DEF Commands

Counters ==
  /\ open \in 0..Recovery
  /\ fails \in 0..MaxFails
  /\ life \in 0..Window
  /\ life > 0 => fails > 0
  /\ lost \in BOOLEAN
  /\ streak \in 0..Threshold

LEMMA TypeOKParts ==
  TypeOK <=> Counters /\ call \in [Calls -> Call] /\ \A c \in Calls : Fits(call[c])
BY DEF TypeOK, Counters, Call, Fits

\* A command moves the keys within their ranges.
LEMMA EffectCounters ==
  ASSUME NEW pc \in Commands, Counters, Effect(pc)
  PROVE  /\ open' \in 0..Recovery
         /\ fails' \in 0..MaxFails
         /\ life' \in 0..Window
         /\ life' > 0 => fails' > 0
         /\ pc = "incr" => fails < MaxFails
<1>1. CASE pc = "incr"
  BY <1>1, Numbers DEF Counters, Effect, Incr
<1>2. CASE pc = "expire"
  BY <1>2, Numbers DEF Counters, Effect, Expire
<1>3. CASE pc = "open"
  BY <1>3, Numbers DEF Counters, Effect, SetOpen
<1>4. CASE pc = "clear"
  BY <1>4, Numbers DEF Counters, Effect, DelFails
<1> QED
  BY <1>1, <1>2, <1>3, <1>4 DEF Commands

\* A step that moves one call keeps the calls fitting if the new call fits.
LEMMA OneCallFits ==
  ASSUME call \in [Calls -> Call], \A d \in Calls : Fits(call[d]),
         NEW c \in Calls, NEW cl, Fits(cl), call' = [call EXCEPT ![c] = cl]
  PROVE  call' \in [Calls -> Call] /\ \A d \in Calls : Fits(call'[d])
BY DEF Fits

LEMMA StepTypes ==
  ASSUME TypeOK, [Next]_vars
  PROVE  TypeOK'
<1> DEFINE CallsFit == call \in [Calls -> Call] /\ \A d \in Calls : Fits(call[d])
<1>0. Counters /\ CallsFit
  BY TypeOKParts
<1> SUFFICES Counters' /\ CallsFit'
  BY DEF TypeOK, Counters, Call, Fits
<1>1. ASSUME NEW c \in Calls, Admit(c)
      PROVE  Counters' /\ CallsFit'
  <2>1. Fits([Idle EXCEPT !.pc = "calling"])
    BY Numbers DEF Fits, Call, Idle, Commands
  <2>2. CallsFit'
    BY <1>0, <1>1, <2>1, OneCallFits DEF Admit
  <2> QED
    BY <1>0, <1>1, <2>2 DEF Admit, Counters, redis
<1>2. ASSUME NEW c \in Calls, Succeeds(c)
      PROVE  Counters' /\ CallsFit'
  <2>1. CallsFit'
    BY <1>0, <1>2, IdleFits, OneCallFits DEF Succeeds
  <2> QED
    BY <1>0, <1>2, <2>1, Numbers DEF Succeeds, Counters, redis
<1>3. ASSUME NEW c \in Calls, NEW mode \in {"response", "exception"}, Fails(c, mode)
      PROVE  Counters' /\ CallsFit'
  <2>1. Fits([pc |-> "incr", mode |-> mode, cnt |-> 0])
    BY Numbers DEF Fits, Call, Commands
  <2>2. CallsFit'
    BY <1>0, <1>3, <2>1, OneCallFits DEF Fails
  <2>3. streak' \in 0..Threshold
    BY <1>0, <1>3, Numbers DEF Fails, Counters
  <2> QED
    BY <1>0, <1>3, <2>2, <2>3 DEF Fails, Counters, redis
<1>4. ASSUME NEW c \in Calls, Command(c)
      PROVE  Counters' /\ CallsFit'
  <2>1. Fits(Settle(Answer(call[c])))
    BY <1>0, <1>4, EffectCounters, AnswerFits DEF Command, Counters
  <2>2. CallsFit'
    BY <1>0, <1>4, <2>1, OneCallFits DEF Command
  <2>3. open' \in 0..Recovery /\ fails' \in 0..MaxFails /\ life' \in 0..Window
        /\ (life' > 0 => fails' > 0)
    BY <1>0, <1>4, EffectCounters DEF Command
  <2> QED
    BY <1>0, <1>4, <2>2, <2>3 DEF Command, Counters
<1>5. ASSUME NEW c \in Calls, CommandFails(c)
      PROVE  Counters' /\ CallsFit'
  <2>1. CallsFit'
    BY <1>0, <1>5, ErrorFits, OneCallFits DEF CommandFails
  <2> QED
    BY <1>0, <1>5, <2>1 DEF CommandFails, Counters, redis
<1>6. ASSUME NEW c \in Calls, AnswerLost(c)
      PROVE  Counters' /\ CallsFit'
  <2>1. CallsFit'
    BY <1>0, <1>6, ErrorFits, OneCallFits DEF AnswerLost
  <2>2. open' \in 0..Recovery /\ fails' \in 0..MaxFails /\ life' \in 0..Window
        /\ (life' > 0 => fails' > 0)
    BY <1>0, <1>6, EffectCounters DEF AnswerLost
  <2> QED
    BY <1>0, <1>6, <2>1, <2>2 DEF AnswerLost, Counters
<1>7. ASSUME NEW c \in Calls, Die(c)
      PROVE  Counters' /\ CallsFit'
  <2>1. CallsFit'
    BY <1>0, <1>7, IdleFits, OneCallFits DEF Die
  <2> QED
    BY <1>0, <1>7, <2>1 DEF Die, Counters, redis
<1>8. ASSUME Tick
      PROVE  Counters' /\ CallsFit'
  <2>1. CallsFit' /\ streak' = streak /\ lost' \in BOOLEAN
    BY <1>0, <1>8 DEF Tick
  <2>2. open' \in 0..Recovery /\ fails' \in 0..MaxFails /\ life' \in 0..Window
        /\ (life' > 0 => fails' > 0)
    BY <1>0, <1>8, Numbers DEF Tick, Counters
  <2> QED
    BY <1>0, <2>1, <2>2 DEF Counters
<1>9. CASE UNCHANGED vars
  BY <1>0, <1>9 DEF Counters, vars, redis
<1> QED
  BY <1>1, <1>2, <1>3, <1>4, <1>5, <1>6, <1>7, <1>8, <1>9 DEF Next

(* The types of the calls and of the two keys: the lifetime never outlives the
   count, and no lifetime exceeds what the plugin set. *)
THEOREM BreakerTypes == Spec => []TypeOK
<1>1. Init => TypeOK
  <2> SUFFICES ASSUME Init
               PROVE  TypeOK
    OBVIOUS
  <2>1. Counters
    <3>1. open \in 0..Recovery /\ fails \in 0..MaxFails /\ life \in 0..Window
          /\ (life > 0 => fails > 0) /\ streak \in 0..Threshold
      BY Numbers DEF Init
    <3>2. lost \in BOOLEAN
      BY Zenon DEF Init
    <3> QED
      BY <3>1, <3>2 DEF Counters
  <2>2. call \in [Calls -> Call] /\ \A c \in Calls : Fits(call[c])
    BY IdleFits DEF Init, Fits
  <2> QED
    BY <2>1, <2>2, TypeOKParts
<1>2. TypeOK /\ [Next]_vars => TypeOK'
  BY StepTypes
<1> QED
  BY <1>1, <1>2, PTL DEF Spec

----------------------------------------------------------------------------
\* The calls that look after the present count.
Sets(cl) == cl.pc = "expire"
Clears(cl) == cl.pc \in {"open", "clear"} \/ (cl.pc = "expire" /\ cl.cnt >= Threshold)

LEMMA TendedParts ==
  CountIsTended <=>
    (fails > 0 /\ ~lost =>
       /\ life = 0 => \E c \in Calls : Sets(call[c])
       /\ fails >= Threshold => \E c \in Calls : Clears(call[c]))
BY DEF CountIsTended, Sets, Clears

\* A step that leaves the count alone and moves no call that looks after it.
LEMMA OthersTend ==
  ASSUME TypeOK, CountIsTended, NEW c \in Calls, NEW cl,
         call' = [call EXCEPT ![c] = cl], call[c].pc \notin {"expire", "open", "clear"},
         UNCHANGED <<fails, life>>, lost' = lost
  PROVE  CountIsTended'
BY DEF CountIsTended, TypeOK

LEMMA StepTends ==
  ASSUME TypeOK, CountIsTended, [Next]_vars
  PROVE  CountIsTended'
<1> USE Numbers
<1>1. ASSUME NEW c \in Calls, Admit(c)
      PROVE  CountIsTended'
  BY <1>1, OthersTend DEF Admit, redis
<1>2. ASSUME NEW c \in Calls, Succeeds(c)
      PROVE  CountIsTended'
  BY <1>2, OthersTend DEF Succeeds, redis
<1>3. ASSUME NEW c \in Calls, NEW mode \in {"response", "exception"}, Fails(c, mode)
      PROVE  CountIsTended'
  BY <1>3, OthersTend DEF Fails, redis
<1>4. ASSUME NEW c \in Calls, Command(c)
      PROVE  CountIsTended'
  <2> SUFFICES ASSUME fails' > 0, ~lost'
               PROVE  /\ life' = 0 => \E d \in Calls : call'[d].pc = "expire"
                      /\ fails' >= Threshold =>
                           \E d \in Calls : \/ call'[d].pc \in {"open", "clear"}
                                            \/ call'[d].pc = "expire" /\ call'[d].cnt >= Threshold
    BY DEF CountIsTended
  <2>0. /\ call[c].pc \in Commands /\ Effect(call[c].pc) /\ ~lost
        /\ call'[c] = Settle(Answer(call[c]))
        /\ \A d \in Calls \ {c} : call'[d] = call[d]
        /\ call[c] \in Call
    BY <1>4 DEF Command, TypeOK, Call
  <2>1. CASE call[c].pc = "incr"
    <3>1. fails' = fails + 1 /\ life' = life /\ fails \in Nat
      BY <2>0, <2>1 DEF Effect, Incr, TypeOK
    <3>2. Answer(call[c]) = [call[c] EXCEPT !.pc = IF FirstFailure(fails + 1) THEN "expire"
                                    ELSE AfterCount(fails + 1), !.cnt = fails + 1]
      BY <2>1 DEF Answer
    <3>3. life' = 0 => \E d \in Calls : call'[d].pc = "expire"
      <4>1. CASE fails = 0
        <5>1. Answer(call[c]).pc = "expire"
          BY <2>0, <3>1, <3>2, <4>1 DEF FirstFailure, Call
        <5> QED
          BY <2>0, <5>1 DEF Settle
      <4>2. CASE fails > 0
        <5> SUFFICES ASSUME life' = 0
                     PROVE  \E d \in Calls : call'[d].pc = "expire"
          OBVIOUS
        <5>1. PICK d \in Calls : call[d].pc = "expire"
          BY <2>0, <3>1, <4>2 DEF CountIsTended
        <5> QED
          BY <2>0, <2>1, <5>1
      <4> QED
        BY <3>1, <4>1, <4>2
    <3>4. fails' >= Threshold =>
            \E d \in Calls : \/ call'[d].pc \in {"open", "clear"}
                             \/ call'[d].pc = "expire" /\ call'[d].cnt >= Threshold
      <4> SUFFICES ASSUME fails + 1 >= Threshold
                   PROVE  \/ call'[c].pc \in {"open", "clear"}
                          \/ call'[c].pc = "expire" /\ call'[c].cnt >= Threshold
        BY <3>1
      <4>1. AfterCount(fails + 1) = "open"
        BY DEF AfterCount, Trips
      <4>2. Answer(call[c]).pc \in {"expire", "open"} /\ Answer(call[c]).cnt = fails + 1
        BY <2>0, <3>2, <4>1 DEF Call
      <4>3. call'[c] = Answer(call[c])
        BY <2>0, <4>2 DEF Settle
      <4> QED
        BY <4>2, <4>3
    <3> QED
      BY <3>3, <3>4
  <2>2. CASE call[c].pc = "expire"
    <3>1. fails' = fails /\ life' = Window
      BY <2>0, <2>2 DEF Effect, Expire
    <3>2. ASSUME fails' >= Threshold
          PROVE  \E d \in Calls : \/ call'[d].pc \in {"open", "clear"}
                                  \/ call'[d].pc = "expire" /\ call'[d].cnt >= Threshold
      <4>1. PICK d \in Calls : Clears(call[d])
        BY <2>0, <3>1, <3>2, TendedParts
      <4>2. CASE d = c
        <5>1. AfterCount(call[c].cnt) = "open"
          BY <2>2, <4>1, <4>2 DEF Clears, AfterCount, Trips
        <5>2. Answer(call[c]) = [call[c] EXCEPT !.pc = "open"]
          BY <2>2, <5>1 DEF Answer
        <5> QED
          BY <2>0, <5>2 DEF Settle, Call
      <4>3. CASE d # c
        BY <2>0, <4>1, <4>3 DEF Clears
      <4> QED
        BY <4>2, <4>3
    <3> QED
      BY <3>1, <3>2
  <2>3. CASE call[c].pc = "open"
    <3>1. fails' = fails /\ life' = life
      BY <2>0, <2>3 DEF Effect, SetOpen
    <3>2. call'[c].pc = "clear"
      BY <2>0, <2>3 DEF Answer, Settle, Call
    <3>3. life' = 0 => \E d \in Calls : call'[d].pc = "expire"
      BY <2>0, <2>3, <3>1 DEF CountIsTended
    <3> QED
      BY <3>2, <3>3
  <2>4. CASE call[c].pc = "clear"
    BY <2>0, <2>4 DEF Effect, DelFails
  <2> QED
    BY <2>0, <2>1, <2>2, <2>3, <2>4 DEF Commands
<1>5. ASSUME NEW c \in Calls, CommandFails(c)
      PROVE  CountIsTended'
  <2>1. CASE call[c].pc = "incr"
    <3>1. fails > 0 => lost' = lost
      BY <1>5, <2>1 DEF CommandFails, TypeOK
    <3>2. CASE fails > 0
      BY <1>5, <2>1, <3>1, <3>2, OthersTend DEF CommandFails, redis
    <3>3. CASE ~(fails > 0)
      BY <1>5, <3>3 DEF CommandFails, redis, CountIsTended
    <3> QED
      BY <3>2, <3>3
  <2>2. CASE call[c].pc # "incr"
    BY <1>5, <2>2 DEF CommandFails, redis, CountIsTended
  <2> QED
    BY <2>1, <2>2
<1>6. ASSUME NEW c \in Calls, AnswerLost(c)
      PROVE  CountIsTended'
  BY <1>6 DEF AnswerLost, CountIsTended
<1>7. ASSUME NEW c \in Calls, Die(c)
      PROVE  CountIsTended'
  <2>1. CASE call[c].pc \in Commands \ {"incr"}
    BY <1>7, <2>1 DEF Die, redis, CountIsTended
  <2>2. CASE call[c].pc \notin Commands \ {"incr"}
    <3>1. fails > 0 => lost' = lost
      BY <1>7, <2>2 DEF Die, TypeOK
    <3>2. CASE fails > 0
      BY <1>7, <2>2, <3>1, <3>2, OthersTend DEF Die, redis, Commands
    <3>3. CASE ~(fails > 0)
      BY <1>7, <3>3 DEF Die, redis, CountIsTended
    <3> QED
      BY <3>2, <3>3
  <2> QED
    BY <2>1, <2>2
<1>8. ASSUME Tick
      PROVE  CountIsTended'
  <2>1. CASE life = 1
    BY <1>8, <2>1 DEF Tick, CountIsTended
  <2>2. CASE life # 1
    <3>1. fails' = fails /\ call' = call /\ (life' = 0 => life = 0)
      BY <1>8, <2>2 DEF Tick, TypeOK
    <3>2. fails > 0 => lost' = lost
      BY <1>8, <3>1 DEF Tick, TypeOK
    <3> QED
      BY <3>1, <3>2 DEF CountIsTended
  <2> QED
    BY <2>1, <2>2
<1>9. CASE UNCHANGED vars
  BY <1>9 DEF vars, CountIsTended
<1> QED
  BY <1>1, <1>2, <1>3, <1>4, <1>5, <1>6, <1>7, <1>8, <1>9 DEF Next

(* However the commands of any number of calls interleave, a count with no lost
   command is never left without its expiry or above the threshold with the
   circuit neither opened nor about to be. *)
THEOREM CountsAreTended == Spec => []CountIsTended
<1>1. Init => CountIsTended
  BY DEF Init, CountIsTended
<1>2. TypeOK /\ CountIsTended /\ [Next]_vars => CountIsTended'
  BY StepTends
<1> QED
  BY <1>1, <1>2, BreakerTypes, PTL DEF Spec

----------------------------------------------------------------------------
(***************************************************************************)
(*                     The circuit as its callers know it                  *)
(***************************************************************************)
chances == [c \in Calls |-> Chances(call[c])]

LEMMA ChancesAreFew ==
  ASSUME NEW cl
  PROVE  Chances(cl) \in 0..2
BY DEF Chances

\* A step of one call changes the chances of that call.
LEMMA OneCallCounts ==
  ASSUME call \in [Calls -> Call], NEW c \in Calls, NEW cl, call' = [call EXCEPT ![c] = cl]
  PROVE  /\ chances' = [chances EXCEPT ![c] = Chances(cl)]
         /\ chances[c] = Chances(call[c])
<1>1. \A d \in Calls : call'[d] = IF d = c THEN cl ELSE call[d]
  OBVIOUS
<1> QED
  BY <1>1 DEF chances

\* A step that leaves the key alone and gives a call no chance more is allowed.
LEMMA FewerChances ==
  ASSUME call \in [Calls -> Call], NEW c \in Calls, NEW cl, call' = [call EXCEPT ![c] = cl],
         open' = open, Chances(cl) <= Chances(call[c])
  PROVE  [Promised!CircuitNext]_(Promised!circuitVars)
<1>1. chances' = [chances EXCEPT ![c] = Chances(cl)] /\ chances[c] = Chances(call[c])
  BY OneCallCounts
<1>2. Chances(cl) \in 0..2 /\ Chances(call[c]) \in 0..2
  BY ChancesAreFew
<1>3. CASE Chances(cl) = Chances(call[c])
  <2>1. chances' = chances
    BY <1>1, <1>3 DEF chances
  <2> QED
    BY <2>1 DEF chances, Promised!circuitVars
<1>4. CASE Chances(cl) < Chances(call[c])
  <2>1. Chances(cl) \in 0..(chances[c] - 1)
    BY <1>1, <1>2, <1>4
  <2>2. Promised!GaveUp(c)
    BY <1>1, <2>1 DEF chances, Promised!GaveUp
  <2> QED
    BY <2>2 DEF Promised!CircuitNext
<1> QED
  BY <1>2, <1>3, <1>4

\* The SET of the open key takes one chance.
LEMMA SetTakesOne ==
  ASSUME call \in [Calls -> Call], NEW c \in Calls, NEW cl, call' = [call EXCEPT ![c] = cl],
         SetOpen, Chances(call[c]) > 0, Chances(cl) = Chances(call[c]) - 1
  PROVE  [Promised!CircuitNext]_(Promised!circuitVars)
<1>1. chances' = [chances EXCEPT ![c] = Chances(cl)] /\ chances[c] = Chances(call[c])
  BY OneCallCounts
<1>2. Promised!Opened(c)
  BY <1>1 DEF chances, SetOpen, Promised!Opened
<1> QED
  BY <1>2 DEF Promised!CircuitNext

\* What an answer and an error leave of the chances.
LEMMA ChancesLeft ==
  ASSUME NEW cl \in Call, Fits(cl), cl.pc \in Commands, fails \in Nat
  PROVE  \A next \in {Settle(Answer(cl)), Error(cl)} :
           IF cl.pc = "open" THEN Chances(cl) > 0 /\ Chances(next) = Chances(cl) - 1
                             ELSE Chances(next) <= Chances(cl)
<1> DEFINE next == Settle(Answer(cl))
<1>1. Chances(Idle) = 0
  BY DEF Chances, Idle
<1>2. cl.mode \in {"response", "exception"} /\ Chances(cl) \in 0..2
  BY ChancesAreFew DEF Fits, Call
<1>3. Chances(Error(cl)) = IF cl.mode = "response" THEN 1 ELSE 0
  BY <1>1 DEF Error, Chances
<1>4. Chances(cl) = IF cl.pc = "clear" THEN IF cl.mode = "response" THEN 1 ELSE 0
                                       ELSE IF cl.mode = "response" THEN 2 ELSE 1
  BY DEF Chances, Commands
<1>5. AfterCount(fails + 1) \in {"open", "idle"} /\ AfterCount(cl.cnt) \in {"open", "idle"}
  BY DEF AfterCount
<1>6. CASE cl.pc \in {"incr", "expire"}
  <2>1. Answer(cl).pc \in {"expire", "open", "idle"} /\ Answer(cl).mode = cl.mode
    <3>1. CASE cl.pc = "incr"
      BY <1>5, <3>1 DEF Answer, Call
    <3>2. CASE cl.pc = "expire"
      BY <1>5, <3>2 DEF Answer, Call
    <3> QED
      BY <1>6, <3>1, <3>2
  <2>2. Chances(next) = 0 \/ Chances(next) = Chances(cl)
    BY <1>1, <1>4, <1>6, <2>1 DEF Settle, Chances
  <2> QED
    BY <1>2, <1>3, <1>4, <1>6, <2>2
<1>7. CASE cl.pc = "open"
  <2>1. Answer(cl).pc = "clear" /\ Answer(cl).mode = cl.mode
    BY <1>7 DEF Answer, Call
  <2>2. Chances(next) = IF cl.mode = "response" THEN 1 ELSE 0
    BY <2>1 DEF Settle, Chances
  <2> QED
    BY <1>2, <1>3, <1>4, <1>7, <2>2
<1>8. CASE cl.pc = "clear"
  <2>1. next = Idle
    BY <1>8 DEF Answer, Settle, Idle
  <2> QED
    BY <1>1, <1>2, <1>3, <1>4, <1>8, <2>1
<1> QED
  BY <1>6, <1>7, <1>8 DEF Commands

(* A command that is executed is allowed, with the answer received or lost. *)
LEMMA ExecutedIsPromised ==
  ASSUME TypeOK, NEW c \in Calls, call[c].pc \in Commands, Effect(call[c].pc),
         NEW next \in {Settle(Answer(call[c])), Error(call[c])},
         call' = [call EXCEPT ![c] = next]
  PROVE  [Promised!CircuitNext]_(Promised!circuitVars)
<1>1. call \in [Calls -> Call] /\ Fits(call[c]) /\ call[c] \in Call /\ fails \in Nat
  BY TypeOKParts, Numbers DEF Counters
<1>2. IF call[c].pc = "open"
      THEN Chances(call[c]) > 0 /\ Chances(next) = Chances(call[c]) - 1
      ELSE Chances(next) <= Chances(call[c])
  BY <1>1, ChancesLeft
<1>3. CASE call[c].pc = "open"
  BY <1>1, <1>2, <1>3, SetTakesOne DEF Effect
<1>4. CASE call[c].pc # "open"
  <2>1. open' = open
    BY <1>4 DEF Effect, Commands, Incr, Expire, DelFails
  <2> QED
    BY <1>1, <1>2, <1>4, <2>1, FewerChances
<1> QED
  BY <1>3, <1>4

(* Every step of the breaker is one the circuit promises, or none. *)
LEMMA StepIsPromised ==
  ASSUME TypeOK, [Next]_vars
  PROVE  [Promised!CircuitNext]_(Promised!circuitVars)
<1>0. call \in [Calls -> Call] /\ \A c \in Calls : Fits(call[c]) /\ call[c] \in Call
  BY TypeOKParts
<1>1. Chances(Idle) = 0
  BY DEF Chances, Idle
<1>2. \A c \in Calls : Chances(Idle) <= Chances(call[c])
  BY <1>1, ChancesAreFew
<1>3. ASSUME NEW c \in Calls, Admit(c)
      PROVE  [Promised!CircuitNext]_(Promised!circuitVars)
  <2>1. PICK cl : cl = [Idle EXCEPT !.pc = "calling"]
    OBVIOUS
  <2>2. Chances(cl) = 2 /\ Chances(call[c]) = 0 /\ call' = [call EXCEPT ![c] = cl]
    BY <1>3, <2>1 DEF Chances, Idle, Admit
  <2>3. chances' = [chances EXCEPT ![c] = 2] /\ chances[c] = 0
    <3>1. chances' = [chances EXCEPT ![c] = Chances(cl)] /\ chances[c] = Chances(call[c])
      BY <1>0, <2>2, OneCallCounts
    <3> QED
      BY <2>2, <3>1
  <2>4. Promised!LetThrough(c)
    BY <1>3, <2>3 DEF Admit, redis, chances, Promised!LetThrough
  <2> QED
    BY <2>4 DEF Promised!CircuitNext
<1>4. ASSUME NEW c \in Calls, Succeeds(c) \/ Die(c)
      PROVE  [Promised!CircuitNext]_(Promised!circuitVars)
  BY <1>0, <1>2, <1>4, FewerChances DEF Succeeds, Die, redis
<1>5. ASSUME NEW c \in Calls, NEW mode \in {"response", "exception"}, Fails(c, mode)
      PROVE  [Promised!CircuitNext]_(Promised!circuitVars)
  <2>1. /\ Chances(call[c]) = 2
        /\ Chances([pc |-> "incr", mode |-> mode, cnt |-> 0]) \in 0..2
    BY <1>5, ChancesAreFew DEF Fails, Chances
  <2>2. Chances([pc |-> "incr", mode |-> mode, cnt |-> 0]) <= Chances(call[c])
    BY <2>1
  <2> QED
    BY <1>0, <1>5, <2>2, FewerChances DEF Fails, redis
<1>6. ASSUME NEW c \in Calls, Command(c) \/ AnswerLost(c)
      PROVE  [Promised!CircuitNext]_(Promised!circuitVars)
  BY <1>6, ExecutedIsPromised DEF Command, AnswerLost
<1>7. ASSUME NEW c \in Calls, CommandFails(c)
      PROVE  [Promised!CircuitNext]_(Promised!circuitVars)
  <2>1. Chances(Error(call[c])) <= Chances(call[c])
    <3>1. fails \in Nat /\ call[c].pc \in Commands
      BY <1>7, TypeOKParts, Numbers DEF Counters, CommandFails
    <3>2. Chances(call[c]) \in 0..2
      BY ChancesAreFew
    <3> QED
      BY <1>0, <3>1, <3>2, ChancesLeft
  <2> QED
    BY <1>0, <1>7, <2>1, FewerChances DEF CommandFails, redis
<1>8. CASE Tick
  <2>1. call' = call /\ open' = IF open > 0 THEN open - 1 ELSE 0
    BY <1>8 DEF Tick
  <2>2. CASE open > 0
    <3>1. Promised!Elapsed
      BY <2>1, <2>2 DEF Promised!Elapsed
    <3> QED
      BY <3>1 DEF Promised!CircuitNext
  <2>3. CASE ~(open > 0)
    <3>1. open' = open
      BY <2>1, <2>3, TypeOKParts, Numbers DEF Counters
    <3> QED
      BY <2>1, <3>1 DEF Promised!circuitVars
  <2> QED
    BY <2>2, <2>3
<1>9. CASE UNCHANGED vars
  BY <1>9 DEF vars, redis, Promised!circuitVars
<1> QED
  BY <1>3, <1>4, <1>5, <1>6, <1>7, <1>8, <1>9 DEF Next

(* The breaker implements the circuit of its callers, for any number of calls, thresholds and
   lifetimes: an open circuit lets nobody through, and every call that was let through
   opens it twice at most, whatever commands are refused, unanswered or cut short
   (breaker_plugin.py:47-105). *)
THEOREM BreakerImplementsCircuit == Spec => BreakerRefines
<1>1. Init => Promised!CircuitInit
  <2> SUFFICES ASSUME Init
               PROVE  Promised!CircuitInit
    OBVIOUS
  <2>1. Chances(Idle) = 0
    BY DEF Chances, Idle
  <2>2. [c \in Calls |-> Chances(call[c])] = [c \in Calls |-> 0]
    BY <2>1 DEF Init
  <2> QED
    BY <2>2 DEF Init, Promised!CircuitInit
<1> QED
  BY <1>1, StepIsPromised, BreakerTypes, PTL DEF Spec, BreakerRefines, Promised!CircuitSpec
=============================================================================
