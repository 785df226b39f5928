------------------------- MODULE StrategyLifecycle_proofs -------------------------
(***************************************************************************)
(* What holds of the strategy commands for any number of strategies and of *)
(* requests in flight: the types, what a completed stop and a completed    *)
(* resume leave behind, and who may lift a stop.                           *)
(***************************************************************************)
EXTENDS StrategyLifecycle, SequenceTheorems, TLAPS

Requested == [phase : Phases, kind : Kinds, s : Strategies \cup {NoStrategy},
              snap : Row, pick : Nat, raced : BOOLEAN]

(* A flush of a well-typed row into a well-typed row is one: the ORM writes no
   attribute the row has not got. *)
LEMMA FlushType ==
  ASSUME NEW snap \in Row, NEW new \in Row, NEW current \in Row
  PROVE  /\ Flush(snap, new, current) \in Row
         /\ Flush(snap, new, current).active =
              IF new.active # snap.active THEN new.active ELSE current.active
         /\ Flush(snap, new, current).paused =
              IF new.paused # snap.paused THEN new.paused ELSE current.paused
         /\ Flush(snap, new, current).stopped =
              IF new.stopped # snap.stopped THEN new.stopped ELSE current.stopped
<1> DEFINE f == Flush(snap, new, current)
<1>1. f = [a \in {"active", "paused", "stopped"} |->
             IF new[a] # snap[a] THEN new[a] ELSE current[a]]
  BY DEF Flush
<1>2. /\ f.active = IF new.active # snap.active THEN new.active ELSE current.active
      /\ f.paused = IF new.paused # snap.paused THEN new.paused ELSE current.paused
      /\ f.stopped = IF new.stopped # snap.stopped THEN new.stopped ELSE current.stopped
  BY <1>1
<1>3. f \in Row
  <2>1. DOMAIN f = {"active", "paused", "stopped"}
    BY <1>1
  <2>2. f.active \in BOOLEAN /\ f.paused \in BOOLEAN /\ f.stopped \in BOOLEAN
    BY <1>2 DEF Row
  <2> QED BY <1>1, <2>1, <2>2 DEF Row
<1> QED BY <1>2, <1>3

(* What a command wants is a row, whatever row it loaded. *)
LEMMA WantedType ==
  ASSUME NEW k \in Kinds, NEW snap \in Row
  PROVE  Wanted(k, snap) \in Row
BY DEF Wanted, Row, Kinds, ActiveRow

----------------------------------------------------------------------------
(* The initial states are well typed. *)
LEMMA LifecycleTypeInit == LifecycleInit => LifecycleTypeOK
<1> SUFFICES ASSUME LifecycleInit PROVE LifecycleTypeOK
  OBVIOUS
<1>1. row \in [Strategies -> Row]
  <2>1. [active : BOOLEAN, paused : BOOLEAN, stopped : {FALSE}] \subseteq Row
    BY DEF Row
  <2>2. InitialRows \subseteq Row
    BY <2>1, InitialRowsAssumption
  <2> QED BY <2>2 DEF LifecycleInit
<1>2. IdleReq \in Requested
  BY DEF IdleReq, Requested, Phases, Kinds, Row, NewRow
<1>3. req \in [Requests -> Requested]
  BY <1>2 DEF LifecycleInit
<1>4. \A r \in Requests : req[r].phase = "idle"
  BY DEF LifecycleInit, IdleReq
<1> QED BY <1>1, <1>3, <1>4 DEF LifecycleInit, LifecycleTypeOK, Requested, FlagStates

(* Every command step keeps the types. *)
LEMMA LifecycleTypeStep ==
  LifecycleTypeOK /\ [LifecycleNext]_lifecycleVars => LifecycleTypeOK'
<1> SUFFICES ASSUME LifecycleTypeOK, [LifecycleNext]_lifecycleVars
             PROVE  LifecycleTypeOK'
  OBVIOUS
<1> USE DEF LifecycleTypeOK, Requested
<1>1. CASE UNCHANGED lifecycleVars
  BY <1>1 DEF lifecycleVars
<1>2. ASSUME NEW r \in Requests, NEW k \in Kinds, NEW s \in Strategies, Begin(r, k, s)
      PROVE  LifecycleTypeOK'
  <2>1. ASSUME NEW q \in Requests
        PROVE  /\ req'[q] \in Requested
               /\ req'[q].phase # "idle" => req'[q].s \in Strategies
    BY <1>2, <2>1 DEF Begin, Phases, Kinds, InFlight
  <2> QED BY <1>2, <2>1 DEF Begin
<1>3. ASSUME NEW r \in Requests, TouchRedis(r)
      PROVE  LifecycleTypeOK'
  BY <1>3 DEF TouchRedis, Phases, FlagStates
<1>4. ASSUME NEW r \in Requests, SelectRecord(r)
      PROVE  LifecycleTypeOK'
  <2>1. PICK i \in 0..Len(records[req[r].s]) :
          req' = [req EXCEPT ![r].phase = "selected", ![r].pick = i]
    BY <1>4 DEF SelectRecord
  <2>2. i \in Nat
    BY <1>4 DEF SelectRecord
  <2>3. req' \in [Requests -> Requested]
    BY <2>1, <2>2 DEF Phases
  <2> QED BY <1>4, <2>1, <2>3 DEF SelectRecord
<1>5. ASSUME NEW r \in Requests, CommitRequest(r)
      PROVE  LifecycleTypeOK'
  <2>1. IdleReq \in Requested
    BY DEF IdleReq, Phases, Kinds, Row, NewRow
  <2>2. req' \in [Requests -> Requested]
    BY <1>5, <2>1 DEF CommitRequest
  <2>3. \A q \in Requests : req'[q].phase # "idle" => req'[q].s \in Strategies
    BY <1>5 DEF CommitRequest, IdleReq
  <2>4. req[r].s \in Strategies
    BY <1>5 DEF CommitRequest, ReadyToCommit
  <2>5. row' \in [Strategies -> Row]
    BY <1>5, <2>4, FlushType, WantedType DEF CommitRequest
  <2>6. records' \in [Strategies -> Seq(BOOLEAN)]
    BY <1>5, <2>4 DEF CommitRequest
  <2> QED BY <1>5, <2>2, <2>3, <2>4, <2>5, <2>6 DEF CommitRequest
<1>6. ASSUME NEW r \in Requests, AbortRequest(r)
      PROVE  LifecycleTypeOK'
  <2>1. IdleReq \in Requested
    BY DEF IdleReq, Phases, Kinds, Row, NewRow
  <2> QED BY <1>6, <2>1 DEF AbortRequest, IdleReq
<1>7. ASSUME NEW s \in Strategies, LoseFlag(s)
      PROVE  LifecycleTypeOK'
  BY <1>7 DEF LoseFlag, FlagStates
<1> QED BY <1>1, <1>2, <1>3, <1>4, <1>5, <1>6, <1>7 DEF LifecycleNext

(* Type correctness: whatever commands overlap, abort or lose their flag, the rows,
   the flags, the records and the requests keep their types. *)
THEOREM LifecycleTypes == LifecycleSpec => []LifecycleTypeOK
BY LifecycleTypeInit, LifecycleTypeStep, PTL DEF LifecycleSpec

----------------------------------------------------------------------------
(* The argument that a completed stop or resume holds.  A request that nothing
   opposing overlapped has nothing opposing beside it, and what it will leave behind
   is already there or is among the attributes it will write. *)

Kept(r, a, v) == req[r].snap[a] = v => row[req[r].s][a] = v

PhasesFit ==
  \A r \in Requests :
    /\ req[r].phase = "redis" => req[r].kind \in {"stop", "resume"}
    /\ req[r].phase = "selected" => req[r].kind = "resume"

NothingOpposes ==
  /\ \A r, p \in Requests :
       req[r].phase # "idle" /\ ~req[r].raced =>
         ~InFlight(p, Opposing(req[r].kind), req[r].s)
  /\ \A s \in stopDone, p \in Requests : ~InFlight(p, {"activate", "resume"}, s)
  /\ \A s \in resumeDone, p \in Requests : ~InFlight(p, {"stop", "pause"}, s)

StopPending(r) ==
  InFlight(r, {"stop"}, req[r].s) /\ ~req[r].raced =>
    /\ Kept(r, "active", FALSE)
    /\ Kept(r, "stopped", TRUE)
    /\ req[r].phase = "redis" => flag[req[r].s] \in {"set", "expired"}

ResumePending(r) ==
  InFlight(r, {"resume"}, req[r].s) /\ ~req[r].raced =>
    /\ Kept(r, "active", TRUE)
    /\ Kept(r, "paused", FALSE)
    /\ Kept(r, "stopped", FALSE)
    /\ req[r].phase \in {"redis", "selected"} => flag[req[r].s] = "absent"
    /\ req[r].phase = "selected" =>
         /\ req[r].pick \in 0..Len(records[req[r].s])
         /\ req[r].pick = 0 => \A j \in 1..Len(records[req[r].s]) : records[req[r].s][j]

LifecycleInv ==
  /\ LifecycleTypeOK
  /\ PhasesFit
  /\ NothingOpposes
  /\ \A r \in Requests : StopPending(r) /\ ResumePending(r)
  /\ StopHolds
  /\ ResumeHolds

LEMMA LifecycleInvInit == LifecycleInit => LifecycleInv
<1> SUFFICES ASSUME LifecycleInit PROVE LifecycleInv
  OBVIOUS
<1>1. LifecycleTypeOK
  BY LifecycleTypeInit
<1>2. \A r \in Requests : req[r].phase = "idle"
  BY DEF LifecycleInit, IdleReq
<1>3. stopDone = {} /\ resumeDone = {}
  BY DEF LifecycleInit
<1> QED BY <1>1, <1>2, <1>3 DEF LifecycleInv, PhasesFit, NothingOpposes, StopPending,
           ResumePending, StopHolds, ResumeHolds, InFlight

(* A request that begins: nothing it could have undone has changed yet, and it and
   what it opposes are marked as raced. *)
LEMMA BeginKeeps ==
  ASSUME LifecycleInv, LifecycleTypeOK',
         NEW r \in Requests, NEW k \in Kinds, NEW s \in Strategies, Begin(r, k, s)
  PROVE  LifecycleInv'
<1> USE DEF LifecycleInv
<1>1. UNCHANGED <<row, flag, records>>
  BY DEF Begin
<1>2. /\ req'[r] = [phase |-> "loaded", kind |-> k, s |-> s, snap |-> row[s], pick |-> 0,
                    raced |-> \E p \in Requests : InFlight(p, Opposing(k), s)]
      /\ \A q \in Requests \ {r} :
           /\ req'[q].phase = req[q].phase
           /\ req'[q].kind = req[q].kind
           /\ req'[q].s = req[q].s
           /\ req'[q].snap = req[q].snap
           /\ req'[q].pick = req[q].pick
           /\ req'[q].raced =
                (req[q].raced \/ (InFlight(q, Kinds, s) /\ k \in Opposing(req[q].kind)))
  BY DEF Begin, LifecycleTypeOK
<1>3. \A q \in Requests : req[q].kind \in Kinds
  BY DEF LifecycleTypeOK
<1>4. PhasesFit'
  BY <1>2 DEF PhasesFit
<1>5. NothingOpposes'
  <2>1. ASSUME NEW x \in Requests, NEW p \in Requests,
               req'[x].phase # "idle", ~req'[x].raced
        PROVE  ~InFlight(p, Opposing(req[x].kind), req[x].s)'
    <3>1. CASE x = r /\ p = r
      BY <1>2, <3>1 DEF InFlight, Opposing, Kinds
    <3>2. CASE x = r /\ p # r
      <4>1. ~InFlight(p, Opposing(k), s)
        BY <1>2, <2>1, <3>2
      <4>2. req'[x].kind = k /\ req'[x].s = s
        BY <1>2, <3>2
      <4> QED BY <1>2, <3>2, <4>1, <4>2 DEF InFlight
    <3>3. CASE x # r /\ p = r
      <4>1. ~(InFlight(x, Kinds, s) /\ k \in Opposing(req[x].kind))
        BY <1>2, <2>1, <3>3
      <4>2. /\ req'[x].kind = req[x].kind
            /\ req'[x].s = req[x].s
            /\ req[x].phase # "idle"
        BY <1>2, <2>1, <3>3
      <4>3. req'[p].kind = k /\ req'[p].s = s
        BY <1>2, <3>3
      <4> QED BY <1>3, <4>1, <4>2, <4>3 DEF InFlight
    <3>4. CASE x # r /\ p # r
      <4>1. req[x].phase # "idle" /\ ~req[x].raced
        BY <1>2, <2>1, <3>4
      <4>2. ~InFlight(p, Opposing(req[x].kind), req[x].s)
        BY <4>1 DEF NothingOpposes
      <4>3. /\ req'[x].kind = req[x].kind
            /\ req'[x].s = req[x].s
            /\ req'[p].phase = req[p].phase
            /\ req'[p].kind = req[p].kind
            /\ req'[p].s = req[p].s
        BY <1>2, <3>4
      <4> QED BY <4>2, <4>3 DEF InFlight
    <3> QED BY <3>1, <3>2, <3>3, <3>4
  <2>2. ASSUME NEW z \in stopDone', NEW p \in Requests
        PROVE  ~InFlight(p, {"activate", "resume"}, z)'
    <3>1. z \in stopDone /\ (k \in {"activate", "resume"} => z # s)
      BY <2>2 DEF Begin, Opposing
    <3> QED BY <1>2, <3>1 DEF InFlight, NothingOpposes
  <2>3. ASSUME NEW z \in resumeDone', NEW p \in Requests
        PROVE  ~InFlight(p, {"stop", "pause"}, z)'
    <3>1. z \in resumeDone /\ (k \in {"stop", "pause"} => z # s)
      BY <2>3 DEF Begin, Opposing
    <3> QED BY <1>2, <3>1 DEF InFlight, NothingOpposes
  <2> QED BY <2>1, <2>2, <2>3 DEF NothingOpposes
<1>6. ASSUME NEW x \in Requests
      PROVE  StopPending(x)' /\ ResumePending(x)'
  <2>1. CASE x = r
    BY <1>1, <1>2, <2>1 DEF StopPending, ResumePending, Kept
  <2>2. CASE x # r
    BY <1>1, <1>2, <2>2 DEF StopPending, ResumePending, Kept, InFlight
  <2> QED BY <2>1, <2>2
<1>7. stopDone' \subseteq stopDone /\ resumeDone' \subseteq resumeDone
  BY DEF Begin
<1>8. StopHolds' /\ ResumeHolds'
  BY <1>1, <1>7 DEF StopHolds, ResumeHolds, Dispatchable
<1> QED BY <1>4, <1>5, <1>6, <1>8

(* Redis is written for a request: a stop meets no undisturbed resume, a resume no
   undisturbed stop. *)
LEMMA TouchRedisKeeps ==
  ASSUME LifecycleInv, LifecycleTypeOK', NEW r \in Requests, TouchRedis(r)
  PROVE  LifecycleInv'
<1> USE DEF LifecycleInv
<1>1. UNCHANGED <<row, records, stopDone, resumeDone>>
  BY DEF TouchRedis
<1>2. /\ req[r].phase = "loaded" /\ req'[r].phase = "redis"
      /\ \A q \in Requests :
           /\ q # r => req'[q].phase = req[q].phase
           /\ req'[q].kind = req[q].kind
           /\ req'[q].s = req[q].s
           /\ req'[q].snap = req[q].snap
           /\ req'[q].pick = req[q].pick
           /\ req'[q].raced = req[q].raced
  BY DEF TouchRedis, LifecycleTypeOK
<1>3. InFlight(r, {"stop", "resume"}, req[r].s) /\ req[r].s \in Strategies
  BY DEF TouchRedis, InFlight, LifecycleTypeOK
<1>4. /\ req[r].kind = "stop" => flag'[req[r].s] = "set"
      /\ req[r].kind = "resume" => flag'[req[r].s] = "absent"
      /\ \A z \in Strategies : z # req[r].s => flag'[z] = flag[z]
  BY <1>3 DEF TouchRedis, LifecycleTypeOK
<1>5. PhasesFit'
  BY <1>2, <1>3 DEF PhasesFit, InFlight
<1>6. NothingOpposes'
  BY <1>1, <1>2, <1>3 DEF NothingOpposes, InFlight
<1>7. ASSUME NEW x \in Requests
      PROVE  StopPending(x)' /\ ResumePending(x)'
  <2>1. CASE x = r
    BY <1>1, <1>2, <1>4, <2>1 DEF StopPending, ResumePending, Kept, InFlight
  <2>2. ASSUME x # r, InFlight(x, {"stop"}, req[x].s), ~req[x].raced
        PROVE  req[x].s = req[r].s => req[r].kind # "resume"
    BY <1>3, <2>2 DEF NothingOpposes, InFlight, Opposing
  <2>3. ASSUME x # r, InFlight(x, {"resume"}, req[x].s), ~req[x].raced
        PROVE  req[x].s = req[r].s => req[r].kind # "stop"
    BY <1>3, <2>3 DEF NothingOpposes, InFlight, Opposing
  <2>4. x # r /\ req[x].phase # "idle" => req[x].s \in Strategies
    BY DEF LifecycleTypeOK
  <2>5. ASSUME x # r PROVE StopPending(x)'
    BY <1>1, <1>2, <1>3, <1>4, <2>2, <2>4, <2>5 DEF StopPending, Kept, InFlight
  <2>6. ASSUME x # r PROVE ResumePending(x)'
    BY <1>1, <1>2, <1>3, <1>4, <2>3, <2>4, <2>6 DEF ResumePending, Kept, InFlight
  <2> QED BY <2>1, <2>5, <2>6
<1>8. StopHolds'
  <2>1. \A z \in stopDone : z = req[r].s => req[r].kind = "stop"
    BY <1>3 DEF NothingOpposes, InFlight
  <2> QED BY <1>1, <1>4, <2>1 DEF StopHolds, LifecycleTypeOK
<1>9. ResumeHolds'
  <2>1. \A z \in resumeDone : z = req[r].s => req[r].kind = "resume"
    BY <1>3 DEF NothingOpposes, InFlight
  <2> QED BY <1>1, <1>4, <2>1 DEF ResumeHolds, Dispatchable, LifecycleTypeOK
<1> QED BY <1>5, <1>6, <1>7, <1>8, <1>9

(* A resume that looks for its record finds an open one, or all of them are resumed. *)
LEMMA SelectRecordKeeps ==
  ASSUME LifecycleInv, LifecycleTypeOK', NEW r \in Requests, SelectRecord(r)
  PROVE  LifecycleInv'
<1> USE DEF LifecycleInv
<1>1. UNCHANGED <<row, flag, records, stopDone, resumeDone>>
  BY DEF SelectRecord
<1>2. PICK i \in 0..Len(records[req[r].s]) :
        /\ OpenRecord(req[r].s, i)
        /\ req' = [req EXCEPT ![r].phase = "selected", ![r].pick = i]
  BY DEF SelectRecord
<1>3. /\ req[r].phase = "redis" /\ req'[r].phase = "selected" /\ req'[r].pick = i
      /\ \A q \in Requests :
           /\ q # r => req'[q].phase = req[q].phase /\ req'[q].pick = req[q].pick
           /\ req'[q].kind = req[q].kind
           /\ req'[q].s = req[q].s
           /\ req'[q].snap = req[q].snap
           /\ req'[q].raced = req[q].raced
  BY <1>2 DEF SelectRecord, LifecycleTypeOK
<1>4. req[r].kind = "resume"
  BY DEF SelectRecord
<1>5. PhasesFit'
  BY <1>3, <1>4 DEF PhasesFit
<1>6. NothingOpposes'
  BY <1>1, <1>3 DEF NothingOpposes, InFlight
<1>7. ASSUME NEW x \in Requests
      PROVE  StopPending(x)' /\ ResumePending(x)'
  <2>1. CASE x = r
    <3>1. StopPending(r)'
      BY <1>3, <1>4 DEF StopPending, InFlight
    <3>2. i = 0 => \A j \in 1..Len(records[req[r].s]) : records[req[r].s][j]
      BY <1>2 DEF OpenRecord
    <3>3. ResumePending(r)
      OBVIOUS
    <3>4. ResumePending(r)'
      BY <1>1, <1>2, <1>3, <1>4, <3>2, <3>3 DEF ResumePending, Kept, InFlight
    <3> QED BY <2>1, <3>1, <3>4
  <2>2. CASE x # r
    BY <1>1, <1>3, <2>2 DEF StopPending, ResumePending, Kept, InFlight
  <2> QED BY <2>1, <2>2
<1>8. StopHolds' /\ ResumeHolds'
  BY <1>1 DEF StopHolds, ResumeHolds, Dispatchable
<1> QED BY <1>5, <1>6, <1>7, <1>8

(* A request that dies leaves the database as it was, and its Redis write is one the
   invariant already allows for. *)
LEMMA AbortRequestKeeps ==
  ASSUME LifecycleInv, LifecycleTypeOK', NEW r \in Requests, AbortRequest(r)
  PROVE  LifecycleInv'
<1> USE DEF LifecycleInv
<1>1. UNCHANGED <<row, flag, records, stopDone, resumeDone>>
  BY DEF AbortRequest
<1>2. /\ req'[r].phase = "idle"
      /\ \A q \in Requests \ {r} : req'[q] = req[q]
  BY DEF AbortRequest, LifecycleTypeOK, IdleReq
<1>3. PhasesFit'
  BY <1>2 DEF PhasesFit
<1>4. NothingOpposes'
  <2>1. ASSUME NEW x \in Requests, NEW p \in Requests,
               req'[x].phase # "idle", ~req'[x].raced
        PROVE  ~InFlight(p, Opposing(req[x].kind), req[x].s)'
    <3>1. x # r /\ req'[x] = req[x]
      BY <1>2, <2>1
    <3>2. ~InFlight(p, Opposing(req[x].kind), req[x].s)
      BY <2>1, <3>1 DEF NothingOpposes
    <3> QED BY <1>2, <3>1, <3>2 DEF InFlight
  <2>2. \A z \in stopDone', p \in Requests : ~InFlight(p, {"activate", "resume"}, z)'
    BY <1>1, <1>2 DEF NothingOpposes, InFlight
  <2>3. \A z \in resumeDone', p \in Requests : ~InFlight(p, {"stop", "pause"}, z)'
    BY <1>1, <1>2 DEF NothingOpposes, InFlight
  <2> QED BY <2>1, <2>2, <2>3 DEF NothingOpposes
<1>5. \A x \in Requests : StopPending(x)' /\ ResumePending(x)'
  BY <1>1, <1>2 DEF StopPending, ResumePending, Kept, InFlight
<1>6. StopHolds' /\ ResumeHolds'
  BY <1>1 DEF StopHolds, ResumeHolds, Dispatchable
<1> QED BY <1>3, <1>4, <1>5, <1>6

(* A flag that is lost was set, so no undisturbed resume counts on its absence. *)
LEMMA LoseFlagKeeps ==
  ASSUME LifecycleInv, LifecycleTypeOK', NEW s \in Strategies, LoseFlag(s)
  PROVE  LifecycleInv'
<1> USE DEF LifecycleInv
<1>1. UNCHANGED <<row, records, req, stopDone, resumeDone>>
  BY DEF LoseFlag
<1>2. /\ flag[s] = "set" /\ flag'[s] = "expired"
      /\ \A z \in Strategies : z # s => flag'[z] = flag[z]
  BY DEF LoseFlag, LifecycleTypeOK
<1>3. PhasesFit' /\ NothingOpposes'
  BY <1>1 DEF PhasesFit, NothingOpposes, InFlight
<1>4. ASSUME NEW x \in Requests
      PROVE  StopPending(x)' /\ ResumePending(x)'
  <2>1. req[x].phase # "idle" => req[x].s \in Strategies
    BY DEF LifecycleTypeOK
  <2> QED BY <1>1, <1>2, <2>1 DEF StopPending, ResumePending, Kept, InFlight
<1>5. StopHolds' /\ ResumeHolds'
  BY <1>1, <1>2 DEF StopHolds, ResumeHolds, Dispatchable, LifecycleTypeOK
<1> QED BY <1>3, <1>4, <1>5

----------------------------------------------------------------------------
(* What the flush of each command does to the row it commits to. *)
LEMMA CommitRow ==
  ASSUME LifecycleTypeOK, NEW r \in Requests, CommitRequest(r),
         NEW s \in Strategies, s = req[r].s
  PROVE  /\ \A z \in Strategies \ {s} : row'[z] = row[z]
         /\ req[r].kind = "activate" =>
              /\ row[s].active => row'[s].active
              /\ ~row[s].paused => ~row'[s].paused
              /\ row'[s].stopped = row[s].stopped
         /\ req[r].kind = "pause" =>
              /\ row'[s].active = row[s].active
              /\ row'[s].stopped = row[s].stopped
         /\ req[r].kind = "stop" =>
              /\ row'[s].active = (IF req[r].snap.active THEN FALSE ELSE row[s].active)
              /\ row'[s].stopped = (IF req[r].snap.stopped THEN row[s].stopped ELSE TRUE)
         /\ req[r].kind = "resume" =>
              /\ row'[s].active = (IF req[r].snap.active THEN row[s].active ELSE TRUE)
              /\ row'[s].paused = (IF req[r].snap.paused THEN FALSE ELSE row[s].paused)
              /\ row'[s].stopped = (IF req[r].snap.stopped THEN FALSE ELSE row[s].stopped)
<1> DEFINE k == req[r].kind
           snap == req[r].snap
           new == Wanted(k, snap)
<1>1. s \in Strategies /\ k \in Kinds /\ snap \in Row /\ row[s] \in Row
  BY DEF CommitRequest, ReadyToCommit, LifecycleTypeOK
<1>2. row' = [row EXCEPT ![s] = Flush(snap, new, row[s])]
  BY DEF CommitRequest
<1>3. row'[s] = Flush(snap, new, row[s]) /\ \A z \in Strategies \ {s} : row'[z] = row[z]
  BY <1>1, <1>2 DEF LifecycleTypeOK
<1>4. new \in Row
  BY <1>1, WantedType
<1>5. /\ row'[s].active = IF new.active # snap.active THEN new.active ELSE row[s].active
      /\ row'[s].paused = IF new.paused # snap.paused THEN new.paused ELSE row[s].paused
      /\ row'[s].stopped = IF new.stopped # snap.stopped THEN new.stopped ELSE row[s].stopped
  BY <1>1, <1>3, <1>4, FlushType
<1>6. /\ snap.active \in BOOLEAN /\ snap.paused \in BOOLEAN /\ snap.stopped \in BOOLEAN
      /\ row[s].active \in BOOLEAN /\ row[s].paused \in BOOLEAN /\ row[s].stopped \in BOOLEAN
  BY <1>1 DEF Row
<1>7. CASE k = "activate"
  <2>1. new.active = TRUE /\ new.paused = FALSE /\ new.stopped = snap.stopped
    BY <1>1, <1>7 DEF Wanted, Row
  <2> HIDE DEF new
  <2> QED BY <1>1, <1>3, <1>5, <1>6, <1>7, <2>1
<1>8. CASE k = "pause"
  <2>1. new.active = snap.active /\ new.stopped = snap.stopped
    BY <1>1, <1>8 DEF Wanted, Row
  <2> HIDE DEF new
  <2> QED BY <1>1, <1>3, <1>5, <1>6, <1>8, <2>1
<1>9. CASE k = "stop"
  <2>1. new.active = FALSE /\ new.stopped = TRUE
    BY <1>1, <1>9 DEF Wanted, Row
  <2> HIDE DEF new
  <2> QED BY <1>1, <1>3, <1>5, <1>6, <1>9, <2>1
<1>10. CASE k = "resume"
  <2>1. new.active = TRUE /\ new.paused = FALSE /\ new.stopped = FALSE
    BY <1>1, <1>10 DEF Wanted, ActiveRow
  <2> HIDE DEF new
  <2> QED BY <1>1, <1>3, <1>5, <1>6, <1>10, <2>1
<1> QED BY <1>1, <1>7, <1>8, <1>9, <1>10 DEF Kinds

(* What the commit of each command does to the EmergencyStop records. *)
LEMMA CommitRecords ==
  ASSUME LifecycleTypeOK, NEW r \in Requests, CommitRequest(r),
         NEW s \in Strategies, s = req[r].s
  PROVE  /\ \A z \in Strategies \ {s} : records'[z] = records[z]
         /\ req[r].kind \in {"activate", "pause"} => records'[s] = records[s]
         /\ req[r].kind = "stop" =>
              /\ Len(records'[s]) = Len(records[s]) + 1
              /\ ~records'[s][Len(records[s]) + 1]
              /\ \A i \in DOMAIN records[s] : records'[s][i] = records[s][i]
         /\ req[r].kind = "resume" =>
              /\ Len(records'[s]) = Len(records[s])
              /\ \A i \in DOMAIN records[s] :
                   records'[s][i] = (IF i = req[r].pick THEN TRUE ELSE records[s][i])
<1> DEFINE k == req[r].kind
           pick == req[r].pick
<1>1. s \in Strategies /\ k \in Kinds /\ records[s] \in Seq(BOOLEAN)
  BY DEF CommitRequest, ReadyToCommit, LifecycleTypeOK
<1>2. CASE k = "stop"
  <2>1. records' = [records EXCEPT ![s] = Append(@, FALSE)]
    BY <1>2 DEF CommitRequest
  <2>2. records'[s] = Append(records[s], FALSE)
    BY <1>1, <2>1 DEF LifecycleTypeOK
  <2>3. \A z \in Strategies \ {s} : records'[z] = records[z]
    BY <2>1 DEF LifecycleTypeOK
  <2>4. Len(records'[s]) = Len(records[s]) + 1
    BY <1>1, <2>2
  <2>5. ~records'[s][Len(records[s]) + 1]
    BY <1>1, <2>2
  <2>6. \A i \in DOMAIN records[s] : records'[s][i] = records[s][i]
    <3>1. FALSE \in BOOLEAN /\ DOMAIN records[s] = 1..Len(records[s])
      BY <1>1
    <3>2. \A i \in 1..Len(records[s]) : Append(records[s], FALSE)[i] = records[s][i]
      BY <1>1, <3>1, AppendProperties, Zenon
    <3> QED BY <2>2, <3>1, <3>2, Zenon
  <2>7. k \notin {"activate", "pause"} /\ k # "resume"
    BY <1>2
  <2> QED BY <1>2, <2>3, <2>4, <2>5, <2>6, <2>7
<1>3. CASE k = "resume" /\ pick \in DOMAIN records[s]
  <2>1. records' = [records EXCEPT ![s][pick] = TRUE]
    BY <1>3 DEF CommitRequest
  <2>2. records'[s] = [records[s] EXCEPT ![pick] = TRUE]
    BY <1>1, <2>1 DEF LifecycleTypeOK
  <2>3. \A z \in Strategies \ {s} : records'[z] = records[z]
    BY <2>1 DEF LifecycleTypeOK
  <2>4. Len(records'[s]) = Len(records[s])
    BY <1>1, <1>3, <2>2
  <2> QED BY <1>1, <1>3, <2>2, <2>3, <2>4
<1>4. CASE k = "resume" /\ pick \notin DOMAIN records[s]
  <2>1. records' = records
    BY <1>4 DEF CommitRequest
  <2> QED BY <1>1, <1>4, <2>1
<1>5. CASE k \in {"activate", "pause"}
  <2>1. records' = records
    BY <1>5 DEF CommitRequest
  <2> QED BY <1>1, <1>5, <2>1
<1> QED BY <1>1, <1>2, <1>3, <1>4, <1>5 DEF Kinds

(* A commit keeps what undisturbed commands left or are about to leave, and an
   undisturbed stop or resume leaves what it promises. *)
LEMMA CommitKeeps ==
  ASSUME LifecycleInv, LifecycleTypeOK', NEW r \in Requests, CommitRequest(r)
  PROVE  LifecycleInv'
<1> USE DEF LifecycleInv
<1>a. PICK s \in Strategies : s = req[r].s
  BY DEF CommitRequest, ReadyToCommit, LifecycleTypeOK
<1>b. PICK k \in Kinds : k = req[r].kind
  BY DEF LifecycleTypeOK
<1> USE <1>a, <1>b
<1>c. /\ \A z \in Strategies \ {s} : row'[z] = row[z]
      /\ k = "activate" =>
           /\ row[s].active => row'[s].active
           /\ ~row[s].paused => ~row'[s].paused
           /\ row'[s].stopped = row[s].stopped
      /\ k = "pause" =>
           /\ row'[s].active = row[s].active
           /\ row'[s].stopped = row[s].stopped
      /\ k = "stop" =>
           /\ row'[s].active = (IF req[r].snap.active THEN FALSE ELSE row[s].active)
           /\ row'[s].stopped = (IF req[r].snap.stopped THEN row[s].stopped ELSE TRUE)
      /\ k = "resume" =>
           /\ row'[s].active = (IF req[r].snap.active THEN row[s].active ELSE TRUE)
           /\ row'[s].paused = (IF req[r].snap.paused THEN FALSE ELSE row[s].paused)
           /\ row'[s].stopped = (IF req[r].snap.stopped THEN FALSE ELSE row[s].stopped)
  BY CommitRow
<1>d. /\ \A z \in Strategies \ {s} : records'[z] = records[z]
      /\ k \in {"activate", "pause"} => records'[s] = records[s]
      /\ k = "stop" =>
           /\ Len(records'[s]) = Len(records[s]) + 1
           /\ ~records'[s][Len(records[s]) + 1]
           /\ \A i \in DOMAIN records[s] : records'[s][i] = records[s][i]
      /\ k = "resume" =>
           /\ Len(records'[s]) = Len(records[s])
           /\ \A i \in DOMAIN records[s] :
                records'[s][i] = (IF i = req[r].pick THEN TRUE ELSE records[s][i])
  BY CommitRecords
<1>1. /\ req'[r].phase = "idle"
      /\ \A q \in Requests \ {r} : req'[q] = req[q]
      /\ flag' = flag
      /\ InFlight(r, {k}, s)
  BY DEF CommitRequest, ReadyToCommit, LifecycleTypeOK, IdleReq, InFlight
<1>2. /\ \A z \in Strategies \ {s} : row'[z] = row[z] /\ records'[z] = records[z]
      /\ records \in [Strategies -> Seq(BOOLEAN)] /\ records' \in [Strategies -> Seq(BOOLEAN)]
      /\ row \in [Strategies -> Row] /\ row' \in [Strategies -> Row]
  BY <1>c, <1>d DEF LifecycleTypeOK
<1>3. /\ stopDone' = IF k = "stop" /\ ~req[r].raced THEN stopDone \cup {s} ELSE stopDone
      /\ resumeDone' = IF k = "resume" /\ ~req[r].raced
                       THEN resumeDone \cup {s} ELSE resumeDone
  BY DEF CommitRequest
<1>4. PhasesFit'
  BY <1>1 DEF PhasesFit
<1>5. NothingOpposes'
  <2>1. ASSUME NEW x \in Requests, NEW p \in Requests,
               req'[x].phase # "idle", ~req'[x].raced
        PROVE  ~InFlight(p, Opposing(req[x].kind), req[x].s)'
    <3>1. x # r /\ req'[x] = req[x]
      BY <1>1, <2>1
    <3>2. ~InFlight(p, Opposing(req[x].kind), req[x].s)
      BY <2>1, <3>1 DEF NothingOpposes
    <3> QED BY <1>1, <3>1, <3>2 DEF InFlight
  <2>2. ASSUME NEW z \in stopDone', NEW p \in Requests
        PROVE  ~InFlight(p, {"activate", "resume"}, z)'
    <3>1. ~InFlight(p, {"activate", "resume"}, z)
      <4>1. CASE z \in stopDone
        BY <4>1 DEF NothingOpposes
      <4>2. CASE z \notin stopDone
        <5>1. k = "stop" /\ ~req[r].raced /\ z = s
          BY <1>3, <2>2, <4>2
        <5>2. Opposing(k) = {"activate", "resume"}
          BY <5>1 DEF Opposing
        <5>3. ~InFlight(p, Opposing(k), s)
          BY <1>1, <5>1 DEF NothingOpposes, InFlight
        <5> QED BY <5>1, <5>2, <5>3
      <4> QED BY <4>1, <4>2
    <3> QED BY <1>1, <3>1 DEF InFlight
  <2>3. ASSUME NEW z \in resumeDone', NEW p \in Requests
        PROVE  ~InFlight(p, {"stop", "pause"}, z)'
    <3>1. ~InFlight(p, {"stop", "pause"}, z)
      <4>1. CASE z \in resumeDone
        BY <4>1 DEF NothingOpposes
      <4>2. CASE z \notin resumeDone
        <5>1. k = "resume" /\ ~req[r].raced /\ z = s
          BY <1>3, <2>3, <4>2
        <5>2. Opposing(k) = {"stop", "pause"}
          BY <5>1 DEF Opposing
        <5>3. ~InFlight(p, Opposing(k), s)
          BY <1>1, <5>1 DEF NothingOpposes, InFlight
        <5> QED BY <5>1, <5>2, <5>3
      <4> QED BY <4>1, <4>2
    <3> QED BY <1>1, <3>1 DEF InFlight
  <2> QED BY <2>1, <2>2, <2>3 DEF NothingOpposes
<1>6. ASSUME NEW x \in Requests
      PROVE  StopPending(x)'
  <2> SUFFICES ASSUME InFlight(x, {"stop"}, req[x].s)', ~req'[x].raced
               PROVE  /\ Kept(x, "active", FALSE)'
                      /\ Kept(x, "stopped", TRUE)'
                      /\ req'[x].phase = "redis" => flag'[req'[x].s] \in {"set", "expired"}
    BY DEF StopPending
  <2>1. x # r /\ req'[x] = req[x]
    BY <1>1 DEF InFlight
  <2>2. InFlight(x, {"stop"}, req[x].s) /\ ~req[x].raced /\ req[x].s \in Strategies
    BY <2>1 DEF InFlight, LifecycleTypeOK
  <2>3. /\ Kept(x, "active", FALSE)
        /\ Kept(x, "stopped", TRUE)
        /\ req[x].phase = "redis" => flag[req[x].s] \in {"set", "expired"}
    BY <2>2 DEF StopPending
  <2>4. CASE req[x].s # s
    BY <1>1, <1>2, <2>1, <2>2, <2>3, <2>4 DEF Kept
  <2>5. CASE req[x].s = s
    <3>1. k \notin {"activate", "resume"}
      BY <1>1, <2>2, <2>5 DEF NothingOpposes, InFlight, Opposing
    <3>2. k \in {"pause", "stop"}
      BY <1>1, <3>1 DEF Kinds
    <3>3. row[s].active = FALSE => row'[s].active = FALSE
      BY <3>2, <1>c
    <3>4. row[s].stopped = TRUE => row'[s].stopped = TRUE
      BY <3>2, <1>c
    <3> QED BY <1>1, <2>1, <2>3, <2>5, <3>3, <3>4 DEF Kept
  <2> QED BY <2>4, <2>5
<1>7. ASSUME NEW x \in Requests
      PROVE  ResumePending(x)'
  <2> SUFFICES ASSUME InFlight(x, {"resume"}, req[x].s)', ~req'[x].raced
               PROVE  /\ Kept(x, "active", TRUE)'
                      /\ Kept(x, "paused", FALSE)'
                      /\ Kept(x, "stopped", FALSE)'
                      /\ req'[x].phase \in {"redis", "selected"} =>
                           flag'[req'[x].s] = "absent"
                      /\ req'[x].phase = "selected" =>
                           /\ req'[x].pick \in 0..Len(records'[req'[x].s])
                           /\ req'[x].pick = 0 =>
                                \A j \in 1..Len(records'[req'[x].s]) :
                                  records'[req'[x].s][j]
    BY DEF ResumePending
  <2> DEFINE z == req[x].s
  <2>1. x # r /\ req'[x] = req[x]
    BY <1>1 DEF InFlight
  <2>2. InFlight(x, {"resume"}, z) /\ ~req[x].raced /\ z \in Strategies
    BY <2>1 DEF InFlight, LifecycleTypeOK
  <2>3. /\ Kept(x, "active", TRUE)
        /\ Kept(x, "paused", FALSE)
        /\ Kept(x, "stopped", FALSE)
        /\ req[x].phase \in {"redis", "selected"} => flag[z] = "absent"
        /\ req[x].phase = "selected" =>
             /\ req[x].pick \in 0..Len(records[z])
             /\ req[x].pick = 0 => \A j \in 1..Len(records[z]) : records[z][j]
    BY <2>2 DEF ResumePending
  <2>4. CASE z # s
    <3>1. row'[z] = row[z] /\ records'[z] = records[z]
      BY <1>2, <2>2, <2>4
    <3> QED BY <1>1, <2>1, <2>3, <3>1 DEF Kept
  <2>5. CASE z = s
    <3>1. k \notin {"stop", "pause"}
      BY <1>1, <2>2, <2>5 DEF NothingOpposes, InFlight, Opposing
    <3>2. k \in {"activate", "resume"}
      BY <1>1, <3>1 DEF Kinds
    <3>3. /\ row[z].active = TRUE => row'[z].active = TRUE
          /\ row[z].paused = FALSE => row'[z].paused = FALSE
          /\ row[z].stopped = FALSE => row'[z].stopped = FALSE
      <4>1. req[r].snap \in Row /\ row[s] \in Row
        BY DEF LifecycleTypeOK
      <4>2. CASE k = "activate"
        BY <1>c, <2>5, <4>1, <4>2 DEF Row
      <4>3. CASE k = "resume"
        BY <1>c, <2>5, <4>1, <4>3 DEF Row
      <4> QED BY <3>2, <4>2, <4>3
    <3>4. /\ Len(records'[z]) = Len(records[z])
          /\ \A j \in DOMAIN records[z] : records[z][j] => records'[z][j]
      BY <2>5, <3>2, <1>d
    <3>5. Len(records[z]) \in Nat /\ DOMAIN records[z] = 1..Len(records[z])
      BY <1>2, <2>2
    <3>6. ASSUME req[x].phase = "selected"
          PROVE  /\ req[x].pick \in 0..Len(records'[z])
                 /\ req[x].pick = 0 => \A j \in 1..Len(records'[z]) : records'[z][j]
      BY <2>3, <3>4, <3>5, <3>6
    <3>7. Kept(x, "active", TRUE)' /\ Kept(x, "paused", FALSE)' /\ Kept(x, "stopped", FALSE)'
      BY <2>1, <2>3, <3>3 DEF Kept
    <3> QED BY <1>1, <2>1, <2>3, <3>6, <3>7
  <2> QED BY <2>4, <2>5
<1>8. ASSUME NEW z \in stopDone'
      PROVE  /\ ~row'[z].active
             /\ row'[z].stopped
             /\ flag'[z] \in {"set", "expired"}
             /\ \E i \in DOMAIN records'[z] : ~records'[z][i]
  <2>1. CASE z \in stopDone /\ z # s
    <3>1. row'[z] = row[z] /\ records'[z] = records[z]
      BY <1>2, <2>1 DEF LifecycleTypeOK
    <3> QED BY <1>1, <2>1, <3>1 DEF StopHolds
  <2>2. CASE z \in stopDone /\ z = s
    <3>1. k \in {"stop", "pause"}
      BY <1>1, <2>2 DEF NothingOpposes, InFlight, Kinds
    <3>2. ~row'[z].active /\ row'[z].stopped
      BY <2>2, <3>1, <1>c DEF StopHolds
    <3>3. flag'[z] \in {"set", "expired"}
      BY <1>1, <2>2 DEF StopHolds
    <3>4. PICK i \in DOMAIN records[z] : ~records[z][i]
      BY <2>2 DEF StopHolds
    <3>5. DOMAIN records[z] = 1..Len(records[z]) /\ Len(records[z]) \in Nat
          /\ DOMAIN records'[z] = 1..Len(records'[z])
      BY <1>1, <1>2, <2>2
    <3>6. i \in DOMAIN records'[z] /\ ~records'[z][i]
      BY <2>2, <3>1, <3>4, <3>5, <1>d
    <3> QED BY <3>2, <3>3, <3>6
  <2>3. CASE z \notin stopDone
    <3>1. k = "stop" /\ ~req[r].raced /\ z = s
      BY <1>3, <2>3
    <3>2. StopPending(r) /\ InFlight(r, {"stop"}, s)
      BY <1>1, <3>1
    <3>3. /\ Kept(r, "active", FALSE)
          /\ Kept(r, "stopped", TRUE)
          /\ req[r].phase = "redis" => flag[s] \in {"set", "expired"}
      BY <3>1, <3>2 DEF StopPending
    <3>4. req[r].phase = "redis"
      BY <3>1 DEF CommitRequest, ReadyToCommit, PhasesFit
    <3>5. ~row'[z].active /\ row'[z].stopped
      <4>1. req[r].snap \in Row /\ row[s] \in Row
        BY <1>1 DEF LifecycleTypeOK
      <4> QED BY <3>1, <3>3, <4>1, <1>c DEF Kept, Row
    <3>6. flag'[z] \in {"set", "expired"}
      BY <1>1, <3>1, <3>3, <3>4
    <3>7. /\ Len(records'[z]) = Len(records[z]) + 1
          /\ ~records'[z][Len(records[z]) + 1]
      BY <3>1, <1>d
    <3>8. Len(records'[z]) \in DOMAIN records'[z]
      BY <1>1, <1>2, <3>1, <3>7
    <3> QED BY <3>5, <3>6, <3>7, <3>8
  <2> QED BY <2>1, <2>2, <2>3
<1>9. ASSUME NEW z \in resumeDone'
      PROVE  /\ row'[z].active /\ ~row'[z].paused /\ ~row'[z].stopped
             /\ flag'[z] = "absent"
             /\ records'[z] # <<>> => \E i \in DOMAIN records'[z] : records'[z][i]
  <2>1. CASE z \in resumeDone /\ z # s
    <3>1. row'[z] = row[z] /\ records'[z] = records[z]
      BY <1>2, <2>1 DEF LifecycleTypeOK
    <3> QED BY <1>1, <2>1, <3>1 DEF ResumeHolds, Dispatchable
  <2>2. CASE z \in resumeDone /\ z = s
    <3>1. k \in {"activate", "resume"}
      BY <1>1, <2>2 DEF NothingOpposes, InFlight, Kinds
    <3>2. row[s].active /\ ~row[s].paused /\ ~row[s].stopped /\ flag[s] = "absent"
      BY <2>2 DEF ResumeHolds, Dispatchable
    <3>3. row'[z].active /\ ~row'[z].paused /\ ~row'[z].stopped
      <4>1. req[r].snap \in Row /\ row[s] \in Row /\ row'[s] \in Row
        BY <1>1 DEF LifecycleTypeOK
      <4> QED BY <2>2, <3>1, <3>2, <4>1, <1>c DEF Row
    <3>4. Len(records'[z]) = Len(records[z]) /\ Len(records[z]) \in Nat
          /\ DOMAIN records[z] = 1..Len(records[z])
      <4>1. Len(records'[z]) = Len(records[z])
        BY <1>d, <2>2, <3>1
      <4> QED BY <1>2, <4>1
    <3>5. ASSUME records'[z] # <<>>
          PROVE  \E i \in DOMAIN records'[z] : records'[z][i]
      <4>1. records[z] # <<>> /\ DOMAIN records'[z] = 1..Len(records'[z])
        BY <1>1, <1>2, <2>2, <3>4, <3>5
      <4>2. PICK i \in DOMAIN records[z] : records[z][i]
        BY <2>2, <4>1 DEF ResumeHolds
      <4>3. i \in DOMAIN records'[z] /\ records'[z][i]
        BY <2>2, <3>1, <3>4, <4>1, <4>2, <1>d
      <4> QED BY <4>3
    <3> QED BY <1>1, <2>2, <3>2, <3>3, <3>5
  <2>3. CASE z \notin resumeDone
    <3>1. k = "resume" /\ ~req[r].raced /\ z = s
      BY <1>3, <2>3
    <3>2. ResumePending(r) /\ InFlight(r, {"resume"}, s)
      BY <1>1, <3>1
    <3>3. req[r].phase = "selected"
      BY <3>1 DEF CommitRequest, ReadyToCommit
    <3>4. /\ Kept(r, "active", TRUE)
          /\ Kept(r, "paused", FALSE)
          /\ Kept(r, "stopped", FALSE)
          /\ flag[s] = "absent"
          /\ req[r].pick \in 0..Len(records[s])
          /\ req[r].pick = 0 => \A j \in 1..Len(records[s]) : records[s][j]
      BY <3>1, <3>2, <3>3 DEF ResumePending
    <3>5. row'[z].active /\ ~row'[z].paused /\ ~row'[z].stopped
      <4>1. req[r].snap \in Row /\ row[s] \in Row
        BY <1>1 DEF LifecycleTypeOK
      <4> QED BY <3>1, <3>4, <4>1, <1>c DEF Kept, Row
    <3>6. Len(records'[z]) = Len(records[z]) /\ Len(records[z]) \in Nat
          /\ DOMAIN records[z] = 1..Len(records[z])
      BY <1>1, <1>2, <3>1, <1>d
    <3>7. ASSUME records'[z] # <<>>
          PROVE  \E i \in DOMAIN records'[z] : records'[z][i]
      <4>1. /\ Len(records[z]) \in DOMAIN records[z]
            /\ DOMAIN records'[z] = DOMAIN records[z]
        BY <1>1, <1>2, <3>1, <3>6, <3>7
      <4>2. CASE req[r].pick # 0
        <5>1. req[r].pick \in DOMAIN records[z]
          BY <3>1, <3>4, <3>6, <4>2
        <5>2. records'[z][req[r].pick]
          BY <3>1, <3>6, <5>1, <1>d
        <5> QED BY <4>1, <5>1, <5>2
      <4>3. CASE req[r].pick = 0
        <5>1. records[z][Len(records[z])]
          BY <3>1, <3>4, <3>6, <4>1, <4>3
        <5>2. records'[z][Len(records[z])]
          BY <3>1, <3>6, <4>1, <5>1, <1>d
        <5> QED BY <4>1, <5>2
      <4> QED BY <4>2, <4>3
    <3> QED BY <1>1, <3>1, <3>4, <3>5, <3>7
  <2> QED BY <2>1, <2>2, <2>3
<1>10. StopHolds' /\ ResumeHolds'
  BY <1>8, <1>9 DEF StopHolds, ResumeHolds, Dispatchable
<1> QED BY <1>4, <1>5, <1>6, <1>7, <1>10

(* The strengthened invariant is inductive. *)
LEMMA LifecycleInvStep ==
  LifecycleInv /\ [LifecycleNext]_lifecycleVars => LifecycleInv'
<1> SUFFICES ASSUME LifecycleInv, [LifecycleNext]_lifecycleVars
             PROVE  LifecycleInv'
  OBVIOUS
<1>1. LifecycleTypeOK'
  BY LifecycleTypeStep DEF LifecycleInv
<1>2. CASE UNCHANGED lifecycleVars
  BY <1>2 DEF lifecycleVars, LifecycleInv, LifecycleTypeOK, PhasesFit, NothingOpposes,
              StopPending, ResumePending, Kept, InFlight, StopHolds, ResumeHolds,
              Dispatchable
<1>3. CASE LifecycleNext
  BY <1>1, <1>3, BeginKeeps, TouchRedisKeeps, SelectRecordKeeps, CommitKeeps,
     AbortRequestKeeps, LoseFlagKeeps DEF LifecycleNext
<1> QED BY <1>2, <1>3

(* A stop that no resume and no activation overlaps holds, for any number of
   strategies and of requests in flight: a pause or a second stop that loaded the
   row before it cannot undo it by its flush. *)
THEOREM StopsHold == LifecycleSpec => []StopHolds
<1>1. LifecycleInv => StopHolds
  BY DEF LifecycleInv
<1> QED BY <1>1, LifecycleInvInit, LifecycleInvStep, PTL DEF LifecycleSpec

(* A resume that no stop and no pause overlaps takes effect: the strategy is
   dispatchable, no stop flag is left and the newest record is resumed. *)
THEOREM ResumesHold == LifecycleSpec => []ResumeHolds
<1>1. LifecycleInv => ResumeHolds
  BY DEF LifecycleInv
<1> QED BY <1>1, LifecycleInvInit, LifecycleInvStep, PTL DEF LifecycleSpec

(* One step cannot lift a stop unless it is the commit of a resume. *)
LEMMA LiftStep ==
  LifecycleTypeOK /\ [LifecycleNext]_lifecycleVars =>
    \A s \in Strategies : LiftedByResume(s)
<1> SUFFICES ASSUME LifecycleTypeOK, [LifecycleNext]_lifecycleVars,
                    NEW s \in Strategies, row[s].stopped, ~row'[s].stopped
             PROVE  \E r \in Requests : InFlight(r, {"resume"}, s) /\ req'[r].phase = "idle"
  BY DEF LiftedByResume
<1>1. row' # row
  OBVIOUS
<1>2. PICK r \in Requests : CommitRequest(r)
  BY <1>1 DEF LifecycleNext, lifecycleVars, Begin, TouchRedis, SelectRecord, AbortRequest,
              LoseFlag
<1>3. PICK z \in Strategies : z = req[r].s
  BY <1>2 DEF CommitRequest, ReadyToCommit, LifecycleTypeOK
<1>4. s = z
  BY <1>2, <1>3, CommitRow
<1>5. req[r].kind \in Kinds /\ req[r].snap.stopped \in BOOLEAN /\ row[s].stopped = TRUE
  BY DEF LifecycleTypeOK, Row
<1>6. req[r].kind = "resume"
  BY <1>2, <1>3, <1>4, <1>5, CommitRow DEF Kinds
<1>7. InFlight(r, {"resume"}, s)
  BY <1>2, <1>3, <1>4, <1>6 DEF CommitRequest, ReadyToCommit, InFlight
<1>8. req'[r].phase = "idle"
  BY <1>2 DEF CommitRequest, LifecycleTypeOK, IdleReq
<1> QED BY <1>7, <1>8

(* Only a resume lifts an emergency stop: an activation or a pause that loaded the row
   before the stop does not, however late it commits. *)
THEOREM ResumesLift == LifecycleSpec => OnlyResumeLifts
<1>1. LifecycleTypeOK /\ [LifecycleNext]_lifecycleVars =>
        [\A s \in Strategies : LiftedByResume(s)]_lifecycleVars
  BY LiftStep
<1> QED BY <1>1, LifecycleTypeInit, LifecycleTypeStep, PTL DEF LifecycleSpec, OnlyResumeLifts
=============================================================================
