---------------------------- MODULE StrategyLifecycle ----------------------------
(***************************************************************************)
(* The four strategy commands of the CoinTrader API that switch a strategy *)
(* on and off: activate, pause, emergency-stop and resume                  *)
(* (backend/app/api/v1/strategies.py, backend/app/services/                *)
(* strategy_service.py).                                                   *)
(*                                                                         *)
(* A command is a coroutine.  It loads the row, changes attributes of the  *)
(* loaded object, may touch Redis, and only then flushes and commits; other*)
(* requests run at each await.  The flush is an UPDATE of the attributes   *)
(* whose value differs from the LOADED one, and Redis is written BEFORE    *)
(* the commit: the two facts this module is about.                         *)
(***************************************************************************)
EXTENDS Integers, Sequences

CONSTANTS
  Strategies,   \* strategies of one user
  Requests,     \* API requests that can be in flight at once
  InitialRows,  \* the states a strategy row may be in at first
  MaxRecords,   \* bound: EmergencyStop rows per strategy
  NoStrategy    \* what an idle request works on

ASSUME NoStrategyAssumption == NoStrategy \notin Strategies
ASSUME InitialRowsAssumption ==
  InitialRows \subseteq [active : BOOLEAN, paused : BOOLEAN, stopped : {FALSE}]
ASSUME MaxRecordsAssumption == MaxRecords \in Nat

VARIABLES
  row,         \* committed strategies row: is_active, is_paused, emergency_stopped
  flag,        \* Redis key emergency:stop:{id}
  records,     \* is_resumed of the EmergencyStop rows, in the order of their commits
  req,         \* the requests in flight
  stopDone,    \* history: strategies whose last stop completed undisturbed
  resumeDone   \* history: strategies whose last resume completed undisturbed

lifecycleVars == <<row, flag, records, req, stopDone, resumeDone>>

----------------------------------------------------------------------------
Kinds  == {"activate", "pause", "stop", "resume"}
Phases == {"idle", "loaded", "redis", "selected"}
Row    == [active : BOOLEAN, paused : BOOLEAN, stopped : BOOLEAN]
\* "expired" is a key that was set and is gone: its 7-day TTL ran out, or
\* Redis lost it.  A reader cannot tell it from "absent".
FlagStates == {"absent", "set", "expired"}

LifecycleTypeOK ==
  /\ row \in [Strategies -> Row]
  /\ flag \in [Strategies -> FlagStates]
  /\ records \in [Strategies -> Seq(BOOLEAN)]
  /\ req \in [Requests -> [phase : Phases, kind : Kinds,
                           s : Strategies \cup {NoStrategy}, snap : Row,
                           pick : Nat, raced : BOOLEAN]]
  /\ \A r \in Requests : req[r].phase # "idle" => req[r].s \in Strategies
  /\ stopDone \subseteq Strategies
  /\ resumeDone \subseteq Strategies

\* create_strategy leaves the flags FALSE; the others are rows a stop has not touched.
NewRow    == [active |-> FALSE, paused |-> FALSE, stopped |-> FALSE]
ActiveRow == [active |-> TRUE, paused |-> FALSE, stopped |-> FALSE]
PausedRow == [active |-> TRUE, paused |-> TRUE, stopped |-> FALSE]

IdleReq == [phase |-> "idle", kind |-> "pause", s |-> NoStrategy,
            snap |-> NewRow, pick |-> 0, raced |-> FALSE]

\* The query of run_all_active_strategies selects exactly these rows.
Dispatchable(s) == row[s].active /\ ~row[s].paused /\ ~row[s].stopped

Flagged(s) == flag[s] = "set"

InFlight(r, kinds, s) ==
  /\ req[r].phase # "idle"
  /\ req[r].kind \in kinds
  /\ req[r].s = s

\* The commands that work against a stop, and against a resume.
Opposing(k) ==
  CASE k = "stop"   -> {"activate", "resume"}
    [] k = "resume" -> {"stop", "pause"}
    [] OTHER        -> {}

\* Mutant: an activation also clears emergency_stopped.
ActivationClearsStop(k, snap) ==
  CASE k = "activate" -> ActiveRow
    [] k = "pause"    -> [snap EXCEPT !.paused = TRUE]
    [] k = "stop"     -> [snap EXCEPT !.active = FALSE, !.stopped = TRUE]
    [] k = "resume"   -> ActiveRow

\* Mutant: a resume leaves is_paused alone.
ResumeKeepsPause(k, snap) ==
  CASE k = "activate" -> [snap EXCEPT !.active = TRUE, !.paused = FALSE]
    [] k = "pause"    -> [snap EXCEPT !.paused = TRUE]
    [] k = "stop"     -> [snap EXCEPT !.active = FALSE, !.stopped = TRUE]
    [] k = "resume"   -> [snap EXCEPT !.active = TRUE, !.stopped = FALSE]

\* The attribute values command k wants, given the row it loaded.
Wanted(k, snap) ==
  CASE k = "activate" -> [snap EXCEPT !.active = TRUE, !.paused = FALSE]
    [] k = "pause"    -> [snap EXCEPT !.paused = TRUE]
    [] k = "stop"     -> [snap EXCEPT !.active = FALSE, !.stopped = TRUE]
    [] k = "resume"   -> ActiveRow

\* Mutant: every column is written, changed or not.
FlushAllColumns(snap, new, current) == new

\* The ORM's UPDATE: attributes the command changed, the rest as committed.
Flush(snap, new, current) ==
  [a \in {"active", "paused", "stopped"} |->
     IF new[a] # snap[a] THEN new[a] ELSE current[a]]

\* i is the EmergencyStop row a resume finds: one that is not resumed, 0 if there is
\* none.  ORDER BY triggered_at takes the one whose TRANSACTION began last, which of
\* several open records can be any.
OpenRecord(s, i) ==
  IF i = 0 THEN \A j \in 1..Len(records[s]) : records[s][j] ELSE ~records[s][i]

----------------------------------------------------------------------------
LifecycleInit ==
  /\ row \in [Strategies -> InitialRows]
  /\ flag = [s \in Strategies |-> "absent"]
  /\ records = [s \in Strategies |-> <<>>]
  /\ req = [r \in Requests |-> IdleReq]
  /\ stopDone = {}
  /\ resumeDone = {}

\* get_strategy: the request loads the row.  The history variables note which
\* commands overlap one that works against them.
Begin(r, k, s) ==
  /\ req[r].phase = "idle"
  /\ k = "stop" => Len(records[s]) < MaxRecords
  /\ req' = [q \in Requests |->
       IF q = r
       THEN [phase |-> "loaded", kind |-> k, s |-> s, snap |-> row[s], pick |-> 0,
             raced |-> \E p \in Requests : InFlight(p, Opposing(k), s)]
       ELSE [req[q] EXCEPT !.raced =
               @ \/ (InFlight(q, Kinds, s) /\ k \in Opposing(req[q].kind))]]
  /\ stopDone' = IF k \in Opposing("stop") THEN stopDone \ {s} ELSE stopDone
  /\ resumeDone' = IF k \in Opposing("resume") THEN resumeDone \ {s} ELSE resumeDone
  /\ UNCHANGED <<row, flag, records>>

\* redis_set / redis_delete of the stop flag, before anything is flushed.
TouchRedis(r) ==
  /\ req[r].phase = "loaded"
  /\ req[r].kind \in {"stop", "resume"}
  /\ flag' = [flag EXCEPT ![req[r].s] =
                IF req[r].kind = "stop" THEN "set" ELSE "absent"]
  /\ req' = [req EXCEPT ![r].phase = "redis"]
  /\ UNCHANGED <<row, records, stopDone, resumeDone>>

\* resume_strategy reads the latest EmergencyStop row that is not resumed.
SelectRecord(r) ==
  /\ req[r].phase = "redis"
  /\ req[r].kind = "resume"
  /\ \E i \in 0..Len(records[req[r].s]) :
       /\ OpenRecord(req[r].s, i)
       /\ req' = [req EXCEPT ![r].phase = "selected", ![r].pick = i]
  /\ UNCHANGED <<row, flag, records, stopDone, resumeDone>>

ReadyToCommit(r) ==
  \/ req[r].phase = "loaded" /\ req[r].kind \in {"activate", "pause"}
  \/ req[r].phase = "redis" /\ req[r].kind = "stop"
  \/ req[r].phase = "selected"

\* Flush and commit.  The row lock taken by the flush is held to the commit,
\* so the two are one step.
CommitRequest(r) ==
  LET s    == req[r].s
      k    == req[r].kind
      pick == req[r].pick
  IN
  /\ ReadyToCommit(r)
  /\ row' = [row EXCEPT ![s] = Flush(req[r].snap, Wanted(k, req[r].snap), @)]
  /\ records' =
       CASE k = "stop" -> [records EXCEPT ![s] = Append(@, FALSE)]
         [] k = "resume" /\ pick \in DOMAIN records[s] ->
              [records EXCEPT ![s][pick] = TRUE]
         [] OTHER -> records
  /\ stopDone' = IF k = "stop" /\ ~req[r].raced THEN stopDone \cup {s} ELSE stopDone
  /\ resumeDone' = IF k = "resume" /\ ~req[r].raced THEN resumeDone \cup {s} ELSE resumeDone
  /\ req' = [req EXCEPT ![r] = IdleReq]
  /\ UNCHANGED flag

\* The request dies before its commit (a database or Redis error, a lost
\* process): the session rolls back, what was written to Redis stays.
AbortRequest(r) ==
  /\ req[r].phase # "idle"
  /\ req' = [req EXCEPT ![r] = IdleReq]
  /\ UNCHANGED <<row, flag, records, stopDone, resumeDone>>

\* The flag outlives its TTL, or Redis restarts without it.
LoseFlag(s) ==
  /\ flag[s] = "set"
  /\ flag' = [flag EXCEPT ![s] = "expired"]
  /\ UNCHANGED <<row, records, req, stopDone, resumeDone>>

LifecycleNext ==
  \/ \E r \in Requests, k \in Kinds, s \in Strategies : Begin(r, k, s)
  \/ \E r \in Requests : TouchRedis(r)
  \/ \E r \in Requests : SelectRecord(r)
  \/ \E r \in Requests : CommitRequest(r)
  \/ \E r \in Requests : AbortRequest(r)
  \/ \E s \in Strategies : LoseFlag(s)

LifecycleSpec == LifecycleInit /\ [][LifecycleNext]_lifecycleVars

----------------------------------------------------------------------------
(* Once an emergency stop has committed and no resume or activation overlapped
   it, the row stays inactive and emergency-stopped with an unresumed record, and
   the Redis flag is gone only if Redis lost it, until a resume or an activation
   begins.  A pause or a second stop that loaded the row before must not undo it
   by its flush (strategy_service.py:118-148). *)
StopHolds ==
  \A s \in stopDone :
    /\ ~row[s].active
    /\ row[s].stopped
    /\ flag[s] \in {"set", "expired"}
    /\ \E i \in DOMAIN records[s] : ~records[s][i]

(* Once a resume has committed and no stop or pause overlapped it, the strategy
   is dispatchable, no stop flag is left in Redis and, if it was ever stopped, a
   record says it was resumed, until a stop or a pause begins
   (strategy_service.py:150-182). *)
ResumeHolds ==
  \A s \in resumeDone :
    /\ Dispatchable(s)
    /\ flag[s] = "absent"
    /\ records[s] # <<>> => \E i \in DOMAIN records[s] : records[s][i]

LiftedByResume(s) ==
  row[s].stopped /\ ~row'[s].stopped =>
    \E r \in Requests : InFlight(r, {"resume"}, s) /\ req'[r].phase = "idle"

(* Nothing but the commit of a resume takes the emergency stop off a strategy
   row: an activation that loaded the row before the stop does not
   (strategy_service.py:99-107). *)
OnlyResumeLifts == [][\A s \in Strategies : LiftedByResume(s)]_lifecycleVars
=============================================================================
