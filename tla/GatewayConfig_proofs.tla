-------------------------- MODULE GatewayConfig_proofs --------------------------
(***************************************************************************)
(* Type correctness of a gateway process's configuration, and that a       *)
(* watcher with nothing to do means a gateway that is up to date, for any  *)
(* number of writes, messages and faults.                                  *)
(***************************************************************************)
EXTENDS GatewayConfig, TLAPS

LEMMA Bounds == MaxWrites \in Nat /\ MaxPending \in Nat /\ ClusterModes \subseteq BOOLEAN
BY MaxWritesAssumption, MaxPendingAssumption, ModesAssumption

LEMMA MtimesType ==
  ASSUME TypeOK
  PROVE  Mtimes \in [File -> 0..MaxWrites]
BY DEF Mtimes, TypeOK

LEMMA InitTypes == Init => TypeOK
<1> SUFFICES ASSUME Init
             PROVE  TypeOK
  OBVIOUS
<1>1. disk \in [File -> [ver : 0..MaxWrites, good : BOOLEAN]]
  BY Bounds DEF Init
<1>2. \A f \in File : disk[f].ver <= writes
  BY DEF Init
<1>3. /\ writes \in 0..MaxWrites /\ router \in 0..MaxWrites /\ pending \in 0..MaxPending
      /\ loaded \in [File -> 0..MaxWrites] /\ seen \in [File -> 0..MaxWrites]
  BY Bounds DEF Init
<1> QED
  BY <1>1, <1>2, <1>3 DEF Init, TypeOK, None, Who

LEMMA StepTypes ==
  ASSUME TypeOK, [Next]_vars
  PROVE  TypeOK'
<1> USE Bounds
<1>1. ASSUME NEW f \in File, NEW good \in BOOLEAN, Write(f, good)
      PROVE  TypeOK'
  <2>1. writes \in 0..MaxWrites /\ writes' = writes + 1 /\ writes' \in 0..MaxWrites
    BY <1>1 DEF Write, TypeOK
  <2>2. [ver |-> writes + 1, good |-> good] \in [ver : 0..MaxWrites, good : BOOLEAN]
    BY <2>1
  <2>3. disk' \in [File -> [ver : 0..MaxWrites, good : BOOLEAN]]
    BY <1>1, <2>2 DEF Write, TypeOK
  <2>4. \A g \in File : disk'[g].ver <= writes'
    BY <1>1, <2>1 DEF Write, TypeOK
  <2> QED
    BY <1>1, <2>1, <2>3, <2>4 DEF Write, TypeOK, process, Mtimes
<1>2. CASE Publish
  BY <1>2 DEF Publish, TypeOK, process
<1>3. CASE StartProcess
  BY <1>3 DEF StartProcess, TypeOK, None, Who, File
<1>4. CASE StartServices
  BY <1>4, MtimesType DEF StartServices, FirstListener, TypeOK, Who, None
<1>5. CASE EndProcess
  <2>1. (loaded \in [File -> 0..MaxWrites])' /\ (seen \in [File -> 0..MaxWrites])'
    BY <1>5 DEF EndProcess
  <2> QED
    BY <1>5, <2>1 DEF EndProcess, TypeOK, None, Who
<1>6. CASE Poll
  BY <1>6, MtimesType DEF Poll, BeginReload, TypeOK, None, Who, File
<1>7. ASSUME NEW f \in File, PollFails(f)
      PROVE  TypeOK'
  <2>1. seen' \in [File -> 0..MaxWrites]
    BY <1>7, MtimesType DEF PollFails, TypeOK, File
  <2> QED
    BY <1>7, <2>1 DEF PollFails, TypeOK, None, Mtimes
<1>8. CASE Subscribe
  BY <1>8 DEF Subscribe, TypeOK, None
<1>9. CASE ReadMessage
  <2>1. phase = "up"
    BY <1>9 DEF ReadMessage, TypeOK
  <2> QED
    BY <1>9, <2>1 DEF ReadMessage, BeginReload, TypeOK, None, Who, File
<1>10. CASE ListenerFails
  BY <1>10 DEF ListenerFails, TypeOK, None
<1>11. CASE CallReload
  BY <1>11 DEF CallReload, BeginReload, TypeOK, None, Who, File
<1>12. CASE LoadRoutes
  BY <1>12 DEF LoadRoutes, TypeOK, None, Who, File
<1>13. CASE LoadGateway
  BY <1>13 DEF LoadGateway, NewRouter, TypeOK, None, Who, File
<1>14. CASE LoadFails
  BY <1>14 DEF LoadFails, Unwinds, TypeOK, None, Who
<1>15. CASE UNCHANGED vars
  BY <1>15 DEF vars, process, TypeOK
<1> QED
  BY <1>1, <1>2, <1>3, <1>4, <1>5, <1>6, <1>7, <1>8, <1>9, <1>10, <1>11, <1>12, <1>13,
     <1>14, <1>15 DEF Next

(* The types of the configuration of one process, and who may be reloading in which
   phase and with which task alive. *)
THEOREM ConfigTypes == Spec => []TypeOK
<1>1. Init => TypeOK
  BY InitTypes
<1>2. TypeOK /\ [Next]_vars => TypeOK'
  BY StepTypes
<1> QED
  BY <1>1, <1>2, PTL DEF Spec

----------------------------------------------------------------------------
\* Nothing the process knows is newer than the files, and what the watcher has
\* recorded is never newer than what a finished reload has loaded: a reload reads
\* each file after the stat that caused it.  The middle of a reload keeps the half
\* of that it has established.
CurrentInv ==
  /\ \A f \in File : loaded[f] <= disk[f].ver /\ seen[f] <= disk[f].ver
  /\ phase = "loaded" => router = loaded["routes"]
  /\ busy # None /\ busy.at = "gateway" /\ phase = "up" =>
       seen["routes"] <= loaded["routes"]
  /\ phase = "up" /\ busy = None /\ last = "ok" =>
       /\ \A f \in File : seen[f] <= loaded[f]
       /\ router = loaded["routes"]

LEMMA CurrentImplies ==
  ASSUME TypeOK, CurrentInv
  PROVE  QuietIsCurrent
<1> SUFFICES ASSUME phase = "up", busy = None, last = "ok", seen = Mtimes
             PROVE  loaded = Mtimes
  BY DEF CurrentInv, QuietIsCurrent
<1>1. \A f \in File : loaded[f] = Mtimes[f]
  <2> SUFFICES ASSUME NEW f \in File
               PROVE  loaded[f] = Mtimes[f]
    OBVIOUS
  <2>1. Mtimes[f] = disk[f].ver /\ seen[f] = Mtimes[f]
    BY DEF Mtimes
  <2>2. loaded[f] <= disk[f].ver /\ seen[f] <= loaded[f]
    BY DEF CurrentInv
  <2>3. loaded[f] \in Nat /\ disk[f].ver \in Nat
    BY Bounds DEF TypeOK
  <2> QED
    BY <2>1, <2>2, <2>3
<1> QED
  BY <1>1 DEF Mtimes, TypeOK

LEMMA StepCurrent ==
  ASSUME TypeOK, CurrentInv, [Next]_vars
  PROVE  CurrentInv'
<1> USE Bounds
<1>0. /\ \A f \in File : disk[f].ver \in Nat /\ loaded[f] \in Nat /\ seen[f] \in Nat
      /\ writes \in Nat /\ "routes" \in File /\ "gateway" \in File
  BY DEF TypeOK, File
<1>1. ASSUME NEW f \in File, NEW good \in BOOLEAN, Write(f, good)
      PROVE  CurrentInv'
  <2>1. \A g \in File : disk[g].ver <= disk'[g].ver /\ disk'[g].ver \in Nat
    BY <1>0, <1>1 DEF Write, TypeOK
  <2>2. UNCHANGED process
    BY <1>1 DEF Write
  <2>3. \A g \in File : loaded'[g] <= disk'[g].ver /\ seen'[g] <= disk'[g].ver
    BY <1>0, <2>1, <2>2 DEF CurrentInv, process
  <2> QED
    BY <2>2, <2>3 DEF CurrentInv, process
<1>2. CASE Publish
  BY <1>2 DEF Publish, CurrentInv, process
<1>3. CASE StartProcess
  BY <1>3 DEF StartProcess, CurrentInv, None
<1>4. CASE StartServices
  <2>1. /\ phase' = "up" /\ busy' = busy /\ loaded' = loaded /\ router' = router
        /\ disk' = disk /\ seen' = Mtimes /\ (last' = "ok" => loaded = Mtimes)
        /\ phase = "loaded"
    BY <1>4 DEF StartServices
  <2>2. \A f \in File : Mtimes[f] = disk[f].ver
    BY DEF Mtimes
  <2>3. \A f \in File : loaded'[f] <= disk'[f].ver /\ seen'[f] <= disk'[f].ver
    BY <1>0, <2>1, <2>2 DEF CurrentInv
  <2>4. busy = None
    BY <2>1 DEF TypeOK, Who, None
  <2>5. last' = "ok" => \A f \in File : seen'[f] <= loaded'[f]
    BY <1>0, <2>1, <2>2
  <2> QED
    BY <2>1, <2>3, <2>4, <2>5 DEF CurrentInv
<1>5. CASE EndProcess
  BY <1>0, <1>5 DEF EndProcess, CurrentInv, None
<1>6. CASE Poll
  <2>1. /\ phase' = phase /\ loaded' = loaded /\ disk' = disk /\ seen' = Mtimes
        /\ phase = "up" /\ busy' = [who |-> "watcher", at |-> "routes"] /\ busy' # None
    BY <1>6 DEF Poll, BeginReload, None
  <2>2. \A f \in File : loaded'[f] <= disk'[f].ver /\ seen'[f] <= disk'[f].ver
    BY <1>0, <2>1 DEF CurrentInv, Mtimes
  <2> QED
    BY <2>1, <2>2 DEF CurrentInv
<1>7. ASSUME NEW f \in File, PollFails(f)
      PROVE  CurrentInv'
  <2>1. /\ seen' = IF f = "gateway" THEN [seen EXCEPT !["routes"] = Mtimes["routes"]] ELSE seen
        /\ last' = IF seen' = seen THEN last ELSE "missed"
        /\ busy = None /\ phase = "up"
        /\ UNCHANGED <<disk, phase, busy, loaded, router>>
    BY <1>7 DEF PollFails
  <2>2. \A g \in File : seen'[g] = seen[g] \/ seen'[g] = disk[g].ver
    BY <2>1 DEF Mtimes, TypeOK
  <2>3. \A g \in File : loaded'[g] <= disk'[g].ver /\ seen'[g] <= disk'[g].ver
    BY <1>0, <2>1, <2>2 DEF CurrentInv
  <2>4. last' = "ok" => seen' = seen /\ last = "ok"
    BY <2>1
  <2> QED
    BY <2>1, <2>3, <2>4 DEF CurrentInv
<1>8. CASE Subscribe
  BY <1>8 DEF Subscribe, CurrentInv
<1>9. CASE ReadMessage
  <2>1. phase = "up"
    BY <1>9 DEF ReadMessage, TypeOK
  <2> QED
    BY <1>9, <2>1 DEF ReadMessage, BeginReload, CurrentInv, None
<1>10. CASE ListenerFails
  BY <1>10 DEF ListenerFails, CurrentInv
<1>11. CASE CallReload
  BY <1>11 DEF CallReload, BeginReload, CurrentInv, None
<1>12. CASE LoadRoutes
  <2>1. /\ busy # None /\ phase' = phase /\ seen' = seen /\ disk' = disk /\ busy' # None
        /\ loaded' = [loaded EXCEPT !["routes"] = disk["routes"].ver]
        /\ loaded \in [File -> 0..MaxWrites]
    BY <1>12 DEF LoadRoutes, TypeOK, None, Who
  <2>2. \A f \in File : loaded'[f] = IF f = "routes" THEN disk[f].ver ELSE loaded[f]
    BY <2>1
  <2>3. \A f \in File : loaded'[f] <= disk'[f].ver /\ seen'[f] <= disk'[f].ver
    BY <1>0, <2>1, <2>2 DEF CurrentInv
  <2>4. seen'["routes"] <= loaded'["routes"]
    BY <1>0, <2>1, <2>2 DEF CurrentInv
  <2>5. phase # "loaded"
    BY <2>1 DEF TypeOK, Who, None
  <2> QED
    BY <2>1, <2>3, <2>4, <2>5 DEF CurrentInv
<1>13. CASE LoadGateway
  <2>1. /\ busy # None /\ busy.at = "gateway" /\ seen' = seen /\ disk' = disk
        /\ loaded' = [loaded EXCEPT !["gateway"] = disk["gateway"].ver]
        /\ router' = loaded["routes"] /\ busy' = None
        /\ phase' = IF busy.who = "startup" THEN "loaded" ELSE phase
        /\ loaded \in [File -> 0..MaxWrites]
    BY <1>13 DEF LoadGateway, NewRouter, TypeOK
  <2>2. \A f \in File : loaded'[f] = IF f = "gateway" THEN disk[f].ver ELSE loaded[f]
    BY <2>1
  <2>3. \A f \in File : loaded'[f] <= disk'[f].ver /\ seen'[f] <= disk'[f].ver
    BY <1>0, <2>1, <2>2 DEF CurrentInv
  <2>4. router' = loaded'["routes"]
    BY <1>0, <2>1, <2>2
  <2>5. phase' = "up" => phase = "up"
    BY <2>1
  <2>6. phase' = "up" => \A f \in File : seen'[f] <= loaded'[f]
    BY <1>0, <2>1, <2>2, <2>5 DEF CurrentInv, File
  <2> QED
    BY <2>1, <2>3, <2>4, <2>6 DEF CurrentInv
<1>14. CASE LoadFails
  <2>1. /\ last' # "ok" /\ busy' = None
        /\ UNCHANGED <<phase, loaded, router, seen, disk>>
    BY <1>14 DEF LoadFails
  <2> QED
    BY <2>1 DEF CurrentInv
<1>15. CASE UNCHANGED vars
  BY <1>15 DEF vars, process, CurrentInv
<1> QED
  BY <1>1, <1>2, <1>3, <1>4, <1>5, <1>6, <1>7, <1>8, <1>9, <1>10, <1>11, <1>12, <1>13,
     <1>14, <1>15 DEF Next

(* A running gateway whose watcher sees no change and whose last reload succeeded has
   loaded exactly what is on disk and routes by it, whatever the other processes
   write in the middle of its reloads and whoever else reloads.  A watcher that died
   after it recorded a change and before it called back does not count as a success. *)
THEOREM QuietGatewaysAreCurrent == Spec => []QuietIsCurrent
<1>1. Init => CurrentInv
  BY DEF Init, CurrentInv, None
<1>2. TypeOK /\ CurrentInv /\ [Next]_vars => CurrentInv'
  BY StepCurrent
<1>3. TypeOK /\ CurrentInv => QuietIsCurrent
  BY CurrentImplies
<1> QED
  BY <1>1, <1>2, <1>3, ConfigTypes, PTL DEF Spec
=============================================================================
