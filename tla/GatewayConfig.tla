----------------------------- MODULE GatewayConfig -----------------------------
(***************************************************************************)
(* How one gateway process follows its two configuration files             *)
(* (apigw/gateway/config/loader.py, config/watcher.py, app.py): the load   *)
(* at start-up, the file watcher, the Redis reload listener and the        *)
(* /_reload endpoint.  All of them run on one event loop and a reload      *)
(* awaits nothing that blocks, so while one runs (busy) only other         *)
(* processes act: they write the files and publish reload messages.        *)
(***************************************************************************)
EXTENDS Naturals

CONSTANTS
  ClusterModes,  \* the values settings.redis.cluster_mode may have
  Faults,        \* the faults that may happen: "read", "stat", "redis"
  MaxWrites,     \* bound: writes of the files
  MaxPending     \* bound: reload messages on their way

ASSUME ModesAssumption == ClusterModes \subseteq BOOLEAN
ASSUME MaxWritesAssumption == MaxWrites \in Nat
ASSUME MaxPendingAssumption == MaxPending \in Nat

VARIABLES
  disk,      \* the files: the number of the write that made them (their mtime), and
             \* whether they can be parsed; 0 is a file that was never written
  writes,    \* writes so far
  phase,     \* of the process
  busy,      \* the reload in progress: for whom, and the file it reads next
  loaded,    \* the loader: the write each part comes from, 0 the built-in defaults
  router,    \* the route table in use: the write it comes from
  seen,      \* _mtimes of the watcher
  watcher,   \* the polling task
  listener,  \* the Pub/Sub task
  pending,   \* reload messages sent to this process and not yet read
  cluster,   \* settings.redis.cluster_mode
  last       \* history: how the last reload ended: "ok", "bad" (a file cannot be parsed),
             \* "unread" (a good file could not be read); or "gap" (a file changed
             \* between the first load and the start of the watcher), "missed" (the
             \* watcher recorded a change and died before it called back)

process == <<phase, busy, loaded, router, seen, watcher, listener, last>>
vars == <<disk, writes, process, pending, cluster>>

File == {"routes", "gateway"}
Who == {"startup", "watcher", "listener", "endpoint"}
None == [who |-> "none", at |-> "routes"]
Mtimes == [f \in File |-> disk[f].ver]

TypeOK ==
  /\ disk \in [File -> [ver : 0..MaxWrites, good : BOOLEAN]]
  /\ writes \in 0..MaxWrites
  /\ \A f \in File : disk[f].ver <= writes
  /\ phase \in {"down", "loading", "loaded", "up"}
  /\ busy \in {None} \cup [who : Who, at : File]
  /\ busy.who = "startup" <=> phase = "loading"
  /\ busy.who \in Who \ {"startup"} => phase = "up"
  /\ busy.who = "listener" => listener = "listening"
  /\ busy.who = "watcher" => watcher = "polling"
  /\ loaded \in [File -> 0..MaxWrites]
  /\ router \in 0..MaxWrites
  /\ seen \in [File -> 0..MaxWrites]
  /\ watcher \in {"off", "polling", "dead"}
  /\ listener \in {"none", "starting", "listening", "dead", "ended"}
  /\ pending \in 0..MaxPending
  /\ cluster \in ClusterModes
  /\ phase # "up" => listener = "none" /\ watcher = "off" /\ pending = 0
  /\ cluster => listener \in {"none", "ended"}
  /\ last \in {"ok", "bad", "unread", "gap", "missed"}

Init ==
  /\ disk = [f \in File |-> [ver |-> 0, good |-> TRUE]]
  /\ writes = 0
  /\ phase = "down"
  /\ busy = None
  /\ loaded = [f \in File |-> 0]
  /\ router = 0
  /\ seen = [f \in File |-> 0]
  /\ watcher = "off"
  /\ listener = "none"
  /\ pending = 0
  /\ cluster \in ClusterModes
  /\ last = "ok"

----------------------------------------------------------------------------
(* Other processes. *)

\* The admin process, an operator or a ConfigMap update replaces a file.
Write(f, good) ==
  /\ writes < MaxWrites
  /\ writes' = writes + 1
  /\ disk' = [disk EXCEPT ![f] = [ver |-> writes + 1, good |-> good]]
  /\ UNCHANGED <<process, pending, cluster>>

\* PUBLISH reaches those who are subscribed now, and nobody else.
Publish ==
  /\ listener = "listening"
  /\ pending < MaxPending
  /\ pending' = pending + 1
  /\ UNCHANGED <<disk, writes, process, cluster>>

----------------------------------------------------------------------------
(* Start-up: _lifespan. *)

StartProcess ==
  /\ phase = "down"
  /\ phase' = "loading"
  /\ busy' = [who |-> "startup", at |-> "routes"]
  /\ UNCHANGED <<disk, writes, loaded, router, seen, watcher, listener, pending, cluster, last>>

\* Mutant: the listener subscribes whatever the mode of Redis is.
AlwaysSubscribes == "starting"

FirstListener == IF cluster THEN "ended" ELSE "starting"

\* The proxy and the gRPC server are started (they await), then the watcher, which
\* records the times the files have now, and the listener task.
StartServices ==
  /\ phase = "loaded"
  /\ phase' = "up"
  /\ seen' = Mtimes
  /\ watcher' = "polling"
  /\ listener' = FirstListener
  /\ last' = IF loaded = Mtimes THEN "ok" ELSE "gap"
  /\ UNCHANGED <<disk, writes, busy, loaded, router, pending, cluster>>

\* The process ends, by a crash or a shutdown; the next one starts from nothing.
EndProcess ==
  /\ phase # "down"
  /\ phase' = "down"
  /\ busy' = None
  /\ loaded' = [f \in File |-> 0]
  /\ router' = 0
  /\ seen' = [f \in File |-> 0]
  /\ watcher' = "off"
  /\ listener' = "none"
  /\ pending' = 0
  /\ last' = "ok"
  /\ UNCHANGED <<disk, writes, cluster>>

----------------------------------------------------------------------------
(* What begins a reload. *)

BeginReload(who) == busy' = [who |-> who, at |-> "routes"]

\* Mutant: the watcher compares the routes file only.
RoutesChanged == seen["routes"] # Mtimes["routes"]

Changed == seen # Mtimes

\* _watch_loop wakes up, stats both files, records what it found and calls back.
Poll ==
  /\ phase = "up" /\ watcher = "polling" /\ busy = None
  /\ Changed
  /\ seen' = Mtimes
  /\ BeginReload("watcher")
  /\ UNCHANGED <<disk, writes, phase, loaded, router, watcher, listener, pending, cluster, last>>

\* An error of os.stat other than FileNotFoundError ends the task.  The routes file is
\* statted first and its new time recorded at once, so when the gateway file's stat is
\* the one that raises, a change of the routes is recorded and never called back.
PollFails(f) ==
  /\ "stat" \in Faults
  /\ phase = "up" /\ watcher = "polling" /\ busy = None
  /\ watcher' = "dead"
  /\ seen' = IF f = "gateway" THEN [seen EXCEPT !["routes"] = Mtimes["routes"]] ELSE seen
  /\ last' = IF seen' = seen THEN last ELSE "missed"
  /\ UNCHANGED <<disk, writes, phase, busy, loaded, router, listener, pending, cluster>>

Subscribe ==
  /\ listener = "starting" /\ busy = None
  /\ listener' = "listening"
  /\ UNCHANGED <<disk, writes, phase, busy, loaded, router, seen, watcher, pending, cluster, last>>

ReadMessage ==
  /\ listener = "listening" /\ busy = None /\ pending > 0
  /\ pending' = pending - 1
  /\ BeginReload("listener")
  /\ UNCHANGED <<disk, writes, phase, loaded, router, seen, watcher, listener, cluster, last>>

\* The connection is lost: subscribe or listen raises, and nothing catches it.
ListenerFails ==
  /\ "redis" \in Faults
  /\ listener \in {"starting", "listening"} /\ busy = None
  /\ listener' = "dead"
  /\ pending' = 0
  /\ UNCHANGED <<disk, writes, phase, busy, loaded, router, seen, watcher, cluster, last>>

\* POST /_reload
CallReload ==
  /\ phase = "up" /\ busy = None
  /\ BeginReload("endpoint")
  /\ UNCHANGED <<disk, writes, phase, loaded, router, seen, watcher, listener, pending, cluster, last>>

----------------------------------------------------------------------------
(* The reload: ConfigLoader.reload and update_routes. *)

Readable(f) == disk[f].good

\* The routes file is read and assigned before the gateway file is opened.
LoadRoutes ==
  /\ busy # None /\ busy.at = "routes"
  /\ Readable("routes")
  /\ loaded' = [loaded EXCEPT !["routes"] = disk["routes"].ver]
  /\ busy' = [busy EXCEPT !.at = "gateway"]
  /\ UNCHANGED <<disk, writes, phase, router, seen, watcher, listener, pending, cluster, last>>

\* Mutant: /_reload forgets update_routes.
RouterUnlessCalled(who) == IF who = "endpoint" THEN router ELSE loaded["routes"]

\* Each of the callers follows reload with update_routes.
NewRouter(who) == loaded["routes"]

\* The gateway file is read, and the router gets the loader's routes.
LoadGateway ==
  /\ busy # None /\ busy.at = "gateway"
  /\ Readable("gateway")
  /\ loaded' = [loaded EXCEPT !["gateway"] = disk["gateway"].ver]
  /\ router' = NewRouter(busy.who)
  /\ busy' = None
  /\ phase' = IF busy.who = "startup" THEN "loaded" ELSE phase
  /\ last' = "ok"
  /\ UNCHANGED <<disk, writes, seen, watcher, listener, pending, cluster>>

\* An exception ends the listener's task; the watcher and the endpoint catch theirs.
Unwinds(who) ==
  /\ listener' = IF who = "listener" THEN "dead" ELSE listener
  /\ pending' = IF who = "listener" THEN 0 ELSE pending

\* The file does not parse, lacks an environment variable, or cannot be read.  At
\* start-up that is the end of the process (EndProcess).
LoadFails ==
  /\ busy # None /\ busy.who # "startup"
  /\ ~Readable(busy.at) \/ "read" \in Faults
  /\ Unwinds(busy.who)
  /\ busy' = None
  /\ last' = IF Readable(busy.at) THEN "unread" ELSE "bad"
  /\ UNCHANGED <<disk, writes, phase, loaded, router, seen, watcher, cluster>>

Next ==
  \/ \E f \in File, good \in BOOLEAN : Write(f, good)
  \/ Publish
  \/ StartProcess
  \/ StartServices
  \/ EndProcess
  \/ Poll
  \/ \E f \in File : PollFails(f)
  \/ Subscribe
  \/ ReadMessage
  \/ ListenerFails
  \/ CallReload
  \/ LoadRoutes
  \/ LoadGateway
  \/ LoadFails

Spec == Init /\ [][Next]_vars

\* The event loop gives the watcher its turn, and a reload that began goes on.
Fairness == WF_vars(Poll) /\ WF_vars(LoadRoutes \/ LoadGateway \/ LoadFails)

FairSpec == Spec /\ Fairness

----------------------------------------------------------------------------
(* A watcher with nothing to do means a gateway that is up to date: between reloads,
   if the last one succeeded and the recorded times are those of the files, the
   loader has the files and the router has the loader's routes, whatever was written
   between the watcher's stat, the read of one file and the read of the other, and
   whoever else reloaded in between.  The watcher that dies between its two stats is
   the exception: it may have recorded a change it never called back for ("missed"),
   until another reload succeeds (watcher.py:60, loader.py:188, app.py:61). *)
QuietIsCurrent ==
  phase = "up" /\ busy = None /\ last = "ok" =>
    /\ seen = Mtimes => loaded = Mtimes
    /\ router = loaded["routes"]

(* Once the files stop changing and both can be read, a running gateway with a living
   watcher comes to serve them for good, unless they changed before the watcher
   started or the last reload met a good file it could not read; a reload that met a
   bad file needs no help once the file is replaced (watcher.py:53). *)
Converges ==
  <>[](\/ phase # "up" \/ watcher = "dead"
       \/ \E f \in File : ~disk[f].good
       \/ last \in {"gap", "unread"}
       \/ router = disk["routes"].ver)

(* What docs/architecture.md says: every gateway process receives a published
   reload message and reloads.  The code's listener ends with the first reload
   that raises (app.py:94). *)
EveryPodListens == phase = "up" /\ ~cluster => listener # "dead"
=============================================================================
