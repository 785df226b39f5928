------------------------------ MODULE AdminConsole ------------------------------
(***************************************************************************)
(* The route commands of the admin process (admin/app.py), the loader that *)
(* rewrites routes.yaml for them, and the history they can be rolled back  *)
(* from (admin/history.py).                                                *)
(*                                                                         *)
(* One process serves the commands, and a handler awaits nothing that      *)
(* blocks before it publishes the reload message (GatewayConfig), so two   *)
(* handlers never mix.  What comes between their writes is a failing disk  *)
(* or the end of the process.  The route table of this process answers no  *)
(* traffic and is left out.                                                *)
(***************************************************************************)
EXTENDS Integers, SequencesExt

CONSTANTS
  RouteIds,
  Bodies,      \* what a route says beyond its id
  NoRoute,     \* None
  Edits,       \* the route lists an operator may put into the file
  MaxEntries,  \* route_history_max_entries
  MaxCommands, \* bound: route commands
  MaxUpsets    \* bound: edits, reloads and faults

ASSUME EntriesAssumption == MaxEntries \in Nat \ {0}
ASSUME CommandsAssumption == MaxCommands \in Nat
ASSUME UpsetsAssumption == MaxUpsets \in Nat

VARIABLES
  serving,   \* the process runs
  routes,    \* _routes of the loader
  file,      \* routes.yaml, Torn if it cannot be parsed
  entries,   \* _entries of the history
  saved,     \* route_history.json
  commands,  \* route commands so far
  upsets,    \* edits, reloads and faults so far
  base,      \* history: the routes at the last load
  since,     \* history: entries appended since then
  earlier    \* history: the routes before the newest of these entries

consoleVars == <<serving, routes, file, entries, saved, commands, upsets, base, since, earlier>>

Route == [id : RouteIds, body : Bodies]
Entry == [before : Route \cup {NoRoute}, after : Route \cup {NoRoute}]
Torn == <<NoRoute>>

ASSUME NoRouteAssumption == NoRoute \notin Route
ASSUME EditsAssumption == Edits \subseteq Seq(Route)

ConsoleTypeOK ==
  /\ serving \in BOOLEAN
  /\ {routes, base, earlier} \subseteq Seq(Route)
  /\ file \in Seq(Route) \cup {Torn}
  /\ entries \in Seq(Entry) /\ saved \in Seq(Entry) \cup {Torn}
  /\ saved # Torn => Len(saved) <= MaxEntries
  /\ commands \in 0..MaxCommands /\ upsets \in 0..MaxUpsets
  /\ since \in 0..Len(entries)
  \* the branch "History entry has no rollback context" is never taken
  /\ \A e \in ToSet(entries) : e.before # NoRoute \/ e.after # NoRoute

ConsoleInit ==
  /\ serving = TRUE
  /\ routes = <<>> /\ file = <<>> /\ base = <<>> /\ earlier = <<>>
  /\ entries = <<>> /\ saved = <<>>
  /\ commands = 0 /\ upsets = 0 /\ since = 0

----------------------------------------------------------------------------
(* ConfigLoader: the route list a command leads to. *)

Find(rs, id) ==
  LET at == SelectInSeq(rs, LAMBDA r : r.id = id) IN IF at = 0 THEN NoRoute ELSE rs[at]

Has(rs, id) == Find(rs, id) # NoRoute

Put(rs, id, r) == [i \in DOMAIN rs |-> IF rs[i].id = id THEN r ELSE rs[i]]

Without(rs, id) ==
  LET kept[n \in 0..Len(rs)] ==
        IF n = 0 THEN <<>>
        ELSE IF rs[n].id = id THEN kept[n - 1] ELSE Append(kept[n - 1], rs[n])
  IN kept[Len(rs)]

\* Mutant: a rename is not compared with the other ids.
AnyName(rs, id, r) == Has(rs, id)

MayPut(rs, id, r) == Has(rs, id) /\ (r.id = id \/ ~Has(rs, r.id))

----------------------------------------------------------------------------
(* What rollback_route makes of an entry: the new list and what the entry it adds says.
   Where the code refuses or raises, the list is not touched. *)

Change(next, before, after) == [next |-> next, before |-> before, after |-> after]
Refused(rs) == Change(rs, NoRoute, NoRoute)

UndoCreate(rs, r) ==
  IF Has(rs, r.id) THEN Change(Without(rs, r.id), Find(rs, r.id), NoRoute) ELSE Refused(rs)

\* Mutant: a deleted route is always created anew.
CreateAgain(rs, r) == Change(Append(rs, r), Find(rs, r.id), r)

UndoDelete(rs, r) ==
  IF Has(rs, r.id) THEN Change(Put(rs, r.id, r), Find(rs, r.id), r)
                   ELSE Change(Append(rs, r), NoRoute, r)

\* Mutant: the route is looked for under its old id.
UndoByOldId(rs, old, new) ==
  IF Has(rs, old.id) THEN Change(Put(rs, old.id, old), Find(rs, old.id), old)
                     ELSE Change(Append(rs, old), NoRoute, old)

UndoUpdate(rs, old, new) ==
  CASE MayPut(rs, new.id, old) -> Change(Put(rs, new.id, old), Find(rs, new.id), old)
    [] Has(rs, new.id) /\ ~MayPut(rs, new.id, old) -> Refused(rs)
    [] OTHER -> UndoDelete(rs, old)

Undo(rs, e) ==
  CASE e.before = NoRoute -> UndoCreate(rs, e.after)
    [] e.after = NoRoute  -> UndoDelete(rs, e.before)
    [] OTHER              -> UndoUpdate(rs, e.before, e.after)

----------------------------------------------------------------------------
(* A command: routes.yaml is written, then the list in memory replaced, then the entry
   appended in memory, then route_history.json written. *)

Kept(es) == IF Len(es) <= MaxEntries THEN es ELSE SubSeq(es, Len(es) - MaxEntries + 1, Len(es))

\* Mutant: a rollback is recorded as the entry it undoes.
NoteForward(c) == [before |-> c.after, after |-> c.before]

EntryOf(c) == [before |-> c.before, after |-> c.after]

\* What routes.yaml may hold after a write that failed: nothing new, or part of the list.
Halfway(next) == {file, Torn} \cup {SubSeq(next, 1, n) : n \in 0..Len(next)}

\* routes.yaml cannot be written, and nothing else is done.
Spoil(c) ==
  /\ file' \in Halfway(c.next)
  /\ UNCHANGED <<routes, entries, saved, base, since, earlier>>

\* The handler gets as far as the append; the history file then holds one of `kept`.
Carry(c, kept) ==
  /\ file' = c.next /\ routes' = c.next
  /\ entries' = Append(entries, EntryOf(c))
  /\ saved' \in kept
  /\ since' = since + 1 /\ earlier' = routes
  /\ UNCHANGED base

\* A write that fails is answered with a 500, or the process ends with it.
Command(c) ==
  /\ serving /\ commands < MaxCommands
  /\ commands' = commands + 1
  /\ \/ /\ Carry(c, {Kept(Append(entries, EntryOf(c)))})
        /\ UNCHANGED <<serving, upsets>>
     \/ /\ upsets < MaxUpsets /\ upsets' = upsets + 1
        /\ serving' \in BOOLEAN
        /\ Spoil(c) \/ Carry(c, {saved, Torn})

CreateRoute(r) == ~Has(routes, r.id) /\ Command(Change(Append(routes, r), NoRoute, r))

UpdateRoute(id, r) ==
  MayPut(routes, id, r) /\ Command(Change(Put(routes, id, r), Find(routes, id), r))

DeleteRoute(id) ==
  Has(routes, id) /\ Command(Change(Without(routes, id), Find(routes, id), NoRoute))

RollbackRoute(e) == Undo(routes, e) # Refused(routes) /\ Command(Undo(routes, e))

----------------------------------------------------------------------------
(* The file in other hands, and the process from start to end. *)

Upset == upsets < MaxUpsets /\ upsets' = upsets + 1 /\ UNCHANGED commands

Loads == routes' = file /\ base' = file /\ since' = 0 /\ earlier' = file

\* reload_config: a file that cannot be parsed raises before anything is replaced.
ReloadConfig ==
  /\ Upset /\ serving /\ file # Torn
  /\ Loads
  /\ UNCHANGED <<serving, file, entries, saved>>

EditFile(rs) ==
  /\ Upset
  /\ file' = rs
  /\ UNCHANGED <<serving, routes, entries, saved, base, since, earlier>>

EndConsole ==
  /\ Upset /\ serving
  /\ serving' = FALSE
  /\ UNCHANGED <<routes, file, entries, saved, base, since, earlier>>

\* The process starts only with files it can parse.
StartConsole ==
  /\ ~serving /\ file # Torn /\ saved # Torn
  /\ serving' = TRUE
  /\ entries' = saved
  /\ Loads
  /\ UNCHANGED <<file, saved, commands, upsets>>

\* The operator removes a history file that keeps the process from starting.
RemoveHistory ==
  /\ saved = Torn
  /\ saved' = <<>>
  /\ UNCHANGED <<serving, routes, file, entries, commands, upsets, base, since, earlier>>

ConsoleNext ==
  \/ \E r \in Route : CreateRoute(r)
  \/ \E id \in RouteIds, r \in Route : UpdateRoute(id, r)
  \/ \E id \in RouteIds : DeleteRoute(id)
  \/ \E e \in ToSet(entries) : RollbackRoute(e)
  \/ ReloadConfig
  \/ \E rs \in Edits : EditFile(rs)
  \/ EndConsole
  \/ StartConsole
  \/ RemoveHistory

ConsoleSpec == ConsoleInit /\ [][ConsoleNext]_consoleVars

----------------------------------------------------------------------------
(* Replaying the entries appended since the last load, rollbacks among them, leads from
   the routes of that load to the routes in use: no command changes a route behind the
   history's back, whatever was renamed, deleted and restored in between
   (admin/app.py:403-583). *)
HistoryExplains ==
  LET Step(rs, e) == (rs \ {e.before}) \cup ({e.after} \ {NoRoute})
      replay[n \in 0..since] ==
        IF n = 0 THEN ToSet(base)
        ELSE Step(replay[n - 1], entries[Len(entries) - since + n])
  IN serving => replay[since] = ToSet(routes)

(* Rolling back the newest entry, a rollback included, gives back the routes there were
   before it, though not their order: a deleted route comes back behind the others, and
   the first match wins (admin/app.py:511-583). *)
RollbackRestores ==
  serving /\ since > 0 => ToSet(Undo(routes, Last(entries)).next) = ToSet(earlier)

(* A rollback that is sent a second time, as after a lost answer, changes no route, for
   any entry of the history and whatever came after it (admin/app.py:527-566). *)
RollbackIsIdempotent ==
  \A e \in ToSet(entries) :
    LET once == Undo(routes, e).next IN Undo(once, e).next = once

(* No sequence of commands, renames and rollbacks gives two routes one id: only the file's
   editors could (loader.py:215-254). *)
RouteIdsAreUnique ==
  \A i, j \in DOMAIN routes : routes[i].id = routes[j].id => i = j
=============================================================================
