------------------------------- MODULE AdminKeys -------------------------------
(***************************************************************************)
(* The keys of the admin API (admin/security.py): one process keeps them   *)
(* in memory and writes all of them to admin_keys.json after each change.  *)
(* A key is in memory before it is in the file; the disk may refuse the    *)
(* write, and the process may end before it, in it, or between the two     *)
(* changes of a rotation.                                                  *)
(***************************************************************************)
EXTENDS Naturals, FiniteSets

CONSTANTS
  Bootstrap,   \* keys of the settings, used when there is no file
  Rotated,     \* keys that create_key may draw
  MaxFaults    \* bound: failing writes and ends of the process

ASSUME KeySetsAssumption == Bootstrap \cap Rotated = {} /\ IsFiniteSet(Bootstrap \cup Rotated)
ASSUME FaultsAssumption == MaxFaults \in Nat

VARIABLES
  up,        \* the process runs
  memory,    \* _keys
  keyFile,   \* admin_keys.json
  rotating,  \* rotate_admin_key has created a key and is to deactivate this one
  expired,   \* keys whose expires_at has come
  faults,    \* faults so far
  revoked,   \* history: keys whose deactivation was answered with "deactivated"
  issued     \* history: keys whose secret was given out

keyVars == <<up, memory, keyFile, rotating, expired, faults, revoked, issued>>

Key == Bootstrap \cup Rotated
Keys == [Key -> {"absent", "active", "inactive"}]
Good(now) == [is |-> "good", keys |-> now]
Spoilt(why) == [is |-> why, keys |-> [k \in Key |-> "absent"]]
Missing == Spoilt("missing")
Broken == Spoilt("broken")
Nobody == {}

KeysTypeOK ==
  /\ up \in BOOLEAN
  /\ memory \in Keys /\ keyFile \in [is : {"good", "missing", "broken"}, keys : Keys]
  /\ rotating \in SUBSET Key /\ Cardinality(rotating) <= 1
  /\ {expired, revoked, issued} \subseteq SUBSET Key
  /\ faults \in 0..MaxFaults

FromSettings == [k \in Key |-> IF k \in Bootstrap THEN "active" ELSE "absent"]

KeysInit ==
  /\ up = FALSE /\ memory = FromSettings /\ keyFile = Missing
  /\ rotating = Nobody /\ expired = {} /\ faults = 0
  /\ revoked = {} /\ issued = Bootstrap

\* authenticate
Accepted(k) == up /\ memory[k] = "active" /\ k \notin expired

----------------------------------------------------------------------------
\* _load_or_bootstrap
StartKeys ==
  /\ ~up /\ keyFile # Broken
  /\ up' = TRUE
  /\ memory' = IF keyFile = Missing THEN FromSettings ELSE keyFile.keys
  /\ keyFile' = Good(memory')
  /\ UNCHANGED <<rotating, expired, faults, revoked, issued>>

\* It reads the settings, and its first _persist fails: there is no service to talk to.
StartFails ==
  /\ ~up /\ keyFile = Missing /\ faults < MaxFaults
  /\ faults' = faults + 1
  /\ keyFile' \in {Missing, Broken}
  /\ UNCHANGED <<up, memory, rotating, expired, revoked, issued>>

\* Mutant: what is written is the keys as they were.
Stale(now) == memory

Written(now) == now

\* memory is changed, then _persist: it works; or it raises; or the process ends.
Persisted(now) ==
  /\ memory' = now
  /\ keyFile' = Good(Written(now))
  /\ UNCHANGED <<up, expired, faults>>

Interrupted(now) ==
  /\ faults < MaxFaults /\ faults' = faults + 1
  /\ memory' = now
  /\ up' \in BOOLEAN
  /\ \/ keyFile' \in {keyFile, Broken}
     \/ ~up' /\ keyFile' = Good(now)
  /\ rotating' = Nobody
  /\ UNCHANGED <<expired, revoked>>

\* A write key is needed for what follows, and any will do.
Allowed == up /\ \E k \in Key : Accepted(k)

\* deactivate_key changes nothing, and answers 404, unless the key is active in memory.
Deactivated(k) == [memory EXCEPT ![k] = "inactive"]

DeactivateKey(k) ==
  /\ Allowed /\ rotating = Nobody /\ memory[k] = "active"
  /\ \/ Persisted(Deactivated(k)) /\ revoked' = revoked \cup {k} /\ UNCHANGED rotating
     \/ Interrupted(Deactivated(k))
  /\ UNCHANGED issued

\* rotate_admin_key: create_key, and then deactivate_key of the key that is named, if one is.
RotateKey(k, old) ==
  LET created == [memory EXCEPT ![k] = "active"]
  IN /\ Allowed /\ rotating = Nobody /\ memory[k] = "absent" /\ k \notin issued
     /\ issued' = issued \cup {k}
     /\ \/ /\ Persisted(created)
           /\ rotating' = old
           /\ revoked' = revoked
        \/ Interrupted(created)

EndRotation(old) ==
  /\ up /\ old \in rotating
  /\ \/ /\ IF memory[old] = "active"
           THEN Persisted(Deactivated(old)) /\ revoked' = revoked \cup {old}
           ELSE UNCHANGED <<up, memory, keyFile, expired, faults, revoked>>
        /\ rotating' = Nobody
     \/ memory[old] = "active" /\ Interrupted(Deactivated(old))
  /\ UNCHANGED issued

Expire(k) ==
  /\ k \in Rotated \cap issued /\ k \notin expired
  /\ expired' = expired \cup {k}
  /\ UNCHANGED <<up, memory, keyFile, rotating, faults, revoked, issued>>

EndKeys ==
  /\ up /\ faults < MaxFaults
  /\ faults' = faults + 1
  /\ up' = FALSE /\ rotating' = Nobody
  /\ UNCHANGED <<memory, keyFile, expired, revoked, issued>>

\* The operator removes the file: the keys of the settings are good again, revoked or not.
RemoveKeyFile ==
  /\ ~up /\ keyFile # Missing
  /\ keyFile' = Missing
  /\ revoked' = revoked \ Bootstrap
  /\ UNCHANGED <<up, memory, rotating, expired, faults, issued>>

KeysNext ==
  \/ StartKeys
  \/ StartFails
  \/ \E k \in Key : DeactivateKey(k)
  \/ \E k \in Rotated, old \in {Nobody} \cup {{x} : x \in Key} : RotateKey(k, old)
  \/ \E old \in Key : EndRotation(old)
  \/ \E k \in Key : Expire(k)
  \/ EndKeys
  \/ RemoveKeyFile

KeysSpec == KeysInit /\ [][KeysNext]_keyVars

----------------------------------------------------------------------------
(* A key whose deactivation was answered is refused from then on, whatever the disk and
   the process do, and however the key came to be; only removing the file gives a key of
   the settings back (admin/security.py:57-60, 176-188).  An error answer promises nothing:
   the key is refused until the process starts again, and asking again is answered 404. *)
RevokedIsRefused == \A k \in revoked : ~Accepted(k)
=============================================================================
