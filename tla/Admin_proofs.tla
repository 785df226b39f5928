----------------------------- MODULE Admin_proofs -----------------------------
(***************************************************************************)
(* Proofs about what the gateway's administrators change, for every value  *)
(* of the constants: the admin keys (a revoked key is refused) and the     *)
(* routes of the console (no id twice, and a history that explains them    *)
(* and takes changes back).                                                *)
(***************************************************************************)
EXTENDS AdminKeys, AdminConsole, FoldLemmas, SequenceTheorems

(***************************************************************************)
(*                               Admin keys                                *)
(***************************************************************************)
\* Types, with the rotation under way as a set of at most one key.
KeyTypes ==
  /\ up \in BOOLEAN
  /\ memory \in Keys /\ keyFile \in [is : {"good", "missing", "broken"}, keys : Keys]
  /\ rotating \in {Nobody} \cup {{x} : x \in Key}
  /\ expired \in SUBSET Key /\ revoked \in SUBSET Key /\ issued \in SUBSET Key
  /\ faults \in 0..MaxFaults

\* A file that is missing or broken says nothing else.
FileIsOne == keyFile \in {Missing, Broken} \/ keyFile.is = "good"

\* Every key there is was given out, so that a new one is none of the revoked.
KeysAreIssued ==
  /\ Bootstrap \subseteq issued /\ revoked \subseteq issued
  /\ \A k \in Key : memory[k] # "absent" => k \in issued
  /\ \A k \in Key : keyFile.keys[k] # "absent" => k \in issued

\* A revoked key is active neither here nor wherever the process may start from.
RevokedEverywhere ==
  \A k \in revoked :
    /\ up => memory[k] # "active"
    /\ keyFile.is = "good" => keyFile.keys[k] # "active"
    /\ keyFile.is = "missing" => k \notin Bootstrap

(* The inductive invariant of the key store. *)
KeysInv == KeyTypes /\ FileIsOne /\ KeysAreIssued /\ RevokedEverywhere

----------------------------------------------------------------------------
(* What the records of the file are. *)
LEMMA FilesAreTyped ==
  /\ \A now \in Keys : /\ Good(now) \in [is : {"good", "missing", "broken"}, keys : Keys]
                       /\ Good(now).is = "good" /\ Good(now).keys = now
  /\ \A f \in {Missing, Broken} : /\ f \in [is : {"good", "missing", "broken"}, keys : Keys]
                                  /\ f.is # "good" /\ \A k \in Key : f.keys[k] = "absent"
  /\ Broken.is = "broken"
BY DEF Good, Missing, Broken, Spoilt, Keys

(* A key's setting changed stays a setting. *)
LEMMA SettingsAreTyped ==
  /\ FromSettings \in Keys
  /\ \A k \in Key : FromSettings[k] # "absent" <=> k \in Bootstrap
BY DEF FromSettings, Keys, Key

(* One key is set: the others stay. *)
LEMMA OneIsSet ==
  ASSUME KeysInv, NEW k \in Key, NEW v \in {"active", "inactive"},
         NEW now, now = [memory EXCEPT ![k] = v]
  PROVE  /\ now \in Keys /\ now[k] = v
         /\ \A j \in Key \ {k} : now[j] = memory[j]
BY DEF KeysInv, KeyTypes, Keys

(* The two ways a change ends keep what they must, if the change brings no revoked key back
   and none that was not given out. *)
LEMMA ChangeIsKept ==
  ASSUME KeysInv, up, NEW now \in Keys,
         Persisted(now) \/ Interrupted(now),
         rotating' \in {Nobody} \cup {{x} : x \in Key},
         revoked' \in SUBSET Key, issued' \in SUBSET Key,
         issued \subseteq issued', revoked' \subseteq issued',
         \A k \in Key : now[k] # "absent" => k \in issued',
         \A k \in revoked' : now[k] # "active",
         Persisted(now) \/ revoked' = revoked
  PROVE  KeysInv'
<1> USE FaultsAssumption DEF KeysInv
<1>1. Good(now) \in [is : {"good", "missing", "broken"}, keys : Keys]
      /\ Good(now).is = "good" /\ Good(now).keys = now
  BY FilesAreTyped
<1>2. /\ Broken \in [is : {"good", "missing", "broken"}, keys : Keys]
      /\ Broken.is = "broken" /\ \A k \in Key : Broken.keys[k] = "absent"
  BY FilesAreTyped
<1>3. CASE Persisted(now)
  <2>1. /\ memory' = now /\ keyFile' = Good(now)
        /\ up' = up /\ expired' = expired /\ faults' = faults
    BY <1>3 DEF Persisted, Written
  <2>2. KeyTypes'
    BY <2>1, <1>1 DEF KeyTypes
  <2>3. KeysAreIssued' /\ FileIsOne'
    BY <2>1, <1>1 DEF KeysAreIssued, FileIsOne
  <2>4. RevokedEverywhere'
    BY <2>1, <1>1 DEF RevokedEverywhere
  <2> QED
    BY <2>2, <2>3, <2>4
<1>4. CASE Interrupted(now) /\ revoked' = revoked
  <2>1. /\ memory' = now /\ up' \in BOOLEAN /\ expired' = expired
        /\ faults' \in 0..MaxFaults
        /\ keyFile' \in {keyFile, Broken} \/ keyFile' = Good(now)
    BY <1>4 DEF Interrupted, KeyTypes
  <2>2. KeyTypes'
    BY <2>1, <1>1, <1>2 DEF KeyTypes
  <2>3. KeysAreIssued' /\ FileIsOne'
    BY <2>1, <1>1, <1>2 DEF KeysAreIssued, FileIsOne, Missing, Broken, Spoilt
  <2>4. RevokedEverywhere'
    BY <1>4, <2>1, <1>1, <1>2 DEF RevokedEverywhere
  <2> QED
    BY <2>2, <2>3, <2>4
<1> QED
  BY <1>3, <1>4

----------------------------------------------------------------------------
(* A process that starts with no file, or with one of known keys. *)
LEMMA KeysInvInit == KeysInit => KeysInv
<1> SUFFICES ASSUME KeysInit PROVE KeysInv
  OBVIOUS
<1> USE FaultsAssumption, FilesAreTyped, SettingsAreTyped DEF KeysInit
<1>1. KeyTypes
  <2>1. keyFile \in [is : {"good", "missing", "broken"}, keys : Keys]
    OBVIOUS
  <2>2. memory \in Keys /\ rotating \in {Nobody} \cup {{x} : x \in Key}
    OBVIOUS
  <2>3. expired \in SUBSET Key /\ revoked \in SUBSET Key /\ issued \in SUBSET Key
    BY DEF Key
  <2>4. up \in BOOLEAN
    OBVIOUS
  <2>5. faults \in 0..MaxFaults
    OBVIOUS
  <2> QED
    BY <2>1, <2>2, <2>3, <2>4, <2>5 DEF KeyTypes
<1>2. KeysAreIssued /\ FileIsOne
  BY DEF KeysAreIssued, FileIsOne, Key
<1>3. RevokedEverywhere
  BY DEF RevokedEverywhere
<1> QED
  BY <1>1, <1>2, <1>3 DEF KeysInv

(* Every step keeps the invariant; the torn write and the restart are the cases that need it. *)
LEMMA KeysInvStep == KeysInv /\ [KeysNext]_keyVars => KeysInv'
<1> SUFFICES ASSUME KeysInv, [KeysNext]_keyVars PROVE KeysInv'
  OBVIOUS
<1> USE FaultsAssumption DEF KeysInv
<1>1. CASE StartKeys
  <2>1. /\ up' = TRUE /\ keyFile' = Good(memory')
        /\ \/ keyFile = Missing /\ memory' = FromSettings
           \/ keyFile.is = "good" /\ memory' = keyFile.keys
        /\ UNCHANGED <<rotating, expired, faults, revoked, issued>>
    BY <1>1 DEF StartKeys, FileIsOne, Missing, Spoilt
  <2>2. memory' \in Keys
    BY <2>1, SettingsAreTyped DEF KeyTypes
  <2>3. /\ keyFile' \in [is : {"good", "missing", "broken"}, keys : Keys]
        /\ keyFile'.is = "good" /\ keyFile'.keys = memory'
    BY <2>1, <2>2, FilesAreTyped
  <2>4. KeyTypes' /\ FileIsOne'
    BY <2>1, <2>2, <2>3 DEF KeyTypes, FileIsOne
  <2>5. KeysAreIssued'
    BY <2>1, <2>3, SettingsAreTyped DEF KeysAreIssued
  <2>6. \A k \in revoked : memory'[k] # "active"
    <3>1. CASE keyFile = Missing /\ memory' = FromSettings
      <4>1. keyFile.is = "missing"
        BY <3>1 DEF Missing, Spoilt
      <4>2. \A k \in revoked : k \in Key /\ k \notin Bootstrap
        BY <4>1 DEF RevokedEverywhere, KeyTypes
      <4> QED
        BY <3>1, <4>2, SettingsAreTyped
    <3>2. CASE keyFile.is = "good" /\ memory' = keyFile.keys
      BY <3>2 DEF RevokedEverywhere
    <3> QED
      BY <3>1, <3>2, <2>1
  <2>7. RevokedEverywhere'
    BY <2>1, <2>3, <2>6 DEF RevokedEverywhere
  <2> QED
    BY <2>4, <2>5, <2>7
<1>2. CASE StartFails
  <2>1. /\ keyFile = Missing /\ keyFile' \in {Missing, Broken}
        /\ faults' \in 0..MaxFaults
        /\ UNCHANGED <<up, memory, rotating, expired, revoked, issued>>
    BY <1>2 DEF StartFails, KeyTypes
  <2>2. KeyTypes' /\ FileIsOne'
    BY <2>1, FilesAreTyped DEF KeyTypes, FileIsOne
  <2>3. KeysAreIssued'
    BY <2>1, FilesAreTyped DEF KeysAreIssued
  <2>4. RevokedEverywhere'
    BY <2>1, FilesAreTyped DEF RevokedEverywhere, Missing, Spoilt
  <2> QED
    BY <2>2, <2>3, <2>4
<1>3. ASSUME NEW k \in Key, DeactivateKey(k) PROVE KeysInv'
  <2> DEFINE now == Deactivated(k)
  <2>1. /\ up /\ rotating = Nobody /\ memory[k] = "active" /\ issued' = issued
        /\ \/ Persisted(now) /\ revoked' = revoked \cup {k} /\ rotating' = rotating
           \/ Interrupted(now) /\ rotating' = Nobody /\ revoked' = revoked
    BY <1>3 DEF DeactivateKey, Allowed, Interrupted
  <2>2. now \in Keys /\ now[k] = "inactive" /\ \A j \in Key \ {k} : now[j] = memory[j]
    BY OneIsSet DEF Deactivated
  <2>3. k \in issued /\ \A j \in Key : now[j] # "absent" => j \in issued
    BY <2>1, <2>2 DEF KeysAreIssued
  <2>4. \A j \in revoked \cup {k} : now[j] # "active"
    BY <2>1, <2>2 DEF RevokedEverywhere, KeyTypes
  <2>5. issued' \in SUBSET Key /\ revoked' \in SUBSET Key /\ revoked' \subseteq issued'
    BY <2>1, <2>3 DEF KeyTypes, KeysAreIssued
  <2> HIDE DEF now
  <2> QED
    BY <2>1, <2>2, <2>3, <2>4, <2>5, ChangeIsKept
<1>4. ASSUME NEW k \in Rotated, NEW old \in {Nobody} \cup {{x} : x \in Key}, RotateKey(k, old)
      PROVE  KeysInv'
  <2> DEFINE now == [memory EXCEPT ![k] = "active"]
  <2>1. /\ up /\ k \notin issued /\ issued' = issued \cup {k} /\ revoked' = revoked
        /\ Persisted(now) \/ Interrupted(now)
        /\ rotating' \in {Nobody} \cup {{x} : x \in Key}
    BY <1>4 DEF RotateKey, Allowed, Interrupted
  <2>2. k \in Key /\ now \in Keys /\ now[k] = "active" /\ \A j \in Key \ {k} : now[j] = memory[j]
    BY OneIsSet DEF Key
  <2>3. \A j \in Key : now[j] # "absent" => j \in issued'
    BY <2>1, <2>2 DEF KeysAreIssued
  <2>4. \A j \in revoked : j # k /\ now[j] # "active"
    BY <2>1, <2>2 DEF RevokedEverywhere, KeyTypes, KeysAreIssued
  <2>5. issued' \in SUBSET Key /\ revoked' \in SUBSET Key /\ revoked' \subseteq issued'
    BY <2>1, <2>2 DEF KeyTypes, KeysAreIssued
  <2> HIDE DEF now
  <2> QED
    BY <2>1, <2>2, <2>3, <2>4, <2>5, ChangeIsKept
<1>5. ASSUME NEW old \in Key, EndRotation(old) PROVE KeysInv'
  <2>1. CASE memory[old] = "active"
    <3> DEFINE now == Deactivated(old)
    <3>1. /\ up /\ rotating' = Nobody /\ issued' = issued
          /\ \/ Persisted(now) /\ revoked' = revoked \cup {old}
             \/ Interrupted(now) /\ revoked' = revoked
      BY <1>5, <2>1 DEF EndRotation, Interrupted
    <3>2. now \in Keys /\ now[old] = "inactive" /\ \A j \in Key \ {old} : now[j] = memory[j]
      BY OneIsSet DEF Deactivated
    <3>3. old \in issued /\ \A j \in Key : now[j] # "absent" => j \in issued
      BY <2>1, <3>2 DEF KeysAreIssued
    <3>4. \A j \in revoked \cup {old} : now[j] # "active"
      BY <3>1, <3>2 DEF RevokedEverywhere, KeyTypes
    <3>5. issued' \in SUBSET Key /\ revoked' \in SUBSET Key /\ revoked' \subseteq issued'
      BY <3>1, <3>3 DEF KeyTypes, KeysAreIssued
    <3> HIDE DEF now
    <3> QED
      BY <3>1, <3>2, <3>3, <3>4, <3>5, ChangeIsKept
  <2>2. CASE memory[old] # "active"
    <3>1. /\ rotating' = Nobody
          /\ UNCHANGED <<up, memory, keyFile, expired, faults, revoked, issued>>
      BY <1>5, <2>2 DEF EndRotation
    <3> QED
      BY <3>1 DEF KeyTypes, FileIsOne, KeysAreIssued, RevokedEverywhere
  <2> QED
    BY <2>1, <2>2
<1>6. ASSUME NEW k \in Key, Expire(k) PROVE KeysInv'
  BY <1>6 DEF Expire, KeyTypes, FileIsOne, KeysAreIssued, RevokedEverywhere
<1>7. CASE EndKeys
  <2>1. /\ up' = FALSE /\ rotating' = Nobody /\ faults' \in 0..MaxFaults
        /\ UNCHANGED <<memory, keyFile, expired, revoked, issued>>
    BY <1>7 DEF EndKeys, KeyTypes
  <2>2. KeyTypes' /\ FileIsOne'
    BY <2>1 DEF KeyTypes, FileIsOne
  <2>3. KeysAreIssued' /\ RevokedEverywhere'
    BY <2>1 DEF KeysAreIssued, RevokedEverywhere
  <2> QED
    BY <2>2, <2>3
<1>8. CASE RemoveKeyFile
  <2>1. /\ up' = FALSE /\ keyFile' = Missing /\ revoked' = revoked \ Bootstrap
        /\ UNCHANGED <<memory, rotating, expired, faults, issued>>
    BY <1>8 DEF RemoveKeyFile, KeyTypes
  <2>2. KeyTypes' /\ FileIsOne'
    BY <2>1, FilesAreTyped DEF KeyTypes, FileIsOne
  <2>3. KeysAreIssued'
    BY <2>1, FilesAreTyped DEF KeysAreIssued
  <2>4. RevokedEverywhere'
    BY <2>1, FilesAreTyped DEF RevokedEverywhere
  <2> QED
    BY <2>2, <2>3, <2>4
<1>9. CASE UNCHANGED keyVars
  BY <1>9 DEF keyVars, KeyTypes, FileIsOne, KeysAreIssued, RevokedEverywhere
<1> QED
  BY <1>1, <1>2, <1>3, <1>4, <1>5, <1>6, <1>7, <1>8, <1>9 DEF KeysNext

(* So it always holds. *)
LEMMA KeysInvAlways == KeysSpec => []KeysInv
BY KeysInvInit, KeysInvStep, PTL DEF KeysSpec

----------------------------------------------------------------------------
(* Types of the key store, for any keys: at most one key waits to be deactivated by a
   rotation (admin/security.py:30-95, admin/app.py:614-644). *)
THEOREM KeysTypes == KeysSpec => []KeysTypeOK
<1>1. KeysInv => KeysTypeOK
  <2> SUFFICES ASSUME KeyTypes PROVE KeysTypeOK
    BY DEF KeysInv
  <2>1. rotating \in SUBSET Key /\ Cardinality(rotating) \in {0, 1}
    <3>1. CASE rotating = {}
      BY <3>1, FS_EmptySet
    <3>2. ASSUME NEW x \in Key, rotating = {x}
          PROVE  rotating \in SUBSET Key /\ Cardinality(rotating) = 1
      BY <3>2, FS_Singleton
    <3> QED
      BY <3>1, <3>2 DEF KeyTypes, Nobody
  <2> QED
    BY <2>1 DEF KeyTypes, KeysTypeOK
<1> QED
  BY <1>1, KeysInvAlways, PTL

(* A key whose deactivation was answered is refused whatever the disk and the process do
   afterwards, for any number of keys, rotations, failing writes and restarts
   (admin/security.py:44-60, 176-188). *)
THEOREM RevokedAlwaysRefused == KeysSpec => []RevokedIsRefused
<1>1. KeysInv => RevokedIsRefused
  BY DEF KeysInv, RevokedEverywhere, RevokedIsRefused, Accepted
<1> QED
  BY <1>1, KeysInvAlways, PTL

------------------------------------------------------------------------------
(***************************************************************************)
(*                         The routes of the console                       *)
(***************************************************************************)
(* Finding a route of an id: the first of them, if the list has any. *)
LEMMA FindFacts ==
  ASSUME NEW rs \in Seq(Route), NEW id
  PROVE  /\ Has(rs, id) <=> \E i \in DOMAIN rs : rs[i].id = id
         /\ Has(rs, id) => \E i \in DOMAIN rs : Find(rs, id) = rs[i] /\ rs[i].id = id
         /\ ~Has(rs, id) => Find(rs, id) = NoRoute
<1> DEFINE I == {i \in 1..Len(rs) : rs[i].id = id}
           at == IF I # {} THEN Min(I) ELSE 0
<1>1. SelectInSeq(rs, LAMBDA r : r.id = id) = at
  BY DEF SelectInSeq
<1>2. Find(rs, id) = IF at = 0 THEN NoRoute ELSE rs[at]
  BY <1>1 DEF Find
<1>3. /\ DOMAIN rs = 1..Len(rs) /\ Len(rs) \in Nat
      /\ \A i \in DOMAIN rs : rs[i] \in Route /\ rs[i] # NoRoute /\ i # 0
  BY NoRouteAssumption
<1>4. CASE I = {}
  BY <1>2, <1>3, <1>4 DEF Has
<1>5. CASE I # {}
  <2>1. \E n \in I : \A m \in I : n <= m
    <3>1. I \in SUBSET Nat
      BY <1>3
    <3> HIDE DEF I
    <3> QED BY <1>5, <3>1, LeastExists
  <2>2. Min(I) \in I
    <3> HIDE DEF I
    <3> QED BY <2>1 DEF Min
  <2>3. Min(I) \in DOMAIN rs /\ rs[Min(I)].id = id
    BY <1>3, <2>2
  <2>4. at = Min(I) /\ at # 0
    BY <1>3, <1>5, <2>3
  <2> HIDE DEF at
  <2>5. Find(rs, id) = rs[Min(I)]
    BY <1>2, <2>4
  <2> HIDE DEF I
  <2> QED BY <1>3, <2>3, <2>5 DEF Has
<1> QED BY <1>4, <1>5

(* No id is used twice. *)
NoTwo(rs) == \A i, j \in DOMAIN rs : rs[i].id = rs[j].id => i = j

(* Without takes out every route of the id, and nothing else. *)
IsKept(kept, rs, id) ==
  kept = [n \in 0..Len(rs) |->
            IF n = 0 THEN <<>>
            ELSE IF rs[n].id = id THEN kept[n - 1] ELSE Append(kept[n - 1], rs[n])]

(* The recursive function behind Without exists. *)
LEMMA KeptExists ==
  ASSUME NEW rs \in Seq(Route), NEW id
  PROVE  \E kept : IsKept(kept, rs, id) /\ Without(rs, id) = kept[Len(rs)]
<1>1. Without(rs, id) = (CHOOSE kept : IsKept(kept, rs, id))[Len(rs)]
  BY DEF Without, IsKept
<1>2. \E kept : IsKept(kept, rs, id)
  <2> DEFINE step == [p \in (1..Len(rs)) \X Seq(Route) |->
                        IF rs[p[1]].id = id THEN p[2] ELSE Append(p[2], rs[p[1]])]
  <2>1. Len(rs) \in Nat /\ \A n \in 1..Len(rs) : rs[n] \in Route
    OBVIOUS
  <2>2. step \in [(1..Len(rs)) \X Seq(Route) -> Seq(Route)]
    BY <2>1
  <2>3. <<>> \in Seq(Route)
    OBVIOUS
  <2>4. \A n \in 1..Len(rs), v \in Seq(Route) :
          step[<<n, v>>] = IF rs[n].id = id THEN v ELSE Append(v, rs[n])
    OBVIOUS
  <2> HIDE DEF step
  <2>5. PICK f \in [0..Len(rs) -> Seq(Route)] :
          f[0] = <<>> /\ \A n \in 1..Len(rs) : f[n] = step[<<n, f[n - 1]>>]
    <3>1. PICK n, V, none : n = Len(rs) /\ V = Seq(Route) /\ none = <<>>
      BY <2>1, <2>3
    <3>2. step \in Steps(n, V) /\ n \in Nat /\ none \in V
      BY <2>1, <2>2, <2>3, <3>1 DEF Steps
    <3>3. \E f : IsRun(f, V, none, n, step)
      BY <3>2, RecursionExists
    <3> QED BY <3>1, <3>3 DEF IsRun
  <2>6. \A n \in 0..Len(rs) :
          f[n] = IF n = 0 THEN <<>>
                 ELSE IF rs[n].id = id THEN f[n - 1] ELSE Append(f[n - 1], rs[n])
    <3> SUFFICES ASSUME NEW n \in 0..Len(rs), n # 0
                 PROVE  f[n] = IF rs[n].id = id THEN f[n - 1] ELSE Append(f[n - 1], rs[n])
      BY <2>5
    <3>1. n \in 1..Len(rs) /\ n - 1 \in 0..Len(rs)
      BY <2>1
    <3> QED BY <2>4, <2>5, <3>1
  <2>7. f = [n \in 0..Len(rs) |->
               IF n = 0 THEN <<>>
               ELSE IF rs[n].id = id THEN f[n - 1] ELSE Append(f[n - 1], rs[n])]
    BY <2>5, <2>6
  <2> QED BY <2>7 DEF IsKept
<1> QED BY <1>1, <1>2

(* Deleting an id leaves the routes of the other ids, and no id twice that was there once. *)
LEMMA WithoutFacts ==
  ASSUME NEW rs \in Seq(Route), NEW id
  PROVE  /\ Without(rs, id) \in Seq(Route)
         /\ ToSet(Without(rs, id)) = {r \in ToSet(rs) : r.id # id}
         /\ NoTwo(rs) => NoTwo(Without(rs, id))
<1>1. PICK kept : IsKept(kept, rs, id) /\ Without(rs, id) = kept[Len(rs)]
  BY KeptExists
<1> DEFINE Right(n) ==
      /\ kept[n] \in Seq(Route)
      /\ \A r : r \in ToSet(kept[n]) <=> \E i \in 1..n : r = rs[i] /\ rs[i].id # id
      /\ NoTwo(rs) => NoTwo(kept[n])
           Bad == {n \in 0..Len(rs) : ~Right(n)}
<1>2. Len(rs) \in Nat /\ DOMAIN rs = 1..Len(rs) /\ \A n \in 1..Len(rs) : rs[n] \in Route
  OBVIOUS
<1>3. /\ kept[0] = <<>>
      /\ \A n \in 1..Len(rs) :
           kept[n] = IF rs[n].id = id THEN kept[n - 1] ELSE Append(kept[n - 1], rs[n])
  <2>1. \A n \in 0..Len(rs) :
          kept[n] = IF n = 0 THEN <<>>
                    ELSE IF rs[n].id = id THEN kept[n - 1] ELSE Append(kept[n - 1], rs[n])
    <3>1. kept = [n \in 0..Len(rs) |->
                    IF n = 0 THEN <<>>
                    ELSE IF rs[n].id = id THEN kept[n - 1] ELSE Append(kept[n - 1], rs[n])]
      BY <1>1 DEF IsKept
    <3> QED BY <3>1
  <2>2. 0 \in 0..Len(rs) /\ \A n \in 1..Len(rs) : n \in 0..Len(rs) /\ n # 0
    BY <1>2
  <2> QED BY <2>1, <2>2
<1>4. Right(0)
  BY <1>3 DEF ToSet, NoTwo
<1>5. ASSUME NEW n \in 1..Len(rs), Right(n - 1)
      PROVE  Right(n)
  <2>1. n \in Nat /\ n - 1 \in Nat /\ rs[n] \in Route
    BY <1>2
  <2>2. \A i : i \in 1..n <=> i \in 1..n - 1 \/ i = n
    BY <2>1
  <2>3. CASE rs[n].id = id
    <3>1. kept[n] = kept[n - 1]
      BY <1>3, <2>3
    <3> QED BY <1>5, <2>2, <2>3, <3>1
  <2>4. CASE rs[n].id # id
    <3> DEFINE k == kept[n - 1]
    <3>1. /\ kept[n] = Append(k, rs[n]) /\ k \in Seq(Route)
      BY <1>3, <1>5, <2>4
    <3> HIDE DEF k
    <3>2. /\ kept[n] \in Seq(Route) /\ DOMAIN k = 1..Len(k) /\ Len(k) \in Nat
          /\ DOMAIN kept[n] = 1..Len(k) + 1
          /\ kept[n][Len(k) + 1] = rs[n]
          /\ \A i \in 1..Len(k) : kept[n][i] = k[i]
      BY <2>1, <3>1
    <3>3. \A i : i \in 1..Len(k) + 1 <=> i \in 1..Len(k) \/ i = Len(k) + 1
      BY <3>2
    <3>4. \A r : r \in ToSet(kept[n]) <=> r \in ToSet(k) \/ r = rs[n]
      BY <3>2, <3>3 DEF ToSet
    <3>5. \A r : r \in ToSet(kept[n]) <=> \E i \in 1..n : r = rs[i] /\ rs[i].id # id
      BY <1>5, <2>2, <2>4, <3>4 DEF k
    <3>6. ASSUME NoTwo(rs) PROVE NoTwo(kept[n])
      <4>1. \A i \in 1..Len(k) : k[i].id # rs[n].id
        <5> SUFFICES ASSUME NEW i \in 1..Len(k) PROVE k[i].id # rs[n].id
          OBVIOUS
        <5>1. k[i] \in ToSet(k)
          BY <3>2 DEF ToSet
        <5>2. PICK j \in 1..n - 1 : k[i] = rs[j]
          BY <1>5, <5>1 DEF k
        <5>3. j \in DOMAIN rs /\ n \in DOMAIN rs /\ j # n
          BY <1>2, <2>1
        <5> QED BY <3>6, <5>2, <5>3 DEF NoTwo
      <4>2. NoTwo(k)
        BY <1>5, <3>6 DEF k
      <4>3. \A i, j \in 1..Len(k) : k[i].id = k[j].id => i = j
        BY <3>2, <4>2 DEF NoTwo
      <4> QED BY <3>2, <3>3, <4>1, <4>3 DEF NoTwo
    <3> QED BY <3>2, <3>5, <3>6
  <2> QED BY <2>3, <2>4
<1>6. Bad = {}
  <2> SUFFICES ASSUME Bad # {} PROVE FALSE
    OBVIOUS
  <2>1. PICK n \in Bad : \A m \in Bad : n <= m
    <3>1. Bad \in SUBSET Nat
      BY <1>2
    <3> HIDE DEF Bad
    <3> QED BY <3>1, LeastExists
  <2>2. n \in 0..Len(rs) /\ ~Right(n)
    OBVIOUS
  <2> HIDE DEF Right
  <2>3. n \in 1..Len(rs) /\ n - 1 \in 0..Len(rs) /\ ~(n <= n - 1)
    <3>1. n # 0
      BY <1>4, <2>2
    <3> HIDE DEF Bad
    <3> QED BY <1>2, <2>2, <3>1
  <2>4. n - 1 \notin Bad
    <3> HIDE DEF Bad
    <3> QED BY <2>1, <2>3
  <2> QED BY <1>5, <2>2, <2>3, <2>4
<1>7. Right(Len(rs))
  <2> HIDE DEF Right
  <2> QED BY <1>2, <1>6
<1>8. ToSet(Without(rs, id)) = {r \in ToSet(rs) : r.id # id}
  <2>1. \A r : r \in ToSet(rs) <=> \E i \in 1..Len(rs) : r = rs[i]
    BY <1>2 DEF ToSet
  <2> QED BY <1>1, <1>7, <2>1
<1> QED BY <1>1, <1>7, <1>8

(* Put replaces the routes of the id where they stand. *)
LEMMA PutFacts ==
  ASSUME NEW rs \in Seq(Route), NEW id, NEW r \in Route
  PROVE  /\ Put(rs, id, r) \in Seq(Route)
         /\ DOMAIN Put(rs, id, r) = DOMAIN rs
         /\ \A i \in DOMAIN rs : Put(rs, id, r)[i] = IF rs[i].id = id THEN r ELSE rs[i]
<1>1. Len(rs) \in Nat /\ DOMAIN rs = 1..Len(rs) /\ \A i \in 1..Len(rs) : rs[i] \in Route
  OBVIOUS
<1> QED BY <1>1 DEF Put

(* A new route is put behind the others. *)
LEMMA AppendFacts ==
  ASSUME NEW rs \in Seq(Route), NEW r \in Route
  PROVE  /\ Append(rs, r) \in Seq(Route)
         /\ DOMAIN rs = 1..Len(rs) /\ Len(rs) \in Nat
         /\ DOMAIN Append(rs, r) = DOMAIN rs \cup {Len(rs) + 1}
         /\ Len(rs) + 1 \notin DOMAIN rs
         /\ Append(rs, r)[Len(rs) + 1] = r
         /\ \A i \in DOMAIN rs : Append(rs, r)[i] = rs[i]
<1>1. Len(rs) \in Nat /\ DOMAIN rs = 1..Len(rs)
  OBVIOUS
<1>2. DOMAIN Append(rs, r) = 1..Len(rs) + 1
  OBVIOUS
<1> QED BY <1>1, <1>2

----------------------------------------------------------------------------
(* What every command does to the list: a route added, replaced or taken out
   (admin/app.py:403-583). *)
Created(rs, c, r) ==
  ~Has(rs, r.id) /\ c = Change(Append(rs, r), NoRoute, r)
Updated(rs, c, id, r) ==
  MayPut(rs, id, r) /\ c = Change(Put(rs, id, r), Find(rs, id), r)
Deleted(rs, c, id) ==
  Has(rs, id) /\ c = Change(Without(rs, id), Find(rs, id), NoRoute)

(* c is one of those changes of rs; so is every rollback. *)
IsChange(rs, c) ==
  \/ \E r \in Route : Created(rs, c, r)
  \/ \E r \in Route, id \in RouteIds : Updated(rs, c, id, r)
  \/ \E id \in RouteIds : Deleted(rs, c, id)

(* The entry tells what it was about: a history never keeps a change of nothing. *)
Says(e) == e.before # NoRoute \/ e.after # NoRoute

(* A rollback that is not refused creates, updates or deletes a route as a command does. *)
LEMMA UndoIsChange ==
  ASSUME NEW rs \in Seq(Route), NEW e \in Entry, Says(e), Undo(rs, e) # Refused(rs)
  PROVE  IsChange(rs, Undo(rs, e))
<1>1. ASSUME NEW r \in Route PROVE r.id \in RouteIds
  BY DEF Route
<1>2. ASSUME NEW r \in Route
      PROVE  IsChange(rs, UndoDelete(rs, r))
  <2>1. CASE Has(rs, r.id)
    <3>1. Updated(rs, UndoDelete(rs, r), r.id, r)
      BY <2>1 DEF Updated, UndoDelete, MayPut
    <3> QED BY <1>1, <3>1 DEF IsChange
  <2>2. CASE ~Has(rs, r.id)
    <3>1. Created(rs, UndoDelete(rs, r), r)
      BY <2>2 DEF Created, UndoDelete
    <3> QED BY <3>1 DEF IsChange
  <2> QED BY <2>1, <2>2
<1>3. e.before \in Route \cup {NoRoute} /\ e.after \in Route \cup {NoRoute}
  BY DEF Entry
<1>4. CASE e.before = NoRoute
  <2>1. e.after \in Route /\ Undo(rs, e) = UndoCreate(rs, e.after)
    BY <1>3, <1>4 DEF Says, Undo
  <2>2. Deleted(rs, Undo(rs, e), e.after.id)
    BY <2>1 DEF UndoCreate, Deleted
  <2> QED BY <1>1, <2>1, <2>2 DEF IsChange
<1>5. CASE e.before # NoRoute /\ e.after = NoRoute
  <2>1. e.before \in Route /\ Undo(rs, e) = UndoDelete(rs, e.before)
    BY <1>3, <1>5 DEF Undo
  <2> QED BY <1>2, <2>1
<1>6. CASE e.before # NoRoute /\ e.after # NoRoute
  <2>1. /\ e.before \in Route /\ e.after \in Route
        /\ Undo(rs, e) = UndoUpdate(rs, e.before, e.after)
    BY <1>3, <1>6 DEF Undo
  <2>2. CASE MayPut(rs, e.after.id, e.before)
    <3>1. Updated(rs, Undo(rs, e), e.after.id, e.before)
      BY <2>1, <2>2 DEF UndoUpdate, Updated
    <3> QED BY <1>1, <2>1, <3>1 DEF IsChange
  <2>3. CASE ~MayPut(rs, e.after.id, e.before)
    <3>1. Undo(rs, e) = UndoDelete(rs, e.before)
      BY <2>1, <2>3 DEF UndoUpdate
    <3> QED BY <1>2, <2>1, <3>1
  <2> QED BY <2>2, <2>3
<1> QED BY <1>4, <1>5, <1>6

(* What a change leaves, and the entry it is noted by. *)
LEMMA ChangeTypes ==
  ASSUME NEW rs \in Seq(Route), NEW c, IsChange(rs, c)
  PROVE  c.next \in Seq(Route) /\ EntryOf(c) \in Entry /\ Says(EntryOf(c))
<1> USE NoRouteAssumption
<1>1. \A id : Find(rs, id) \in Route \cup {NoRoute}
  <2> SUFFICES ASSUME NEW id, Has(rs, id) PROVE Find(rs, id) \in Route
    BY FindFacts
  <2>1. PICK i \in DOMAIN rs : Find(rs, id) = rs[i]
    BY FindFacts
  <2> QED BY <2>1
<1>2. \A id : Has(rs, id) => Find(rs, id) # NoRoute
  BY DEF Has
<1>3. ASSUME NEW r \in Route, Created(rs, c, r)
      PROVE  c.next \in Seq(Route) /\ EntryOf(c) \in Entry /\ Says(EntryOf(c))
  <2>1. c.next = Append(rs, r) /\ c.before = NoRoute /\ c.after = r
    BY <1>3 DEF Created, Change
  <2> QED BY <2>1, AppendFacts DEF EntryOf, Entry, Says
<1>4. ASSUME NEW r \in Route, NEW id \in RouteIds, Updated(rs, c, id, r)
      PROVE  c.next \in Seq(Route) /\ EntryOf(c) \in Entry /\ Says(EntryOf(c))
  <2>1. c.next = Put(rs, id, r) /\ c.before = Find(rs, id) /\ c.after = r
    BY <1>4 DEF Updated, Change
  <2> QED BY <1>1, <2>1, PutFacts DEF EntryOf, Entry, Says
<1>5. ASSUME NEW id \in RouteIds, Deleted(rs, c, id)
      PROVE  c.next \in Seq(Route) /\ EntryOf(c) \in Entry /\ Says(EntryOf(c))
  <2>1. c.next = Without(rs, id) /\ c.before = Find(rs, id) /\ c.after = NoRoute /\ Has(rs, id)
    BY <1>5 DEF Deleted, Change
  <2> QED BY <1>1, <1>2, <2>1, WithoutFacts DEF EntryOf, Entry, Says
<1> QED BY <1>3, <1>4, <1>5 DEF IsChange

(* The step of HistoryExplains: what the entry says, done once more to a set of routes. *)
Replayed(rs, e) == (rs \ {e.before}) \cup ({e.after} \ {NoRoute})

(* The list stays free of doubles, the entry replayed leads to the new routes, and undone
   back to the old ones. *)
IsUndoable(rs, c) ==
  /\ NoTwo(c.next)
  /\ Replayed(ToSet(rs), EntryOf(c)) = ToSet(c.next)
  /\ ToSet(Undo(c.next, EntryOf(c)).next) = ToSet(rs)

(* Undoing a creation deletes the route again. *)
LEMMA CreatedIsUndoable ==
  ASSUME NEW rs \in Seq(Route), NoTwo(rs), NEW c, NEW r \in Route, Created(rs, c, r)
  PROVE  IsUndoable(rs, c)
<1>1. /\ c.next = Append(rs, r) /\ EntryOf(c) = [before |-> NoRoute, after |-> r]
      /\ ~Has(rs, r.id)
  BY DEF Created, Change, EntryOf
<1>2. \A i \in DOMAIN rs : rs[i].id # r.id /\ rs[i] \in Route
  BY <1>1, FindFacts
<1>3. NoTwo(c.next)
  BY <1>1, <1>2, AppendFacts DEF NoTwo
<1>4. ToSet(c.next) = ToSet(rs) \cup {r}
  <2>1. \A x : x \in ToSet(c.next) <=> x \in ToSet(rs) \/ x = r
    BY <1>1, AppendFacts DEF ToSet
  <2> QED BY <2>1
<1>5. \A x \in ToSet(rs) : x # NoRoute /\ x.id # r.id
  BY <1>2, NoRouteAssumption DEF ToSet
<1>6. Replayed(ToSet(rs), EntryOf(c)) = ToSet(c.next)
  BY <1>1, <1>4, <1>5, NoRouteAssumption DEF Replayed
<1>7. /\ c.next \in Seq(Route) /\ Has(c.next, r.id)
  <2>1. c.next \in Seq(Route) /\ \E i \in DOMAIN c.next : c.next[i] = r
    BY <1>1, AppendFacts
  <2> QED BY <2>1, FindFacts
<1>8. Undo(c.next, EntryOf(c)).next = Without(c.next, r.id)
  <2>1. EntryOf(c).before = NoRoute /\ EntryOf(c).after = r
    BY <1>1
  <2>2. Undo(c.next, EntryOf(c)) = UndoCreate(c.next, r)
    BY <2>1, NoRouteAssumption DEF Undo
  <2> QED BY <1>7, <2>2 DEF UndoCreate, Change
<1>9. ToSet(Without(c.next, r.id)) = ToSet(rs)
  BY <1>4, <1>5, <1>7, WithoutFacts
<1> QED BY <1>3, <1>6, <1>8, <1>9 DEF IsUndoable

(* Undoing a deletion appends the route again: the set is the same, the order may differ. *)
LEMMA DeletedIsUndoable ==
  ASSUME NEW rs \in Seq(Route), NoTwo(rs), NEW c, NEW id, Deleted(rs, c, id)
  PROVE  IsUndoable(rs, c)
<1>1. PICK k \in DOMAIN rs : Find(rs, id) = rs[k] /\ rs[k].id = id
  BY FindFacts DEF Deleted
<1>2. PICK b \in Route : b = rs[k] /\ b.id = id
  BY <1>1
<1>3. c.next = Without(rs, id) /\ EntryOf(c) = [before |-> b, after |-> NoRoute]
  BY <1>1, <1>2 DEF Deleted, Change, EntryOf
<1>4. /\ c.next \in Seq(Route) /\ NoTwo(c.next)
      /\ ToSet(c.next) = {r \in ToSet(rs) : r.id # id}
  BY <1>3, WithoutFacts
<1>5. /\ b \in ToSet(rs)
      /\ \A x \in ToSet(rs) : x.id = id => x = b
  BY <1>1, <1>2 DEF ToSet, NoTwo
<1>6. Replayed(ToSet(rs), EntryOf(c)) = ToSet(c.next)
  BY <1>2, <1>3, <1>4, <1>5 DEF Replayed
<1>7. ~Has(c.next, b.id)
  <2>1. \A i \in DOMAIN c.next : c.next[i].id # id
    BY <1>4 DEF ToSet
  <2> QED BY <1>2, <1>4, <2>1, FindFacts
<1>8. Undo(c.next, EntryOf(c)).next = Append(c.next, b)
  BY <1>2, <1>3, <1>7, NoRouteAssumption DEF Undo, UndoDelete, Change
<1>9. ToSet(Append(c.next, b)) = ToSet(rs)
  <2>1. \A x : x \in ToSet(Append(c.next, b)) <=> x \in ToSet(c.next) \/ x = b
    BY <1>4, AppendFacts DEF ToSet
  <2> QED BY <1>2, <1>4, <1>5, <2>1
<1> QED BY <1>4, <1>6, <1>8, <1>9 DEF IsUndoable

(* Undoing an update, a renaming among them, puts the old route where the new one stands. *)
LEMMA UpdatedIsUndoable ==
  ASSUME NEW rs \in Seq(Route), NoTwo(rs), NEW c, NEW r \in Route, NEW id, Updated(rs, c, id, r)
  PROVE  IsUndoable(rs, c)
<1>1. PICK k \in DOMAIN rs : Find(rs, id) = rs[k] /\ rs[k].id = id
  BY FindFacts DEF Updated, MayPut
<1>2. PICK b \in Route : b = rs[k] /\ b.id = id
  BY <1>1
<1>3. /\ c.next = Put(rs, id, r) /\ EntryOf(c) = [before |-> b, after |-> r]
      /\ r.id = id \/ ~Has(rs, r.id)
  BY <1>1, <1>2 DEF Updated, MayPut, Change, EntryOf
<1>4. /\ c.next \in Seq(Route) /\ DOMAIN c.next = DOMAIN rs /\ c.next[k] = r
      /\ \A i \in DOMAIN rs : i # k => c.next[i] = rs[i] /\ rs[i].id # id /\ rs[i].id # r.id
  <2>1. \A i \in DOMAIN rs : c.next[i] = IF rs[i].id = id THEN r ELSE rs[i]
    BY <1>3, PutFacts
  <2>2. \A i \in DOMAIN rs : rs[i].id = id => i = k
    BY <1>1 DEF NoTwo
  <2>3. \A i \in DOMAIN rs : i # k => rs[i].id # r.id
    BY <1>3, <2>2, FindFacts
  <2> QED BY <1>1, <1>3, <2>1, <2>2, <2>3, PutFacts
<1>5. NoTwo(c.next)
  BY <1>4 DEF NoTwo
<1>6. Replayed(ToSet(rs), EntryOf(c)) = ToSet(c.next)
  <2>1. \A x : x \in ToSet(c.next) <=> x = r \/ \E i \in DOMAIN rs : i # k /\ x = rs[i]
    BY <1>4 DEF ToSet
  <2>2. \A x : x \in ToSet(rs) \ {b} <=> \E i \in DOMAIN rs : i # k /\ x = rs[i]
    BY <1>2, <1>4 DEF ToSet
  <2> QED BY <1>3, <2>1, <2>2, NoRouteAssumption DEF Replayed
<1>7. MayPut(c.next, r.id, b)
  <2>1. Has(c.next, r.id)
    BY <1>4, FindFacts
  <2>2. b.id # r.id => ~Has(c.next, b.id)
    <3> SUFFICES ASSUME b.id # r.id, Has(c.next, b.id) PROVE FALSE
      OBVIOUS
    <3>1. PICK i \in DOMAIN c.next : c.next[i].id = b.id
      BY <1>4, FindFacts
    <3> QED BY <1>2, <1>4, <3>1
  <2> QED BY <2>1, <2>2 DEF MayPut
<1>8. Undo(c.next, EntryOf(c)).next = Put(c.next, r.id, b)
  BY <1>2, <1>3, <1>7, NoRouteAssumption DEF Undo, UndoUpdate, Change
<1>9. ToSet(Put(c.next, r.id, b)) = ToSet(rs)
  <2>1. /\ DOMAIN Put(c.next, r.id, b) = DOMAIN rs
        /\ \A i \in DOMAIN rs : Put(c.next, r.id, b)[i] = rs[i]
    BY <1>2, <1>4, PutFacts
  <2> QED BY <2>1 DEF ToSet
<1> QED BY <1>5, <1>6, <1>8, <1>9 DEF IsUndoable

(* So every change of a list without doubles can be replayed and undone. *)
LEMMA ChangesAreUndoable ==
  ASSUME NEW rs \in Seq(Route), NoTwo(rs), NEW c, IsChange(rs, c)
  PROVE  IsUndoable(rs, c)
BY CreatedIsUndoable, UpdatedIsUndoable, DeletedIsUndoable DEF IsChange

----------------------------------------------------------------------------
(* Rolling back a deletion twice: the second finds the route there and replaces it by itself. *)
LEMMA DeleteTwice ==
  ASSUME NEW rs \in Seq(Route), NEW r \in Route
  PROVE  \E once \in Seq(Route) :
           /\ once = UndoDelete(rs, r).next
           /\ Has(once, r.id)
           /\ Put(once, r.id, r) = once
           /\ UndoDelete(once, r).next = once
           /\ \A id : id # r.id /\ ~Has(rs, id) => ~Has(once, id)
<1>1. PICK once : once = UndoDelete(rs, r).next
  OBVIOUS
<1>2. once = IF Has(rs, r.id) THEN Put(rs, r.id, r) ELSE Append(rs, r)
  BY <1>1 DEF UndoDelete, Change
<1>3. once \in Seq(Route)
  BY <1>2, PutFacts, AppendFacts
<1>4. /\ \E i \in DOMAIN once : once[i] = r
      /\ \A i \in DOMAIN once : once[i].id = r.id => once[i] = r
      /\ \A i \in DOMAIN once : once[i] = r \/ \E j \in DOMAIN rs : once[i] = rs[j]
  <2>1. CASE Has(rs, r.id)
    <3>1. PICK k \in DOMAIN rs : rs[k].id = r.id
      BY <2>1, FindFacts
    <3> QED BY <1>2, <2>1, <3>1, PutFacts
  <2>2. CASE ~Has(rs, r.id)
    <3>1. \A i \in DOMAIN rs : rs[i].id # r.id
      BY <2>2, FindFacts
    <3> QED BY <1>2, <2>2, <3>1, AppendFacts
  <2> QED BY <2>1, <2>2
<1>5. Has(once, r.id)
  BY <1>3, <1>4, FindFacts
<1>6. Put(once, r.id, r) = once
  <2>1. DOMAIN once = 1..Len(once) /\ once = [i \in DOMAIN once |-> once[i]]
    BY <1>3
  <2> QED BY <1>4, <2>1 DEF Put
<1>7. UndoDelete(once, r).next = once
  BY <1>5, <1>6 DEF UndoDelete, Change
<1>8. ASSUME NEW id, id # r.id, ~Has(rs, id) PROVE ~Has(once, id)
  <2>1. \A j \in DOMAIN rs : rs[j].id # id
    BY <1>8, FindFacts
  <2>2. \A i \in DOMAIN once : once[i].id # id
    BY <1>4, <1>8, <2>1
  <2> QED BY <1>3, <2>2, FindFacts
<1> QED BY <1>1, <1>3, <1>5, <1>6, <1>7, <1>8

(* Rolling back a renaming twice: the second finds the new id gone and restores the old route. *)
LEMMA RenameTwice ==
  ASSUME NEW rs \in Seq(Route), NEW old \in Route, NEW new \in Route,
         MayPut(rs, new.id, old), old.id # new.id
  PROVE  LET once == Put(rs, new.id, old)
         IN once \in Seq(Route) /\ ~Has(once, new.id) /\ UndoDelete(once, old).next = once
<1>1. PICK once \in Seq(Route) : once = Put(rs, new.id, old)
  BY PutFacts
<1>2. /\ DOMAIN once = DOMAIN rs
      /\ \A i \in DOMAIN rs : once[i] = IF rs[i].id = new.id THEN old ELSE rs[i]
  BY <1>1, PutFacts
<1>3. PICK k \in DOMAIN rs : rs[k].id = new.id
  BY FindFacts DEF MayPut
<1>4. \A i \in DOMAIN rs : rs[i].id # old.id
  BY FindFacts DEF MayPut
<1>5. ~Has(once, new.id)
  BY <1>2, FindFacts
<1>6. Has(once, old.id)
  <2>1. once[k].id = old.id
    BY <1>2, <1>3
  <2> QED BY <1>2, <2>1, FindFacts
<1>7. Put(once, old.id, old) = once
  <2>1. \A i \in DOMAIN once : once[i].id = old.id => once[i] = old
    BY <1>2, <1>4
  <2>2. once = [i \in DOMAIN once |-> once[i]]
    OBVIOUS
  <2> QED BY <2>1, <2>2 DEF Put
<1> QED BY <1>1, <1>5, <1>6, <1>7 DEF UndoDelete, Change

(* Whatever the routes have become, a second rollback of the same entry changes nothing. *)
LEMMA UndoTwice ==
  ASSUME NEW rs \in Seq(Route), NEW e \in Entry, Says(e)
  PROVE  Undo(Undo(rs, e).next, e).next = Undo(rs, e).next
<1>1. PICK once : once = Undo(rs, e).next
  OBVIOUS
<1>2. e.before \in Route \cup {NoRoute} /\ e.after \in Route \cup {NoRoute}
  BY DEF Entry
<1>3. CASE e.before = NoRoute
  <2>1. PICK r \in Route : r = e.after
    BY <1>2, <1>3 DEF Says
  <2>2. \A s : Undo(s, e).next = IF Has(s, r.id) THEN Without(s, r.id) ELSE s
    <3>1. \A s : Undo(s, e) = UndoCreate(s, r)
      BY <1>3, <2>1, NoRouteAssumption DEF Undo
    <3> QED BY <3>1 DEF UndoCreate, Change, Refused
  <2>3. ~Has(once, r.id)
    <3>1. CASE Has(rs, r.id)
      <4>1. once = Without(rs, r.id) /\ once \in Seq(Route)
        BY <1>1, <2>2, <3>1, WithoutFacts
      <4>2. \A i \in DOMAIN once : once[i].id # r.id
        <5>1. \A x \in ToSet(once) : x.id # r.id
          BY <4>1, WithoutFacts
        <5> QED BY <5>1 DEF ToSet
      <4> QED BY <4>1, <4>2, FindFacts
    <3>2. CASE ~Has(rs, r.id)
      BY <1>1, <2>2, <3>2
    <3> QED BY <3>1, <3>2
  <2> QED BY <1>1, <2>2, <2>3
<1>4. CASE e.before # NoRoute /\ e.after = NoRoute
  <2>1. PICK r \in Route : r = e.before
    BY <1>2, <1>4
  <2>2. \A s : Undo(s, e) = UndoDelete(s, r)
    BY <1>4, <2>1 DEF Undo
  <2> QED BY <2>1, <2>2, DeleteTwice
<1>5. CASE e.before # NoRoute /\ e.after # NoRoute
  <2>1. PICK old \in Route, new \in Route : old = e.before /\ new = e.after
    BY <1>2, <1>5
  <2>2. \A s : Undo(s, e) = UndoUpdate(s, old, new)
    BY <1>5, <2>1 DEF Undo
  <2>3. CASE MayPut(rs, new.id, old)
    <3>1. once = Put(rs, new.id, old)
      BY <1>1, <2>2, <2>3 DEF UndoUpdate, Change
    <3>2. CASE old.id = new.id
      <4>1. once = UndoDelete(rs, old).next
        BY <2>3, <3>1, <3>2 DEF MayPut, UndoDelete, Change
      <4>2. Has(once, old.id) /\ Put(once, old.id, old) = once
        BY <4>1, DeleteTwice
      <4>3. MayPut(once, new.id, old)
        BY <3>2, <4>2 DEF MayPut
      <4> QED BY <1>1, <2>2, <3>2, <4>2, <4>3 DEF UndoUpdate, Change
    <3>3. CASE old.id # new.id
      <4>1. ~Has(once, new.id) /\ UndoDelete(once, old).next = once
        BY <2>3, <3>1, <3>3, RenameTwice
      <4>2. Undo(once, e) = UndoDelete(once, old)
        BY <2>2, <4>1 DEF UndoUpdate, MayPut
      <4> QED BY <1>1, <4>1, <4>2
    <3> QED BY <3>2, <3>3
  <2>4. CASE ~MayPut(rs, new.id, old) /\ Has(rs, new.id)
    <3>1. \A s : ~MayPut(s, new.id, old) /\ Has(s, new.id) => Undo(s, e).next = s
      BY <2>2 DEF UndoUpdate, Refused, Change
    <3>2. once = rs
      BY <1>1, <2>4, <3>1
    <3> QED BY <1>1, <2>4, <3>1, <3>2
  <2>5. CASE ~MayPut(rs, new.id, old) /\ ~Has(rs, new.id)
    <3>1. \A s : ~Has(s, new.id) => Undo(s, e) = UndoDelete(s, old)
      BY <2>2 DEF UndoUpdate, MayPut
    <3>2. once = UndoDelete(rs, old).next
      BY <1>1, <2>5, <3>1
    <3>3. /\ Has(once, old.id) /\ Put(once, old.id, old) = once
          /\ UndoDelete(once, old).next = once
          /\ old.id # new.id => ~Has(once, new.id)
      BY <2>5, <3>2, DeleteTwice
    <3>4. CASE old.id = new.id
      <4>1. MayPut(once, new.id, old)
        BY <3>3, <3>4 DEF MayPut
      <4> QED BY <1>1, <2>2, <3>3, <3>4, <4>1 DEF UndoUpdate, Change
    <3>5. CASE old.id # new.id
      BY <1>1, <3>1, <3>3, <3>5
    <3> QED BY <3>4, <3>5
  <2> QED BY <2>3, <2>4, <2>5
<1> QED BY <1>3, <1>4, <1>5

----------------------------------------------------------------------------
(* The types, and entries that can be rolled back, in the history's file too. *)
ConsoleInv ==
  /\ ConsoleTypeOK
  /\ saved # Torn => \A e \in ToSet(saved) : Says(e)

\* The steps that are not commands.
OtherStep ==
  \/ ReloadConfig
  \/ \E rs \in Edits : EditFile(rs)
  \/ EndConsole
  \/ StartConsole
  \/ RemoveHistory

(* A step is a command with a change of the routes, or none of the console's requests. *)
LEMMA StepKinds ==
  ASSUME ConsoleInv, ConsoleNext
  PROVE  OtherStep \/ \E c : IsChange(routes, c) /\ Command(c)
<1>0. routes \in Seq(Route)
  BY DEF ConsoleInv, ConsoleTypeOK
<1>1. ASSUME NEW r \in Route, CreateRoute(r)
      PROVE  \E c : IsChange(routes, c) /\ Command(c)
  <2>1. Created(routes, Change(Append(routes, r), NoRoute, r), r)
    BY <1>1 DEF CreateRoute, Created
  <2> QED BY <1>1, <2>1 DEF CreateRoute, IsChange
<1>2. ASSUME NEW id \in RouteIds, NEW r \in Route, UpdateRoute(id, r)
      PROVE  \E c : IsChange(routes, c) /\ Command(c)
  <2>1. Updated(routes, Change(Put(routes, id, r), Find(routes, id), r), id, r)
    BY <1>2 DEF UpdateRoute, Updated
  <2> QED BY <1>2, <2>1 DEF UpdateRoute, IsChange
<1>3. ASSUME NEW id \in RouteIds, DeleteRoute(id)
      PROVE  \E c : IsChange(routes, c) /\ Command(c)
  <2>1. Deleted(routes, Change(Without(routes, id), Find(routes, id), NoRoute), id)
    BY <1>3 DEF DeleteRoute, Deleted
  <2> QED BY <1>3, <2>1 DEF DeleteRoute, IsChange
<1>4. ASSUME NEW e \in ToSet(entries), RollbackRoute(e)
      PROVE  \E c : IsChange(routes, c) /\ Command(c)
  <2>1. e \in Entry /\ Says(e)
    BY DEF ConsoleInv, ConsoleTypeOK, Says, ToSet
  <2>2. IsChange(routes, Undo(routes, e))
    BY <1>0, <1>4, <2>1, UndoIsChange DEF RollbackRoute
  <2> QED BY <1>4, <2>2 DEF RollbackRoute
<1> QED BY <1>1, <1>2, <1>3, <1>4 DEF ConsoleNext, OtherStep

\* The oldest entries are dropped, the others stay.
LEMMA KeptFacts ==
  ASSUME NEW es \in Seq(Entry)
  PROVE  /\ Kept(es) \in Seq(Entry) /\ Len(Kept(es)) <= MaxEntries
         /\ ToSet(Kept(es)) \subseteq ToSet(es)
<1>1. Len(es) \in Nat /\ MaxEntries \in Nat \ {0} /\ DOMAIN es = 1..Len(es)
  BY EntriesAssumption
<1>2. CASE Len(es) <= MaxEntries
  BY <1>1, <1>2 DEF Kept
<1>3. CASE ~(Len(es) <= MaxEntries)
  <2>1. PICK m \in Nat : m = Len(es) - MaxEntries + 1
    BY <1>1, <1>3
  <2>2. /\ m \in Int /\ Len(es) \in Int /\ m <= Len(es) /\ Len(es) - m + 1 = MaxEntries
        /\ \A i \in m..Len(es) : i \in 1..Len(es)
        /\ \A i \in 1..MaxEntries : m + i - 1 \in 1..Len(es)
    BY <1>1, <1>3, <2>1
  <2>3. Kept(es) = SubSeq(es, m, Len(es))
    BY <1>3, <2>1 DEF Kept
  <2>4. \A i \in m..Len(es) : es[i] \in Entry
    BY <2>2
  <2>5. /\ Kept(es) \in Seq(Entry) /\ Len(Kept(es)) = MaxEntries
        /\ \A i \in 1..MaxEntries : Kept(es)[i] = es[m + i - 1]
    BY <2>2, <2>3, <2>4, SubSeqProperties
  <2>6. ToSet(Kept(es)) \subseteq ToSet(es)
    <3>1. DOMAIN Kept(es) = 1..MaxEntries
      BY <2>5
    <3> QED BY <1>1, <2>2, <2>5, <3>1 DEF ToSet
  <2> QED BY <1>1, <2>5, <2>6
<1> QED BY <1>2, <1>3

(* A file cut off in the middle of a write holds no id twice either. *)
LEMMA PrefixFacts ==
  ASSUME NEW rs \in Seq(Route), NEW n \in 0..Len(rs)
  PROVE  SubSeq(rs, 1, n) \in Seq(Route) /\ (NoTwo(rs) => NoTwo(SubSeq(rs, 1, n)))
<1>1. /\ n \in Int /\ 1 \in Int /\ Len(rs) \in Nat /\ DOMAIN rs = 1..Len(rs)
      /\ \A i \in 1..n : i \in 1..Len(rs) /\ rs[i] \in Route
  OBVIOUS
<1>2. PICK part : part = SubSeq(rs, 1, n)
  OBVIOUS
<1>3. /\ part \in Seq(Route) /\ Len(part) = IF 1 <= n THEN n - 1 + 1 ELSE 0
      /\ \A i \in 1..n - 1 + 1 : part[i] = rs[1 + i - 1]
  BY <1>1, <1>2, SubSeqProperties
<1>4. DOMAIN part = 1..n /\ \A i \in 1..n : part[i] = rs[i]
  <2>1. Len(part) = n /\ DOMAIN part = 1..Len(part)
    BY <1>3
  <2> QED BY <1>3, <2>1
<1> QED BY <1>1, <1>2, <1>3, <1>4 DEF NoTwo

\* What a command that is carried out leaves.
LEMMA LongerFacts ==
  ASSUME NEW es \in Seq(Entry), NEW e \in Entry
  PROVE  /\ Append(es, e) \in Seq(Entry)
         /\ Len(Append(es, e)) = Len(es) + 1 /\ Len(es) \in Nat
         /\ DOMAIN es = 1..Len(es)
         /\ \A i \in 1..Len(es) : Append(es, e)[i] = es[i]
         /\ Append(es, e)[Len(es) + 1] = e
         /\ Last(Append(es, e)) = e
         /\ \A x : x \in ToSet(Append(es, e)) <=> x \in ToSet(es) \/ x = e
<1>1. /\ Append(es, e) \in Seq(Entry)
      /\ Len(Append(es, e)) = Len(es) + 1 /\ Len(es) \in Nat
      /\ DOMAIN es = 1..Len(es)
      /\ DOMAIN Append(es, e) = 1..Len(es) + 1
      /\ \A i \in 1..Len(es) : Append(es, e)[i] = es[i]
      /\ Append(es, e)[Len(es) + 1] = e
  OBVIOUS
<1>2. \A i : i \in 1..Len(es) + 1 <=> i \in 1..Len(es) \/ i = Len(es) + 1
  BY <1>1
<1>3. \A x : x \in ToSet(Append(es, e)) <=> x \in ToSet(es) \/ x = e
  BY <1>1, <1>2 DEF ToSet
<1> QED BY <1>1, <1>3 DEF Last

(* A command keeps the types, carried out whole, without its history file, or not at all. *)
LEMMA CommandTyped ==
  ASSUME ConsoleInv, NEW c, IsChange(routes, c), Command(c)
  PROVE  ConsoleInv'
<1> USE CommandsAssumption, UpsetsAssumption
<1>0. ConsoleTypeOK
  BY DEF ConsoleInv
<1>1. c.next \in Seq(Route) /\ EntryOf(c) \in Entry /\ Says(EntryOf(c))
  BY <1>0, ChangeTypes DEF ConsoleTypeOK
<1>2. commands' \in 0..MaxCommands /\ upsets' \in 0..MaxUpsets
  <2>1. /\ commands < MaxCommands /\ commands' = commands + 1
        /\ upsets' = upsets \/ (upsets < MaxUpsets /\ upsets' = upsets + 1)
    BY DEF Command
  <2>2. commands \in 0..MaxCommands /\ upsets \in 0..MaxUpsets
    BY <1>0 DEF ConsoleTypeOK
  <2> QED BY <2>1, <2>2
<1>3. ASSUME NEW kept, Carry(c, kept), serving' \in BOOLEAN,
             kept \in {{Kept(Append(entries, EntryOf(c)))}, {saved, Torn}}
      PROVE  ConsoleInv'
  <2>1. PICK longer \in Seq(Entry) : longer = Append(entries, EntryOf(c))
    BY <1>0, <1>1, LongerFacts DEF ConsoleTypeOK
  <2>2. /\ file' = c.next /\ routes' = c.next /\ entries' = longer
        /\ saved' \in {Kept(longer), saved, Torn}
        /\ since' = since + 1 /\ earlier' = routes /\ base' = base
    BY <1>3, <2>1 DEF Carry
  <2>3. /\ since \in 0..Len(entries) /\ Len(entries) \in Nat /\ Len(longer) = Len(entries) + 1
        /\ \A x \in ToSet(longer) : Says(x)
    BY <1>0, <1>1, <2>1, LongerFacts DEF ConsoleTypeOK, Says
  <2>4. since' \in 0..Len(entries')
    BY <2>2, <2>3
  <2>5. /\ saved' \in Seq(Entry) \cup {Torn} /\ (saved' # Torn => Len(saved') <= MaxEntries)
        /\ (saved' # Torn => \A x \in ToSet(saved') : Says(x))
    <3>1. CASE saved' = Kept(longer)
      BY <2>1, <2>3, <3>1, KeptFacts
    <3>2. CASE saved' \in {saved, Torn}
      BY <1>0, <3>2 DEF ConsoleTypeOK, ConsoleInv
    <3> QED BY <2>2, <3>1, <3>2
  <2>6. /\ serving' \in BOOLEAN /\ {routes', base', earlier'} \subseteq Seq(Route)
        /\ file' \in Seq(Route) \cup {Torn} /\ entries' \in Seq(Entry)
    BY <1>0, <1>1, <1>3, <2>1, <2>2 DEF ConsoleTypeOK
  <2>7. \A e \in ToSet(entries') : e.before # NoRoute \/ e.after # NoRoute
    BY <2>2, <2>3 DEF Says
  <2> QED BY <1>2, <2>4, <2>5, <2>6, <2>7 DEF ConsoleInv, ConsoleTypeOK
<1>4. ASSUME Spoil(c), serving' \in BOOLEAN PROVE ConsoleInv'
  <2>1. file' \in Seq(Route) \cup {Torn}
    BY <1>0, <1>1, <1>4, PrefixFacts DEF Spoil, Halfway, ConsoleTypeOK
  <2>2. UNCHANGED <<routes, entries, saved, base, since, earlier>>
    BY <1>4 DEF Spoil
  <2>3. /\ {routes', base', earlier'} \subseteq Seq(Route)
        /\ entries' \in Seq(Entry) /\ since' \in 0..Len(entries')
        /\ \A e \in ToSet(entries') : e.before # NoRoute \/ e.after # NoRoute
    BY <1>0, <2>2 DEF ConsoleTypeOK
  <2>4. /\ saved' \in Seq(Entry) \cup {Torn} /\ (saved' # Torn => Len(saved') <= MaxEntries)
        /\ (saved' # Torn => \A x \in ToSet(saved') : Says(x))
    BY <1>0, <2>2 DEF ConsoleTypeOK, ConsoleInv
  <2> QED BY <1>2, <1>4, <2>1, <2>3, <2>4 DEF ConsoleInv, ConsoleTypeOK
<1>5. serving' \in BOOLEAN
  BY <1>0 DEF Command, ConsoleTypeOK
<1> QED BY <1>3, <1>4, <1>5 DEF Command

(* Every step keeps the types. *)
LEMMA ConsoleInvStep == ConsoleInv /\ [ConsoleNext]_consoleVars => ConsoleInv'
<1> SUFFICES ASSUME ConsoleInv, [ConsoleNext]_consoleVars PROVE ConsoleInv'
  OBVIOUS
<1> USE CommandsAssumption, UpsetsAssumption, EditsAssumption
<1>0. ConsoleTypeOK /\ (saved # Torn => \A e \in ToSet(saved) : Says(e))
  BY DEF ConsoleInv
<1>1. CASE UNCHANGED consoleVars
  BY <1>0, <1>1 DEF ConsoleInv, ConsoleTypeOK, consoleVars
<1>2. ASSUME Upset PROVE upsets' \in 0..MaxUpsets /\ commands' \in 0..MaxCommands
  BY <1>0, <1>2 DEF Upset, ConsoleTypeOK
<1>3. ASSUME Loads, file # Torn
      PROVE  {routes', base', earlier'} \subseteq Seq(Route) /\ since' = 0
  BY <1>0, <1>3 DEF Loads, ConsoleTypeOK
<1>4. CASE ReloadConfig
  <2>1. Upset /\ Loads /\ file # Torn /\ UNCHANGED <<serving, file, entries, saved>>
    BY <1>4 DEF ReloadConfig
  <2>2. since' \in 0..Len(entries')
    BY <1>0, <1>3, <2>1 DEF ConsoleTypeOK
  <2> QED BY <1>0, <1>2, <1>3, <2>1, <2>2 DEF ConsoleInv, ConsoleTypeOK
<1>5. ASSUME NEW rs \in Edits, EditFile(rs) PROVE ConsoleInv'
  BY <1>0, <1>2, <1>5 DEF EditFile, ConsoleInv, ConsoleTypeOK
<1>6. CASE EndConsole
  BY <1>0, <1>2, <1>6 DEF EndConsole, ConsoleInv, ConsoleTypeOK
<1>7. CASE StartConsole
  <2>1. /\ Loads /\ file # Torn /\ saved # Torn /\ serving' = TRUE /\ entries' = saved
        /\ UNCHANGED <<file, saved, commands, upsets>>
    BY <1>7 DEF StartConsole
  <2>2. entries' \in Seq(Entry) /\ since' \in 0..Len(entries')
    BY <1>0, <1>3, <2>1 DEF ConsoleTypeOK
  <2>3. \A e \in ToSet(entries') : e.before # NoRoute \/ e.after # NoRoute
    BY <1>0, <2>1 DEF Says
  <2> QED BY <1>0, <1>3, <2>1, <2>2, <2>3 DEF ConsoleInv, ConsoleTypeOK
<1>8. CASE RemoveHistory
  <2>1. /\ saved' = <<>>
        /\ UNCHANGED <<serving, routes, file, entries, commands, upsets, base, since, earlier>>
    BY <1>8 DEF RemoveHistory
  <2>2. saved' \in Seq(Entry) /\ Len(saved') <= MaxEntries /\ ToSet(saved') = {}
    BY <2>1, EntriesAssumption DEF ToSet
  <2> QED BY <1>0, <2>1, <2>2 DEF ConsoleInv, ConsoleTypeOK
<1> QED BY <1>1, <1>4, <1>5, <1>6, <1>7, <1>8, StepKinds, CommandTyped DEF OtherStep

(* The console begins with an empty file and an empty history. *)
LEMMA ConsoleInvInit == ConsoleInit => ConsoleInv
<1> SUFFICES ASSUME ConsoleInit PROVE ConsoleInv
  OBVIOUS
<1>1. <<>> \in Seq(Route) /\ <<>> \in Seq(Entry) /\ Len(<<>>) = 0 /\ ToSet(<<>>) = {}
  BY DEF ToSet
<1> QED BY <1>1, EntriesAssumption, CommandsAssumption, UpsetsAssumption
        DEF ConsoleInit, ConsoleInv, ConsoleTypeOK

(* Types of the console, for any routes, edits and limits (admin/app.py:141-211). *)
THEOREM ConsoleTypes == ConsoleSpec => []ConsoleTypeOK
<1>1. ConsoleInv => ConsoleTypeOK
  BY DEF ConsoleInv
<1> QED BY <1>1, ConsoleInvInit, ConsoleInvStep, PTL DEF ConsoleSpec

(* For any ids, routes and length of the history, edits of the file included that repeat an
   id: a rollback sent twice is a rollback sent once (admin/app.py:527-566). *)
THEOREM RollbacksAreIdempotent == ConsoleSpec => []RollbackIsIdempotent
<1>1. ConsoleInv => RollbackIsIdempotent
  <2> SUFFICES ASSUME ConsoleInv, NEW e \in ToSet(entries)
               PROVE  Undo(Undo(routes, e).next, e).next = Undo(routes, e).next
    BY DEF RollbackIsIdempotent
  <2>1. routes \in Seq(Route) /\ e \in Entry /\ Says(e)
    BY DEF ConsoleInv, ConsoleTypeOK, Says, ToSet
  <2> QED BY <2>1, UndoTwice
<1> QED BY <1>1, ConsoleInvInit, ConsoleInvStep, PTL DEF ConsoleSpec

----------------------------------------------------------------------------
(* No id is used twice, in memory or in a file that can be parsed. *)
IdsInv == ConsoleInv /\ NoTwo(routes) /\ (file # Torn => NoTwo(file))

(* Every command keeps the ids apart; a reload takes over what the file holds. *)
LEMMA IdsInvStep ==
  ASSUME \A rs \in Edits : NoTwo(rs)
  PROVE  IdsInv /\ [ConsoleNext]_consoleVars => IdsInv'
<1> SUFFICES ASSUME IdsInv, [ConsoleNext]_consoleVars
             PROVE  NoTwo(routes') /\ (file' # Torn => NoTwo(file'))
  BY ConsoleInvStep DEF IdsInv
<1>0. ConsoleInv /\ NoTwo(routes) /\ (file # Torn => NoTwo(file)) /\ routes \in Seq(Route)
  BY DEF IdsInv, ConsoleInv, ConsoleTypeOK
<1>1. CASE UNCHANGED consoleVars
  BY <1>0, <1>1 DEF consoleVars
<1>2. ASSUME NEW c, IsChange(routes, c), Command(c)
      PROVE  NoTwo(routes') /\ (file' # Torn => NoTwo(file'))
  <2>1. NoTwo(c.next) /\ c.next \in Seq(Route)
    BY <1>0, <1>2, ChangesAreUndoable, ChangeTypes DEF IsUndoable
  <2>2. ASSUME NEW kept, Carry(c, kept)
        PROVE  NoTwo(routes') /\ (file' # Torn => NoTwo(file'))
    BY <2>1, <2>2 DEF Carry
  <2>3. ASSUME Spoil(c) PROVE NoTwo(routes') /\ (file' # Torn => NoTwo(file'))
    <3>1. routes' = routes /\ file' \in Halfway(c.next)
      BY <2>3 DEF Spoil
    <3> QED BY <1>0, <2>1, <3>1, PrefixFacts DEF Halfway
  <2> QED BY <1>2, <2>2, <2>3 DEF Command
<1>3. ASSUME OtherStep PROVE NoTwo(routes') /\ (file' # Torn => NoTwo(file'))
  BY <1>0, <1>3
     DEF OtherStep, ReloadConfig, Loads, EditFile, EndConsole, StartConsole, RemoveHistory
<1> QED BY <1>0, <1>1, <1>2, <1>3, StepKinds

(* There is no route to begin with. *)
LEMMA IdsInvInit == ConsoleInit => IdsInv
BY ConsoleInvInit DEF ConsoleInit, IdsInv, NoTwo

(* For any ids, routes and limits: if those who edit the file use no id twice, no sequence of
   commands, renames, rollbacks, broken writes and reloads does.  The hypothesis is the code's:
   the loader takes a file with doubles over as it is (loader.py:36-60, 215-254). *)
THEOREM RouteIdsStayUnique ==
  ASSUME \A rs \in Edits : NoTwo(rs)
  PROVE  ConsoleSpec => []RouteIdsAreUnique
<1>1. IdsInv => RouteIdsAreUnique
  BY DEF IdsInv, NoTwo, RouteIdsAreUnique
<1>2. IdsInv /\ [ConsoleNext]_consoleVars => IdsInv'
  BY IdsInvStep
<1> QED BY <1>1, <1>2, IdsInvInit, PTL DEF ConsoleSpec

----------------------------------------------------------------------------
\* r holds the routes as they were after each of the last k entries.
Replays(r, first, es, k) ==
  /\ DOMAIN r = 0..k
  /\ r[0] = first
  /\ \A n \in 1..k : r[n] = Replayed(r[n - 1], es[Len(es) - k + n])
  /\ r = [n \in 0..k |-> r[n]]

(* The routes are those of the last load with the entries since then replayed, and undoing the
   newest entry gives the routes before it. *)
HistoryInv ==
  /\ IdsInv
  /\ \E r : Replays(r, ToSet(base), entries, since) /\ r[since] = ToSet(routes)
  /\ since > 0 => ToSet(Undo(routes, Last(entries)).next) = ToSet(earlier)

(* An entry more is a step more of the replay. *)
LEMMA ReplayGrows ==
  ASSUME NEW es \in Seq(Entry), NEW e \in Entry, NEW k \in 0..Len(es), NEW first,
         NEW r, Replays(r, first, es, k)
  PROVE  \E s : Replays(s, first, Append(es, e), k + 1) /\ s[k + 1] = Replayed(r[k], e)
<1>1. PICK longer \in Seq(Entry) : longer = Append(es, e)
  BY LongerFacts
<1>2. /\ Len(longer) = Len(es) + 1 /\ Len(es) \in Nat /\ k \in Nat
      /\ \A i \in 1..Len(es) : longer[i] = es[i]
      /\ longer[Len(es) + 1] = e
  BY <1>1, LongerFacts
<1>3. PICK s : s = [n \in 0..k + 1 |-> IF n = k + 1 THEN Replayed(r[k], e) ELSE r[n]]
  OBVIOUS
<1>4. s[0] = first /\ s[k + 1] = Replayed(r[k], e) /\ s = [n \in 0..k + 1 |-> s[n]]
  BY <1>2, <1>3 DEF Replays
<1>5. ASSUME NEW n \in 1..k + 1
      PROVE  s[n] = Replayed(s[n - 1], longer[Len(longer) - (k + 1) + n])
  <2>1. n \in Nat /\ n - 1 \in 0..k /\ n - 1 # k + 1 /\ n \in 0..k + 1
    BY <1>2
  <2>2. s[n - 1] = r[n - 1]
    BY <1>2, <1>3, <2>1
  <2>3. CASE n = k + 1
    <3>1. Len(longer) - (k + 1) + n = Len(es) + 1
      BY <1>2, <2>3
    <3> QED BY <1>2, <1>4, <2>2, <2>3, <3>1
  <2>4. CASE n # k + 1
    <3>1. /\ n \in 1..k /\ Len(es) - k + n \in 1..Len(es)
          /\ Len(longer) - (k + 1) + n = Len(es) - k + n
      BY <1>2, <2>1, <2>4
    <3>2. s[n] = r[n]
      BY <1>3, <2>1, <2>4
    <3> QED BY <1>2, <2>2, <3>1, <3>2 DEF Replays
  <2> QED BY <2>3, <2>4
<1> QED BY <1>1, <1>3, <1>4, <1>5 DEF Replays

(* After a load there is nothing to replay. *)
LEMMA NothingReplayed ==
  ASSUME NEW first, NEW es
  PROVE  \E r : Replays(r, first, es, 0) /\ r[0] = first
<1>1. PICK r : r = [n \in 0..0 |-> first]
  OBVIOUS
<1>2. 0 \in 0..0 /\ 1..0 = {} /\ \A n \in 0..0 : n = 0
  OBVIOUS
<1> QED BY <1>1, <1>2 DEF Replays

(* A command notes the change it makes, and nothing else changes the routes but a load. *)
LEMMA HistoryInvStep ==
  ASSUME \A rs \in Edits : NoTwo(rs)
  PROVE  HistoryInv /\ [ConsoleNext]_consoleVars => HistoryInv'
<1> SUFFICES ASSUME HistoryInv, [ConsoleNext]_consoleVars
             PROVE  /\ \E r : /\ Replays(r, ToSet(base'), entries', since')
                              /\ r[since'] = ToSet(routes')
                    /\ since' > 0 => ToSet(Undo(routes', Last(entries')).next) = ToSet(earlier')
  BY IdsInvStep DEF HistoryInv
<1>0. /\ IdsInv /\ ConsoleInv /\ NoTwo(routes) /\ routes \in Seq(Route)
      /\ entries \in Seq(Entry) /\ since \in 0..Len(entries)
      /\ since > 0 => ToSet(Undo(routes, Last(entries)).next) = ToSet(earlier)
  BY DEF HistoryInv, IdsInv, ConsoleInv, ConsoleTypeOK
<1>1. PICK r : Replays(r, ToSet(base), entries, since) /\ r[since] = ToSet(routes)
  BY DEF HistoryInv
<1>2. ASSUME UNCHANGED <<routes, entries, base, since, earlier>>
      PROVE  /\ \E s : Replays(s, ToSet(base'), entries', since') /\ s[since'] = ToSet(routes')
             /\ since' > 0 => ToSet(Undo(routes', Last(entries')).next) = ToSet(earlier')
  BY <1>0, <1>1, <1>2
<1>3. ASSUME Loads
      PROVE  /\ \E s : Replays(s, ToSet(base'), entries', since') /\ s[since'] = ToSet(routes')
             /\ ~(since' > 0)
  <2>1. base' = routes' /\ since' = 0
    BY <1>3 DEF Loads
  <2> QED BY <2>1, NothingReplayed
<1>4. ASSUME NEW c, IsChange(routes, c), NEW kept, Carry(c, kept)
      PROVE  /\ \E s : Replays(s, ToSet(base'), entries', since') /\ s[since'] = ToSet(routes')
             /\ ToSet(Undo(routes', Last(entries')).next) = ToSet(earlier')
  <2>1. IsUndoable(routes, c) /\ EntryOf(c) \in Entry
    BY <1>0, <1>4, ChangesAreUndoable, ChangeTypes
  <2>2. /\ routes' = c.next /\ entries' = Append(entries, EntryOf(c))
        /\ since' = since + 1 /\ earlier' = routes /\ base' = base
    BY <1>4 DEF Carry
  <2>3. Last(entries') = EntryOf(c)
    BY <1>0, <2>1, <2>2, LongerFacts
  <2>4. PICK s : /\ Replays(s, ToSet(base), Append(entries, EntryOf(c)), since + 1)
                 /\ s[since + 1] = Replayed(r[since], EntryOf(c))
    BY <1>0, <1>1, <2>1, ReplayGrows
  <2> QED BY <1>1, <2>1, <2>2, <2>3, <2>4 DEF IsUndoable
<1>5. ASSUME NEW c, IsChange(routes, c), Command(c)
      PROVE  /\ \E s : Replays(s, ToSet(base'), entries', since') /\ s[since'] = ToSet(routes')
             /\ since' > 0 => ToSet(Undo(routes', Last(entries')).next) = ToSet(earlier')
  <2>1. CASE Spoil(c)
    BY <1>2, <2>1 DEF Spoil
  <2>2. ASSUME NEW kept, Carry(c, kept)
        PROVE  /\ \E s : /\ Replays(s, ToSet(base'), entries', since')
                         /\ s[since'] = ToSet(routes')
               /\ since' > 0 => ToSet(Undo(routes', Last(entries')).next) = ToSet(earlier')
    BY <1>4, <1>5, <2>2
  <2> QED BY <1>5, <2>1, <2>2 DEF Command
<1>6. ASSUME OtherStep
      PROVE  /\ \E s : Replays(s, ToSet(base'), entries', since') /\ s[since'] = ToSet(routes')
             /\ since' > 0 => ToSet(Undo(routes', Last(entries')).next) = ToSet(earlier')
  <2>1. Loads \/ UNCHANGED <<routes, entries, base, since, earlier>>
    BY <1>6 DEF OtherStep, ReloadConfig, EditFile, EndConsole, StartConsole, RemoveHistory
  <2> QED BY <1>2, <1>3, <2>1
<1>7. CASE UNCHANGED consoleVars
  BY <1>2, <1>7 DEF consoleVars
<1> QED BY <1>0, <1>5, <1>6, <1>7, StepKinds

(* Nothing to explain to begin with. *)
LEMMA HistoryInvInit == ConsoleInit => HistoryInv
<1> SUFFICES ASSUME ConsoleInit PROVE HistoryInv
  OBVIOUS
<1>1. IdsInv
  BY IdsInvInit
<1>2. since = 0 /\ base = routes
  BY DEF ConsoleInit
<1>3. \E r : Replays(r, ToSet(base), entries, since) /\ r[since] = ToSet(routes)
  BY <1>2, NothingReplayed
<1> QED BY <1>1, <1>2, <1>3 DEF HistoryInv

\* The definition of the property, with its recursive function in sight.
IsReplay(f, first, es, k) ==
  f = [n \in 0..k |->
         IF n = 0 THEN first ELSE Replayed(f[n - 1], es[Len(es) - k + n])]

(* The recursive function the property chooses is the replay the invariant speaks of. *)
LEMMA ReplaysAgree ==
  ASSUME NEW k \in Nat, NEW first, NEW es, NEW r, Replays(r, first, es, k)
  PROVE  (CHOOSE f : IsReplay(f, first, es, k))[k] = r[k]
<1>1. IsReplay(r, first, es, k)
  <2>1. \A n \in 0..k : n # 0 => n \in 1..k
    OBVIOUS
  <2>2. \A n \in 0..k :
          r[n] = IF n = 0 THEN first ELSE Replayed(r[n - 1], es[Len(es) - k + n])
    BY <2>1 DEF Replays
  <2>3. r = [n \in 0..k |-> r[n]]
    BY DEF Replays
  <2> QED BY <2>2, <2>3 DEF IsReplay
<1>2. PICK f : f = (CHOOSE g : IsReplay(g, first, es, k)) /\ IsReplay(f, first, es, k)
  BY <1>1
<1>3. \A n \in 0..k :
        f[n] = IF n = 0 THEN first ELSE Replayed(f[n - 1], es[Len(es) - k + n])
  BY <1>2 DEF IsReplay
<1> DEFINE Bad == {n \in 0..k : f[n] # r[n]}
<1>4. Bad = {}
  <2> SUFFICES ASSUME Bad # {} PROVE FALSE
    OBVIOUS
  <2>1. PICK n \in Bad : \A m \in Bad : n <= m
    <3>1. Bad \in SUBSET Nat
      OBVIOUS
    <3> HIDE DEF Bad
    <3> QED BY <3>1, LeastExists
  <2>2. n \in 0..k /\ f[n] # r[n]
    OBVIOUS
  <2>3. n # 0
    <3>1. 0 \in 0..k /\ r[0] = first
      BY DEF Replays
    <3> QED BY <1>3, <2>2, <3>1
  <2> HIDE DEF Bad
  <2>4. n \in 1..k /\ n - 1 \in 0..k /\ ~(n <= n - 1)
    BY <2>2, <2>3
  <2>5. f[n - 1] = r[n - 1]
    BY <2>1, <2>4 DEF Bad
  <2>6. r[n] = Replayed(r[n - 1], es[Len(es) - k + n])
    BY <2>4 DEF Replays
  <2> QED BY <1>3, <2>2, <2>3, <2>5, <2>6
<1>5. f[k] = r[k]
  BY <1>4
<1> QED BY <1>2, <1>5

(* For any ids, routes and limits, and files without doubles: the entries since the last load,
   rollbacks among them, replayed from its routes give the routes in use, whatever was renamed,
   deleted, restored and dropped from the history (admin/app.py:403-583). *)
THEOREM HistoryExplainsRoutes ==
  ASSUME \A rs \in Edits : NoTwo(rs)
  PROVE  ConsoleSpec => []HistoryExplains
<1>1. HistoryInv => HistoryExplains
  <2> SUFFICES ASSUME HistoryInv PROVE HistoryExplains
    OBVIOUS
  <2>1. PICK r : Replays(r, ToSet(base), entries, since) /\ r[since] = ToSet(routes)
    BY DEF HistoryInv
  <2>2. since \in Nat
    BY DEF HistoryInv, IdsInv, ConsoleInv, ConsoleTypeOK
  <2>3. (CHOOSE f : IsReplay(f, ToSet(base), entries, since))[since] = ToSet(routes)
    BY <2>1, <2>2, ReplaysAgree
  <2> QED BY <2>3 DEF HistoryExplains, IsReplay, Replayed
<1>2. HistoryInv /\ [ConsoleNext]_consoleVars => HistoryInv'
  BY HistoryInvStep
<1> QED BY <1>1, <1>2, HistoryInvInit, PTL DEF ConsoleSpec

(* Under the same hypothesis, rolling back the newest entry gives back the routes there were
   before it (admin/app.py:511-583). *)
THEOREM RollbacksRestore ==
  ASSUME \A rs \in Edits : NoTwo(rs)
  PROVE  ConsoleSpec => []RollbackRestores
<1>1. HistoryInv => RollbackRestores
  BY DEF HistoryInv, RollbackRestores
<1>2. HistoryInv /\ [ConsoleNext]_consoleVars => HistoryInv'
  BY HistoryInvStep
<1> QED BY <1>1, <1>2, HistoryInvInit, PTL DEF ConsoleSpec
=============================================================================
