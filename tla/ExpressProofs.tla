----------------------------- MODULE ExpressProofs -----------------------------
(***************************************************************************)
(* The Express backend for any users, texts, jobs, chunks and restarts: its*)
(* chain of versions, what the relay is told of roles, cancellation, and   *)
(* the promises of VersionHistory and AiAnswers.                           *)
(***************************************************************************)
EXTENDS ExpressAi, TLAPS

(* Backups stand alone, before the version that replaced their text: so the version *)
(* that was current before another is found without a search.                       *)
Replaced(n) == IF versions[n - 1].reason = "backup" THEN n - 2 ELSE n - 1

BackupsStandAlone ==
  /\ Len(versions) >= 1
  /\ versions[1].reason # "backup" /\ versions[Len(versions)].reason # "backup"
  /\ \A n \in 2..Len(versions) :
       versions[n - 1].reason = "backup" => n > 2 /\ versions[n - 2].reason # "backup"

ChainOfVersions ==
  /\ doc.revisionId = Len(versions)
  /\ doc.content = versions[Len(versions)].snapshot
  /\ \A n \in 2..Len(versions) :
       /\ versions[n].base = Replaced(n)
       /\ versions[n].reason = "backup" => versions[n].snapshot = versions[Replaced(n)].snapshot

RequestsAreOfOneVersion ==
  /\ \A n \in 2..Len(versions) : versions[n].request \in replies
  /\ \A m, n \in 2..Len(versions) :
       /\ versions[m].request = versions[n].request
       /\ versions[m].reason # "backup" /\ versions[n].reason # "backup"
       => m = n

\* Event n gives the user its role, and no later one is about the user.
About(user, n) == events[n].type # "document_reverted" /\ events[n].user = user

GrantsAreTold ==
  \A user \in Users \ {Owner} :
    permissions[user] # "none" =>
      \E n \in 1..Len(events) :
        /\ About(user, n) /\ events[n].type = "permission_updated"
        /\ events[n].role = permissions[user]
        /\ \A k \in 1..Len(events) : About(user, k) => k <= n

DocumentsInv ==
  /\ DocumentsTypeOK
  /\ BackupsStandAlone /\ ChainOfVersions /\ RequestsAreOfOneVersion
  /\ GrantsAreTold

------------------------------------------------------------------------------
(* Versions *)

\* The parts of the invariant that are about the chain.
VersionsInv ==
  /\ doc \in Document /\ versions \in Seq(Version) /\ replies \subseteq RequestIds
  /\ BackupsStandAlone /\ ChainOfVersions /\ RequestsAreOfOneVersion

LEMMA AppendTwo ==
  ASSUME NEW S, NEW s \in Seq(S), NEW a \in S, NEW b \in S
  PROVE  /\ s \o <<a>> \o <<b>> \in Seq(S) /\ Len(s \o <<a>> \o <<b>>) = Len(s) + 2
         /\ (s \o <<a>> \o <<b>>)[Len(s) + 1] = a /\ (s \o <<a>> \o <<b>>)[Len(s) + 2] = b
         /\ \A n \in 1..Len(s) : (s \o <<a>> \o <<b>>)[n] = s[n]
<1> DEFINE t == s \o <<a>>
<1>1. /\ t \in Seq(S) /\ Len(t) = Len(s) + 1 /\ t[Len(s) + 1] = a
      /\ \A n \in 1..Len(s) : t[n] = s[n]
  OBVIOUS
<1> HIDE DEF t
<1>2. /\ t \o <<b>> \in Seq(S) /\ Len(t \o <<b>>) = Len(t) + 1 /\ (t \o <<b>>)[Len(t) + 1] = b
      /\ \A n \in 1..Len(t) : (t \o <<b>>)[n] = t[n]
  BY <1>1
<1>3. Len(s) \in Nat
  OBVIOUS
<1> QED
  BY <1>1, <1>2, <1>3 DEF t

\* What was written is not touched: neither is what it replaced.
LEMMA ReplacedIsKept ==
  ASSUME VersionsInv, \A k \in 1..Len(versions) : versions'[k] = versions[k],
         NEW n \in 2..Len(versions)
  PROVE  Replaced(n)' = Replaced(n) /\ Replaced(n) \in 1..Len(versions)
<1>1. Len(versions) \in Nat /\ n - 1 \in 1..Len(versions)
  BY DEF VersionsInv
<1>2. versions'[n - 1] = versions[n - 1]
  BY <1>1
<1>3. versions[n - 1].reason = "backup" => n > 2
  BY DEF VersionsInv, BackupsStandAlone
<1> QED
  BY <1>1, <1>2, <1>3 DEF Replaced

\* One version is appended: without a backup.
LEMMA RecordAloneKeepsVersions ==
  ASSUME VersionsInv, NEW r \in RequestIds \ replies, NEW content \in Contents,
         NEW reason \in {"content_update", "revert"},
         Record(r, <<>>, reason, content, doc.revisionId)
  PROVE  VersionsInv'
<1>0. PICK old \in Nat : old = Len(versions)
  BY DEF VersionsInv
<1> DEFINE new == [snapshot |-> content, reason |-> reason, base |-> doc.revisionId, request |-> r]
<1>1. /\ old \in Nat /\ old >= 1 /\ versions \in Seq(Version) /\ doc.revisionId = old
      /\ versions[old].reason # "backup" /\ versions[1].reason # "backup"
  BY <1>0 DEF VersionsInv, BackupsStandAlone, ChainOfVersions
<1>2. new \in Version
  BY <1>1 DEF Version, Reasons
<1>3. /\ versions' = Append(versions, new)
      /\ doc' = [content |-> content, currentVersionId |-> old + 1, revisionId |-> old + 1]
      /\ replies' = replies \cup {r}
  BY <1>0, <1>1, <1>2 DEF Record
<1>4. /\ new.snapshot = content /\ new.reason # "backup" /\ new.base = old /\ new.request = r
      /\ doc'.revisionId = old + 1 /\ doc'.content = content
  BY <1>1, <1>3
<1> HIDE DEF new
<1>5. /\ versions' \in Seq(Version) /\ Len(versions') = old + 1 /\ versions'[old + 1] = new
      /\ \A n \in 1..old : versions'[n] = versions[n]
  BY <1>0, <1>1, <1>2, <1>3
<1>6. BackupsStandAlone'
  <2>1. ASSUME NEW n \in 2..(old + 1), versions'[n - 1].reason = "backup"
        PROVE  n > 2 /\ versions'[n - 2].reason # "backup"
    <3>1. n - 1 \in 1..old /\ versions[n - 1].reason = "backup" /\ n \in 2..old
      BY <1>1, <1>5, <2>1
    <3>2. n > 2 /\ versions[n - 2].reason # "backup"
      BY <1>0, <3>1 DEF VersionsInv, BackupsStandAlone
    <3>3. n - 2 \in 1..old
      BY <1>1, <3>1, <3>2
    <3> QED
      BY <1>5, <3>2, <3>3
  <2>2. versions'[1].reason # "backup" /\ versions'[old + 1].reason # "backup"
    BY <1>1, <1>4, <1>5
  <2> QED
    BY <1>5, <2>1, <2>2 DEF BackupsStandAlone
<1>7. ChainOfVersions'
  <2>1. \A n \in 2..old : Replaced(n)' = Replaced(n) /\ Replaced(n) \in 1..old
    BY <1>0, <1>5, ReplacedIsKept
  <2>2. Replaced(old + 1)' = old
    <3>1. versions'[old].reason # "backup" /\ (old + 1) - 1 = old
      BY <1>1, <1>5
    <3> QED
      BY <3>1 DEF Replaced
  <2>3. ASSUME NEW n \in 2..(old + 1)
        PROVE  /\ versions'[n].base = Replaced(n)'
               /\ versions'[n].reason = "backup" =>
                    versions'[n].snapshot = versions'[Replaced(n)'].snapshot
    <3>1. CASE n = old + 1
      BY <1>4, <1>5, <2>2, <3>1
    <3>2. CASE n \in 2..old
      BY <1>0, <1>1, <1>5, <2>1, <3>2 DEF VersionsInv, ChainOfVersions
    <3> QED
      BY <1>1, <3>1, <3>2
  <2> QED
    BY <1>4, <1>5, <2>3 DEF ChainOfVersions
<1>8. RequestsAreOfOneVersion'
  BY <1>0, <1>1, <1>3, <1>4, <1>5 DEF VersionsInv, RequestsAreOfOneVersion
<1>9. doc' \in Document /\ replies' \subseteq RequestIds
  BY <1>1, <1>3 DEF VersionsInv, Document
<1> QED
  BY <1>5, <1>6, <1>7, <1>8, <1>9 DEF VersionsInv

\* Two versions are appended: the backup first.
LEMMA RecordWithBackupKeepsVersions ==
  ASSUME VersionsInv, NEW r \in RequestIds \ replies, NEW content \in Contents,
         NEW reason \in {"content_update", "revert"},
         Record(r, <<Backup(r)>>, reason, content, doc.revisionId)
  PROVE  VersionsInv'
<1>0. PICK old \in Nat : old = Len(versions)
  BY DEF VersionsInv
<1> DEFINE new == [snapshot |-> content, reason |-> reason, base |-> doc.revisionId, request |-> r]
           kept == Backup(r)
<1>1. /\ old \in Nat /\ old >= 1 /\ versions \in Seq(Version) /\ doc.revisionId = old
      /\ doc.content = versions[old].snapshot
      /\ versions[old].reason # "backup" /\ versions[1].reason # "backup"
  BY <1>0 DEF VersionsInv, BackupsStandAlone, ChainOfVersions
<1>2. new \in Version /\ kept \in Version
  BY <1>1 DEF Version, Reasons, Backup, VersionsInv, Document
<1>3. /\ versions' = versions \o <<kept>> \o <<new>>
      /\ doc' = [content |-> content, currentVersionId |-> old + 2, revisionId |-> old + 2]
      /\ replies' = replies \cup {r}
  BY <1>0, <1>1, <1>2 DEF Record
<1>4. /\ new.snapshot = content /\ new.reason # "backup" /\ new.base = old /\ new.request = r
      /\ kept.snapshot = doc.content /\ kept.reason = "backup" /\ kept.base = old
      /\ kept.request = r /\ doc'.revisionId = old + 2 /\ doc'.content = content
  BY <1>1, <1>3 DEF Backup
<1> HIDE DEF new, kept
<1>5. /\ versions' \in Seq(Version) /\ Len(versions') = old + 2
      /\ versions'[old + 1] = kept /\ versions'[old + 2] = new
      /\ \A n \in 1..old : versions'[n] = versions[n]
  <2> DEFINE all == versions \o <<kept>> \o <<new>>
  <2>1. /\ all \in Seq(Version) /\ Len(all) = Len(versions) + 2
        /\ all[Len(versions) + 1] = kept /\ all[Len(versions) + 2] = new
        /\ \A n \in 1..Len(versions) : all[n] = versions[n]
    BY <1>1, <1>2, AppendTwo
  <2>2. versions' = all
    BY <1>3
  <2> HIDE DEF all
  <2> QED
    BY <1>0, <2>1, <2>2
<1>6. BackupsStandAlone'
  <2>1. ASSUME NEW n \in 2..(old + 2), versions'[n - 1].reason = "backup"
        PROVE  n > 2 /\ versions'[n - 2].reason # "backup"
    <3>1. CASE n = old + 2
      <4>1. n - 2 = old /\ n > 2 /\ old \in 1..old
        BY <1>1, <3>1
      <4>2. versions'[old] = versions[old]
        BY <1>5, <4>1
      <4> QED
        BY <1>1, <4>1, <4>2
    <3>2. CASE n \in 2..(old + 1)
      <4>1. n - 1 \in 1..old /\ versions[n - 1].reason = "backup" /\ n \in 2..old
        BY <1>1, <1>5, <2>1, <3>2
      <4>2. n > 2 /\ versions[n - 2].reason # "backup"
        BY <1>0, <4>1 DEF VersionsInv, BackupsStandAlone
      <4>3. n - 2 \in 1..old
        BY <1>1, <4>1, <4>2
      <4> QED
        BY <1>5, <4>2, <4>3
    <3> QED
      BY <1>1, <3>1, <3>2
  <2>2. versions'[1].reason # "backup" /\ versions'[old + 2].reason # "backup"
    BY <1>1, <1>4, <1>5
  <2> QED
    BY <1>1, <1>5, <2>1, <2>2 DEF BackupsStandAlone
<1>7. ChainOfVersions'
  <2>1. \A n \in 2..old : Replaced(n)' = Replaced(n) /\ Replaced(n) \in 1..old
    BY <1>0, <1>5, ReplacedIsKept
  <2>2. Replaced(old + 1)' = old /\ Replaced(old + 2)' = old
    <3>1. /\ versions'[old].reason # "backup" /\ versions'[old + 1].reason = "backup"
          /\ (old + 1) - 1 = old /\ (old + 2) - 1 = old + 1 /\ (old + 2) - 2 = old
      BY <1>1, <1>4, <1>5
    <3> QED
      BY <3>1 DEF Replaced
  <2>3. ASSUME NEW n \in 2..(old + 2)
        PROVE  /\ versions'[n].base = Replaced(n)'
               /\ versions'[n].reason = "backup" =>
                    versions'[n].snapshot = versions'[Replaced(n)'].snapshot
    <3>1. CASE n = old + 2
      BY <1>4, <1>5, <2>2, <3>1
    <3>2. CASE n = old + 1
      <4>1. versions'[old] = versions[old]
        BY <1>1, <1>5
      <4> QED
        BY <1>1, <1>4, <1>5, <2>2, <3>2, <4>1
    <3>3. CASE n \in 2..old
      BY <1>0, <1>1, <1>5, <2>1, <3>3 DEF VersionsInv, ChainOfVersions
    <3> QED
      BY <1>1, <3>1, <3>2, <3>3
  <2> QED
    BY <1>4, <1>5, <2>3 DEF ChainOfVersions
<1>8. RequestsAreOfOneVersion'
  <2>1. \A n \in 2..old : versions'[n].request \in replies
    BY <1>0, <1>1, <1>5 DEF VersionsInv, RequestsAreOfOneVersion
  <2>2. \A n \in 2..(old + 2) : n \in 2..old \/ n = old + 1 \/ n = old + 2
    BY <1>1
  <2>3. \A n \in 2..(old + 2) : versions'[n].request \in replies'
    BY <1>3, <1>4, <1>5, <2>1, <2>2
  <2>4. ASSUME NEW m \in 2..(old + 2), NEW n \in 2..(old + 2),
               versions'[m].request = versions'[n].request,
               versions'[m].reason # "backup", versions'[n].reason # "backup"
        PROVE  m = n
    <3>1. m \in 2..old \/ m = old + 2
      BY <1>4, <1>5, <2>2, <2>4
    <3>2. n \in 2..old \/ n = old + 2
      BY <1>4, <1>5, <2>2, <2>4
    <3>3. CASE m \in 2..old /\ n \in 2..old
      <4>1. versions'[m] = versions[m] /\ versions'[n] = versions[n]
        BY <1>1, <1>5, <3>3
      <4> QED
        BY <1>0, <2>4, <3>3, <4>1 DEF VersionsInv, RequestsAreOfOneVersion
    <3> QED
      BY <1>4, <1>5, <2>1, <2>4, <3>1, <3>2, <3>3
  <2> QED
    BY <1>5, <2>3, <2>4 DEF RequestsAreOfOneVersion
<1>9. doc' \in Document /\ replies' \subseteq RequestIds
  BY <1>1, <1>3 DEF VersionsInv, Document
<1> QED
  BY <1>5, <1>6, <1>7, <1>8, <1>9 DEF VersionsInv

\* The version that was current is the one the invariant names.
LEMMA CurrentIsReplaced ==
  ASSUME VersionsInv, NEW n \in 2..Len(versions)
  PROVE  CurrentBefore(n) = Replaced(n) /\ Replaced(n) \in 1..(n - 1)
<1> DEFINE earlier == {m \in 1..(n - 1) : versions[m].reason # "backup"}
<1>1. Len(versions) \in Nat /\ n \in Nat /\ n >= 2
  BY DEF VersionsInv
<1>2. Replaced(n) \in earlier /\ \A k \in earlier : k <= Replaced(n)
  BY <1>1 DEF VersionsInv, BackupsStandAlone, Replaced
<1>3. \A m \in earlier : (\A k \in earlier : k <= m) => m = Replaced(n)
  BY <1>1, <1>2
<1>4. (CHOOSE m \in earlier : \A k \in earlier : k <= m) = Replaced(n)
  BY <1>2, <1>3
<1> QED
  BY <1>2, <1>4 DEF CurrentBefore

LEMMA ChainIsChained == VersionsInv => VersionsAreChained
<1> SUFFICES ASSUME VersionsInv PROVE VersionsAreChained
    OBVIOUS
<1>1. doc.revisionId = Len(versions) /\ doc.content = Last(versions).snapshot
  BY DEF VersionsInv, ChainOfVersions, Last
<1>2. ASSUME NEW n \in 2..Len(versions)
      PROVE  /\ versions[n].base = CurrentBefore(n)
             /\ versions[n].reason = "backup" =>
                  versions[n].snapshot = versions[CurrentBefore(n)].snapshot
  BY CurrentIsReplaced DEF VersionsInv, ChainOfVersions
<1>3. ASSUME NEW m \in 2..Len(versions), NEW n \in 2..Len(versions),
             versions[m].request = versions[n].request,
             "backup" \notin {versions[m].reason, versions[n].reason}
      PROVE  m = n
  BY <1>3 DEF VersionsInv, RequestsAreOfOneVersion
<1> QED
  BY <1>1, <1>2, <1>3 DEF VersionsAreChained

------------------------------------------------------------------------------
(* Events *)

RolesInv == permissions \in [Users -> AllRoles] /\ events \in Seq(Event) /\ GrantsAreTold

\* An event that gives nobody a role: a revert, or nothing at all.
LEMMA OtherEventKeepsRoles ==
  ASSUME RolesInv, permissions' = permissions,
         events' = events \/
           \E n \in Nat : events' = Append(events, [type |-> "document_reverted", revisionId |-> n])
  PROVE  RolesInv'
<1>1. CASE events' = events
  BY <1>1 DEF RolesInv, GrantsAreTold, About
<1>2. ASSUME NEW n \in Nat,
             events' = Append(events, [type |-> "document_reverted", revisionId |-> n])
      PROVE  RolesInv'
  <2> DEFINE new == [type |-> "document_reverted", revisionId |-> n]
  <2>1. new \in Event /\ new.type = "document_reverted"
    BY DEF Event
  <2> HIDE DEF new
  <2>2. events' = Append(events, new) /\ events \in Seq(Event) /\ Len(events) \in Nat
    BY <1>2 DEF new, RolesInv
  <2>3. /\ events' \in Seq(Event) /\ Len(events') = Len(events) + 1
        /\ events'[Len(events) + 1] = new
        /\ \A k \in 1..Len(events) : events'[k] = events[k]
    BY <2>1, <2>2
  <2>4. GrantsAreTold'
    <3> SUFFICES ASSUME NEW user \in Users \ {Owner}, permissions[user] # "none"
                 PROVE  \E m \in 1..Len(events') :
                          /\ About(user, m)' /\ events'[m].type = "permission_updated"
                          /\ events'[m].role = permissions[user]
                          /\ \A k \in 1..Len(events') : About(user, k)' => k <= m
        BY DEF GrantsAreTold
    <3>1. PICK m \in 1..Len(events) :
            /\ About(user, m) /\ events[m].type = "permission_updated"
            /\ events[m].role = permissions[user]
            /\ \A k \in 1..Len(events) : About(user, k) => k <= m
      BY DEF RolesInv, GrantsAreTold
    <3>2. m \in 1..Len(events') /\ events'[m] = events[m]
      BY <2>2, <2>3
    <3>3. ASSUME NEW k \in 1..Len(events'), About(user, k)'
          PROVE  k <= m
      <4>1. k \in 1..Len(events)
        BY <2>1, <2>2, <2>3, <3>3 DEF About
      <4> QED
        BY <2>3, <3>1, <3>3, <4>1 DEF About
    <3> QED
      BY <3>1, <3>2, <3>3 DEF About
  <2> QED
    BY <2>3, <2>4 DEF RolesInv
<1> QED
  BY <1>1, <1>2

LEMMA GrantKeepsRoles ==
  ASSUME RolesInv, NEW target \in Users, NEW role \in {"viewer", "editor"},
         permissions' = [permissions EXCEPT ![target] = role], InsertGrant(target, role)
  PROVE  RolesInv'
<1> DEFINE new == [type |-> "permission_updated", user |-> target, role |-> role]
<1>1. /\ new \in Event /\ new.type = "permission_updated" /\ new.user = target
      /\ new.role = role
  BY DEF Event, AllRoles
<1>2. events' = Append(events, new) /\ events \in Seq(Event) /\ Len(events) \in Nat
  BY DEF InsertGrant, RolesInv
<1> HIDE DEF new
<1>3. /\ events' \in Seq(Event) /\ Len(events') = Len(events) + 1
      /\ events'[Len(events) + 1] = new
      /\ \A k \in 1..Len(events) : events'[k] = events[k]
  BY <1>1, <1>2
<1>4. permissions' \in [Users -> AllRoles] /\ permissions'[target] = role
      /\ \A u \in Users \ {target} : permissions'[u] = permissions[u]
  BY DEF RolesInv, AllRoles
<1>5. GrantsAreTold'
  <2> SUFFICES ASSUME NEW user \in Users \ {Owner}, permissions'[user] # "none"
               PROVE  \E n \in 1..Len(events') :
                        /\ About(user, n)' /\ events'[n].type = "permission_updated"
                        /\ events'[n].role = permissions'[user]
                        /\ \A k \in 1..Len(events') : About(user, k)' => k <= n
      BY DEF GrantsAreTold
  <2>1. CASE user = target
    BY <1>1, <1>2, <1>3, <1>4, <2>1 DEF About
  <2>2. CASE user # target
    <3>1. PICK n \in 1..Len(events) :
            /\ About(user, n) /\ events[n].type = "permission_updated"
            /\ events[n].role = permissions[user]
            /\ \A k \in 1..Len(events) : About(user, k) => k <= n
      BY <1>4, <2>2 DEF RolesInv, GrantsAreTold
    <3> QED
      BY <1>1, <1>2, <1>3, <1>4, <2>2, <3>1 DEF About
  <2> QED
    BY <2>1, <2>2
<1> QED
  BY <1>3, <1>4, <1>5 DEF RolesInv

LEMMA RevocationKeepsRoles ==
  ASSUME RolesInv, NEW target \in Users, DeletePermission(target),
         events' = events \/ InsertRevocation(target)
  PROVE  RolesInv'
<1> DEFINE new == [type |-> "access_revoked", user |-> target]
<1>1. new \in Event /\ new.type = "access_revoked" /\ new.user = target
  BY DEF Event
<1>2. events \in Seq(Event) /\ Len(events) \in Nat /\ events' \in {events, Append(events, new)}
  BY DEF InsertRevocation, RolesInv
<1> HIDE DEF new
<1>3. permissions' \in [Users -> AllRoles] /\ permissions'[target] = "none"
      /\ \A u \in Users \ {target} : permissions'[u] = permissions[u]
  BY DEF RolesInv, AllRoles, DeletePermission
<1>4. CASE events' = events
  BY <1>3, <1>4 DEF RolesInv, GrantsAreTold, About
<1>5. CASE events' = Append(events, new)
  <2>1. /\ events' \in Seq(Event) /\ Len(events') = Len(events) + 1
        /\ events'[Len(events) + 1] = new
        /\ \A k \in 1..Len(events) : events'[k] = events[k]
    BY <1>1, <1>2, <1>5
  <2>2. GrantsAreTold'
    <3> SUFFICES ASSUME NEW user \in Users \ {Owner}, permissions'[user] # "none"
                 PROVE  \E n \in 1..Len(events') :
                          /\ About(user, n)' /\ events'[n].type = "permission_updated"
                          /\ events'[n].role = permissions'[user]
                          /\ \A k \in 1..Len(events') : About(user, k)' => k <= n
        BY DEF GrantsAreTold
    <3>1. PICK n \in 1..Len(events) :
            /\ About(user, n) /\ events[n].type = "permission_updated"
            /\ events[n].role = permissions[user]
            /\ \A k \in 1..Len(events) : About(user, k) => k <= n
      BY <1>3 DEF RolesInv, GrantsAreTold
    <3>2. n \in 1..Len(events') /\ events'[n] = events[n] /\ user # target
      BY <1>2, <1>3, <2>1
    <3>3. ASSUME NEW k \in 1..Len(events'), About(user, k)'
          PROVE  k <= n
      <4>1. k \in 1..Len(events)
        BY <1>1, <1>2, <2>1, <3>2, <3>3 DEF About
      <4> QED
        BY <2>1, <3>1, <3>3, <4>1 DEF About
    <3> QED
      BY <1>3, <3>1, <3>2, <3>3 DEF About
  <2> QED
    BY <1>3, <2>1, <2>2 DEF RolesInv
<1> QED
  BY <1>2, <1>4, <1>5

LEMMA GrantsAreToldRoles == RolesInv => RolesAreTold
<1> SUFFICES ASSUME RolesInv, NEW user \in Users \ {Owner}, permissions[user] # "none"
             PROVE  permissions[user] = ToldRole(user)
    BY DEF RolesAreTold
<1> DEFINE about == {n \in 1..Len(events) :
                       events[n].type # "document_reverted" /\ events[n].user = user}
           last == CHOOSE n \in about : \A k \in about : k <= n
<1>1. PICK n \in 1..Len(events) :
        /\ About(user, n) /\ events[n].type = "permission_updated"
        /\ events[n].role = permissions[user]
        /\ \A k \in 1..Len(events) : About(user, k) => k <= n
  BY DEF RolesInv, GrantsAreTold
<1>2. Len(events) \in Nat /\ about \subseteq Nat
  BY DEF RolesInv
<1>3. n \in about /\ \A k \in about : k <= n
  BY <1>1 DEF About
<1>4. \A m \in about : (\A k \in about : k <= m) => m = n
  BY <1>2, <1>3
<1>5. last = n
  BY <1>3, <1>4
<1>6. about # {} /\ events[last].type # "access_revoked" /\ events[last].role = permissions[user]
  BY <1>1, <1>3, <1>5
<1> HIDE DEF last
<1>7. ToldRole(user) = IF about = {} \/ events[last].type = "access_revoked"
                       THEN "none" ELSE events[last].role
  BY DEF ToldRole, last
<1> QED
  BY <1>6, <1>7

------------------------------------------------------------------------------
(* The document's handlers *)

LEMMA DocumentsInvInit == DocumentsInit => DocumentsInv
<1> SUFFICES ASSUME DocumentsInit PROVE DocumentsInv
    OBVIOUS
<1> DEFINE first == [snapshot |-> InitialContent, reason |-> "initial_create", base |-> 0,
                     request |-> NoRow]
<1>1. first \in Version /\ first.reason # "backup" /\ first.snapshot = InitialContent
  BY DocumentsAssumption DEF Version, Reasons
<1>2. versions = <<first>>
  BY DEF DocumentsInit
<1> HIDE DEF first
<1>3. versions \in Seq(Version) /\ Len(versions) = 1 /\ versions[1] = first
  BY <1>1, <1>2
<1>4. doc \in Document /\ doc.revisionId = 1 /\ doc.content = InitialContent
  BY DocumentsAssumption DEF DocumentsInit, Document
<1>5. DocumentsTypeOK
  BY <1>3, <1>4, DocumentsAssumption DEF DocumentsInit, DocumentsTypeOK, AllRoles
<1>6. BackupsStandAlone /\ ChainOfVersions /\ RequestsAreOfOneVersion
  BY <1>1, <1>3, <1>4 DEF BackupsStandAlone, ChainOfVersions, RequestsAreOfOneVersion
<1>7. GrantsAreTold
  BY DEF DocumentsInit, GrantsAreTold
<1> QED
  BY <1>5, <1>6, <1>7 DEF DocumentsInv

LEMMA DocumentsUnchanged ==
  ASSUME DocumentsInv, UNCHANGED documentVars, served' \in 0..MaxRequests
  PROVE  DocumentsInv'
  BY DEF DocumentsInv, DocumentsTypeOK, documentVars, BackupsStandAlone, ChainOfVersions, Replaced,
         RequestsAreOfOneVersion, GrantsAreTold, About

LEMMA ServeTypes ==
  ASSUME DocumentsInv, Serve
  PROVE  served' \in 0..MaxRequests
  BY DocumentsAssumption DEF DocumentsInv, DocumentsTypeOK, Serve

\* The two parts of the invariant make the whole.
LEMMA PartsMakeDocuments ==
  ASSUME VersionsInv', RolesInv', served' \in 0..MaxRequests
  PROVE  DocumentsInv'
  BY DEF VersionsInv, RolesInv, DocumentsInv, DocumentsTypeOK

LEMMA DocumentsParts == DocumentsInv => VersionsInv /\ RolesInv
  BY DEF VersionsInv, RolesInv, DocumentsInv, DocumentsTypeOK

LEMMA VersionsUnchanged ==
  ASSUME VersionsInv, UNCHANGED <<doc, versions>>, replies \subseteq replies',
         replies' \subseteq RequestIds
  PROVE  VersionsInv'
  BY DEF VersionsInv, BackupsStandAlone, ChainOfVersions, Replaced, RequestsAreOfOneVersion

LEMMA UpdateKeepsDocuments ==
  ASSUME DocumentsInv, NEW user \in Users, NEW r \in RequestIds, NEW content \in Contents,
         NEW base, NEW backup \in BOOLEAN, UpdateContent(user, r, content, base, backup)
  PROVE  DocumentsInv'
<1>1. /\ r \in RequestIds \ replies /\ base = doc.revisionId
      /\ UNCHANGED <<permissions, events>>
  BY DEF UpdateContent, Unanswered, AgainstCurrent
<1>2. Record(r, IF backup THEN <<Backup(r)>> ELSE <<>>, "content_update", content, doc.revisionId)
  BY <1>1 DEF UpdateContent
<1>3. VersionsInv'
  <2>1. CASE backup
    BY <1>1, <1>2, <2>1, DocumentsParts, RecordWithBackupKeepsVersions
  <2>2. CASE ~backup
    BY <1>1, <1>2, <2>2, DocumentsParts, RecordAloneKeepsVersions
  <2> QED
    BY <2>1, <2>2
<1>4. RolesInv'
  BY <1>1, DocumentsParts, OtherEventKeepsRoles
<1>5. served' \in 0..MaxRequests
  BY ServeTypes DEF UpdateContent
<1> QED
  BY <1>3, <1>4, <1>5, PartsMakeDocuments

LEMMA RevertKeepsDocuments ==
  ASSUME DocumentsInv, NEW user \in Users, NEW r \in RequestIds, NEW target \in 1..Len(versions),
         RevertDocument(user, r, target)
  PROVE  DocumentsInv'
<1>1. /\ r \in RequestIds \ replies /\ UNCHANGED permissions
      /\ Record(r, <<Backup(r)>>, "revert", versions[target].snapshot, doc.revisionId)
  BY DEF RevertDocument, Unanswered
<1>2. versions[target].snapshot \in Contents
  <2>1. versions[target] \in Version
    BY DEF DocumentsInv, DocumentsTypeOK
  <2> QED
    BY <2>1 DEF Version
<1>3. VersionsInv'
  BY <1>1, <1>2, DocumentsParts, RecordWithBackupKeepsVersions
<1>4. doc'.revisionId \in Nat
  BY <1>3 DEF VersionsInv, Document
<1>5. RolesInv'
  BY <1>1, <1>4, DocumentsParts, OtherEventKeepsRoles DEF RevertDocument
<1>6. served' \in 0..MaxRequests
  BY ServeTypes DEF RevertDocument
<1> QED
  BY <1>3, <1>5, <1>6, PartsMakeDocuments

LEMMA PermissionsKeepDocuments ==
  ASSUME DocumentsInv, NEW user \in Users, NEW target \in Users,
         \/ \E r \in RequestIds, role \in {"viewer", "editor"} :
              UpdatePermission(user, r, target, role)
         \/ RevokePermission(user, target)
         \/ RevokeStopsEarly(user, target)
  PROVE  DocumentsInv'
<1>1. served' \in 0..MaxRequests
  BY ServeTypes DEF UpdatePermission, RevokePermission, RevokeStopsEarly
<1>2. UNCHANGED <<doc, versions>> /\ replies \subseteq replies' /\ replies' \subseteq RequestIds
  BY DEF UpdatePermission, RevokePermission, RevokeStopsEarly, DocumentsInv, DocumentsTypeOK
<1>3. VersionsInv'
  BY <1>2, DocumentsParts, VersionsUnchanged
<1>4. RolesInv'
  <2>1. ASSUME NEW r \in RequestIds, NEW role \in {"viewer", "editor"},
               UpdatePermission(user, r, target, role)
        PROVE  RolesInv'
    BY <2>1, DocumentsParts, GrantKeepsRoles DEF UpdatePermission
  <2>2. CASE RevokePermission(user, target) \/ RevokeStopsEarly(user, target)
    BY <2>2, DocumentsParts, RevocationKeepsRoles DEF RevokePermission, RevokeStopsEarly
  <2> QED
    BY <2>1, <2>2
<1> QED
  BY <1>1, <1>3, <1>4, PartsMakeDocuments

LEMMA DocumentsStepKeepsDocuments ==
  ASSUME DocumentsInv, DocumentsStep
  PROVE  DocumentsInv'
  BY UpdateKeepsDocuments, RevertKeepsDocuments, PermissionsKeepDocuments DEF DocumentsStep

------------------------------------------------------------------------------
(* Jobs *)

\* What runs in memory, and whose response is open or cancelled, has a row.
RunnersHaveRows ==
  \A j \in Jobs :
    /\ history[j] = NoRow =>
         ~client[j].cancelled /\ ~client[j].open /\ runner[j].pc # "streaming"
    /\ queued[j] = NoRow => runner[j].pc \notin {"queued", "generating"}

ExpressInv ==
  /\ ExpressTypeOK
  /\ DocumentsInv
  /\ RunnersHaveRows
  /\ CancelledStays

LEMMA ExpressInvInit == Init => ExpressInv
<1> SUFFICES ASSUME Init PROVE ExpressInv
    OBVIOUS
<1>1. DocumentsInv
  BY DocumentsInvInit DEF Init
<1>2. policy \in Policy
  BY DEF Init, AiInit, Policy, AllRoles
<1>3. Idle \in Runner /\ Idle.pc = "idle"
  BY DEF Idle, Runner
<1>4. NoClient \in Client /\ ~NoClient.cancelled /\ ~NoClient.open
  BY DEF NoClient, Client
<1>5. ExpressTypeOK
  BY <1>1, <1>2, <1>3, <1>4, ExpressAssumption
     DEF Init, AiInit, ExpressTypeOK, DocumentsInv
<1>6. RunnersHaveRows /\ CancelledStays
  BY <1>3, <1>4 DEF Init, AiInit, RunnersHaveRows, CancelledStays
<1> QED
  BY <1>1, <1>5, <1>6 DEF ExpressInv

\* A step of the AI side, which leaves the document alone.
LEMMA AiStepKeepsExpress ==
  ASSUME ExpressInv, UNCHANGED documentVars, served' \in 0..MaxRequests,
         policy' \in Policy,
         queued' \in [Jobs -> QueuedRow \cup {NoRow}],
         history' \in [Jobs -> HistoryRow \cup {NoRow}],
         runner' \in [Jobs -> Runner], client' \in [Jobs -> Client],
         restarts' \in 0..MaxRestarts, RunnersHaveRows', CancelledStays'
  PROVE  ExpressInv'
<1>1. DocumentsInv'
  BY DocumentsUnchanged DEF ExpressInv
<1> QED
  BY <1>1 DEF ExpressInv, ExpressTypeOK, DocumentsInv

LEMMA PolicyKeepsExpress ==
  ASSUME ExpressInv, NEW user \in Users, NEW p \in Policies, UpdateAiPolicy(user, p)
  PROVE  ExpressInv'
<1>1. policy' \in Policy /\ UNCHANGED <<documentVars, queued, history, runner, client, restarts>>
  BY ExpressAssumption DEF UpdateAiPolicy
<1>2. served' \in 0..MaxRequests
  BY ServeTypes DEF UpdateAiPolicy, ExpressInv
<1>3. RunnersHaveRows' /\ CancelledStays'
  BY <1>1 DEF ExpressInv, RunnersHaveRows, CancelledStays
<1> QED
  BY <1>1, <1>2, <1>3, AiStepKeepsExpress DEF ExpressInv, ExpressTypeOK

\* What the tables hold for one job.
LEMMA RowTypes ==
  ASSUME ExpressTypeOK, NEW j \in Jobs
  PROVE  /\ queued[j] # NoRow => queued[j] \in QueuedRow
         /\ history[j] # NoRow => history[j] \in HistoryRow
         /\ runner[j] \in Runner /\ client[j] \in Client
         /\ restarts \in Nat /\ restarts \in 0..MaxRestarts
  BY ExpressAssumption DEF ExpressTypeOK

LEMMA NewIdIsUnused ==
  ASSUME NEW j, NewId(j)
  PROVE  j \in Jobs /\ queued[j] = NoRow /\ history[j] = NoRow
  BY DEF NewId, Unused

LEMMA CreateKeepsExpress ==
  ASSUME ExpressInv, NEW user \in Users, NEW j \in Jobs, CreateJob(user, j)
  PROVE  ExpressInv'
<1> DEFINE row == [user |-> user, status |-> "PENDING", born |-> restarts]
<1>1. /\ queued' = [queued EXCEPT ![j] = row] /\ runner' = [runner EXCEPT ![j].pc = "queued"]
      /\ UNCHANGED <<documentVars, policy, history, client, restarts>>
      /\ queued[j] = NoRow /\ history[j] = NoRow
  BY NewIdIsUnused DEF CreateJob
<1>2. row \in QueuedRow /\ row # NoRow
  BY RowTypes, ExpressAssumption DEF ExpressInv, QueuedRow
<1> HIDE DEF row
<1>3. served' \in 0..MaxRequests
  BY ServeTypes DEF CreateJob, ExpressInv
<1>4. runner' \in [Jobs -> Runner] /\ runner'[j].pc = "queued"
      /\ \A i \in Jobs \ {j} : runner'[i] = runner[i]
  BY <1>1 DEF ExpressInv, ExpressTypeOK, Runner
<1>5. queued' \in [Jobs -> QueuedRow \cup {NoRow}] /\ queued'[j] # NoRow
      /\ \A i \in Jobs \ {j} : queued'[i] = queued[i]
  BY <1>1, <1>2 DEF ExpressInv, ExpressTypeOK
<1>6. RunnersHaveRows' /\ CancelledStays'
  BY <1>1, <1>4, <1>5 DEF ExpressInv, RunnersHaveRows, CancelledStays
<1> QED
  BY <1>1, <1>3, <1>4, <1>5, <1>6, AiStepKeepsExpress DEF ExpressInv, ExpressTypeOK

LEMMA StartStreamKeepsExpress ==
  ASSUME ExpressInv, NEW user \in Users, NEW j \in Jobs, StartStream(user, j)
  PROVE  ExpressInv'
<1> DEFINE row == [user |-> user, status |-> "streaming", text |-> 0, born |-> restarts]
           run == [pc |-> "streaming", chunks |-> 0]
<1>1. /\ history' = [history EXCEPT ![j] = row] /\ runner' = [runner EXCEPT ![j] = run]
      /\ client' = [client EXCEPT ![j].open = TRUE]
      /\ UNCHANGED <<documentVars, policy, queued, restarts>>
      /\ queued[j] = NoRow /\ history[j] = NoRow
  BY NewIdIsUnused DEF StartStream
<1>2. row \in HistoryRow /\ row # NoRow /\ run \in Runner /\ run.pc = "streaming"
  BY RowTypes, ExpressAssumption DEF ExpressInv, HistoryRow, Runner
<1> HIDE DEF row, run
<1>3. served' \in 0..MaxRequests
  BY ServeTypes DEF StartStream, ExpressInv
<1>4. /\ client' \in [Jobs -> Client] /\ client'[j].cancelled = client[j].cancelled
      /\ \A i \in Jobs \ {j} : client'[i] = client[i]
  BY <1>1 DEF ExpressInv, ExpressTypeOK, Client
<1>5. /\ history' \in [Jobs -> HistoryRow \cup {NoRow}] /\ history'[j] # NoRow
      /\ \A i \in Jobs \ {j} : history'[i] = history[i]
  BY <1>1, <1>2 DEF ExpressInv, ExpressTypeOK
<1>6. /\ runner' \in [Jobs -> Runner] /\ runner'[j].pc = "streaming"
      /\ \A i \in Jobs \ {j} : runner'[i] = runner[i]
  BY <1>1, <1>2 DEF ExpressInv, ExpressTypeOK
<1>7. RunnersHaveRows' /\ CancelledStays'
  BY <1>1, <1>4, <1>5, <1>6 DEF ExpressInv, RunnersHaveRows, CancelledStays
<1> QED
  BY <1>1, <1>3, <1>4, <1>5, <1>6, <1>7, AiStepKeepsExpress DEF ExpressInv, ExpressTypeOK

\* A stream's row gets a status, and its response is told.
LEMMA StatusKeepsExpress ==
  ASSUME ExpressInv, NEW j \in Jobs, history[j] # NoRow,
         NEW row \in HistoryRow, NEW c \in Client, NEW r \in Runner,
         r = runner[j] \/ r.pc = "idle",
         history' = [history EXCEPT ![j] = row],
         client' = [client EXCEPT ![j] = c],
         runner' = [runner EXCEPT ![j] = r],
         UNCHANGED <<documentVars, policy, queued, restarts>>, served' \in 0..MaxRequests,
         c.cancelled /\ ~c.judged => row.status = "cancelled"
  PROVE  ExpressInv'
<1>1. /\ history' \in [Jobs -> HistoryRow \cup {NoRow}] /\ history'[j] = row
      /\ \A i \in Jobs \ {j} : history'[i] = history[i]
  BY DEF ExpressInv, ExpressTypeOK
<1>2. /\ client' \in [Jobs -> Client] /\ client'[j] = c
      /\ \A i \in Jobs \ {j} : client'[i] = client[i]
  BY DEF ExpressInv, ExpressTypeOK
<1>3. /\ runner' \in [Jobs -> Runner] /\ runner'[j] = r
      /\ \A i \in Jobs \ {j} : runner'[i] = runner[i]
  BY DEF ExpressInv, ExpressTypeOK
<1>4. row # NoRow
  BY ExpressAssumption
<1>5. RunnersHaveRows'
  BY <1>1, <1>2, <1>3, <1>4 DEF ExpressInv, RunnersHaveRows
<1>6. CancelledStays'
  BY <1>1, <1>2 DEF ExpressInv, CancelledStays
<1> QED
  BY <1>1, <1>2, <1>3, <1>5, <1>6, AiStepKeepsExpress DEF ExpressInv, ExpressTypeOK

LEMMA CancelKeepsExpress ==
  ASSUME ExpressInv, NEW j \in Jobs, history[j] # NoRow, CancelAiHistory(j),
         UNCHANGED <<documentVars, policy, queued, runner, restarts>>, served' \in 0..MaxRequests
  PROVE  ExpressInv'
<1>1. history[j] \in HistoryRow /\ client[j] \in Client /\ runner[j] \in Runner
  BY RowTypes DEF ExpressInv
<1>2. CASE history[j].status = "streaming"
  <2> DEFINE row == [history[j] EXCEPT !.status = "cancelled"]
             c == [client[j] EXCEPT !.cancelled = TRUE]
  <2>1. row \in HistoryRow /\ row.status = "cancelled" /\ c \in Client
    BY <1>1 DEF HistoryRow, Client
  <2>2. history' = [history EXCEPT ![j] = row] /\ client' = [client EXCEPT ![j] = c]
    BY <1>2 DEF CancelAiHistory
  <2>3. runner' = [runner EXCEPT ![j] = runner[j]]
    BY DEF ExpressInv, ExpressTypeOK
  <2> HIDE DEF row, c
  <2> QED
    BY <1>1, <2>1, <2>2, <2>3, StatusKeepsExpress
<1>3. CASE history[j].status # "streaming"
  <2>1. UNCHANGED <<history, client, runner, queued, policy, restarts>>
    BY <1>3 DEF CancelAiHistory
  <2>2. RunnersHaveRows' /\ CancelledStays'
    BY <2>1 DEF ExpressInv, RunnersHaveRows, CancelledStays
  <2> QED
    BY <2>1, <2>2, AiStepKeepsExpress DEF ExpressInv, ExpressTypeOK
<1> QED
  BY <1>2, <1>3

LEMMA ClosingKeepsExpress ==
  ASSUME ExpressInv, NEW j \in Jobs, ClientCloses(j)
  PROVE  ExpressInv'
<1>1. /\ client[j].open /\ history[j] # NoRow
      /\ UNCHANGED <<documentVars, served, policy, queued, runner, restarts>>
  BY DEF ClientCloses, ExpressInv, RunnersHaveRows
<1>2. history[j] \in HistoryRow /\ client[j] \in Client /\ runner[j] \in Runner
  BY <1>1, RowTypes DEF ExpressInv
<1>3. runner' = [runner EXCEPT ![j] = runner[j]] /\ served' \in 0..MaxRequests
  BY <1>1 DEF ExpressInv, ExpressTypeOK, DocumentsTypeOK
<1>4. CASE Access(history[j].user, "viewer") /\ history[j].status = "streaming"
  <2> DEFINE row == [history[j] EXCEPT !.status = "cancelled"]
             c == [client[j] EXCEPT !.open = FALSE, !.cancelled = TRUE]
  <2>1. row \in HistoryRow /\ row.status = "cancelled" /\ c \in Client
    BY <1>2 DEF HistoryRow, Client
  <2>2. history' = [history EXCEPT ![j] = row]
    BY <1>4 DEF ClientCloses
  <2>3. client' = [client EXCEPT ![j] = c]
    BY <1>2, <1>4 DEF ClientCloses, Client, ExpressInv, ExpressTypeOK
  <2> HIDE DEF row, c
  <2> QED
    BY <1>1, <1>2, <1>3, <2>1, <2>2, <2>3, StatusKeepsExpress
<1>5. CASE ~(Access(history[j].user, "viewer") /\ history[j].status = "streaming")
  <2> DEFINE c == [client[j] EXCEPT !.open = FALSE]
  <2>1. c \in Client /\ c.cancelled = client[j].cancelled /\ c.judged = client[j].judged
    BY <1>2 DEF Client
  <2>2. client' = [client EXCEPT ![j] = c] /\ history' = [history EXCEPT ![j] = history[j]]
    BY <1>5 DEF ClientCloses, ExpressInv, ExpressTypeOK
  <2>3. c.cancelled /\ ~c.judged => history[j].status = "cancelled"
    BY <2>1 DEF ExpressInv, CancelledStays
  <2> HIDE DEF c
  <2> QED
    BY <1>1, <1>2, <1>3, <2>1, <2>2, <2>3, StatusKeepsExpress
<1> QED
  BY <1>4, <1>5

LEMMA FeedbackKeepsExpress ==
  ASSUME ExpressInv, NEW user \in Users, NEW j \in Jobs,
         NEW status \in {"accepted", "edited", "rejected"}, RecordJobFeedback(user, j, status)
  PROVE  ExpressInv'
<1> DEFINE row == [history[j] EXCEPT !.status = status]
           c == [client[j] EXCEPT !.judged = TRUE]
<1>1. /\ history[j] # NoRow /\ UNCHANGED <<documentVars, policy, queued, runner, restarts>>
      /\ history' = [history EXCEPT ![j] = row] /\ client' = [client EXCEPT ![j] = c]
      /\ runner' = [runner EXCEPT ![j] = runner[j]]
  BY DEF RecordJobFeedback, ExpressInv, ExpressTypeOK
<1>2. history[j] \in HistoryRow /\ client[j] \in Client /\ runner[j] \in Runner
  BY <1>1, RowTypes DEF ExpressInv
<1>3. row \in HistoryRow /\ c \in Client /\ c.judged
  BY <1>2 DEF HistoryRow, Client
<1>4. served' \in 0..MaxRequests
  BY ServeTypes DEF RecordJobFeedback, ExpressInv
<1> HIDE DEF row, c
<1> QED
  BY <1>1, <1>2, <1>3, <1>4, StatusKeepsExpress

LEMMA QueueKeepsExpress ==
  ASSUME ExpressInv, NEW j \in Jobs,
         RunJob(j) \/ \E status \in {"SUCCEEDED", "FAILED"} : JobFinishes(j, status)
  PROVE  ExpressInv'
<1>1. /\ UNCHANGED <<documentVars, served, policy, history, client, restarts>>
      /\ queued[j] # NoRow
  BY DEF RunJob, JobFinishes, ExpressInv, RunnersHaveRows
<1>2. PICK status \in {"RUNNING", "SUCCEEDED", "FAILED"} :
        queued' = [queued EXCEPT ![j].status = status]
  BY DEF RunJob, JobFinishes, FinalStatus
<1>3. /\ queued' \in [Jobs -> QueuedRow \cup {NoRow}] /\ queued'[j] # NoRow
      /\ \A i \in Jobs \ {j} : queued'[i] = queued[i]
  <2>1. queued[j] \in QueuedRow
    BY <1>1, RowTypes DEF ExpressInv
  <2>2. [queued[j] EXCEPT !.status = status] \in QueuedRow
    BY <2>1 DEF QueuedRow
  <2>3. queued' = [queued EXCEPT ![j] = [queued[j] EXCEPT !.status = status]]
    BY <1>2
  <2> QED
    BY <2>2, <2>3, ExpressAssumption DEF ExpressInv, ExpressTypeOK
<1>4. /\ runner' \in [Jobs -> Runner] /\ runner'[j].pc # "streaming"
      /\ \A i \in Jobs \ {j} : runner'[i] = runner[i]
  BY DEF RunJob, JobFinishes, ExpressInv, ExpressTypeOK, Runner, Idle
<1>5. RunnersHaveRows' /\ CancelledStays'
  BY <1>1, <1>3, <1>4 DEF ExpressInv, RunnersHaveRows, CancelledStays
<1> QED
  BY <1>1, <1>3, <1>4, <1>5, AiStepKeepsExpress DEF ExpressInv, ExpressTypeOK, DocumentsTypeOK

\* A stream ends, in any way.
LEMMA EndKeepsExpress ==
  ASSUME ExpressInv, NEW j \in Jobs,
         StreamGivenUp(j) \/ StreamCompletes(j) \/ StreamFails(j)
  PROVE  ExpressInv'
<1> DEFINE c == [client[j] EXCEPT !.open = FALSE]
<1>1. /\ runner[j].pc = "streaming" /\ history[j] # NoRow
      /\ UNCHANGED <<documentVars, served, policy, queued, restarts>>
      /\ runner' = [runner EXCEPT ![j] = Idle]
      /\ client' = [client EXCEPT ![j] = c]
  BY DEF StreamGivenUp, StreamCompletes, StreamFails, Streaming, EndStream, ExpressInv,
         RunnersHaveRows
<1>2. history[j] \in HistoryRow /\ client[j] \in Client /\ runner[j] \in Runner
  BY <1>1, RowTypes DEF ExpressInv
<1>3. /\ c \in Client /\ c.cancelled = client[j].cancelled /\ c.judged = client[j].judged
      /\ Idle \in Runner /\ Idle.pc = "idle"
  BY <1>2 DEF Client, Idle, Runner
<1>4. client[j].cancelled /\ ~client[j].judged => history[j].status = "cancelled"
  BY DEF ExpressInv, CancelledStays
<1> HIDE DEF c
<1>5. \E row \in HistoryRow :
        /\ history' = [history EXCEPT ![j] = row]
        /\ client[j].cancelled /\ ~client[j].judged => row.status = "cancelled"
  <2>1. CASE StreamGivenUp(j)
    <3>1. history' = [history EXCEPT ![j] = history[j]]
      BY <2>1 DEF StreamGivenUp, ExpressInv, ExpressTypeOK
    <3> QED
      BY <1>2, <1>4, <3>1
  <2>2. CASE StreamCompletes(j)
    <3> DEFINE row == [history[j] EXCEPT !.status = "completed", !.text = runner[j].chunks]
    <3>1. row \in HistoryRow
      BY <1>2 DEF HistoryRow, Runner
    <3>2. history' = [history EXCEPT ![j] = row]
      BY <1>2, <2>2 DEF StreamCompletes, HistoryRow, ExpressInv, ExpressTypeOK
    <3>3. ~(client[j].cancelled /\ ~client[j].judged)
      BY <1>4, <2>2 DEF StreamCompletes, Wanted
    <3> HIDE DEF row
    <3> QED
      BY <3>1, <3>2, <3>3
  <2>3. CASE StreamFails(j)
    <3> DEFINE row == [history[j] EXCEPT !.status = "failed"]
    <3>1. row \in HistoryRow
      BY <1>2 DEF HistoryRow
    <3>2. history' = [history EXCEPT ![j] = row]
      BY <2>3 DEF StreamFails
    <3>3. ~(client[j].cancelled /\ ~client[j].judged)
      BY <1>4, <2>3 DEF StreamFails, Wanted
    <3> HIDE DEF row
    <3> QED
      BY <3>1, <3>2, <3>3
  <2> QED
    BY <2>1, <2>2, <2>3
<1>6. served' \in 0..MaxRequests
  BY <1>1 DEF ExpressInv, ExpressTypeOK, DocumentsTypeOK
<1> QED
  BY <1>1, <1>3, <1>5, <1>6, StatusKeepsExpress

LEMMA ChunkKeepsExpress ==
  ASSUME ExpressInv, NEW j \in Jobs, ChunkArrives(j)
  PROVE  ExpressInv'
<1>1. UNCHANGED <<documentVars, served, policy, queued, restarts, history, client>>
  BY DEF ChunkArrives, Streaming
<1>2. /\ runner' \in [Jobs -> Runner]
      /\ \A i \in Jobs : runner'[i].pc = runner[i].pc
  BY DEF ChunkArrives, ExpressInv, ExpressTypeOK, Runner
<1>3. RunnersHaveRows' /\ CancelledStays'
  BY <1>1, <1>2 DEF ExpressInv, RunnersHaveRows, CancelledStays
<1> QED
  BY <1>1, <1>2, <1>3, AiStepKeepsExpress DEF ExpressInv, ExpressTypeOK, DocumentsTypeOK

LEMMA DropKeepsExpress ==
  ASSUME ExpressInv, NEW j \in Jobs, RunnerDrops(j)
  PROVE  ExpressInv'
<1>1. UNCHANGED <<documentVars, served, policy, queued, history, client, restarts>>
  BY DEF RunnerDrops
<1>2. /\ runner' \in [Jobs -> Runner] /\ runner'[j].pc = "dropped"
      /\ \A i \in Jobs \ {j} : runner'[i] = runner[i]
  BY DEF RunnerDrops, ExpressInv, ExpressTypeOK, Runner, Dropped
<1>3. RunnersHaveRows' /\ CancelledStays'
  BY <1>1, <1>2 DEF ExpressInv, RunnersHaveRows, CancelledStays
<1> QED
  BY <1>1, <1>2, <1>3, AiStepKeepsExpress DEF ExpressInv, ExpressTypeOK, DocumentsTypeOK

LEMMA RestartTypes ==
  ASSUME ExpressInv, Restart, UNCHANGED <<policy, queued, history>>
  PROVE  /\ runner' \in [Jobs -> Runner] /\ client' \in [Jobs -> Client]
         /\ restarts' \in 0..MaxRestarts /\ RunnersHaveRows' /\ CancelledStays'
<1>1. restarts' \in 0..MaxRestarts
  BY ExpressAssumption DEF Restart, ExpressInv, ExpressTypeOK
<1>2. runner' \in [Jobs -> Runner] /\ \A j \in Jobs : runner'[j].pc = "idle"
  BY DEF Restart, Idle, Runner
<1>3. /\ client' \in [Jobs -> Client]
      /\ \A j \in Jobs : /\ client'[j].cancelled = client[j].cancelled
                         /\ client'[j].judged = client[j].judged /\ client'[j].open = FALSE
  BY DEF Restart, ExpressInv, ExpressTypeOK, Client
<1>4. RunnersHaveRows' /\ CancelledStays'
  BY <1>2, <1>3 DEF ExpressInv, RunnersHaveRows, CancelledStays
<1> QED
  BY <1>1, <1>2, <1>3, <1>4

LEMMA ExpressStep == ExpressInv /\ [Next]_vars => ExpressInv'
<1> SUFFICES ASSUME ExpressInv, [Next]_vars PROVE ExpressInv'
    OBVIOUS
<1>1. CASE DocumentsStep /\ UNCHANGED <<aiVars, restarts>>
  <2>1. DocumentsInv'
    BY <1>1, DocumentsStepKeepsDocuments DEF ExpressInv
  <2> QED
    BY <1>1, <2>1 DEF aiVars, ExpressInv, ExpressTypeOK, DocumentsInv, RunnersHaveRows, CancelledStays
<1>2. CASE AiRequest
  <2>1. PICK user \in Users :
          \/ \E p \in Policies : UpdateAiPolicy(user, p)
          \/ \E j \in Jobs :
               \/ CreateJob(user, j)
               \/ StartStream(user, j)
               \/ CancelStreamJob(user, j)
               \/ \E status \in {"accepted", "edited", "rejected"} : RecordJobFeedback(user, j, status)
    BY <1>2 DEF AiRequest
  <2>2. ASSUME NEW j \in Jobs, CancelStreamJob(user, j) PROVE ExpressInv'
    BY <2>2, CancelKeepsExpress, ServeTypes DEF CancelStreamJob, ExpressInv
  <2> QED
    BY <2>1, <2>2, PolicyKeepsExpress, CreateKeepsExpress, StartStreamKeepsExpress,
       FeedbackKeepsExpress
<1>3. CASE \E j \in Jobs : RunnerStep(j) \/ RunnerDrops(j) \/ ClientCloses(j)
  BY <1>3, QueueKeepsExpress, EndKeepsExpress, ChunkKeepsExpress, DropKeepsExpress,
     ClosingKeepsExpress DEF RunnerStep
<1>4. CASE ServerStops
  BY <1>4, RestartTypes, AiStepKeepsExpress
     DEF ServerStops, ExpressInv, ExpressTypeOK, DocumentsTypeOK
<1>5. CASE RevocationStops
  <2>1. DocumentsInv'
    BY <1>5, PermissionsKeepDocuments DEF RevocationStops, ExpressInv
  <2> QED
    BY <1>5, <2>1, RestartTypes DEF RevocationStops, ExpressInv, ExpressTypeOK, DocumentsInv
<1>6. CASE UNCHANGED vars
  <2>1. UNCHANGED <<documentVars, served, policy, queued, history, runner, client, restarts>>
    BY <1>6 DEF vars, aiVars
  <2>2. RunnersHaveRows' /\ CancelledStays'
    BY <2>1 DEF ExpressInv, RunnersHaveRows, CancelledStays
  <2> QED
    BY <2>1, <2>2, AiStepKeepsExpress DEF ExpressInv, ExpressTypeOK, DocumentsTypeOK
<1> QED
  BY <1>1, <1>2, <1>3, <1>4, <1>5, <1>6 DEF Next

LEMMA ExpressInvariant == Spec => []ExpressInv
  BY ExpressInvInit, ExpressStep, PTL DEF Spec

------------------------------------------------------------------------------
(* Theorems *)

(* The rows of Express keep their types, whatever stops between two statements.     *)
THEOREM ExpressIsTyped == Spec => []ExpressTypeOK
<1>1. ExpressInv => ExpressTypeOK
  BY DEF ExpressInv
<1> QED
  BY <1>1, ExpressInvariant, PTL

(* However many saves, reverts and retries there are, the versions are one chain    *)
(* (updateDocumentContent and revertDocument, documentsRepository.js).              *)
THEOREM ExpressVersionsAreChained == Spec => []VersionsAreChained
<1>1. ExpressInv => VersionsAreChained
  BY ChainIsChained, DocumentsParts DEF ExpressInv
<1> QED
  BY <1>1, ExpressInvariant, PTL

(* For any users and any order of grants, revocations and stops: no row of          *)
(* document_permissions gives a role the relay was not told of.                     *)
THEOREM ExpressRolesAreTold == Spec => []RolesAreTold
<1>1. ExpressInv => RolesAreTold
  BY GrantsAreToldRoles, DocumentsParts DEF ExpressInv
<1> QED
  BY <1>1, ExpressInvariant, PTL

(* For any number of chunks and of streams: a stream whose cancellation was         *)
(* answered never completes (streamHistoryJob and cancelAiHistory).                 *)
THEOREM ExpressCancelledStays == Spec => []CancelledStays
<1>1. ExpressInv => CancelledStays
  BY DEF ExpressInv
<1> QED
  BY <1>1, ExpressInvariant, PTL

------------------------------------------------------------------------------
(* Express implements VersionHistory *)

Log == [n \in 1..Len(versions) |-> versions[n].snapshot]

LEMMA RecordAppends ==
  ASSUME VersionsInv, NEW r \in RequestIds, NEW reason \in Reasons, NEW content \in Contents,
         NEW base \in Nat, NEW backup \in BOOLEAN,
         Record(r, IF backup THEN <<Backup(r)>> ELSE <<>>, reason, content, base)
  PROVE  IF backup THEN History!AppendAfterBackup(content) ELSE History!Append1(content)
<1> DEFINE last == [snapshot |-> content, reason |-> reason, base |-> base, request |-> r]
<1>1. versions \in Seq(Version) /\ doc \in Document /\ Len(versions) \in Nat
  BY DEF VersionsInv
<1>2. last \in Version /\ last.snapshot = content
  BY DEF Version
<1>3. doc.content \in Contents /\ doc.revisionId \in Nat
  BY <1>1 DEF Document
<1>4. Backup(r) \in Version /\ Backup(r).snapshot = doc.content
  BY <1>3 DEF Backup, Version, Reasons
<1>5. doc'.content = content
  BY DEF Record
<1> HIDE DEF last
<1>6. CASE backup
  <2>1. versions' = versions \o <<Backup(r)>> \o <<last>>
    BY <1>6 DEF Record, last
  <2>2. /\ Len(versions') = Len(versions) + 2
        /\ versions'[Len(versions) + 1] = Backup(r)
        /\ versions'[Len(versions) + 2] = last
        /\ \A n \in 1..Len(versions) : versions'[n] = versions[n]
    BY <1>1, <1>2, <1>4, <2>1, AppendTwo
  <2>3. Log' = [n \in 1..(Len(versions) + 2) |->
                  CASE n = Len(versions) + 2 -> content
                    [] n = Len(versions) + 1 -> doc.content
                    [] OTHER                 -> Log[n]]
    BY <1>1, <1>2, <1>4, <2>2 DEF Log
  <2> QED
    BY <1>5, <1>6, <2>2, <2>3 DEF History!AppendAfterBackup, Log
<1>7. CASE ~backup
  <2>1. versions' = versions \o <<>> \o <<last>>
    BY <1>7 DEF Record, last
  <2>2. versions \o <<>> = versions
    BY <1>1
  <2>3. /\ Len(versions') = Len(versions) + 1
        /\ versions'[Len(versions) + 1] = last
        /\ \A n \in 1..Len(versions) : versions'[n] = versions[n]
    BY <1>1, <1>2, <2>1, <2>2
  <2>4. Log' = [n \in 1..(Len(versions) + 1) |->
                  IF n = Len(versions) + 1 THEN content ELSE Log[n]]
    BY <1>1, <1>2, <2>3 DEF Log
  <2> QED
    BY <1>5, <1>7, <2>3, <2>4 DEF History!Append1, Log
<1> QED
  BY <1>6, <1>7

LEMMA DocumentsStepRecords ==
  ASSUME DocumentsInv, DocumentsStep
  PROVE  History!RecordingNext \/ UNCHANGED <<doc, versions>>
<1>1. VersionsInv /\ doc.revisionId \in Nat
  BY DocumentsParts DEF VersionsInv, Document
<1>2. ASSUME NEW user \in Users, NEW r \in RequestIds, NEW content \in Contents, NEW base,
             NEW backup \in BOOLEAN, UpdateContent(user, r, content, base, backup)
      PROVE  History!RecordingNext
  <2>1. Record(r, IF backup THEN <<Backup(r)>> ELSE <<>>, "content_update", content, doc.revisionId)
    BY <1>2 DEF UpdateContent, AgainstCurrent
  <2> QED
    BY <1>1, <2>1, RecordAppends DEF History!RecordingNext, Reasons
<1>3. ASSUME NEW user \in Users, NEW r \in RequestIds, NEW target \in 1..Len(versions),
             RevertDocument(user, r, target)
      PROVE  History!RecordingNext
  <2>1. versions[target] \in Version
    BY DEF DocumentsInv, DocumentsTypeOK
  <2>2. versions[target].snapshot \in Contents
    BY <2>1 DEF Version
  <2>3. PICK content \in Contents, backup \in BOOLEAN :
          /\ backup
          /\ Record(r, IF backup THEN <<Backup(r)>> ELSE <<>>, "revert", content, doc.revisionId)
    BY <1>3, <2>2 DEF RevertDocument
  <2> QED
    BY <1>1, <2>3, RecordAppends DEF History!RecordingNext, Reasons
<1>4. ASSUME NEW user \in Users, NEW target \in Users,
             \/ \E r \in RequestIds, role \in {"viewer", "editor"} :
                  UpdatePermission(user, r, target, role)
             \/ RevokePermission(user, target)
      PROVE  UNCHANGED <<doc, versions>>
  BY <1>4 DEF UpdatePermission, RevokePermission
<1> QED
  BY <1>2, <1>3, <1>4 DEF DocumentsStep

\* The other steps leave the document alone.
LEMMA OtherStepsKeepDocument ==
  ASSUME Next, ~(DocumentsStep /\ UNCHANGED <<aiVars, restarts>>)
  PROVE  UNCHANGED <<doc, versions>>
<1>1. CASE AiRequest
  BY <1>1 DEF AiRequest, UpdateAiPolicy, CreateJob, StartStream, CancelStreamJob, RecordJobFeedback,
              documentVars
<1>2. ASSUME NEW j \in Jobs, RunnerStep(j) \/ RunnerDrops(j) \/ ClientCloses(j)
      PROVE  UNCHANGED <<doc, versions>>
  BY <1>2 DEF RunnerStep, RunnerDrops, RunJob, JobFinishes, StreamGivenUp, ChunkArrives, StreamCompletes,
              StreamFails, Streaming, ClientCloses, documentVars
<1>3. CASE ServerStops \/ RevocationStops
  BY <1>3 DEF ServerStops, RevocationStops, RevokeStopsEarly, documentVars
<1> QED
  BY <1>1, <1>2, <1>3 DEF Next

(* Express implements the append-only log: each of its steps appends to the versions *)
(* what VersionHistory may append, or leaves them, so no text is lost to a save, a   *)
(* revert, an AI application or a repeated request (documentsRepository.js).         *)
THEOREM ExpressRecordsHistory == Spec => RecordsHistory
<1>1. Init => History!HistoryInit
  <2> SUFFICES ASSUME Init PROVE History!HistoryInit
    OBVIOUS
  <2> DEFINE first == [snapshot |-> InitialContent, reason |-> "initial_create", base |-> 0,
                       request |-> NoRow]
  <2>1. versions = <<first>> /\ doc.content = InitialContent
    BY DEF Init, DocumentsInit
  <2>2. Len(versions) = 1 /\ versions[1] = first /\ first.snapshot = InitialContent
    BY <2>1
  <2>3. Log = [n \in {1} |-> InitialContent]
    BY <2>2 DEF Log
  <2> QED
    BY <2>1, <2>2, <2>3 DEF History!HistoryInit, Log
<1>2. ExpressInv /\ [Next]_vars => [History!RecordingNext]_(History!historyVars)
  <2> SUFFICES ASSUME ExpressInv, [Next]_vars
               PROVE  History!RecordingNext \/ UNCHANGED <<doc, versions>>
    BY DEF History!historyVars
  <2>1. CASE DocumentsStep /\ UNCHANGED <<aiVars, restarts>>
    BY <2>1, DocumentsStepRecords DEF ExpressInv
  <2>2. CASE UNCHANGED vars
    BY <2>2 DEF vars, documentVars
  <2> QED
    BY <2>1, <2>2, OtherStepsKeepDocument
<1> QED
  BY <1>1, <1>2, ExpressInvariant, PTL DEF Spec, RecordsHistory, History!RecordingSpec

------------------------------------------------------------------------------
(* What a user can rely on of an answer: AiAnswers *)

Streams == {j \in Jobs : runner[j].pc = "streaming"}
StoredRows == [j \in BegunStreams |-> [status |-> history[j].status, text |-> history[j].text]]

LEMMA StreamsHaveRows ==
  ASSUME ExpressInv, NEW j \in Streams
  PROVE  /\ j \in Jobs /\ j \in BegunStreams
         /\ history[j] # NoRow /\ history[j] \in HistoryRow /\ runner[j] \in Runner
<1>1. j \in Jobs /\ runner[j].pc = "streaming"
  BY DEF Streams
<1>2. history[j] # NoRow
  BY <1>1 DEF ExpressInv, RunnersHaveRows
<1> QED
  BY <1>1, <1>2, RowTypes DEF ExpressInv, BegunStreams

\* An UPDATE of one row.
LEMMA StoredRowUpdated ==
  ASSUME ExpressInv, NEW j \in BegunStreams, NEW row \in HistoryRow,
         history' = [history EXCEPT ![j] = row]
  PROVE  /\ BegunStreams' = BegunStreams
         /\ StoredRows' = [StoredRows EXCEPT ![j] = [status |-> row.status, text |-> row.text]]
<1>1. j \in Jobs /\ row # NoRow
  BY ExpressAssumption DEF BegunStreams
<1>2. history'[j] = row /\ \A i \in Jobs \ {j} : history'[i] = history[i]
  BY <1>1 DEF ExpressInv, ExpressTypeOK
<1>3. BegunStreams' = BegunStreams
  BY <1>1, <1>2 DEF BegunStreams
<1> QED
  BY <1>2, <1>3 DEF StoredRows, BegunStreams

LEMMA LabelledRow ==
  ASSUME ExpressInv, NEW j \in BegunStreams,
         NEW status \in {"accepted", "edited", "rejected", "cancelled"},
         history' = [history EXCEPT ![j].status = status], Streams' = Streams
  PROVE  StreamAnswers!Label(j, status)
<1> DEFINE row == [history[j] EXCEPT !.status = status]
<1>1. j \in Jobs /\ history[j] # NoRow
  BY DEF BegunStreams
<1>2. history[j] \in HistoryRow
  BY <1>1, RowTypes DEF ExpressInv
<1>3. row \in HistoryRow /\ row.status = status /\ row.text = history[j].text
  BY <1>2 DEF HistoryRow
<1>4. history' = [history EXCEPT ![j] = row]
  BY <1>1
<1> HIDE DEF row
<1>0. StoredRows[j].text = history[j].text
  BY DEF StoredRows
<1>5. StoredRows' = [StoredRows EXCEPT ![j] = [status |-> status, text |-> StoredRows[j].text]]
  <2>1. StoredRows' = [StoredRows EXCEPT ![j] = [status |-> row.status, text |-> row.text]]
    BY <1>3, <1>4, StoredRowUpdated
  <2> QED
    BY <1>0, <1>3, <2>1
<1>6. j \in DOMAIN StoredRows
  BY DEF StoredRows
<1> QED
  BY <1>5, <1>6 DEF StreamAnswers!Label, StreamAnswers!Began, StreamAnswers!Row, Streams, StoredRows

LEMMA StreamEnded ==
  ASSUME ExpressInv, NEW j \in Streams, EndStream(j)
  PROVE  Streams' = Streams \ {j}
<1>1. j \in Jobs /\ runner' = [runner EXCEPT ![j] = Idle] /\ Idle.pc = "idle"
  BY StreamsHaveRows DEF EndStream, Idle
<1>2. runner'[j].pc = "idle" /\ \A i \in Jobs \ {j} : runner'[i] = runner[i]
  BY <1>1 DEF ExpressInv, ExpressTypeOK
<1> QED
  BY <1>2 DEF Streams

LEMMA AnswersStep ==
  ASSUME ExpressInv, [Next]_vars
  PROVE  [StreamAnswers!AnswersNext]_<<Streams, StoredRows>>
<1> DEFINE Abstract == [StreamAnswers!AnswersNext]_<<Streams, StoredRows>>
<1>1. ASSUME history' = history, Streams' = Streams
      PROVE  Abstract
  BY <1>1 DEF StoredRows, BegunStreams
<1>2. ASSUME history' = history, runner' = runner
      PROVE  Abstract
  BY <1>1, <1>2 DEF Streams
<1>3. ASSUME NEW user \in Users, NEW j \in Jobs, CreateJob(user, j)
      PROVE  Abstract
  <2>1. history' = history /\ runner' = [runner EXCEPT ![j].pc = "queued"] /\ history[j] = NoRow
    BY <1>3, NewIdIsUnused DEF CreateJob
  <2>2. runner[j].pc # "streaming"
    BY <2>1 DEF ExpressInv, RunnersHaveRows
  <2>3. runner'[j].pc = "queued" /\ \A i \in Jobs \ {j} : runner'[i] = runner[i]
    BY <2>1 DEF ExpressInv, ExpressTypeOK, Runner
  <2>4. Streams' = Streams
    BY <2>2, <2>3 DEF Streams
  <2> QED
    BY <1>1, <2>1, <2>4
<1>4. ASSUME NEW user \in Users, NEW j \in Jobs, StartStream(user, j)
      PROVE  Abstract
  <2> DEFINE row == [user |-> user, status |-> "streaming", text |-> 0, born |-> restarts]
             run == [pc |-> "streaming", chunks |-> 0]
  <2>1. /\ history' = [history EXCEPT ![j] = row] /\ runner' = [runner EXCEPT ![j] = run]
        /\ history[j] = NoRow
    BY <1>4, NewIdIsUnused DEF StartStream
  <2>2. /\ row \in HistoryRow /\ row # NoRow /\ row.status = "streaming" /\ row.text = 0
        /\ run.pc = "streaming"
    BY RowTypes, ExpressAssumption DEF ExpressInv, HistoryRow
  <2> HIDE DEF row, run
  <2>3. /\ history'[j] = row /\ runner'[j].pc = "streaming"
        /\ \A i \in Jobs \ {j} : history'[i] = history[i] /\ runner'[i] = runner[i]
    BY <2>1, <2>2 DEF ExpressInv, ExpressTypeOK
  <2>4. j \notin BegunStreams /\ BegunStreams' = BegunStreams \cup {j}
    BY <2>1, <2>2, <2>3 DEF BegunStreams
  <2>5. Streams' = Streams \cup {j}
    BY <2>3 DEF Streams
  <2>6. StoredRows' = [b \in BegunStreams \cup {j} |->
          IF b = j THEN [status |-> "streaming", text |-> 0] ELSE StoredRows[b]]
    BY <2>2, <2>3, <2>4 DEF StoredRows, BegunStreams
  <2>7. DOMAIN StoredRows = BegunStreams
    BY DEF StoredRows
  <2>8. StreamAnswers!Start(j)
    BY <2>4, <2>5, <2>6, <2>7 DEF StreamAnswers!Start, StreamAnswers!Began, Streams, StoredRows
  <2> QED
    BY <2>8 DEF StreamAnswers!AnswersNext
<1>5. ASSUME NEW j \in BegunStreams, runner' = runner,
             NEW status \in {"accepted", "edited", "rejected", "cancelled"},
             history' = [history EXCEPT ![j].status = status]
      PROVE  Abstract
  <2>1. StreamAnswers!Label(j, status)
    BY <1>5, LabelledRow DEF Streams
  <2> QED
    BY <2>1 DEF StreamAnswers!AnswersNext, BegunStreams
<1>6. ASSUME NEW user \in Users, NEW j \in Jobs, CancelStreamJob(user, j)
      PROVE  Abstract
  BY <1>2, <1>5, <1>6 DEF CancelStreamJob, CancelAiHistory, BegunStreams
<1>7. ASSUME NEW user \in Users, NEW j \in Jobs,
             NEW status \in {"accepted", "edited", "rejected"}, RecordJobFeedback(user, j, status)
      PROVE  Abstract
  BY <1>5, <1>7 DEF RecordJobFeedback, BegunStreams
<1>8. ASSUME NEW j \in Jobs, ClientCloses(j)
      PROVE  Abstract
  <2>1. j \in BegunStreams
    BY <1>8 DEF ClientCloses, ExpressInv, RunnersHaveRows, BegunStreams
  <2> QED
    BY <1>2, <1>5, <1>8, <2>1 DEF ClientCloses
<1>9. ASSUME NEW j \in Jobs,
             \/ RunJob(j)
             \/ \E status \in {"SUCCEEDED", "FAILED"} : JobFinishes(j, status)
             \/ ChunkArrives(j)
      PROVE  Abstract
  <2>1. /\ history' = history
        /\ \A i \in Jobs : runner'[i].pc = "streaming" <=> runner[i].pc = "streaming"
    <3>1. CASE RunJob(j)
      BY <3>1 DEF RunJob, ExpressInv, ExpressTypeOK, Runner
    <3>2. CASE \E status \in {"SUCCEEDED", "FAILED"} : JobFinishes(j, status)
      <4>1. /\ history' = history /\ runner[j].pc = "generating"
            /\ runner' = [runner EXCEPT ![j] = Idle] /\ Idle.pc = "idle"
        BY <3>2 DEF JobFinishes, Idle
      <4> QED
        BY <4>1 DEF ExpressInv, ExpressTypeOK
    <3>3. CASE ChunkArrives(j)
      BY <3>3 DEF ChunkArrives, ExpressInv, ExpressTypeOK, Runner
    <3> QED
      BY <1>9, <3>1, <3>2, <3>3
  <2> QED
    BY <1>1, <2>1 DEF Streams
<1>10. ASSUME NEW j \in Jobs, StreamGivenUp(j) \/ StreamCompletes(j) \/ StreamFails(j)
      PROVE  Abstract
  <2>1. j \in Streams /\ EndStream(j)
    BY <1>10 DEF StreamGivenUp, StreamCompletes, StreamFails, Streaming, Streams
  <2>2. /\ j \in BegunStreams /\ history[j] \in HistoryRow /\ runner[j] \in Runner
        /\ Streams' = Streams \ {j}
    BY <2>1, StreamsHaveRows, StreamEnded
  <2>3. StoredRows[j] = [status |-> history[j].status, text |-> history[j].text]
    BY <2>2 DEF StoredRows
  <2>4. CASE StreamGivenUp(j)
    <3>1. StoredRows' = [StoredRows EXCEPT ![j] = [status |-> StoredRows[j].status,
                                                   text |-> StoredRows[j].text]]
      BY <2>3, <2>4 DEF StreamGivenUp, StoredRows, BegunStreams
    <3>2. StreamAnswers!IsGivenUp(j)
      BY <2>1, <2>2, <3>1
         DEF StreamAnswers!IsGivenUp, StreamAnswers!Ends, StreamAnswers!Row, Streams, StoredRows
    <3> QED
      BY <3>2 DEF StreamAnswers!AnswersNext, Streams
  <2>5. CASE StreamCompletes(j)
    <3> DEFINE labelled == [history[j] EXCEPT !.status = "completed"]
               row == [labelled EXCEPT !.text = Chunks]
    <3>1. labelled \in HistoryRow /\ labelled.status = "completed"
      BY <2>2 DEF HistoryRow
    <3>2. history' = [history EXCEPT ![j] = row]
      BY <2>1, <2>5 DEF StreamCompletes, ExpressInv, ExpressTypeOK, Streams
    <3> HIDE DEF labelled
    <3>3. row \in HistoryRow /\ row.status = "completed" /\ row.text = Chunks
      BY <3>1, ExpressAssumption DEF HistoryRow
    <3> HIDE DEF row
    <3>4. StoredRows' = [StoredRows EXCEPT ![j] = [status |-> "completed", text |-> Chunks]]
      BY <2>2, <3>2, <3>3, StoredRowUpdated
    <3>5. StreamAnswers!Completes(j)
      BY <2>1, <2>2, <3>4
         DEF StreamAnswers!Completes, StreamAnswers!Ends, StreamAnswers!Row, Streams, StoredRows
    <3> QED
      BY <3>5 DEF StreamAnswers!AnswersNext, Streams
  <2>6. CASE StreamFails(j)
    <3> DEFINE row == [history[j] EXCEPT !.status = "failed"]
    <3>1. row \in HistoryRow /\ row.status = "failed" /\ row.text = history[j].text
      BY <2>2 DEF HistoryRow
    <3>2. history' = [history EXCEPT ![j] = row]
      BY <2>6 DEF StreamFails
    <3> HIDE DEF row
    <3>0. StoredRows[j].text = history[j].text
      BY <2>3
    <3>3. StoredRows' = [StoredRows EXCEPT ![j] = [status |-> "failed", text |-> StoredRows[j].text]]
      BY <2>2, <3>0, <3>1, <3>2, StoredRowUpdated
    <3>4. StreamAnswers!Fails(j)
      BY <2>1, <2>2, <3>3
         DEF StreamAnswers!Fails, StreamAnswers!Ends, StreamAnswers!Row, Streams, StoredRows
    <3> QED
      BY <3>4 DEF StreamAnswers!AnswersNext, Streams
  <2> QED
    BY <1>10, <2>4, <2>5, <2>6
<1>11. ASSUME Restart, history' = history
       PROVE  Abstract
  <2>1. \A j \in Jobs : runner'[j].pc = "idle"
    BY <1>11 DEF Restart, Idle
  <2>2. Streams' = {} /\ StoredRows' = StoredRows
    BY <1>11, <2>1 DEF Streams, StoredRows, BegunStreams
  <2>3. StreamAnswers!AllEnd
    BY <2>2 DEF StreamAnswers!AllEnd, Streams, StoredRows
  <2> QED
    BY <2>3 DEF StreamAnswers!AnswersNext
<1>12. ASSUME \/ \E user \in Users, p \in Policies : UpdateAiPolicy(user, p)
              \/ UNCHANGED <<aiVars, restarts>>
              \/ UNCHANGED vars
       PROVE  Abstract
  BY <1>2, <1>12 DEF UpdateAiPolicy, vars, aiVars
<1>16. ASSUME NEW j \in Jobs, RunnerDrops(j)
       PROVE  Abstract
  <2>1. /\ history' = history /\ runner'[j].pc = "dropped"
        /\ \A i \in Jobs \ {j} : runner'[i] = runner[i]
    BY <1>16 DEF RunnerDrops, Dropped, ExpressInv, ExpressTypeOK
  <2>2. CASE j \notin Streams
    <3>1. Streams' = Streams
      BY <2>1, <2>2 DEF Streams
    <3> QED
      BY <1>1, <2>1, <3>1
  <2>3. CASE j \in Streams
    <3>1. Streams' = Streams \ {j}
      BY <2>1 DEF Streams
    <3>2. j \in BegunStreams /\ StoredRows' = StoredRows
      BY <2>1, <2>3, StreamsHaveRows DEF StoredRows, BegunStreams
    <3>3. StoredRows[j] = [status |-> history[j].status, text |-> history[j].text]
      BY <3>2 DEF StoredRows
    <3>4. StoredRows' = [StoredRows EXCEPT ![j] = [status |-> StoredRows[j].status,
                                                   text |-> StoredRows[j].text]]
      BY <3>2, <3>3 DEF StoredRows
    <3>5. StreamAnswers!IsGivenUp(j)
      BY <2>3, <3>1, <3>4
         DEF StreamAnswers!IsGivenUp, StreamAnswers!Ends, StreamAnswers!Row, Streams, StoredRows
    <3> QED
      BY <3>5 DEF StreamAnswers!AnswersNext
  <2> QED
    BY <2>2, <2>3
<1> SUFFICES Abstract
  OBVIOUS
<1> HIDE DEF Abstract
<1>13. CASE AiRequest
  BY <1>13, <1>3, <1>4, <1>6, <1>7, <1>12 DEF AiRequest
<1>14. CASE \E j \in Jobs : RunnerStep(j) \/ RunnerDrops(j) \/ ClientCloses(j)
  BY <1>14, <1>8, <1>9, <1>10, <1>16 DEF RunnerStep
<1>15. CASE ServerStops \/ RevocationStops
  BY <1>15, <1>11 DEF ServerStops, RevocationStops
<1> QED
  BY <1>12, <1>13, <1>14, <1>15 DEF Next

\* Where a stream is over, nothing but a label of its users changes the row.
LEMMA StoredIsFinal ==
  [StreamAnswers!AnswersNext]_<<Streams, StoredRows>>
    => [\A a \in DOMAIN StoredRows \ Streams :
          /\ a \in (DOMAIN StoredRows)' \ Streams'
          /\ StoredRows'[a].text = StoredRows[a].text
          /\ StoredRows'[a].status
               \in {"cancelled", "accepted", "edited", "rejected"} \cup {StoredRows[a].status}
       ]_<<Streams, StoredRows>>
<1> SUFFICES ASSUME StreamAnswers!AnswersNext, NEW a \in DOMAIN StoredRows, a \notin Streams
             PROVE  /\ a \in DOMAIN StoredRows' /\ a \notin Streams'
                    /\ StoredRows'[a].text = StoredRows[a].text
                    /\ StoredRows'[a].status \in {"cancelled", "accepted", "edited", "rejected"}
                                                   \cup {StoredRows[a].status}
  OBVIOUS
<1>1. ASSUME NEW b, StreamAnswers!Start(b)
      PROVE  /\ a \in DOMAIN StoredRows' /\ a \notin Streams' /\ StoredRows'[a] = StoredRows[a]
  BY <1>1 DEF StreamAnswers!Start, StreamAnswers!Began, Streams, StoredRows
<1>2. ASSUME NEW b,
             StreamAnswers!Completes(b) \/ StreamAnswers!Fails(b) \/ StreamAnswers!IsGivenUp(b)
      PROVE  /\ a \in DOMAIN StoredRows' /\ a \notin Streams' /\ StoredRows'[a] = StoredRows[a]
  BY <1>2 DEF StreamAnswers!Completes, StreamAnswers!Fails, StreamAnswers!IsGivenUp,
              StreamAnswers!Ends, StreamAnswers!Row, Streams, StoredRows
<1>3. ASSUME NEW b, NEW label \in {"cancelled", "accepted", "edited", "rejected"},
             StreamAnswers!Label(b, label)
      PROVE  /\ a \in DOMAIN StoredRows' /\ a \notin Streams'
             /\ StoredRows'[a].text = StoredRows[a].text
             /\ StoredRows'[a].status \in {label, StoredRows[a].status}
  BY <1>3 DEF StreamAnswers!Label, StreamAnswers!Began, StreamAnswers!Row, Streams, StoredRows
<1>4. CASE StreamAnswers!AllEnd
  BY <1>4 DEF StreamAnswers!AllEnd, Streams, StoredRows
<1> QED
  BY <1>1, <1>2, <1>3, <1>4 DEF StreamAnswers!AnswersNext

(* Whatever is cancelled, closed, judged or stopped between two awaits, an answer   *)
(* is stored once, whole and by its own stream, and is final when the stream is     *)
(* over (streamHistoryJob): Express implements AiAnswers, as the other backend does. *)
THEOREM ExpressKeepsAnswers == Spec => KeepsAnswers
<1>1. Init => StreamAnswers!AnswersInit
  BY DEF Init, AiInit, StreamAnswers!AnswersInit, BegunStreams, Idle
<1>2. ExpressInv /\ [Next]_vars => [StreamAnswers!AnswersNext]_(StreamAnswers!answersVars)
  BY AnswersStep DEF StreamAnswers!answersVars, Streams, StoredRows
<1>3. [StreamAnswers!AnswersNext]_(StreamAnswers!answersVars)
        => [\A a \in StreamAnswers!Began \ Streams :
              /\ a \in (StreamAnswers!Began)' \ Streams'
              /\ StoredRows'[a].text = StoredRows[a].text
              /\ StoredRows'[a].status
                   \in {"cancelled", "accepted", "edited", "rejected"} \cup {StoredRows[a].status}
           ]_(StreamAnswers!answersVars)
  BY StoredIsFinal DEF StreamAnswers!answersVars, StreamAnswers!Began, Streams, StoredRows
<1> QED
  BY <1>1, <1>2, <1>3, ExpressInvariant, PTL
     DEF Spec, KeepsAnswers, StreamAnswers!AnswersSpec, StreamAnswers!RowsAreFinal, Streams, StoredRows
===============================================================================
