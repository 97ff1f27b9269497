--------------------------- MODULE ExpressDocuments ---------------------------
(***************************************************************************)
(* One document of the Express backend: its row, versions, permissions,    *)
(* idempotency keys and realtime events.  Handlers are synchronous         *)
(* JavaScript over a synchronous driver, so no two interleave; updates,    *)
(* reverts and grants are transactions too, while a revocation is three    *)
(* statements the process may stop between.  A client sends a request any  *)
(* number of times.  A request that is refused or replayed changes nothing *)
(* and is not a step.                                                      *)
(***************************************************************************)
EXTENDS Naturals, Sequences, SequencesExt

CONSTANTS
  Users, Owner,    \* who knows the document, and documents.owner_user_id
  Admins,          \* the users whose global_role is 'admin'
  Contents, InitialContent,
  RequestIds,      \* the requestIds clients make up, each for one request
  MaxRequests,     \* bound: handlers that change something
  NoRow            \* "the table has no row under this key"

VARIABLES
  doc,          \* the row of documents
  versions,     \* document_versions in the order of version_number
  permissions,  \* document_permissions: the role of each user, "none" without a row
  replies,      \* idempotency_keys: the stored answers
  events,       \* realtime_events
  served        \* bound: how many handlers changed something

documentVars == <<doc, versions, permissions, replies, events>>

AllRoles == {"owner", "editor", "viewer", "none"}
Reasons == {"initial_create", "content_update", "backup", "revert"}

\* rev_n is n, and the random id of a version is its number; request is the
\* requestId in the audit_logs row of the same transaction.
Document == [content : Contents, currentVersionId : Nat, revisionId : Nat]
Version == [snapshot : Contents, reason : Reasons, base : Nat, request : RequestIds \cup {NoRow}]
Event == [type : {"document_reverted"}, revisionId : Nat]
         \cup [type : {"permission_updated"}, user : Users, role : AllRoles]
         \cup [type : {"access_revoked"}, user : Users]

ASSUME DocumentsAssumption ==
  /\ Owner \in Users
  /\ Admins \subseteq Users
  /\ InitialContent \in Contents
  /\ NoRow \notin RequestIds
  /\ MaxRequests \in Nat

------------------------------------------------------------------------------
(* Access *)

\* getEffectiveRole
Role(user) ==
  CASE user = Owner   -> "owner"
    [] user \in Admins -> "editor"
    [] OTHER          -> permissions[user]

\* ensureDocumentAccess
Access(user, minimum) ==
  /\ Role(user) # "none"
  /\ \/ user \in Admins
     \/ Role(user) \in CASE minimum = "viewer" -> {"viewer", "editor", "owner"}
                         [] minimum = "editor" -> {"editor", "owner"}
                         [] minimum = "owner"  -> {"owner"}

\* Bounds the requests that are served.
Serve == served < MaxRequests /\ served' = served + 1

------------------------------------------------------------------------------
(* The documents repository *)

\* createDocument
DocumentsInit ==
  /\ doc = [content |-> InitialContent, currentVersionId |-> 1, revisionId |-> 1]
  /\ versions = <<[snapshot |-> InitialContent, reason |-> "initial_create", base |-> 0,
                   request |-> NoRow]>>
  /\ permissions = [u \in Users |-> IF u = Owner THEN "owner" ELSE "none"]
  /\ replies = {}
  /\ events = <<>>
  /\ served = 0

\* Mutant: an answer that is already stored is not looked for.
UnansweredNever(r) == r \in RequestIds
\* getIdempotencyRecord finds nothing; the scopes of the operations are disjoint.
Unanswered(r) == r \in RequestIds \ replies

\* The version that keeps the text about to be replaced.
Backup(r) ==
  [snapshot |-> doc.content, reason |-> "backup", base |-> doc.revisionId, request |-> r]

\* insertVersion, updateDocumentState and storeIdempotencyRecord of one transaction.
Record(r, rows, reason, content, base) ==
  LET number == Len(versions) + Len(rows) + 1 IN
  /\ versions' = versions \o rows \o
       <<[snapshot |-> content, reason |-> reason, base |-> base, request |-> r]>>
  /\ doc' = [content |-> content, currentVersionId |-> number, revisionId |-> number]
  /\ replies' = replies \cup {r}

AgainstCurrent(base) == base = doc.revisionId

\* updateContent and updateDocumentContent.  On a stale base the same text is
\* answered and any other is refused: neither changes a table.
UpdateContent(user, r, content, base, backup) ==
  /\ Serve
  /\ Access(user, "editor")
  /\ Unanswered(r)
  /\ AgainstCurrent(base)
  /\ Record(r, IF backup THEN <<Backup(r)>> ELSE <<>>, "content_update", content, base)
  /\ UNCHANGED <<permissions, events>>

RevertDocument(user, r, target) ==
  /\ Serve
  /\ Access(user, "owner")
  /\ target \in 1..Len(versions)
  /\ Unanswered(r)
  /\ Record(r, <<Backup(r)>>, "revert", versions[target].snapshot, doc.revisionId)
  /\ events' = Append(events, [type |-> "document_reverted", revisionId |-> doc'.revisionId])
  /\ UNCHANGED permissions

------------------------------------------------------------------------------
(* The permissions repository *)

\* Mutant: the event carries the role the row had.
InsertGrantOfOldRole(target, role) ==
  events' = Append(events, [type |-> "permission_updated", user |-> target,
                            role |-> permissions[target]])
InsertGrant(target, role) ==
  events' = Append(events, [type |-> "permission_updated", user |-> target, role |-> role])

UpdatePermission(user, r, target, role) ==
  /\ Serve
  /\ Access(user, "owner")
  /\ target # Owner
  /\ Unanswered(r)
  /\ permissions' = [permissions EXCEPT ![target] = role]
  /\ InsertGrant(target, role)
  /\ replies' = replies \cup {r}
  /\ UNCHANGED <<doc, versions>>

\* The statements of revokePermission, in their order; only the first has run when
\* the process stops early.  The second writes the audit log.
DeletePermission(target) == permissions' = [permissions EXCEPT ![target] = "none"]
InsertRevocation(target) ==
  events' = Append(events, [type |-> "access_revoked", user |-> target])

RevokePermission(user, target) ==
  /\ Serve
  /\ Access(user, "owner")
  /\ target # Owner
  /\ DeletePermission(target)
  /\ InsertRevocation(target)
  /\ UNCHANGED <<doc, versions, replies>>

RevokeStopsEarly(user, target) ==
  /\ Serve
  /\ Access(user, "owner")
  /\ target # Owner
  /\ DeletePermission(target)
  /\ UNCHANGED <<doc, versions, replies, events>>

DocumentsStep ==
  \E user \in Users :
    \/ \E r \in RequestIds :
         \/ \E content \in Contents, base \in {v.base : v \in Range(versions)} \cup {doc.revisionId},
               backup \in BOOLEAN : UpdateContent(user, r, content, base, backup)
         \/ \E target \in 1..Len(versions) : RevertDocument(user, r, target)
         \/ \E target \in Users, role \in {"viewer", "editor"} : UpdatePermission(user, r, target, role)
    \/ \E target \in Users : RevokePermission(user, target)

------------------------------------------------------------------------------
(* Properties *)

DocumentsTypeOK ==
  /\ doc \in Document
  /\ versions \in Seq(Version)
  /\ permissions \in [Users -> AllRoles]
  /\ replies \subseteq RequestIds
  /\ events \in Seq(Event)
  /\ served \in 0..MaxRequests

\* The revision that was current when version n was written.
CurrentBefore(n) ==
  LET earlier == {m \in 1..(n - 1) : versions[m].reason # "backup"}
  IN  CHOOSE m \in earlier : \A k \in earlier : k <= m

\* However saves, AI applications, reverts and their retries are ordered, the versions
\* are one chain: each save or revert replaced the revision its client named, a backup
\* holds the text that was replaced, the document is the last of the chain, and no
\* request is in it twice (updateDocumentContent and revertDocument).
VersionsAreChained ==
  /\ doc.revisionId = Len(versions)
  /\ doc.content = Last(versions).snapshot
  /\ \A n \in 2..Len(versions) :
       /\ versions[n].base = CurrentBefore(n)
       /\ versions[n].reason = "backup" =>
            versions[n].snapshot = versions[CurrentBefore(n)].snapshot
  /\ \A m, n \in 2..Len(versions) :
       /\ versions[m].request = versions[n].request
       /\ "backup" \notin {versions[m].reason, versions[n].reason}
       => m = n

\* The role the last event about the user tells the relay.
ToldRole(user) ==
  LET about == {n \in 1..Len(events) : events[n].type # "document_reverted" /\ events[n].user = user}
      last == CHOOSE n \in about : \A k \in about : k <= n
  IN  IF about = {} \/ events[last].type = "access_revoked" THEN "none" ELSE events[last].role

\* A permission row never gives a user a role that the events left for the relay do
\* not: a grant and its event are one transaction, and a revocation that stops half
\* way has at worst removed a role the relay still believes in (permissionsRepository).
RolesAreTold ==
  \A user \in Users \ {Owner} : permissions[user] \in {"none", ToldRole(user)}

History == INSTANCE VersionHistory WITH
  length  <- Len(versions),
  log     <- [n \in 1..Len(versions) |-> versions[n].snapshot],
  content <- doc.content

\* The versions are the append-only log of VersionHistory: no text that was ever current
\* is lost, whatever is saved, reverted and sent again (updateDocumentContent).
RecordsHistory == History!RecordingSpec
===============================================================================
