---------------------------- MODULE DocumentStore ----------------------------
(***************************************************************************)
(* One document of the FastAPI backend: its row, its version history, the  *)
(* idempotency table and the revert events it leaves for the realtime      *)
(* relay.  PUT /content and POST /revert always carry a requestId, so each *)
(* handler runs inside one BEGIN IMMEDIATE transaction: it is one atomic   *)
(* step, and an error inside it rolls back to a step that changes nothing. *)
(* What is not atomic is the client: it keeps the revision it once read,   *)
(* its request arrives at any later time, the answer may be lost, and it   *)
(* may send the request again.                                             *)
(***************************************************************************)
EXTENDS Accounts, Naturals

CONSTANTS
  Contents,        \* the texts a document may hold
  InitialContent,  \* the text create_document stores
  RequestIds,      \* the requestIds clients draw from
  MaxVersions      \* bound: version rows stop being added here

VARIABLES
  doc,          \* the row of documents
  versions,     \* document_versions: version_number -> row
  idempotency,  \* idempotency_requests: (scope, user, requestId) -> row
  events,       \* the document_reverted rows of realtime_events
  roleOf,         \* the role each user holds; the permission handlers own it
  seen,         \* the (revision, content) pairs each user's clients hold
  applied       \* history: how often each key's handler changed the document

tableVars == <<doc, versions, idempotency, events>>
vars == <<doc, versions, idempotency, events, roleOf, seen, applied>>

AnyRole == {"owner", "editor", "viewer", "none"}

\* A save's updateReason is text that nothing reads: "content_update" stands for all.
Reasons == {"initial_create", "content_update", "pre_revert_backup", "revert"}

\* A version row: who and when are left out, version_id is its number, rev_n is n.
\* base is 0 for the NULL base_revision_id of the first version.
Version == [snapshot : Contents, reason : Reasons, base : Nat]

Snapshot == [revision : Nat, content : Contents]

Keys == {"update", "revert"} \X Users \X RequestIds

UpdatePayload == [content : Contents, base : Nat]
RevertPayload == [target : Nat]
UpdateReply == [revision : Nat]
RevertReply == [currentVersionId : Nat, revertedFrom : Nat]

\* A row of idempotency_requests: the payload stands for its hash.
StoredReply == [payload : UpdatePayload, reply : UpdateReply]
               \cup [payload : RevertPayload, reply : RevertReply]

RevertEvent == [currentVersionId : Nat, revisionId : Nat]

ASSUME StoreAssumption ==
  /\ Owner \in Users
  /\ InitialContent \in Contents
  /\ MaxVersions \in Nat
  /\ NoRow \notin StoredReply

------------------------------------------------------------------------------
(* The tables *)

VersionNumbers == DOMAIN versions

\* SELECT MAX(version_number)
MaxVersion == CHOOSE n \in VersionNumbers : \A m \in VersionNumbers : m <= n

\* INSERT of the version rows `rows`; UNIQUE(document_id, version_number) holds
\* because the numbers are new.
InsertVersions(rows) ==
  versions' = [n \in VersionNumbers \cup DOMAIN rows |->
                 IF n \in DOMAIN rows THEN rows[n] ELSE versions[n]]

\* Mutant: the version is inserted but the row keeps its text.
SetHeadKeepsText(n, text) ==
  doc' = [content |-> doc.content, currentVersionId |-> n, revisionId |-> n]

\* UPDATE documents: version row n becomes current, and the revision is rev_n.
SetHead(n, text) ==
  doc' = [content |-> text, currentVersionId |-> n, revisionId |-> n]

\* append_realtime_event of a revert that made version n current.
AppendRevertEvent(n) ==
  events' = events \cup {[currentVersionId |-> n, revisionId |-> n]}

\* Mutant: the stored row is not looked up.
IsFreshAlways(key) == key \in Keys

\* begin_idempotent_request: no stored row, or a row with the same payload.
IsFresh(key) == idempotency[key] = NoRow
IsReplay(key, payload) ==
  idempotency[key] # NoRow /\ idempotency[key].payload = payload

\* store_idempotent_response.
StoreReply(key, payload, reply) ==
  idempotency' = [idempotency EXCEPT ![key] = [payload |-> payload, reply |-> reply]]

\* The answer reaches the client, which then holds this snapshot, or it is lost.
Answered(u, revision, content) ==
  \/ seen' = [seen EXCEPT ![u] = @ \cup {[revision |-> revision, content |-> content]}]
  \/ UNCHANGED seen

------------------------------------------------------------------------------
(* The handlers *)

\* The state create_document commits.
Init ==
  /\ doc = [content |-> InitialContent, currentVersionId |-> 1, revisionId |-> 1]
  /\ versions = [n \in {1} |->
        [snapshot |-> InitialContent, reason |-> "initial_create", base |-> 0]]
  /\ idempotency = [key \in Keys |-> NoRow]
  /\ events = {}
  /\ roleOf = [u \in Users |-> IF u = Owner THEN "owner" ELSE "none"]
  /\ seen = [u \in Users |-> {}]
  /\ applied = [key \in Keys |-> 0]

\* GET /documents/{id}: anyone with a role reads content and revision together.
GetDocument(u) ==
  /\ roleOf[u] # "none"
  /\ seen' = [seen EXCEPT ![u] =
       @ \cup {[revision |-> doc.revisionId, content |-> doc.content]}]
  /\ UNCHANGED <<tableVars, roleOf, applied>>

\* PUT /content that was already answered: the stored answer, whatever holds now.
UpdateReplayed(u, id, payload) ==
  LET key == <<"update", u, id>> IN
  /\ IsReplay(key, payload)
  /\ Answered(u, idempotency[key].reply.revision, payload.content)
  /\ UNCHANGED <<tableVars, roleOf, applied>>

\* Mutant: the base revision is not compared.
UpdateAdmittedOnAnyBase(u, id, payload) ==
  /\ IsFresh(<<"update", u, id>>)
  /\ roleOf[u] \notin {"none", "viewer"}

\* The checks a fresh PUT /content passes: a writing role, and no conflict.
UpdateAdmitted(u, id, payload) ==
  /\ IsFresh(<<"update", u, id>>)
  /\ roleOf[u] \notin {"none", "viewer"}
  /\ payload.base = doc.revisionId \/ payload.content = doc.content

\* Mutant: a save that changes nothing answers with the revision it was sent.
UpdateUnchangedEchoesBase(u, id, payload) ==
  /\ UpdateAdmitted(u, id, payload)
  /\ payload.content = doc.content
  /\ StoreReply(<<"update", u, id>>, payload, [revision |-> payload.base])
  /\ UNCHANGED <<doc, versions, events, roleOf, seen, applied>>

\* PUT /content with the text the document already has: no new version.
UpdateUnchanged(u, id, payload) ==
  LET key == <<"update", u, id>> IN
  /\ UpdateAdmitted(u, id, payload)
  /\ payload.content = doc.content
  /\ StoreReply(key, payload, [revision |-> doc.revisionId])
  /\ Answered(u, doc.revisionId, payload.content)
  /\ UNCHANGED <<doc, versions, events, roleOf, applied>>

\* PUT /content with another text: one more version, which becomes the head.
UpdateContent(u, id, payload) ==
  LET key  == <<"update", u, id>>
      next == MaxVersion + 1
  IN
  /\ next <= MaxVersions
  /\ UpdateAdmitted(u, id, payload)
  /\ payload.content # doc.content
  /\ InsertVersions([n \in {next} |->
       [snapshot |-> payload.content, reason |-> "content_update", base |-> payload.base]])
  /\ SetHead(next, payload.content)
  /\ StoreReply(key, payload, [revision |-> next])
  /\ applied' = [applied EXCEPT ![key] = @ + 1]
  /\ Answered(u, next, payload.content)
  /\ UNCHANGED <<events, roleOf>>

\* A client saves any text against a revision it holds.
UpdateDocument(u, id) ==
  \E held \in seen[u], c \in Contents :
    LET payload == [content |-> c, base |-> held.revision] IN
    \/ UpdateReplayed(u, id, payload)
    \/ UpdateUnchanged(u, id, payload)
    \/ UpdateContent(u, id, payload)

\* POST /revert of the owner.  A replayed or refused revert answers from the table and
\* changes nothing.
RevertDocument(u, id) ==
  \E target \in VersionNumbers :
    LET key     == <<"revert", u, id>>
        payload == [target |-> target]
        backup  == MaxVersion + 1
        next    == MaxVersion + 2
    IN
    /\ next <= MaxVersions
    /\ IsFresh(key)
    /\ roleOf[u] = "owner"
    /\ InsertVersions([n \in {backup, next} |->
         IF n = backup
         THEN [snapshot |-> doc.content,
               reason |-> "pre_revert_backup", base |-> doc.revisionId]
         ELSE [snapshot |-> versions[target].snapshot,
               reason |-> "revert", base |-> doc.revisionId]])
    /\ SetHead(next, versions[target].snapshot)
    /\ AppendRevertEvent(next)
    /\ StoreReply(key, payload, [currentVersionId |-> next, revertedFrom |-> target])
    /\ applied' = [applied EXCEPT ![key] = @ + 1]
    /\ UNCHANGED <<roleOf, seen>>

\* The permission handlers commit another role for a user that is not the owner;
\* module Sharing models them, this module only reads the result.
RoleCommitted(u) ==
  /\ u # Owner
  /\ \E r \in AnyRole \ {"owner"} : r # roleOf[u] /\ roleOf' = [roleOf EXCEPT ![u] = r]
  /\ UNCHANGED <<tableVars, seen, applied>>

Next ==
  \E u \in Users :
    \/ GetDocument(u)
    \/ \E id \in RequestIds : UpdateDocument(u, id) \/ RevertDocument(u, id)
    \/ RoleCommitted(u)

Spec == Init /\ [][Next]_vars

------------------------------------------------------------------------------
(* Properties *)

TypeOK ==
  /\ doc \in [content : Contents, currentVersionId : Nat, revisionId : Nat]
  /\ VersionNumbers \subseteq Nat
  /\ versions \in [VersionNumbers -> Version]
  /\ idempotency \in [Keys -> StoredReply \cup {NoRow}]
  /\ events \subseteq RevertEvent
  /\ roleOf \in [Users -> AnyRole]
  /\ seen \in [Users -> SUBSET Snapshot]
  /\ applied \in [Keys -> Nat]

\* The documents row and document_versions, written by separate statements, agree:
\* version numbers have no gap, and the row names and holds the newest snapshot.
HeadIsLatestVersion ==
  /\ VersionNumbers = 1..doc.revisionId
  /\ doc.revisionId \in VersionNumbers
  /\ doc.currentVersionId = doc.revisionId
  /\ versions[doc.revisionId].snapshot = doc.content

\* Row n of `table` says what it was written against: a save the version just
\* before it, a revert the version two before it, with a backup of that in between.
ContinuesChain(table, n) ==
  LET v == table[n] IN
  /\ v.reason = "initial_create" <=> n = 1
  /\ v.reason = "content_update" => v.base = n - 1
  /\ v.reason = "pre_revert_backup" =>
       /\ v.base = n - 1
       /\ v.snapshot = table[n - 1].snapshot
       /\ n + 1 \in DOMAIN table
       /\ table[n + 1].reason = "revert"
  /\ v.reason = "revert" =>
       /\ v.base = n - 2
       /\ n - 1 \in DOMAIN table
       /\ table[n - 1].reason = "pre_revert_backup"

\* Concurrent savers never overwrite text they did not read, and a revert, which
\* overwrites on purpose, leaves the text it replaces in the history.
NoLostUpdate == \A n \in VersionNumbers : ContinuesChain(versions, n)

\* A revision id denotes one text for ever: whatever answer a client got, in
\* whatever order the answers came, the text it pairs with a revision is the
\* snapshot of that revision, and a backup is never handed out as a revision.
RevisionDenotesContent ==
  \A u \in Users : \A held \in seen[u] :
    /\ held.revision \in VersionNumbers
    /\ versions[held.revision].snapshot = held.content
    /\ versions[held.revision].reason # "pre_revert_backup"

\* In version table `table`: the answer of a save names a revision that holds the
\* text that was saved.
TrueUpdateRow(table, row) ==
  /\ row \in [payload : UpdatePayload, reply : UpdateReply]
  /\ row.reply.revision \in DOMAIN table
  /\ table[row.reply.revision].snapshot = row.payload.content
  /\ table[row.reply.revision].reason # "pre_revert_backup"

\* The answer of a revert names a version that holds the text of the target.
TrueRevertRow(table, row) ==
  /\ row \in [payload : RevertPayload, reply : RevertReply]
  /\ row.reply.revertedFrom = row.payload.target
  /\ row.reply.revertedFrom \in DOMAIN table
  /\ row.reply.currentVersionId \in DOMAIN table
  /\ table[row.reply.currentVersionId].reason = "revert"
  /\ table[row.reply.currentVersionId].snapshot = table[row.reply.revertedFrom].snapshot

\* A stored answer stays true however long after the request it is replayed.
RepliesStayTrue ==
  \A u \in Users, id \in RequestIds :
    LET saved    == idempotency[<<"update", u, id>>]
        reverted == idempotency[<<"revert", u, id>>]
    IN
    /\ saved # NoRow => TrueUpdateRow(versions, saved)
    /\ reverted # NoRow => TrueRevertRow(versions, reverted)

\* A request that is sent again, because its answer was lost or late, changes the
\* document once.
AppliedAtMostOnce == \A key \in Keys : applied[key] <= 1

\* The relay is told of every revert that committed and of no other.
RevertsAnnounced ==
  events = {[currentVersionId |-> n, revisionId |-> n] :
              n \in {m \in VersionNumbers : versions[m].reason = "revert"}}

\* Version rows are never rewritten or dropped, and the revision a client compares
\* against grows with every change of the text.
HistoryAppendOnly ==
  [][/\ VersionNumbers \subseteq VersionNumbers'
     /\ \A n \in VersionNumbers : versions'[n] = versions[n]
     /\ doc'.content # doc.content => doc'.revisionId > doc.revisionId]_vars

History == INSTANCE VersionHistory WITH
  length  <- MaxVersion,
  log     <- [n \in VersionNumbers |-> versions[n].snapshot],
  content <- doc.content

\* The store implements the append-only log of VersionHistory.
ImplementsHistory == History!HistorySpec
==============================================================================
