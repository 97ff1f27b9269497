-------------------------------- MODULE Sharing --------------------------------
(***************************************************************************)
(* Who may do what with one document: document_permissions, share_links    *)
(* and the realtime_events the sharing handlers leave for the relay.       *)
(* FastAPI runs each handler in a worker thread with a connection of its   *)
(* own.  SQLite takes the write lock at a handler's first INSERT, UPDATE   *)
(* or DELETE and keeps it until commit, so everything a handler reads, and *)
(* the timestamp it takes, before that statement may be stale at commit.   *)
(* Only the owner passes ensure_owner, and documents.owner_user_id never   *)
(* changes, so that check is not a step of its own.                        *)
(***************************************************************************)
EXTENDS Naturals

CONSTANTS
  Users,          \* the users that exist; update_permission refuses any other target
  Owner,          \* documents.owner_user_id
  Links,          \* the share links the owner may create
  Workers,        \* the threads that run handlers: one means no handler overlaps another
  RevokeAccess,   \* the values of ?revokeAccess the owner sends
  MaxClock,       \* bound: no timestamp after it is taken
  NoRow           \* "no row", "no share link", "no handler"

VARIABLES
  permission,   \* document_permissions: user -> row
  links,        \* share_links: link -> row
  handler,      \* what each worker has read and not yet committed
  clock,        \* the wall clock, as the number of timestamps taken
  undelivered   \* the rows of realtime_events with delivered_at NULL

sharingVars == <<permission, links, handler, clock, undelivered>>

Granted == {"viewer", "editor"}

Permission == [role : Granted, via : Links \cup {NoRow}]

\* status is revoked_at and expires_at; cut is TRUE once ?revokeAccess deleted grants.
ShareLink == [role : Granted, status : {"active", "expired", "revoked"}, cut : BOOLEAN]

Handler ==
  [op : {"update"}, user : Users, role : Granted, stamp : Nat]
  \cup [op : {"acceptLink"}, user : Users, link : Links, role : Granted]
  \cup [op : {"accept"}, user : Users, link : Links, granted : Granted,
        upsert : BOOLEAN, stamp : Nat]

Event ==
  [type : {"permission_updated"}, user : Users, role : Granted, stamp : Nat]
  \cup [type : {"access_revoked"}, user : Users, stamp : Nat]
  \cup [type : {"document_reverted"}, revision : Nat, stamp : Nat]

ASSUME SharingAssumption ==
  /\ Owner \in Users
  /\ RevokeAccess \subseteq BOOLEAN
  /\ MaxClock \in Nat
  /\ NoRow \notin Links \cup Permission \cup ShareLink \cup Handler

------------------------------------------------------------------------------

\* resolve_document_for_user and the relay's getEffectiveRole.
RoleOf(u) ==
  IF u = Owner THEN "owner"
  ELSE IF permission[u] # NoRow THEN permission[u].role ELSE "none"

\* Mutant: the link's role always wins.
MergeRoleIncoming(current, incoming) == incoming

\* merge_role: accepting a link raises a role, and never lowers it.
MergeRole(current, incoming) == IF current = "editor" THEN "editor" ELSE incoming

\* datetime.now(): later calls give later timestamps.
TakeStamp == clock < MaxClock /\ clock' = clock + 1

PermissionUpdated(u, role, stamp) ==
  [type |-> "permission_updated", user |-> u, role |-> role, stamp |-> stamp]
AccessRevoked(u, stamp) == [type |-> "access_revoked", user |-> u, stamp |-> stamp]
DocumentReverted(n, stamp) ==
  [type |-> "document_reverted", revision |-> n, stamp |-> stamp]

\* append_realtime_event.
AppendRealtimeEvent(event) == undelivered' = undelivered \cup {event}

SharingInit ==
  /\ permission = [u \in Users |-> NoRow]
  /\ links = [l \in Links |-> NoRow]
  /\ handler = [w \in Workers |-> NoRow]
  /\ clock = 0
  /\ undelivered = {}

------------------------------------------------------------------------------
(* PUT /permissions *)

\* The checks pass and updated_at is taken; the write lock is not held yet.
UpdatePermissionStart(w, u, role) ==
  /\ handler[w] = NoRow
  /\ u # Owner
  /\ TakeStamp
  /\ handler' = [handler EXCEPT ![w] =
       [op |-> "update", user |-> u, role |-> role, stamp |-> clock]]
  /\ UNCHANGED <<permission, links, undelivered>>

\* The upsert, its event and the commit.
UpdatePermissionCommit(w) ==
  LET h == handler[w] IN
  /\ h # NoRow /\ h.op = "update"
  /\ permission' = [permission EXCEPT ![h.user] = [role |-> h.role, via |-> NoRow]]
  /\ AppendRealtimeEvent(PermissionUpdated(h.user, h.role, h.stamp))
  /\ handler' = [handler EXCEPT ![w] = NoRow]
  /\ UNCHANGED <<links, clock>>

(* DELETE /permissions/{u}: the DELETE takes the lock before the timestamp, so the *)
(* handler is one step; it sends the event even when there was no row.             *)
RevokePermission(w, u) ==
  /\ handler[w] = NoRow
  /\ u # Owner
  /\ TakeStamp
  /\ permission' = [permission EXCEPT ![u] = NoRow]
  /\ AppendRealtimeEvent(AccessRevoked(u, clock))
  /\ UNCHANGED <<links, handler>>

------------------------------------------------------------------------------
(* Share links *)

CreateShareLink(w, l, role) ==
  /\ handler[w] = NoRow
  /\ links[l] = NoRow
  /\ links' = [links EXCEPT ![l] = [role |-> role, status |-> "active", cut |-> FALSE]]
  /\ UNCHANGED <<permission, handler, clock, undelivered>>

\* Time passes expires_at.
ShareLinkExpires(l) ==
  /\ links[l] # NoRow /\ links[l].status = "active"
  /\ links' = [links EXCEPT ![l].status = "expired"]
  /\ UNCHANGED <<permission, handler, clock, undelivered>>

\* DELETE /share-links/{l}: a link is revoked once, expired or not, and with
\* ?revokeAccess the rows that name the link go too.  No event is appended.
RevokeShareLink(w, l, revokeAccess) ==
  /\ handler[w] = NoRow
  /\ links[l] # NoRow /\ links[l].status # "revoked"
  /\ links' = [links EXCEPT ![l].status = "revoked", ![l].cut = revokeAccess]
  /\ permission' = [u \in Users |->
       IF revokeAccess /\ permission[u] # NoRow /\ permission[u].via = l
       THEN NoRow ELSE permission[u]]
  /\ UNCHANGED <<handler, clock, undelivered>>

\* POST /share-links/{token}/accept reads the link.  The owner's own accept, which
\* only sets last_claimed_at, is left out.
AcceptReadsLink(w, u, l) ==
  /\ handler[w] = NoRow
  /\ u # Owner
  /\ links[l] # NoRow /\ links[l].status = "active"
  /\ handler' = [handler EXCEPT ![w] =
       [op |-> "acceptLink", user |-> u, link |-> l, role |-> links[l].role]]
  /\ UNCHANGED <<permission, links, clock, undelivered>>

\* Then the role the user has, merges the two and takes claimed_at.
AcceptReadsRole(w) ==
  LET h       == handler[w]
      granted == MergeRole(RoleOf(h.user), h.role)
  IN
  /\ h # NoRow /\ h.op = "acceptLink"
  /\ TakeStamp
  /\ handler' = [handler EXCEPT ![w] =
       [op |-> "accept", user |-> h.user, link |-> h.link, granted |-> granted,
        upsert |-> granted # RoleOf(h.user), stamp |-> clock]]
  /\ UNCHANGED <<permission, links, undelivered>>

\* The upsert, if the role it read was to change; the event, always; the commit.
AcceptCommit(w) ==
  LET h == handler[w] IN
  /\ h # NoRow /\ h.op = "accept"
  /\ permission' = IF h.upsert
       THEN [permission EXCEPT ![h.user] = [role |-> h.granted, via |-> h.link]]
       ELSE permission
  /\ AppendRealtimeEvent(PermissionUpdated(h.user, h.granted, h.stamp))
  /\ handler' = [handler EXCEPT ![w] = NoRow]
  /\ UNCHANGED <<links, clock>>

\* A handler fails before its commit: the lock times out or the process dies.
HandlerFails(w) ==
  /\ handler[w] # NoRow
  /\ handler' = [handler EXCEPT ![w] = NoRow]
  /\ UNCHANGED <<permission, links, clock, undelivered>>

SharingStep(w) ==
  \/ \E u \in Users, role \in Granted : UpdatePermissionStart(w, u, role)
  \/ UpdatePermissionCommit(w)
  \/ \E u \in Users : RevokePermission(w, u)
  \/ \E l \in Links, role \in Granted : CreateShareLink(w, l, role)
  \/ \E l \in Links, flag \in RevokeAccess : RevokeShareLink(w, l, flag)
  \/ \E u \in Users, l \in Links : AcceptReadsLink(w, u, l)
  \/ AcceptReadsRole(w)
  \/ AcceptCommit(w)
  \/ HandlerFails(w)

SharingNext ==
  \/ \E w \in Workers : SharingStep(w)
  \/ \E l \in Links : ShareLinkExpires(l)

SharingSpec == SharingInit /\ [][SharingNext]_sharingVars

------------------------------------------------------------------------------
(* Properties *)

SharingTypeOK ==
  /\ permission \in [Users -> Permission \cup {NoRow}]
  /\ links \in [Links -> ShareLink \cup {NoRow}]
  /\ handler \in [Workers -> Handler \cup {NoRow}]
  /\ clock \in 0..MaxClock
  /\ undelivered \subseteq Event

\* A row that names a share link holds exactly the role of that link, so the rows
\* that go with a revoked link hold what it gave, never a role the owner set since.
GrantsMatchTheirLink ==
  \A u \in Users : permission[u] # NoRow /\ permission[u].via # NoRow =>
    /\ links[permission[u].via] # NoRow
    /\ permission[u].role = links[permission[u].via].role

\* After a link was revoked together with its grants, nobody has access through it:
\* "collaborators whose current access came from that share link will also lose
\* access" (PermissionsPanel.tsx:279).  An accept that read the link before and
\* commits after violates it.
CutLinkGrantsNothing ==
  \A u \in Users, l \in Links :
    links[l] # NoRow /\ links[l].cut => permission[u] = NoRow \/ permission[u].via # l

\* The tables as access granted and links on offer, and the accepts under way: a link is
\* on offer until it is revoked, though it may have expired by then.
HaveAccess == {u \in Users \ {Owner} : permission[u] # NoRow}
Offered == {l \in Links : links[l] # NoRow}
Accepting == {w \in Workers : handler[w] # NoRow /\ handler[w].op # "update"}
Stage(w) == IF handler[w].op = "accept" /\ handler[w].upsert THEN "joins" ELSE "follows"
Asked == [w \in Accepting |->
           [guest |-> handler[w].user, link |-> handler[w].link, stage |-> Stage(w)]]

Access == INSTANCE AccessControl WITH
  Guests <- Users \ {Owner}, Offers <- Links, Roles <- Granted,
  Outranks <- {<<"editor", "viewer">>}, Requests <- Workers, NoLink <- NoRow,
  access <- [u \in HaveAccess |-> permission[u]],
  gives <- [l \in Offered |-> links[l].role],
  open <- {l \in Offered : links[l].status # "revoked"},
  asked <- Asked

\* However handlers overlap, what the owner asks for is done whole when it commits, and
\* an accept gives the role of a link that was on offer when it read it, to a user who
\* had less when it read that (accept_share_link: two reads, then the transaction).
ImplementsAccessControl == Access!AccessSpec
==============================================================================
