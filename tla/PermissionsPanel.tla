---------------------------- MODULE PermissionsPanel ----------------------------
(***************************************************************************)
(* The owner's sharing panel (PermissionsPanel.tsx).  Each click starts a  *)
(* handler that awaits its call, and then a reload of both lists; handlers *)
(* overlap, because a click disables only some of the buttons.  The server *)
(* is seen from here (Sharing has its inside, and the roles): a request of *)
(* the owner is one step of it, and every change of what the lists would   *)
(* say counts up.                                                          *)
(***************************************************************************)
EXTENDS Naturals

CONSTANTS
  Collaborators,  \* the users who know the document, without the owner
  ShareLinks,     \* the share links the owner may create
  Handlers,       \* bound: handlers under way at once
  MaxChanges,     \* bound: changes the server makes
  None            \* null; "no handler", "no access"

VARIABLES
  granted,   \* the server: how each collaborator came by access
  status,    \* the server: the share links
  accepting, \* the server: the link each collaborator's accept has read and may give
  changes,   \* how often either changed
  handlers,  \* the calls of the panel's async functions that have not ended
  shown,     \* the panel's state
  acked,     \* history: changes when the last successful answer was given
  mixed      \* history: the last reload started while another was under way

server == <<granted, status, accepting, changes>>
history == <<acked, mixed>>
permissionsVars == <<server, handlers, shown, history>>

ByOwner == "owner"     \* granted by handleUpsertPermission
Creating == "creating"

Changes == 0..MaxChanges
LinkStatus == {"absent", "active", "revoked"}

\* "sent": the call is on its way; "done": its answer is; "failed": an error is.
\* "loading": inside loadMembers, where a list that has not arrived is None.
Call ==
  [op : {"upsert", "remove"}, user : Collaborators, stage : {"sent", "done", "failed"}, at : Changes]
  \cup [op : {"create"}, link : ShareLinks \cup {None}, stage : {"sent", "done", "failed"}, at : Changes]
  \cup [op : {"revoke"}, link : ShareLinks, withAccess : BOOLEAN, sawUrl : BOOLEAN,
        stage : {"sent", "done", "failed"}, at : Changes]
  \cup [op : {"effect", "user", "link"}, stage : {"loading"},
        members : Changes \cup {None}, links : Changes \cup {None},
        rows : SUBSET Collaborators, active : SUBSET ShareLinks]

\* rows and active are the buttons shown, members and links the changes they know of.
PanelState ==
  [phase : {"loading", "loaded", "error"}, rows : SUBSET Collaborators, active : SUBSET ShareLinks,
   members : Changes, links : Changes, savingTarget : Collaborators \cup {None},
   savingLink : ShareLinks \cup {Creating, None}, latestUrl : ShareLinks \cup {None}]

ASSUME PermissionsPanelAssumption ==
  /\ MaxChanges \in Nat
  /\ None \notin Collaborators \cup ShareLinks \cup Nat \cup Call \cup {ByOwner}
  /\ Creating \notin ShareLinks
  /\ ByOwner \notin ShareLinks

Loading(h) == h # None /\ h.stage = "loading"
Reloading == \E k \in Handlers : Loading(handlers[k])

Load(from) == [op |-> from, stage |-> "loading", members |-> None, links |-> None,
               rows |-> {}, active |-> {}]

PermissionsInit ==
  /\ granted = [u \in Collaborators |-> None]
  /\ status = [l \in ShareLinks |-> "absent"]
  /\ accepting = [u \in Collaborators |-> None]
  /\ changes = 0
  /\ \E k \in Handlers : handlers = [i \in Handlers |-> IF i = k THEN Load("effect") ELSE None]
  /\ shown = [phase |-> "loading", rows |-> {}, active |-> {}, members |-> 0, links |-> 0,
              savingTarget |-> None, savingLink |-> None, latestUrl |-> None]
  /\ acked = 0 /\ mixed = FALSE

------------------------------------------------------------------------------
(* Clicks: the disabled={...} of each button is its guard *)

UpsertEnabled == shown.savingTarget = None
RemoveEnabled(u) == shown.phase = "loaded" /\ u \in shown.rows /\ shown.savingTarget # u
CreateEnabled == shown.savingLink = None
RevokeEnabled(l) == shown.phase = "loaded" /\ l \in shown.active /\ shown.savingLink # l

Starts(k, handler) == handlers[k] = None /\ handlers' = [handlers EXCEPT ![k] = handler]

HandleUpsertPermission(k, u) ==
  /\ UpsertEnabled
  /\ Starts(k, [op |-> "upsert", user |-> u, stage |-> "sent", at |-> 0])
  /\ shown' = [shown EXCEPT !.savingTarget = u]
  /\ UNCHANGED <<server, history>>

HandleRevokePermission(k, u) ==
  /\ RemoveEnabled(u)
  /\ Starts(k, [op |-> "remove", user |-> u, stage |-> "sent", at |-> 0])
  /\ shown' = [shown EXCEPT !.savingTarget = u]
  /\ UNCHANGED <<server, history>>

HandleCreateShareLink(k) ==
  /\ CreateEnabled
  /\ Starts(k, [op |-> "create", link |-> None, stage |-> "sent", at |-> 0])
  /\ shown' = [shown EXCEPT !.savingLink = Creating]
  /\ UNCHANGED <<server, history>>

\* The closure keeps the toggle and whether there is a URL to clear.
HandleRevokeShareLink(k, l, withAccess) ==
  /\ RevokeEnabled(l)
  /\ Starts(k, [op |-> "revoke", link |-> l, withAccess |-> withAccess,
                sawUrl |-> shown.latestUrl # None, stage |-> "sent", at |-> 0])
  /\ shown' = [shown EXCEPT !.savingLink = l]
  /\ UNCHANGED <<server, history>>

------------------------------------------------------------------------------
(* The server *)

Sent(k, op) == handlers[k] # None /\ handlers[k].op = op /\ handlers[k].stage = "sent"
Changed == changes < MaxChanges /\ changes' = changes + 1

\* The answer, which tells of the n-th change, arrives or is lost.
Answered(h, stage, n) == [h EXCEPT !.stage = stage, !.at = n]

Answers(k) == \E stage \in {"done", "failed"} :
  handlers' = [handlers EXCEPT ![k] = Answered(@, stage, changes')]

AccessGiven(k) ==
  /\ Sent(k, "upsert")
  /\ Changed /\ Answers(k)
  /\ granted' = [granted EXCEPT ![handlers[k].user] = ByOwner]
  /\ UNCHANGED <<status, accepting, shown, history>>

AccessRemoved(k) ==
  /\ Sent(k, "remove")
  /\ Changed /\ Answers(k)
  /\ granted' = [granted EXCEPT ![handlers[k].user] = None]
  /\ UNCHANGED <<status, accepting, shown, history>>

LinkCreated(k, l) ==
  /\ Sent(k, "create")
  /\ status[l] = "absent"
  /\ Changed
  /\ \E stage \in {"done", "failed"} : handlers' =
       [handlers EXCEPT ![k] = [Answered(@, stage, changes') EXCEPT !.link = l]]
  /\ status' = [status EXCEPT ![l] = "active"]
  /\ UNCHANGED <<granted, accepting, shown, history>>

\* A revoked link is refused (CallFailed).  A lost answer leaves the URL on offer.
LinkRevoked(k) ==
  LET h == handlers[k] IN
  /\ Sent(k, "revoke")
  /\ status[h.link] = "active"
  /\ Changed /\ Answers(k)
  /\ status' = [status EXCEPT ![h.link] = "revoked"]
  /\ granted' = [u \in Collaborators |-> IF h.withAccess /\ granted[u] = h.link THEN None ELSE granted[u]]
  /\ UNCHANGED <<accepting, shown, history>>

\* acceptShareLink, from a collaborator's browser: the link is active and gives the
\* collaborator access, or more than before.
AcceptReads(u, l) ==
  /\ accepting[u] = None
  /\ status[l] = "active" /\ granted[u] # l
  /\ accepting' = [accepting EXCEPT ![u] = l]
  /\ UNCHANGED <<granted, status, changes, handlers, shown, history>>

\* It commits, whatever the owner did since.
AcceptCommits(u) ==
  /\ accepting[u] # None
  /\ Changed
  /\ granted' = [granted EXCEPT ![u] = accepting[u]]
  /\ accepting' = [accepting EXCEPT ![u] = None]
  /\ UNCHANGED <<status, handlers, shown, history>>

AcceptFails(u) ==
  /\ accepting[u] # None
  /\ accepting' = [accepting EXCEPT ![u] = None]
  /\ UNCHANGED <<granted, status, changes, handlers, shown, history>>

\* The two lists of Promise.all, in any order.
ListPermissions(k) ==
  /\ Loading(handlers[k]) /\ handlers[k].members = None
  /\ handlers' = [handlers EXCEPT ![k] =
       [@ EXCEPT !.members = changes, !.rows = {u \in Collaborators : granted[u] # None}]]
  /\ UNCHANGED <<server, shown, history>>

ListShareLinks(k) ==
  /\ Loading(handlers[k]) /\ handlers[k].links = None
  /\ handlers' = [handlers EXCEPT ![k] =
       [@ EXCEPT !.links = changes, !.active = {l \in ShareLinks : status[l] = "active"}]]
  /\ UNCHANGED <<server, shown, history>>

------------------------------------------------------------------------------
(* What follows an await *)

\* Which of the two flags a handler set; loadMembers of the effect sets none.
Flag(h) ==
  CASE h.op \in {"upsert", "remove", "user"} -> "user"
    [] h.op \in {"create", "revoke", "link"} -> "link"
    [] OTHER -> "effect"

\* The finally of the handlers: it resets the flag, whosever it is by now.
Ended(p, h) ==
  [p EXCEPT !.savingTarget = IF Flag(h) = "user" THEN None ELSE @,
            !.savingLink = IF Flag(h) = "link" THEN None ELSE @]

\* latestShareUrl after a successful answer; it is cleared whichever link is revoked.
UrlAfter(h) ==
  CASE h.op = "create" -> h.link
    [] h.op = "revoke" /\ h.sawUrl -> None
    [] OTHER -> shown.latestUrl

\* Mutant: the handler ends without a reload.
ProceedsWithoutReload(k) ==
  LET h == handlers[k] IN
  /\ h # None /\ h.stage = "done"
  /\ handlers' = [handlers EXCEPT ![k] = None]
  /\ shown' = [Ended(shown, h) EXCEPT !.latestUrl = UrlAfter(h)]
  /\ acked' = IF h.at > acked THEN h.at ELSE acked
  /\ UNCHANGED <<server, mixed>>

\* The answer arrives: its effects on the panel and the start of loadMembers.
Proceeds(k) ==
  LET h == handlers[k] IN
  /\ h # None /\ h.stage = "done"
  /\ handlers' = [handlers EXCEPT ![k] = Load(Flag(h))]
  /\ shown' = [shown EXCEPT !.phase = "loading", !.latestUrl = UrlAfter(h)]
  /\ acked' = IF h.at > acked THEN h.at ELSE acked
  /\ mixed' = Reloading
  /\ UNCHANGED server

\* The call fails, without an effect or with one whose answer was lost.
CallFailed(k) ==
  LET h == handlers[k] IN
  /\ h # None /\ h.stage \in {"sent", "failed"}
  /\ handlers' = [handlers EXCEPT ![k] = None]
  /\ shown' = Ended(shown, h)
  /\ UNCHANGED <<server, history>>

Loaded(k) ==
  LET h == handlers[k] IN
  /\ Loading(h) /\ h.members # None /\ h.links # None
  /\ handlers' = [handlers EXCEPT ![k] = None]
  /\ shown' = [Ended(shown, h) EXCEPT !.phase = "loaded", !.rows = h.rows, !.active = h.active,
                                      !.members = h.members, !.links = h.links]
  /\ UNCHANGED <<server, history>>

\* One of the two requests of loadMembers fails; its catch keeps the error.
LoadFailed(k) ==
  /\ Loading(handlers[k])
  /\ handlers' = [handlers EXCEPT ![k] = None]
  /\ shown' = [Ended(shown, handlers[k]) EXCEPT !.phase = "error"]
  /\ UNCHANGED <<server, history>>

Click(k) ==
  \/ \E u \in Collaborators : HandleUpsertPermission(k, u) \/ HandleRevokePermission(k, u)
  \/ HandleCreateShareLink(k)
  \/ \E l \in ShareLinks, flag \in BOOLEAN : HandleRevokeShareLink(k, l, flag)

Answer(k) ==
  \/ AccessGiven(k) \/ AccessRemoved(k) \/ LinkRevoked(k)
  \/ \E l \in ShareLinks : LinkCreated(k, l)
  \/ ListPermissions(k) \/ ListShareLinks(k)

Resume(k) == Proceeds(k) \/ CallFailed(k) \/ Loaded(k) \/ LoadFailed(k)

PermissionsNext ==
  \/ \E k \in Handlers : Click(k) \/ Answer(k) \/ Resume(k)
  \/ \E u \in Collaborators :
       (\E l \in ShareLinks : AcceptReads(u, l)) \/ AcceptCommits(u) \/ AcceptFails(u)

PermissionsSpec == PermissionsInit /\ [][PermissionsNext]_permissionsVars

------------------------------------------------------------------------------
(* Properties *)

TypeOK ==
  /\ granted \in [Collaborators -> ShareLinks \cup {ByOwner, None}]
  /\ status \in [ShareLinks -> LinkStatus]
  /\ accepting \in [Collaborators -> ShareLinks \cup {None}]
  /\ changes \in Changes
  /\ handlers \in [Handlers -> Call \cup {None}]
  /\ shown \in PanelState
  /\ acked \in Changes /\ mixed \in BOOLEAN

\* After its own successful changes the panel shows lists that know of them, unless
\* reloads overlapped, when the older may arrive last (loadMembers has no guard).
ShowsOwnChanges ==
  shown.phase = "loaded" /\ ~Reloading /\ ~mixed => shown.members >= acked /\ shown.links >= acked
==============================================================================
