---------------------------------- MODULE Pages ----------------------------------
(***************************************************************************)
(* One browser tab: which page App.tsx shows for the session's state and   *)
(* the location, the pages that keep state of their own, and the calls     *)
(* those pages are awaiting when they are left.  React keeps a page's      *)
(* state when only the parameter of its route changes and drops it when    *)
(* another page takes its place; an awaiting handler goes on either way.   *)
(* AuthSessions has the tokens behind a session, DocumentPage a document   *)
(* page that stays on one document.                                        *)
(***************************************************************************)
EXTENDS Naturals, FiniteSets

CONSTANTS
  Docs,        \* documents
  Links,       \* share links
  Leads,       \* the document of each link
  MaxEdits,    \* bound: texts typed
  MaxAwaited,    \* bound: calls under way, beyond which the user waits
  None         \* null

VARIABLES
  auth,      \* AuthProvider: the session and authStatus
  login,     \* where a sign-in under way will go
  route,     \* the location
  share,     \* ShareLinkPage's state
  previews,  \* the previewShareLink calls under way
  accepts,   \* the acceptShareLink calls under way
  live,      \* the server: the links that are not revoked
  editor,    \* DocumentPage's state
  loads,     \* its getDocument calls under way
  saves,     \* the updateDocument calls under way, those of pages left included
  saved,     \* the server: the text of each document, None before it is created
  room,      \* the relay: the text typed in each document's room
  creates,   \* the createDocument calls under way
  edits      \* the last text typed

sharing == <<share, previews, accepts>>
editing == <<editor, loads, saves>>
vars == <<auth, login, route, sharing, live, editing, saved, room, creates, edits>>

Home == [page |-> "home"]
Share(l) == [page |-> "share", link |-> l]
Document(d) == [page |-> "document", doc |-> d]
Inside == {Home} \cup {Share(l) : l \in Links} \cup {Document(d) : d \in Docs}
Login(next) == [page |-> "login", next |-> next]
Locations == Inside \cup {Login(next) : next \in Inside}

\* A text is known by the document it was written in and by its last edit.
Text == [of : Docs, edit : 0..MaxEdits]

Preview == [preview : Links \cup {None}, phase : {"loading", "ready", "accepting", "error"}]
\* bound is the documentId in the closure of the autosave's timer.
Editor == [document : Docs \cup {None}, content : Text \cup {None}, text : Text \cup {None},
           ready : BOOLEAN, saving : BOOLEAN, bound : Docs]

ASSUME PagesAssumption ==
  /\ MaxEdits \in Nat /\ MaxAwaited \in Nat
  /\ Leads \in [Links -> Docs]
  /\ None \notin Docs \cup Links \cup Text \cup Locations \cup Preview \cup Editor

Anonymous == [session |-> FALSE, status |-> "anonymous"]
Authenticated == [session |-> TRUE, status |-> "authenticated"]

NewShare == [preview |-> None, phase |-> "loading"]
NewEditor(d) ==
  [document |-> None, content |-> None, text |-> None, ready |-> FALSE, saving |-> FALSE, bound |-> d]

Init ==
  /\ auth \in {Anonymous, Authenticated, [session |-> FALSE, status |-> "refreshing"]}
  /\ login = None
  /\ route = IF auth.session THEN Home ELSE Login(Home)
  /\ share = None /\ previews = {} /\ accepts = {}
  /\ live = Links
  /\ editor = None /\ loads = {} /\ saves = {}
  /\ \E made \in SUBSET Docs : saved = [d \in Docs |-> IF d \in made THEN [of |-> d, edit |-> 0] ELSE None]
  /\ room = [d \in Docs |-> None]
  /\ creates = {} /\ edits = 0

------------------------------------------------------------------------------
(* Routing *)

\* AuthEntryRoute, and ProtectedRoute without a session.
Redirected(a, r) ==
  CASE r.page = "login" /\ a.session -> r.next
    [] r.page \in {"home", "document"} /\ ~a.session /\ a.status # "refreshing" -> Login(Home)
    [] OTHER -> r

\* ProtectedRoute shows its screen for the time of a refresh.
Mounted(a, r) == IF r.page \in {"home", "document"} /\ a.status = "refreshing" THEN "screen" ELSE r.page

Calm == Cardinality(previews) + Cardinality(accepts) + Cardinality(loads) + Cardinality(saves) < MaxAwaited

Left(calls) == {[c EXCEPT !.mounted = FALSE] : c \in calls}

\* Mutant: the clean-up of the effect does not cancel the preview under way.
AbandonedNot(ps) == ps

\* The clean-up of loadPreview's effect.
Abandoned(ps) == {[p EXCEPT !.cancelled = TRUE] : p \in ps}

\* A page is mounted, gets another parameter, is left, or stays as it is.
ShareFollows(view, r) ==
  LET entered == r.page = "share" /\ (share = None \/ route # r)
  IN /\ share' = IF view # "share" THEN None
                 ELSE IF share = None THEN NewShare
                 ELSE [share EXCEPT !.phase = IF entered THEN "loading" ELSE @]
     /\ previews' = (IF entered \/ view # "share" THEN Abandoned(previews) ELSE previews)
                      \cup {[link |-> l, cancelled |-> FALSE] : l \in {k \in Links : entered /\ r = Share(k)}}

EditorFollows(view, r) ==
  /\ editor' = IF view # "document" THEN None ELSE IF editor = None THEN NewEditor(r.doc) ELSE editor
  /\ loads' = IF view # "document" THEN {}
              ELSE loads \cup {[doc |-> d, by |-> "effect"] :
                                 d \in {e \in Docs : e = r.doc /\ (editor = None \/ route # r)}}

Goes(a, r) ==
  LET to == Redirected(a, r)
      view == Mounted(a, to)
  IN /\ auth' = a /\ route' = to
     /\ ShareFollows(view, to)
     /\ EditorFollows(view, to)

\* What follows the page that is left; handlers that still await are told apart by mounted.
KeepsCalls ==
  /\ accepts' = IF share' = None THEN Left(accepts) ELSE accepts
  /\ saves' = IF editor' = None THEN Left(saves) ELSE saves

\* A link, the address typed by hand aside: a page of the application, or a step in the history.
Navigate(r) ==
  /\ r # route /\ Calm
  /\ Goes(auth, r) /\ KeepsCalls
  /\ UNCHANGED <<login, live, saved, room, creates, edits>>

------------------------------------------------------------------------------
(* AuthProvider, as the pages see it *)

Becomes(a) ==
  /\ Goes(a, route) /\ KeepsCalls
  /\ UNCHANGED <<live, saved, room, creates, edits>>

\* The timer of the second effect.
RefreshDue ==
  /\ auth = Authenticated
  /\ Becomes([auth EXCEPT !.status = "refreshing"])
  /\ UNCHANGED login

\* restoreSession's refresh, or the timer's.
RefreshAnswered ==
  /\ auth.status = "refreshing" /\ login = None
  /\ \E a \in {Authenticated, Anonymous} : Becomes(a)
  /\ UNCHANGED login

\* logout, or a 401 that a page answers with it.
SessionEnds ==
  /\ auth.session
  /\ Becomes(Anonymous)
  /\ UNCHANGED login

\* LoginPage and RegisterPage: the button is disabled while authStatus is "refreshing".
HandleSubmit ==
  /\ route.page = "login" /\ auth.status # "refreshing"
  /\ login' = route.next
  /\ Becomes([auth EXCEPT !.status = "refreshing"])

\* navigate(nextPath) goes there even when the user has left for another page.
LoginAnswered ==
  /\ login # None
  /\ \/ Goes(Authenticated, login) /\ KeepsCalls
     \/ Goes(Anonymous, route) /\ KeepsCalls
  /\ login' = None
  /\ UNCHANGED <<live, saved, room, creates, edits>>

------------------------------------------------------------------------------
(* ShareLinkPage *)

\* The catch: the link is revoked, or the call failed.
PreviewFails(p) ==
  /\ p \in previews
  /\ previews' = previews \ {p}
  /\ share' = IF p.cancelled \/ share = None THEN share ELSE [share EXCEPT !.phase = "error"]
  /\ UNCHANGED <<auth, login, route, accepts, live, editing, saved, room, creates, edits>>

PreviewArrives(p) ==
  /\ p \in previews /\ p.link \in live
  /\ previews' = previews \ {p}
  /\ share' = IF p.cancelled \/ share = None THEN share ELSE [preview |-> p.link, phase |-> "ready"]
  /\ UNCHANGED <<auth, login, route, accepts, live, editing, saved, room, creates, edits>>

\* The button is there with a session and a preview, whichever link that was of.
HandleAccept ==
  /\ share # None
  /\ Calm /\ auth.session /\ share.preview # None /\ share.phase # "accepting"
  /\ share' = [share EXCEPT !.phase = "accepting"]
  /\ accepts' = accepts \cup {[link |-> route.link, mounted |-> TRUE]}
  /\ UNCHANGED <<auth, login, route, previews, live, editing, saved, room, creates, edits>>

\* setPhase("accepted"), then navigate: from wherever the user is.
AcceptAnswered(c) ==
  /\ c \in accepts /\ c.link \in live
  /\ saved[Leads[c.link]] # None
  /\ Goes(auth, Document(Leads[c.link]))
  /\ accepts' = Left(accepts \ {c})
  /\ saves' = IF editor' = None THEN Left(saves) ELSE saves
  /\ UNCHANGED <<login, live, saved, room, creates, edits>>

AcceptFails(c) ==
  /\ c \in accepts
  /\ accepts' = accepts \ {c}
  /\ share' = IF c.mounted THEN [share EXCEPT !.phase = "error"] ELSE share
  /\ UNCHANGED <<auth, login, route, previews, live, editing, saved, room, creates, edits>>

\* The owner, elsewhere.
RevokeShareLink(l) ==
  /\ live' = live \ {l} /\ l \in live
  /\ UNCHANGED <<auth, login, route, sharing, editing, saved, room, creates, edits>>

------------------------------------------------------------------------------
(* HomePage *)

\* The dialogue can be closed, and the page left, before the answer.
HandleCreate(d) ==
  /\ Mounted(auth, route) = "home"
  /\ saved[d] = None /\ creates = {}
  /\ creates' = {d}
  /\ UNCHANGED <<auth, login, route, sharing, live, editing, saved, room, edits>>

\* After the reload of the dashboard, which keeps its errors to itself.
CreateAnswered(d) ==
  /\ d \in creates
  /\ creates' = {}
  /\ saved' = [saved EXCEPT ![d] = [of |-> d, edit |-> 0]]
  /\ Goes(auth, Document(d)) /\ KeepsCalls
  /\ UNCHANGED <<login, live, room, edits>>

CreateFails(d) ==
  /\ d \in creates
  /\ creates' = {}
  /\ UNCHANGED <<auth, login, route, sharing, live, editing, saved, room, edits>>

------------------------------------------------------------------------------
(* DocumentPage *)

Unsaved == editor.text # editor.content

\* setDocument, setFallbackContent.  The answers of two documents come in any order,
\* and loadDocument takes the last to come for the page's; a new documentId disconnects.
Loaded(l) ==
  LET same == editor.document = l.doc
  IN [editor EXCEPT !.document = l.doc, !.content = saved[l.doc], !.bound = route.doc,
        !.text = IF same /\ editor.ready THEN @ ELSE saved[l.doc],
        !.ready = same /\ @,
        !.saving = @ /\ l.by = "effect"]

LoadArrives(l) ==
  /\ l \in loads /\ saved[l.doc] # None
  /\ loads' = loads \ {l}
  /\ editor' = Loaded(l)
  /\ UNCHANGED <<auth, login, route, sharing, live, saves, saved, room, creates, edits>>

LoadFails(l) ==
  /\ l \in loads
  /\ loads' = loads \ {l}
  /\ editor' = [editor EXCEPT !.document = None, !.content = None, !.text = None, !.ready = FALSE,
                             !.saving = @ /\ l.by = "effect"]
  /\ UNCHANGED <<auth, login, route, sharing, live, saves, saved, room, creates, edits>>

\* The room has what was typed in it, or starts from the document.
Connected ==
  /\ editor # None
  /\ editor.document # None /\ ~editor.ready
  /\ LET d == editor.document
         text == IF room[d] = None THEN saved[d] ELSE room[d]
     IN /\ room' = [room EXCEPT ![d] = text]
        /\ editor' = [editor EXCEPT !.ready = TRUE, !.text = text, !.bound = route.doc]
  /\ UNCHANGED <<auth, login, route, sharing, live, loads, saves, saved, creates, edits>>

Type ==
  /\ editor # None
  /\ editor.document # None /\ edits < MaxEdits
  /\ edits' = edits + 1
  /\ LET text == [of |-> editor.document, edit |-> edits']
     IN /\ editor' = [editor EXCEPT !.text = text, !.bound = route.doc]
        /\ room' = IF editor.ready THEN [room EXCEPT ![editor.document] = text] ELSE room
  /\ UNCHANGED <<auth, login, route, sharing, live, loads, saves, saved, creates>>

\* The timer has the documentId of the render that set it, the button the present one.
HandleSave(target) ==
  /\ editor # None
  /\ Calm /\ editor.document # None /\ Unsaved /\ ~editor.saving
  /\ target \in {editor.bound, route.doc}
  /\ editor' = [editor EXCEPT !.saving = TRUE]
  /\ saves' = saves \cup {[target |-> target, base |-> editor.document, text |-> editor.text,
                           ready |-> editor.ready, mounted |-> TRUE]}
  /\ UNCHANGED <<auth, login, route, sharing, live, loads, saved, room, creates, edits>>

\* Accepted for the revision it is based on, or, when the page was connected, by the
\* second attempt with the revision just fetched; then loadDocument of the same closure.
SaveAccepted(s) ==
  /\ s \in saves /\ saved[s.target] # None
  /\ s.base = s.target \/ s.ready
  /\ saved' = [saved EXCEPT ![s.target] = s.text]
  /\ saves' = saves \ {s}
  /\ loads' = IF s.mounted THEN loads \cup {[doc |-> s.target, by |-> "save"]} ELSE loads
  /\ UNCHANGED <<auth, login, route, sharing, live, editor, room, creates, edits>>

SaveFails(s) ==
  /\ s \in saves
  /\ saves' = saves \ {s}
  /\ editor' = IF s.mounted THEN [editor EXCEPT !.saving = FALSE] ELSE editor
  /\ UNCHANGED <<auth, login, route, sharing, live, loads, saved, room, creates, edits>>

------------------------------------------------------------------------------
PageEvents ==
  \/ \E r \in Locations : Navigate(r)
  \/ RefreshDue \/ RefreshAnswered \/ SessionEnds \/ HandleSubmit \/ LoginAnswered
  \/ HandleAccept
  \/ Connected \/ Type

Next ==
  \/ PageEvents
  \/ \E p \in previews : PreviewArrives(p) \/ PreviewFails(p)
  \/ \E c \in accepts : AcceptAnswered(c) \/ AcceptFails(c)
  \/ \E l \in Links : RevokeShareLink(l)
  \/ \E d \in Docs :
       \/ HandleCreate(d) \/ CreateAnswered(d) \/ CreateFails(d)
       \/ HandleSave(d)
  \/ \E l \in loads : LoadArrives(l) \/ LoadFails(l)
  \/ \E s \in saves : SaveAccepted(s) \/ SaveFails(s)

Spec == Init /\ [][Next]_vars

------------------------------------------------------------------------------
(* Properties *)

\* The type of the tab's state; a page has state exactly while it is mounted.
TypeOK ==
  /\ auth \in [session : BOOLEAN, status : {"anonymous", "authenticated", "refreshing"}]
  /\ login \in Inside \cup {None}
  /\ route \in Locations
  /\ share \in Preview \cup {None} /\ (share # None <=> route.page = "share")
  /\ previews \subseteq [link : Links, cancelled : BOOLEAN]
  /\ accepts \subseteq [link : Links, mounted : BOOLEAN]
  /\ live \subseteq Links
  /\ editor \in Editor \cup {None} /\ (editor # None <=> Mounted(auth, route) = "document")
  /\ loads \subseteq [doc : Docs, by : {"effect", "save"}]
  /\ saves \subseteq [target : Docs, base : Docs, text : Text, ready : BOOLEAN, mounted : BOOLEAN]
  /\ saved \in [Docs -> Text \cup {None}] /\ room \in [Docs -> Text \cup {None}]
  /\ creates \subseteq Docs /\ edits \in 0..MaxEdits

\* A share page that says it is ready shows the invitation of its own address, however
\* fast the user went through several and in whatever order their previews came.
ReadyIsCurrent ==
  share # None /\ share.phase = "ready" => route = Share(share.preview)

\* A save goes to the document it was written in: no document gets another one's text.
TextStaysInItsDocument == \A d \in Docs : saved[d] # None => saved[d].of = d
================================================================================
