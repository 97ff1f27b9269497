----------------------------- MODULE DocumentPage -----------------------------
(***************************************************************************)
(* The page of a document (pages/DocumentPage.tsx): loading, typing,       *)
(* autosave, the retry of a save that was refused, applying an AI          *)
(* suggestion and reverting; with the row it saves to (document_crud.py,   *)
(* versions.py) and the live text it shares through the relay.             *)
(* A text is a set of marks; a text a revert brings back counts as a new   *)
(* mark.  Of a revision nothing matters but its text and whether it is     *)
(* still the current one: a snapshot says both.                            *)
(***************************************************************************)
EXTENDS Naturals

CONSTANTS
  Pages,        \* the open pages, all of an editor or the owner
  Reverters,    \* bound: the pages that revert
  Appliers,     \* bound: the pages that apply suggestions
  MaxWork       \* bound: an edit costs 1, a lost socket or save 2, a revert 3

VARIABLES
  row,          \* documents: the text and all the marks of its versions
  room,         \* the relay's room, and document_reverted not yet delivered
  pages,        \* what each page keeps
  used,         \* how many marks are in use
  work,         \* how much of MaxWork is spent
  feedback      \* the suggestions recorded as applied

ASSUME PageAssumption == MaxWork \in Nat

pageVars == <<row, room, pages, used, work, feedback>>

Marks == 1 .. MaxWork
Text == SUBSET Marks
Snapshot == [current : BOOLEAN, text : Text]
Row == [text : Text, kept : Text]
Room == [exists : BOOLEAN, text : Text, dead : Text, reset : BOOLEAN]

\* loadDocument, called by the page itself.
Load == [state : {"none", "asked", "answered"}, got : Snapshot]

(* handleSave: the answer it waits for ("load": that of the loadDocument it ends      *)
(* with), the text it saves, collaborationReady and the revision its closure holds,   *)
(* and the suggestion it applies (0: none).                                           *)
Save == [at : {"none", "put", "refetch", "retry", "load"}, text : Text,
         ready : BOOLEAN, current : BOOLEAN, applies : 0 .. MaxWork]

(* document, fallbackContent and the text of the realtime service; ready:             *)
(* collaborationReady.  up: the socket is open.                                       *)
Page == [open : BOOLEAN, document : Snapshot, fallback : Text, live : Text,
         ready : BOOLEAN, up : BOOLEAN, save : Save, load : Load]

Nothing == [current |-> FALSE, text |-> {}]
NoLoad == [state |-> "none", got |-> Nothing]
Asked == [state |-> "asked", got |-> Nothing]
NoSave == [at |-> "none", text |-> {}, ready |-> FALSE, current |-> FALSE, applies |-> 0]
NewPage == [open |-> FALSE, document |-> Nothing, fallback |-> {}, live |-> {},
            ready |-> FALSE, up |-> FALSE, save |-> NoSave, load |-> Asked]

PageInit ==
  /\ row = [text |-> {}, kept |-> {}]
  /\ room = [exists |-> FALSE, text |-> {}, dead |-> {}, reset |-> FALSE]
  /\ pages = [p \in Pages |-> NewPage]
  /\ used = 0 /\ work = 0 /\ feedback = {}

Spend(cost) == work + cost <= MaxWork /\ work' = work + cost

Now == [current |-> TRUE, text |-> row.text]
Shown(page) == IF page.ready THEN page.live ELSE page.fallback

\* Mutant: a save that was refused waits for the document to be loaded again.
UnsavedOnce(page) ==
  /\ page.open /\ page.save.at = "none" /\ page.document.current
  /\ Shown(page) # page.document.text

(* The effect that sets saveState leaves out "saving" alone: "error" is at once       *)
(* "unsaved" again, and the autosave timer is set.                                    *)
Unsaved(page) == page.open /\ page.save.at = "none" /\ Shown(page) # page.document.text

------------------------------------------------------------------------------
(* The stored row *)

\* Every revision anyone holds is now an old one.
Outdated(page) ==
  [page EXCEPT !.document.current = FALSE, !.save.current = FALSE,
               !.load.got.current = FALSE]

\* update_document: 409 unless the revision is current or there is nothing to change.
Accepted(save) == save.current \/ save.text = row.text

Stored(text, before) ==
  IF text = row.text THEN UNCHANGED row /\ pages' = before
  ELSE /\ row' = [text |-> text, kept |-> row.kept \cup text]
       /\ pages' = [p \in Pages |-> Outdated(before[p])]

------------------------------------------------------------------------------
(* loadDocument *)

Answer(p) ==
  /\ pages[p].load.state = "asked"
  /\ pages' = [pages EXCEPT ![p].load = [state |-> "answered", got |-> Now]]
  /\ UNCHANGED <<row, room, used, work, feedback>>

\* setDocument and setFallbackContent, whatever was typed or loaded meanwhile.
Loaded(page, got) ==
  [page EXCEPT !.open = TRUE, !.document = got, !.fallback = got.text]

Arrive(p) ==
  /\ pages[p].load.state = "answered"
  /\ pages' = [pages EXCEPT ![p] = [Loaded(@, @.load.got) EXCEPT !.load = NoLoad]]
  /\ UNCHANGED <<row, room, used, work, feedback>>

------------------------------------------------------------------------------
(* handleSave *)

StartSave(page, mark) ==
  [page EXCEPT !.save = [at |-> "put", text |-> Shown(page), ready |-> page.ready,
                         current |-> page.document.current, applies |-> mark]]

\* The autosave timer and the Save button.
Autosave(p) ==
  /\ Unsaved(pages[p])
  /\ pages' = [pages EXCEPT ![p] = StartSave(@, 0)]
  /\ UNCHANGED <<row, room, used, work, feedback>>

\* A save that returned true: handleAiApply records the suggestion as applied.
Recorded(save) == feedback' = feedback \cup ({save.applies} \ {0})

\* Mutant: the suggestion is recorded whether or not it was saved.
FailedRecorded(save) == feedback' = feedback \cup ({save.applies} \ {0})

Failed(save) == UNCHANGED feedback

GivenUp(p) == pages' = [pages EXCEPT ![p].save = NoSave]

\* Mutant: every page retries with the latest revision.
RetriesAlways(save) == save.at = "put"

\* Refused: asked for the latest revision if the closure's page was ready.
Retries(save) == save.at = "put" /\ save.ready

PutAccepted(p) ==
  LET save == pages[p].save IN
  /\ save.at \in {"put", "retry"} /\ Accepted(save)
  /\ Stored(save.text, [pages EXCEPT ![p].save = [NoSave EXCEPT !.at = "load",
                                                    !.applies = save.applies]])
  /\ UNCHANGED <<room, used, work, feedback>>

PutRefused(p) ==
  LET save == pages[p].save IN
  /\ save.at \in {"put", "retry"} /\ ~Accepted(save)
  /\ IF Retries(save)
     THEN /\ pages' = [pages EXCEPT ![p].save.at = "refetch"]
          /\ UNCHANGED feedback
     ELSE GivenUp(p) /\ Failed(save)
  /\ UNCHANGED <<row, room, used, work>>

\* The request or its answer is lost.
PutFails(p, arrived) ==
  LET save == pages[p].save IN
  /\ save.at \in {"put", "retry"} /\ Spend(2)
  /\ IF arrived /\ Accepted(save) THEN Stored(save.text, [pages EXCEPT ![p].save = NoSave])
     ELSE GivenUp(p) /\ UNCHANGED row
  /\ Failed(save)
  /\ UNCHANGED <<room, used>>

\* The answer to a save's own GET: it has been saved, or is tried again.
SaveContinues(p) ==
  LET save == pages[p].save
      saved == save.at = "load" \/ row.text = save.text
  IN
  /\ save.at \in {"load", "refetch"}
  /\ IF saved
     THEN /\ pages' = [pages EXCEPT ![p] = [Loaded(@, Now) EXCEPT !.save = NoSave]]
          /\ Recorded(save)
     ELSE /\ pages' = [pages EXCEPT ![p].save.at = "retry", ![p].save.current = TRUE]
          /\ UNCHANGED feedback
  /\ UNCHANGED <<row, room, used, work>>

------------------------------------------------------------------------------
(* The text *)

NewMark == used + 1

\* applyVisibleContent; sendBinary drops the update while the socket is not open.
Written(page, mark) ==
  IF page.ready THEN [page EXCEPT !.live = @ \cup {mark}]
  ELSE [page EXCEPT !.fallback = @ \cup {mark}]

Write(p) ==
  /\ pages[p].open /\ Spend(1) /\ used' = NewMark
  /\ room' = [room EXCEPT !.text =
                IF pages[p].ready /\ pages[p].up THEN @ \cup {NewMark} ELSE @]
  /\ UNCHANGED <<row, feedback>>

\* handleEditorChange.
Type(p) == Write(p) /\ pages' = [pages EXCEPT ![p] = Written(@, NewMark)]

\* handleAiApply: handleSave does nothing while another save is under way.
AiApply(p) ==
  /\ p \in Appliers /\ Write(p)
  /\ pages' = [pages EXCEPT ![p] =
       IF @.save.at = "none" THEN StartSave(Written(@, NewMark), NewMark)
       ELSE Written(@, NewMark)]

\* The first sync message: the page is ready, with the text it had before.
Connect(p) ==
  /\ pages[p].open /\ ~pages[p].up
  /\ pages' = [pages EXCEPT ![p].up = TRUE, ![p].ready = TRUE]
  /\ room' = IF room.exists THEN room ELSE [room EXCEPT !.exists = TRUE, !.text = row.text]
  /\ UNCHANGED <<row, used, work, feedback>>

Synced(page) == (page.live \ room.dead) \cup room.text

\* What the room has and the page has not arrives.
Sync(p) ==
  /\ pages[p].up /\ pages[p].live # Synced(pages[p])
  /\ pages' = [pages EXCEPT ![p].live = Synced(pages[p])]
  /\ UNCHANGED <<row, room, used, work, feedback>>

\* The socket is lost; collaborationReady stays.
Break(p) ==
  /\ pages[p].up /\ Spend(2)
  /\ pages' = [pages EXCEPT ![p].up = FALSE]
  /\ UNCHANGED <<row, room, used, feedback>>

------------------------------------------------------------------------------
(* Reverting *)

\* The version panel's handleRevert, and then the page's (its load is the only one).
Revert(p) ==
  /\ p \in Reverters /\ pages[p].open /\ pages[p].load.state = "none"
  /\ Spend(3) /\ used' = NewMark
  /\ Stored({NewMark}, [pages EXCEPT ![p].load = Asked])
  /\ room' = [room EXCEPT !.reset = TRUE]
  /\ UNCHANGED feedback

\* onDocumentReverted: a new service, and loadDocument.
Told(page) ==
  [page EXCEPT !.up = FALSE, !.ready = FALSE, !.live = {}, !.load = Asked]

\* The poller: the room gets what is stored by now, and the pages in it are told.
RelayReverts ==
  /\ room.reset /\ \A p \in Pages : pages[p].up => pages[p].load.state = "none"
  /\ room' = [room EXCEPT !.reset = FALSE,
                !.text = IF room.exists THEN row.text ELSE @,
                !.dead = (room.text \cup room.dead) \ row.text]
  /\ pages' = [p \in Pages |-> IF pages[p].up THEN Told(pages[p]) ELSE pages[p]]
  /\ UNCHANGED <<row, used, work, feedback>>

PageNext ==
  \/ RelayReverts
  \/ \E p \in Pages :
       \/ Answer(p) \/ Arrive(p) \/ Autosave(p) \/ PutAccepted(p) \/ PutRefused(p)
       \/ PutFails(p, TRUE) \/ PutFails(p, FALSE) \/ SaveContinues(p)
       \/ Type(p) \/ AiApply(p) \/ Connect(p) \/ Sync(p) \/ Break(p)
       \/ Revert(p)

PageSpec == PageInit /\ [][PageNext]_pageVars

(* Requests are answered, timers fire, sockets come back and deliver; nobody has to  *)
(* type, apply or revert.                                                            *)
PageFairness ==
  /\ WF_pageVars(RelayReverts)
  /\ \A p \in Pages :
       /\ WF_pageVars(Answer(p)) /\ WF_pageVars(Arrive(p)) /\ WF_pageVars(Autosave(p))
       /\ WF_pageVars(PutAccepted(p) \/ PutRefused(p)) /\ WF_pageVars(SaveContinues(p))
       /\ WF_pageVars(Connect(p)) /\ WF_pageVars(Sync(p))

PageFairSpec == PageSpec /\ PageFairness

------------------------------------------------------------------------------
(* Properties *)

\* Whoever holds the current revision holds its text.
PageTypeOK ==
  /\ row \in Row /\ room \in Room /\ used <= work /\ work \in 0 .. MaxWork
  /\ feedback \subseteq Marks
  /\ pages \in [Pages -> Page]
  /\ \A p \in Pages : /\ pages[p].document.current => pages[p].document.text = row.text
                      /\ pages[p].load.got.current => pages[p].load.got.text = row.text

(* A suggestion recorded as applied is in a version of the document, whatever was     *)
(* refused, retried, lost or saved by others in between.                              *)
AppliedIsKept == feedback \subseteq row.kept

\* Somebody's save replaced the text.
Saves(p) ==
  /\ row'.text # row.text /\ pages[p].save.at \in {"put", "retry"}
  /\ pages'[p].save.at \notin {"put", "retry"}

(* A page that is not in live sync when it starts to save never takes anything out of *)
(* the stored text (nobody deletes here): a save over what others stored is refused.  *)
OfflineSavesKeepText ==
  [][\A p \in Pages : Saves(p) /\ ~pages[p].save.ready => row.text \subseteq row'.text]_pageVars

(* What the requirements ask of a save that was refused, and its retry does not give: *)
(* it does not replace the newer text that the refusal was about.                     *)
RetriesKeepText ==
  [][\A p \in Pages : Saves(p) /\ pages[p].save.at = "retry"
       => row.text \subseteq row'.text]_pageVars

InSync ==
  /\ room.exists /\ ~room.reset
  /\ \A p \in Pages : /\ pages[p].open /\ pages[p].up
                      /\ pages[p].live = room.text

\* No answer or socket was lost, and nobody reverted.
Undisturbed == work = used

(* Once all pages show the room's text and nobody types, the autosaves of the pages,  *)
(* refusing each other in any order, come to an end: every page says "saved", and the *)
(* text is what is stored.                                                            *)
AutosavesSettle ==
  []Undisturbed /\ <>[]InSync =>
    <>[](row.text = room.text /\ \A p \in Pages :
           pages[p].save.at = "none" /\ pages[p].document.text = room.text)
==============================================================================
