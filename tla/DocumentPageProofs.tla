-------------------------- MODULE DocumentPageProofs --------------------------
(***************************************************************************)
(* Any number of pages on one document: what was recorded as applied was   *)
(* stored, and a page that is not in live sync never saves over text it    *)
(* did not have.  The toolbar of its editor: the marked ranges it finds    *)
(* stand in the text, a selection is widened to the smallest that clips    *)
(* none of them, and what it wraps or lists it takes off again.            *)
(***************************************************************************)
EXTENDS DocumentPage, Toolbar, WellFoundedInduction, SequenceTheorems, TLAPS

\* What waits to be put holds the suggestion it applies; once it is stored, the row does.
SuggestionIsSaved(save, stored) ==
  /\ save.at \in {"put", "refetch", "retry"} => save.applies \in save.text \cup {0}
  /\ save.at = "load" => save.applies \in stored.kept \cup {0}

\* A page that is not in live sync puts a text that has all its revision had, and does
\* not fetch another revision to put it against.
OfflineSaveHasTheText(save, stored) ==
  ~save.ready =>
    /\ save.at \notin {"refetch", "retry"}
    /\ save.at = "put" /\ save.current => stored.text \subseteq save.text

PageOK(page, stored) ==
  /\ page \in Page
  /\ page.document.current => page.document.text = stored.text
  /\ page.load.got.current => page.load.got.text = stored.text
  /\ page.document.text \subseteq page.fallback
  /\ SuggestionIsSaved(page.save, stored)
  /\ OfflineSaveHasTheText(page.save, stored)

PagesOK(all, stored) ==
  /\ all \in [Pages -> Page]
  /\ \A p \in Pages : PageOK(all[p], stored)

PageInv ==
  /\ row \in Row /\ row.text \subseteq row.kept
  /\ room \in Room
  /\ used \in Nat /\ work \in 0 .. MaxWork /\ used <= work
  /\ feedback \subseteq Marks /\ feedback \subseteq row.kept
  /\ PagesOK(pages, row)

------------------------------------------------------------------------------
(* Lemmas about pages and the row *)

LEMMA InvIsTyped == PageInv => PageTypeOK
  BY DEF PageInv, PagesOK, PageOK, PageTypeOK

LEMMA PageInvInit == PageInit => PageInv
<1> SUFFICES ASSUME PageInit PROVE PageInv
  OBVIOUS
<1>1. NewPage \in Page
  BY PageAssumption DEF NewPage, Page, Nothing, Snapshot, NoSave, Save, Asked, Load, Text
<1>2. PageOK(NewPage, row)
  BY <1>1 DEF PageInit, PageOK, NewPage, Nothing, NoSave, Asked, SuggestionIsSaved,
              OfflineSaveHasTheText
<1> QED
  BY <1>1, <1>2, PageAssumption DEF PageInit, PageInv, PagesOK, Row, Room, Text

LEMMA OnePageChanges ==
  ASSUME NEW all, NEW stored, PagesOK(all, stored), NEW p \in Pages,
         NEW page, PageOK(page, stored)
  PROVE  PagesOK([all EXCEPT ![p] = page], stored)
BY DEF PagesOK, PageOK

\* What a page of the invariant is made of.
LEMMA PartsOfPage ==
  ASSUME NEW page \in Page
  PROVE  /\ page.open \in BOOLEAN /\ page.ready \in BOOLEAN /\ page.up \in BOOLEAN
         /\ page.document \in Snapshot /\ page.fallback \in Text /\ page.live \in Text
         /\ page.save \in Save /\ page.load \in Load
BY DEF Page

\* A row that keeps more texts.
LEMMA MoreIsKept ==
  ASSUME NEW page, NEW stored, NEW more, PageOK(page, stored),
         more.text = stored.text, stored.kept \subseteq more.kept
  PROVE  PageOK(page, more)
BY DEF PageOK, SuggestionIsSaved, OfflineSaveHasTheText

\* A page that holds no current revision does not mind which text is stored.
LEMMA OutdatedIsOK ==
  ASSUME NEW page, NEW stored, NEW next, PageOK(page, stored), stored.kept \subseteq next.kept
  PROVE  PageOK(Outdated(page), next)
<1> DEFINE old == Outdated(page)
<1>1. /\ page.document \in Snapshot /\ page.save \in Save /\ page.load \in Load /\ page \in Page
  BY PartsOfPage DEF PageOK
<1>2. /\ old \in Page
      /\ old.document.current = FALSE /\ old.document.text = page.document.text
      /\ old.load.got.current = FALSE /\ old.fallback = page.fallback
      /\ old.save.current = FALSE /\ old.save.at = page.save.at /\ old.save.text = page.save.text
      /\ old.save.ready = page.save.ready /\ old.save.applies = page.save.applies
  BY <1>1 DEF Outdated, Page, Snapshot, Save, Load
<1> HIDE DEF old
<1>3. PageOK(old, next)
  BY <1>2 DEF PageOK, SuggestionIsSaved, OfflineSaveHasTheText
<1> QED
  BY <1>3 DEF old

\* The row with a text beside the versions it has.
With(text) == [text |-> row.text, kept |-> row.kept \cup text]

\* Storing a text.
LEMMA StoringKeeps ==
  ASSUME row \in Row, row.text \subseteq row.kept, NEW text \in Text,
         NEW before, PagesOK(before, With(text)), Stored(text, before)
  PROVE  /\ row' \in Row /\ row'.text \subseteq row'.kept
         /\ row.kept \subseteq row'.kept /\ text \subseteq row'.kept
         /\ PagesOK(pages', row')
<1>1. CASE text = row.text
  <2>1. row' = row /\ pages' = before
    BY <1>1 DEF Stored
  <2>2. With(text) = row
    BY <1>1 DEF With, Row
  <2> QED
    BY <1>1, <2>1, <2>2
<1>2. CASE text # row.text
  <2>1. /\ row' = [text |-> text, kept |-> row.kept \cup text]
        /\ pages' = [p \in Pages |-> Outdated(before[p])]
    BY <1>2 DEF Stored
  <2>2. With(text).kept = row'.kept /\ row'.text = text
    BY <2>1 DEF With
  <2>3. \A p \in Pages : PageOK(Outdated(before[p]), row')
    BY <2>2, OutdatedIsOK DEF PagesOK
  <2>4. PagesOK(pages', row')
    BY <2>1, <2>3 DEF PagesOK, PageOK
  <2> QED
    BY <2>1, <2>4 DEF Row, Text
<1> QED
  BY <1>1, <1>2

\* All pages mind is what is stored.
LEMMA PagesWith ==
  ASSUME row \in Row, NEW text, NEW all, PagesOK(all, row)
  PROVE  PagesOK(all, With(text))
BY MoreIsKept DEF PagesOK, With, Row

------------------------------------------------------------------------------
(* One lemma per group of actions *)

\* Nothing but one page changes.
LEMMA PageAlone ==
  ASSUME PageInv, NEW p \in Pages, NEW page, PageOK(page, row),
         pages' = [pages EXCEPT ![p] = page], UNCHANGED <<row, used, work, feedback>>,
         room' \in Room
  PROVE  PageInv'
<1>1. PagesOK(pages', row)
  BY OnePageChanges DEF PageInv
<1> QED
  BY <1>1 DEF PageInv, PagesOK, PageOK

LEMMA NowIsOK ==
  ASSUME row \in Row
  PROVE  Now \in Snapshot /\ Now.current /\ Now.text = row.text
BY DEF Now, Row, Snapshot

LEMMA LoadKeepsInv ==
  ASSUME PageInv, NEW p \in Pages, Answer(p) \/ Arrive(p)
  PROVE  PageInv'
<1> DEFINE page == pages[p]
<1>1. PageOK(page, row) /\ row \in Row /\ page \in Page
  BY DEF PageInv, PagesOK, PageOK
<1>2. /\ page.load \in Load /\ page.load.got \in Snapshot /\ page.document \in Snapshot
      /\ page.fallback \in Text
  BY <1>1, PartsOfPage DEF Load
<1>3. CASE Answer(p)
  <2> DEFINE next == [page EXCEPT !.load = [state |-> "answered", got |-> Now]]
  <2>1. next \in Page /\ PageOK(next, row)
    BY <1>1, NowIsOK DEF Page, Load, PageOK
  <2>2. pages' = [pages EXCEPT ![p] = next]
    BY <1>3 DEF Answer
  <2> QED
    BY <1>3, <2>1, <2>2, PageAlone DEF Answer, PageInv
<1>4. CASE Arrive(p)
  <2> DEFINE next == [Loaded(page, page.load.got) EXCEPT !.load = NoLoad]
  <2>1. NoLoad \in Load /\ NoLoad.got.current = FALSE
    BY DEF NoLoad, Load, Nothing, Snapshot, Text
  <2>2. next \in Page /\ PageOK(next, row)
    BY <1>1, <1>2, <2>1 DEF Page, Snapshot, Loaded, PageOK
  <2>3. pages' = [pages EXCEPT ![p] = next]
    BY <1>4 DEF Arrive
  <2> QED
    BY <1>4, <2>2, <2>3, PageAlone DEF Arrive, PageInv
<1> QED
  BY <1>3, <1>4

\* handleSave begins: a page that is not in live sync shows all its revision had.
LEMMA StartedSaveIsOK ==
  ASSUME NEW page, NEW stored, PageOK(page, stored), NEW mark \in 0 .. MaxWork,
         mark \in Shown(page) \cup {0}
  PROVE  PageOK(StartSave(page, mark), stored)
<1> DEFINE save == [at |-> "put", text |-> Shown(page), ready |-> page.ready,
                    current |-> page.document.current, applies |-> mark]
<1>1. page \in Page /\ page.document \in Snapshot
  BY PartsOfPage DEF PageOK
<1>2. save \in Save
  BY <1>1, PartsOfPage DEF Save, Shown, Snapshot
<1>3. SuggestionIsSaved(save, stored) /\ OfflineSaveHasTheText(save, stored)
  BY <1>1 DEF SuggestionIsSaved, OfflineSaveHasTheText, PageOK, Shown
<1>4. StartSave(page, mark) = [page EXCEPT !.save = save]
  BY DEF StartSave
<1> HIDE DEF save
<1> QED
  BY <1>1, <1>2, <1>3, <1>4 DEF PageOK, Page

LEMMA AutosaveKeepsInv ==
  ASSUME PageInv, NEW p \in Pages, Autosave(p)
  PROVE  PageInv'
<1>1. PageOK(StartSave(pages[p], 0), row)
  BY StartedSaveIsOK, PageAssumption DEF PageInv, PagesOK
<1>2. pages' = [pages EXCEPT ![p] = StartSave(pages[p], 0)]
  BY DEF Autosave
<1> QED
  BY <1>1, <1>2, PageAlone DEF Autosave, PageInv

\* A save that is given up, or has been stored.
LEMMA NoSaveIsOK ==
  ASSUME NEW page, NEW stored, PageOK(page, stored), NEW at \in {"none", "load"},
         NEW applies \in 0 .. MaxWork, at = "load" => applies \in stored.kept \cup {0}
  PROVE  PageOK([page EXCEPT !.save = [NoSave EXCEPT !.at = at, !.applies = applies]], stored)
<1> DEFINE save == [NoSave EXCEPT !.at = at, !.applies = applies]
<1>1. save \in Save
  BY DEF NoSave, Save, Text
<1>2. SuggestionIsSaved(save, stored) /\ OfflineSaveHasTheText(save, stored)
  BY DEF NoSave, SuggestionIsSaved, OfflineSaveHasTheText
<1> HIDE DEF save
<1>3. PageOK([page EXCEPT !.save = save], stored)
  BY <1>1, <1>2 DEF PageOK, Page
<1> QED
  BY <1>3 DEF save

LEMMA GivenUpIsOK ==
  ASSUME NEW page, NEW stored, PageOK(page, stored)
  PROVE  PageOK([page EXCEPT !.save = NoSave], stored)
<1>1. NoSave \in Save
  BY PageAssumption DEF NoSave, Save, Text
<1>2. SuggestionIsSaved(NoSave, stored) /\ OfflineSaveHasTheText(NoSave, stored)
  BY DEF NoSave, SuggestionIsSaved, OfflineSaveHasTheText
<1> QED
  BY <1>1, <1>2 DEF PageOK, Page

LEMMA SaveTypes ==
  ASSUME PageInv, NEW p \in Pages
  PROVE  LET save == pages[p].save IN
         /\ PageOK(pages[p], row) /\ pages[p] \in Page /\ save \in Save
         /\ save.text \in Text /\ save.applies \in 0 .. MaxWork
BY PartsOfPage DEF PageInv, PagesOK, PageOK, Save

LEMMA PutAcceptedKeepsInv ==
  ASSUME PageInv, NEW p \in Pages, PutAccepted(p)
  PROVE  PageInv'
<1> DEFINE save == pages[p].save
           done == [NoSave EXCEPT !.at = "load", !.applies = save.applies]
           next == [pages[p] EXCEPT !.save = done]
           before == [pages EXCEPT ![p] = next]
<1>1. PageOK(pages[p], row) /\ save.text \in Text /\ save.applies \in 0 .. MaxWork
  BY SaveTypes
<1>2. save.applies \in save.text \cup {0}
  BY <1>1 DEF PutAccepted, PageOK, SuggestionIsSaved
<1>3. PagesOK(pages, With(save.text)) /\ row \in Row /\ row.text \subseteq row.kept
  BY PagesWith DEF PageInv
<1>4. PageOK(next, With(save.text))
  <2>1. PageOK(pages[p], With(save.text)) /\ save.applies \in With(save.text).kept \cup {0}
    BY <1>2, <1>3 DEF PagesOK, With
  <2> QED
    BY <1>1, <2>1, NoSaveIsOK
<1>5. PagesOK(before, With(save.text))
  BY <1>3, <1>4, OnePageChanges
<1>6. Stored(save.text, before)
  BY DEF PutAccepted
<1> HIDE DEF before, save
<1>7. /\ row' \in Row /\ row'.text \subseteq row'.kept /\ row.kept \subseteq row'.kept
      /\ PagesOK(pages', row')
  BY <1>1, <1>3, <1>5, <1>6, StoringKeeps
<1> QED
  BY <1>7 DEF PutAccepted, PageInv

\* A save goes on with another field changed, but not its text or what it applies.
LEMMA PutRefusedKeepsInv ==
  ASSUME PageInv, NEW p \in Pages, PutRefused(p)
  PROVE  PageInv'
<1> DEFINE save == pages[p].save
<1>1. PageOK(pages[p], row) /\ pages[p] \in Page /\ save \in Save
  BY SaveTypes
<1>2. CASE Retries(save)
  <2> DEFINE next == [pages[p] EXCEPT !.save = [save EXCEPT !.at = "refetch"]]
  <2>1. save.ready /\ save.at = "put"
    BY <1>2 DEF Retries
  <2>2. [save EXCEPT !.at = "refetch"] \in Save
    BY <1>1 DEF Save
  <2>3. /\ SuggestionIsSaved([save EXCEPT !.at = "refetch"], row)
        /\ OfflineSaveHasTheText([save EXCEPT !.at = "refetch"], row)
    BY <1>1, <2>1 DEF PageOK, SuggestionIsSaved, OfflineSaveHasTheText, Save
  <2>4. PageOK(next, row)
    BY <1>1, <2>2, <2>3 DEF PageOK, Page
  <2>5. pages' = [pages EXCEPT ![p] = next]
    BY <1>2 DEF PutRefused
  <2> QED
    BY <1>2, <2>4, <2>5, PageAlone DEF PutRefused, PageInv
<1>3. CASE ~Retries(save)
  <2> DEFINE next == [pages[p] EXCEPT !.save = NoSave]
  <2>1. PageOK(next, row)
    BY <1>1, GivenUpIsOK
  <2>2. pages' = [pages EXCEPT ![p] = next] /\ UNCHANGED <<row, room, used, work, feedback>>
    BY <1>3 DEF PutRefused, GivenUp, Failed
  <2> QED
    BY <2>1, <2>2, PageAlone DEF PageInv
<1> QED
  BY <1>2, <1>3

LEMMA SpentIsBounded ==
  ASSUME PageInv, NEW cost \in Nat, Spend(cost)
  PROVE  work' \in 0 .. MaxWork /\ used + cost <= work'
BY PageAssumption DEF PageInv, Spend

LEMMA PutFailsKeepsInv ==
  ASSUME PageInv, NEW p \in Pages, NEW arrived \in BOOLEAN, PutFails(p, arrived)
  PROVE  PageInv'
<1> DEFINE save == pages[p].save
           next == [pages[p] EXCEPT !.save = NoSave]
           before == [pages EXCEPT ![p] = next]
<1>1. PageOK(pages[p], row) /\ save.text \in Text
  BY SaveTypes
<1>2. work' \in 0 .. MaxWork /\ used <= work'
  <2>1. used + 2 <= work' /\ work' \in 0 .. MaxWork
    BY SpentIsBounded DEF PutFails
  <2> QED
    BY <2>1 DEF PageInv
<1>3. CASE arrived /\ Accepted(save)
  <2>1. PagesOK(pages, With(save.text)) /\ row \in Row /\ row.text \subseteq row.kept
    BY PagesWith DEF PageInv
  <2>2. PageOK(next, With(save.text))
    BY <2>1, GivenUpIsOK DEF PagesOK
  <2> HIDE DEF next
  <2>3. PagesOK(before, With(save.text))
    BY <2>1, <2>2, OnePageChanges
  <2>4. Stored(save.text, before)
    BY <1>3 DEF PutFails, next
  <2> HIDE DEF before, save
  <2>5. /\ row' \in Row /\ row'.text \subseteq row'.kept /\ row.kept \subseteq row'.kept
        /\ PagesOK(pages', row')
    BY <1>1, <2>1, <2>3, <2>4, StoringKeeps
  <2> QED
    BY <1>2, <2>5 DEF PutFails, PageInv, Failed
<1>4. CASE ~(arrived /\ Accepted(save))
  <2>1. PagesOK(before, row)
    BY OnePageChanges, GivenUpIsOK DEF PagesOK, PageInv
  <2>2. pages' = before /\ UNCHANGED row
    BY <1>4 DEF PutFails, GivenUp
  <2> QED
    BY <1>2, <2>1, <2>2 DEF PutFails, PageInv, Failed
<1> QED
  BY <1>3, <1>4

LEMMA SaveContinuesKeepsInv ==
  ASSUME PageInv, NEW p \in Pages, SaveContinues(p)
  PROVE  PageInv'
<1> DEFINE save == pages[p].save
<1>1. /\ PageOK(pages[p], row) /\ pages[p] \in Page /\ save \in Save
      /\ save.applies \in 0 .. MaxWork
  BY SaveTypes
<1>2. row \in Row /\ row.text \subseteq row.kept /\ PagesOK(pages, row)
  BY DEF PageInv
<1>3. CASE save.at = "load" \/ row.text = save.text
  <2> DEFINE loaded == Loaded(pages[p], Now)
             next == [loaded EXCEPT !.save = NoSave]
  <2>1. PageOK(loaded, row)
    BY <1>1, <1>2, NowIsOK DEF Loaded, PageOK, Page, Snapshot
  <2>2. PageOK(next, row)
    BY <2>1, GivenUpIsOK
  <2>3. save.applies \in row.kept \cup {0}
    BY <1>1, <1>2, <1>3 DEF SaveContinues, PageOK, SuggestionIsSaved
  <2>4. save.applies # 0 => save.applies \in Marks
    BY <1>1 DEF Marks
  <2>5. /\ pages' = [pages EXCEPT ![p] = next]
        /\ feedback' = feedback \cup ({save.applies} \ {0})
        /\ UNCHANGED <<row, room, used, work>>
    BY <1>3 DEF SaveContinues, Recorded
  <2>6. PagesOK(pages', row)
    BY <1>2, <2>2, <2>5, OnePageChanges
  <2> QED
    BY <2>3, <2>4, <2>5, <2>6 DEF PageInv
<1>4. CASE ~(save.at = "load" \/ row.text = save.text)
  <2> DEFINE again == [save EXCEPT !.at = "retry", !.current = TRUE]
             next == [pages[p] EXCEPT !.save = again]
  <2>1. save.at = "refetch" /\ save.ready
    BY <1>1, <1>4 DEF SaveContinues, PageOK, OfflineSaveHasTheText, Save
  <2>2. again \in Save
    BY <1>1 DEF Save
  <2>3. SuggestionIsSaved(again, row) /\ OfflineSaveHasTheText(again, row)
    BY <1>1, <2>1 DEF PageOK, SuggestionIsSaved, OfflineSaveHasTheText, Save
  <2>4. PageOK([pages[p] EXCEPT !.save = again], row)
    <3> HIDE DEF again
    <3> QED
      BY <1>1, <2>2, <2>3 DEF PageOK, Page
  <2>5. pages' = [pages EXCEPT ![p] = next]
    BY <1>4 DEF SaveContinues
  <2> QED
    BY <1>4, <2>4, <2>5, PageAlone DEF SaveContinues, PageInv
<1> QED
  BY <1>3, <1>4

\* A new mark is one of the marks, and a write may show it on one page.
LEMMA WriteTypes ==
  ASSUME PageInv, NEW p \in Pages, Write(p)
  PROVE  /\ NewMark \in Marks /\ used' \in Nat /\ work' \in 0 .. MaxWork /\ used' <= work'
         /\ room' \in Room
<1>1. work' \in 0 .. MaxWork /\ used + 1 <= work' /\ used' = used + 1 /\ used \in Nat
  BY SpentIsBounded DEF Write, NewMark, PageInv
<1>2. NewMark \in Marks
  BY <1>1, PageAssumption DEF NewMark, Marks
<1>3. room' \in Room
  BY <1>2 DEF Write, PageInv, Room, Text
<1> QED
  BY <1>1, <1>2, <1>3

LEMMA WrittenIsOK ==
  ASSUME NEW page, NEW stored, PageOK(page, stored), NEW mark \in Marks
  PROVE  PageOK(Written(page, mark), stored) /\ mark \in Shown(Written(page, mark))
<1>1. page \in Page /\ page.live \in Text /\ page.fallback \in Text
  BY PartsOfPage DEF PageOK
<1>2. CASE page.ready
  <2>1. Written(page, mark) = [page EXCEPT !.live = page.live \cup {mark}]
    BY <1>2 DEF Written
  <2> QED
    BY <1>1, <1>2, <2>1 DEF PageOK, Page, Text, Shown
<1>3. CASE ~page.ready
  <2>1. Written(page, mark) = [page EXCEPT !.fallback = page.fallback \cup {mark}]
    BY <1>3 DEF Written
  <2> QED
    BY <1>1, <1>3, <2>1 DEF PageOK, Page, Text, Shown
<1> QED
  BY <1>2, <1>3

LEMMA WriteKeepsInv ==
  ASSUME PageInv, NEW p \in Pages, Type(p) \/ AiApply(p)
  PROVE  PageInv'
<1> DEFINE written == Written(pages[p], NewMark)
<1>1. /\ NewMark \in Marks /\ used' \in Nat /\ work' \in 0 .. MaxWork /\ used' <= work'
      /\ room' \in Room /\ UNCHANGED <<row, feedback>>
  BY WriteTypes DEF Type, AiApply, Write
<1>2. PageOK(written, row) /\ NewMark \in Shown(written)
  BY <1>1, WrittenIsOK DEF PageInv, PagesOK
<1>3. PageOK(StartSave(written, NewMark), row)
  BY <1>1, <1>2, StartedSaveIsOK, PageAssumption DEF Marks
<1> HIDE DEF written
<1>4. \/ pages' = [pages EXCEPT ![p] = written]
      \/ pages' = [pages EXCEPT ![p] = StartSave(written, NewMark)]
  BY DEF Type, AiApply, written
<1>5. PagesOK(pages', row)
  BY <1>2, <1>3, <1>4, OnePageChanges DEF PageInv
<1> QED
  BY <1>1, <1>5 DEF PageInv

LEMMA SocketKeepsInv ==
  ASSUME PageInv, NEW p \in Pages, Connect(p) \/ Sync(p) \/ Break(p)
  PROVE  PageInv'
<1>1. PageOK(pages[p], row) /\ pages[p] \in Page /\ row \in Row /\ room \in Room
  BY DEF PageInv, PagesOK, PageOK
<1>2. CASE Connect(p)
  <2> DEFINE next == [pages[p] EXCEPT !.up = TRUE, !.ready = TRUE]
  <2>1. PageOK(next, row)
    BY <1>1 DEF PageOK, Page
  <2>2. pages' = [pages EXCEPT ![p] = next]
    BY <1>2 DEF Connect
  <2>3. room' \in Room
    BY <1>1, <1>2 DEF Connect, Room, Row
  <2> QED
    BY <1>2, <2>1, <2>2, <2>3, PageAlone DEF Connect
<1>3. CASE Sync(p)
  <2> DEFINE next == [pages[p] EXCEPT !.live = Synced(pages[p])]
  <2>1. Synced(pages[p]) \in Text
    BY <1>1, PartsOfPage DEF Synced, Room, Text
  <2>2. PageOK(next, row)
    BY <1>1, <2>1 DEF PageOK, Page
  <2>3. pages' = [pages EXCEPT ![p] = next]
    BY <1>3 DEF Sync
  <2> QED
    BY <1>1, <1>3, <2>2, <2>3, PageAlone DEF Sync
<1>4. CASE Break(p)
  <2> DEFINE next == [pages[p] EXCEPT !.up = FALSE]
  <2>1. PageOK(next, row)
    BY <1>1 DEF PageOK, Page
  <2>2. pages' = [pages EXCEPT ![p] = next] /\ UNCHANGED <<row, room, used, feedback>>
    BY <1>4 DEF Break
  <2>3. PagesOK(pages', row)
    BY <2>1, <2>2, OnePageChanges DEF PageInv
  <2>4. work' \in 0 .. MaxWork /\ used <= work'
    <3>1. used + 2 <= work' /\ work' \in 0 .. MaxWork
      BY <1>4, SpentIsBounded DEF Break
    <3> QED
      BY <3>1 DEF PageInv
  <2> QED
    BY <2>2, <2>3, <2>4 DEF PageInv
<1> QED
  BY <1>2, <1>3, <1>4

\* A page that has asked for the document.
LEMMA AskedIsOK ==
  ASSUME NEW page, NEW stored, PageOK(page, stored)
  PROVE  PageOK([page EXCEPT !.load = Asked], stored)
<1>1. Asked \in Load /\ Asked.got.current = FALSE
  BY DEF Asked, Load, Nothing, Snapshot, Text
<1> QED
  BY <1>1 DEF PageOK, Page

LEMMA RevertKeepsInv ==
  ASSUME PageInv, NEW p \in Pages, Revert(p)
  PROVE  PageInv'
<1> DEFINE text == {NewMark}
           next == [pages[p] EXCEPT !.load = Asked]
           before == [pages EXCEPT ![p] = next]
<1>1. used + 3 <= work' /\ work' \in 0 .. MaxWork /\ used \in Nat /\ used' = used + 1
  BY SpentIsBounded DEF Revert, PageInv, NewMark
<1>2. text \in Text
  BY <1>1, PageAssumption DEF Text, Marks, NewMark
<1>3. PagesOK(pages, With(text)) /\ row \in Row /\ row.text \subseteq row.kept
  BY PagesWith DEF PageInv
<1>4. PageOK(next, With(text))
  BY <1>3, AskedIsOK DEF PagesOK
<1> HIDE DEF next, text
<1>5. PagesOK(before, With(text))
  BY <1>3, <1>4, OnePageChanges
<1>6. Stored(text, before)
  BY DEF Revert, next, text
<1> HIDE DEF before
<1>7. /\ row' \in Row /\ row'.text \subseteq row'.kept /\ row.kept \subseteq row'.kept
      /\ PagesOK(pages', row')
  BY <1>2, <1>3, <1>5, <1>6, StoringKeeps
<1>8. room' \in Room
  BY DEF Revert, PageInv, Room
<1> QED
  BY <1>1, <1>7, <1>8 DEF Revert, PageInv

LEMMA RelayKeepsInv ==
  ASSUME PageInv, RelayReverts
  PROVE  PageInv'
<1>1. row \in Row /\ room \in Room /\ PagesOK(pages, row)
  BY DEF PageInv
<1>2. ASSUME NEW p \in Pages
      PROVE  PageOK(Told(pages[p]), row)
  <2>1. PageOK(pages[p], row) /\ pages[p] \in Page
    BY <1>1 DEF PagesOK, PageOK
  <2> DEFINE away == [pages[p] EXCEPT !.up = FALSE, !.ready = FALSE, !.live = {}]
  <2>2. PageOK(away, row)
    BY <2>1 DEF PageOK, Page, Text
  <2>3. Told(pages[p]) = [away EXCEPT !.load = Asked]
    BY <2>1 DEF Told, Page
  <2> QED
    BY <2>2, <2>3, AskedIsOK
<1>3. PagesOK(pages', row)
  BY <1>1, <1>2 DEF RelayReverts, PagesOK, PageOK
<1>4. room' \in Room
  BY <1>1 DEF RelayReverts, Room, Row, Text
<1> QED
  BY <1>3, <1>4 DEF RelayReverts, PageInv

LEMMA PageStep == PageInv /\ [PageNext]_pageVars => PageInv'
<1>1. PageInv /\ UNCHANGED pageVars => PageInv'
  BY DEF PageInv, pageVars, PagesOK, PageOK
<1> QED
  BY <1>1, RelayKeepsInv, LoadKeepsInv, AutosaveKeepsInv, PutAcceptedKeepsInv,
     PutRefusedKeepsInv, PutFailsKeepsInv, SaveContinuesKeepsInv, WriteKeepsInv,
     SocketKeepsInv, RevertKeepsInv
  DEF PageNext

LEMMA PageInvariant == PageSpec => []PageInv
  BY PageInvInit, PageStep, PTL DEF PageSpec

------------------------------------------------------------------------------
(* Theorems *)

\* Whoever holds the current revision holds its text, whatever was saved, reverted,
\* loaded late or lost (the revision a page sends with a save, DocumentPage.tsx).
THEOREM PagesAreTyped == PageSpec => []PageTypeOK
<1>1. PageInv => PageTypeOK
  BY InvIsTyped
<1> QED
  BY <1>1, PageInvariant, PTL

\* A suggestion that was recorded as applied is in a version of the document, for any
\* number of pages, saves, retries and reverts (handleAiApply).
THEOREM AppliedSuggestionsAreKept == PageSpec => []AppliedIsKept
<1>1. PageInv => AppliedIsKept
  BY DEF PageInv, AppliedIsKept
<1> QED
  BY <1>1, PageInvariant, PTL

LEMMA StoredText ==
  ASSUME NEW before \in [Pages -> Page], NEW text, Stored(text, before), row'.text # row.text
  PROVE  row'.text = text /\ \A p \in Pages : pages'[p].save.at = before[p].save.at
<1>1. /\ row' = [text |-> text, kept |-> row.kept \cup text]
      /\ pages' = [p \in Pages |-> Outdated(before[p])]
  BY DEF Stored
<1>2. ASSUME NEW page \in Page PROVE Outdated(page).save.at = page.save.at
  BY PartsOfPage DEF Outdated, Page, Save
<1> QED
  BY <1>1, <1>2

\* The only page whose text replaces the stored one is the one whose save ends.
LEMMA OnlySavesStore ==
  ASSUME PageInv, PageNext, NEW p \in Pages, Saves(p)
  PROVE  Accepted(pages[p].save) /\ row'.text = pages[p].save.text
<1>1. /\ row'.text # row.text /\ pages[p].save.at \in {"put", "retry"}
      /\ pages'[p].save.at \notin {"put", "retry"}
  BY DEF Saves
<1>2. pages \in [Pages -> Page]
  BY DEF PageInv, PagesOK
<1>3. ASSUME NEW q \in Pages, NEW save \in Save, Accepted(pages[q].save),
             Stored(pages[q].save.text, [pages EXCEPT ![q].save = save])
      PROVE  Accepted(pages[p].save) /\ row'.text = pages[p].save.text
  <2> DEFINE before == [pages EXCEPT ![q] = [pages[q] EXCEPT !.save = save]]
  <2>1. [pages[q] EXCEPT !.save = save] \in Page
    BY <1>2, <1>3 DEF Page
  <2>2. before \in [Pages -> Page] /\ (p # q => before[p] = pages[p])
    BY <1>2, <2>1
  <2>3. Stored(pages[q].save.text, before)
    BY <1>3
  <2> HIDE DEF before
  <2>4. /\ row'.text = pages[q].save.text /\ pages'[p].save.at = before[p].save.at
    BY <1>1, <2>2, <2>3, StoredText
  <2> QED
    BY <1>1, <1>3, <2>2, <2>4
<1>4. ASSUME NEW q \in Pages, PutAccepted(q)
      PROVE  Accepted(pages[p].save) /\ row'.text = pages[p].save.text
  <2> DEFINE save == [NoSave EXCEPT !.at = "load", !.applies = pages[q].save.applies]
  <2>1. save \in Save
    <3>1. pages[q].save.applies \in 0 .. MaxWork
      BY SaveTypes
    <3> QED
      BY <3>1 DEF NoSave, Save, Text
  <2>2. /\ Accepted(pages[q].save)
        /\ Stored(pages[q].save.text, [pages EXCEPT ![q].save = save])
    BY <1>4 DEF PutAccepted
  <2> HIDE DEF save
  <2> QED
    BY <1>3, <2>1, <2>2
<1>5. ASSUME NEW q \in Pages, NEW arrived \in BOOLEAN, PutFails(q, arrived)
      PROVE  Accepted(pages[p].save) /\ row'.text = pages[p].save.text
  <2>1. NoSave \in Save
    BY PageAssumption DEF NoSave, Save, Text
  <2>2. /\ Accepted(pages[q].save)
        /\ Stored(pages[q].save.text, [pages EXCEPT ![q].save = NoSave])
    BY <1>1, <1>5 DEF PutFails
  <2> QED
    BY <1>3, <2>1, <2>2
<1>6. ASSUME NEW q \in Pages, Revert(q)
      PROVE  FALSE
  <2> DEFINE before == [pages EXCEPT ![q] = [pages[q] EXCEPT !.load = Asked]]
  <2>1. Asked \in Load
    BY DEF Asked, Load, Nothing, Snapshot, Text
  <2>2. before \in [Pages -> Page] /\ before[p].save = pages[p].save
    BY <1>2, <2>1 DEF Page
  <2>3. Stored({NewMark}, before)
    BY <1>6 DEF Revert
  <2> HIDE DEF before
  <2>4. pages'[p].save.at = before[p].save.at
    BY <1>1, <2>2, <2>3, StoredText
  <2> QED
    BY <1>1, <2>2, <2>4
<1>7. CASE UNCHANGED row
  BY <1>1, <1>7
<1> QED
  BY <1>4, <1>5, <1>6, <1>7
  DEF PageNext, RelayReverts, Answer, Arrive, Autosave, PutRefused, SaveContinues, Type,
      AiApply, Write, Connect, Sync, Break

\* A page that was not in live sync when its save began never takes anything out of
\* the stored text, however many others save, revert and reconnect (handleSave).
THEOREM OfflineSavesNeverTakeOut == PageSpec => OfflineSavesKeepText
<1> DEFINE Keeps == \A p \in Pages :
             Saves(p) /\ ~pages[p].save.ready => row.text \subseteq row'.text
<1>1. PageInv /\ PageNext => Keeps
  <2> SUFFICES ASSUME PageInv, PageNext, NEW p \in Pages, Saves(p), ~pages[p].save.ready
               PROVE  row.text \subseteq row'.text
    OBVIOUS
  <2>1. OfflineSaveHasTheText(pages[p].save, row) /\ pages[p].save.at \in {"put", "retry"}
    BY DEF PageInv, PagesOK, PageOK, Saves
  <2>2. Accepted(pages[p].save) /\ row'.text = pages[p].save.text
    BY OnlySavesStore
  <2> QED
    BY <2>1, <2>2 DEF OfflineSaveHasTheText, Accepted
<1>2. PageInv /\ [PageNext]_pageVars => [Keeps]_pageVars
  BY <1>1
<1> QED
  BY <1>2, PageInvariant, PTL DEF PageSpec, OfflineSavesKeepText

------------------------------------------------------------------------------
(* The marked ranges of a text *)

LEMMA LeastOfNaturals ==
  ASSUME NEW S \in SUBSET Nat, S # {}
  PROVE  \E n \in S : \A k \in S : n <= k
<1>1. PICK n \in S : \A k \in S : ~(<<k, n>> \in OpToRel(<, Nat))
  BY NatLessThanWellFounded, WFMin
<1>2. \A k \in S : ~(k < n)
  BY <1>1 DEF OpToRel
<1> QED
  BY <1>2

Ranges == [format : InlineFormats, start : Nat, end : Nat, contentStart : Nat, contentEnd : Nat]

\* What is between two markers that stand in a text.
RangesOf(v) ==
  {r \in Ranges :
     /\ r.contentStart = r.start + Len(Opening(r.format)) /\ r.contentStart <= r.contentEnd
     /\ r.end = r.contentEnd + Len(Closing(r.format)) /\ r.end <= Len(v)
     /\ Slice(v, r.start, r.contentStart) = Opening(r.format)
     /\ Slice(v, r.contentEnd, r.end) = Closing(r.format)}

LEMMA MarkersHaveWidth ==
  ASSUME NEW f \in InlineFormats
  PROVE  /\ Opening(f) \in Seq(Symbols) /\ Len(Opening(f)) \in 1 .. 2
         /\ Closing(f) \in Seq(Symbols) /\ Len(Closing(f)) \in 1 .. 2
<1>1. CASE f = "bold"
  BY <1>1 DEF Opening, Closing, Symbols
<1>2. CASE f = "italic"
  BY <1>2 DEF Opening, Closing, Symbols
<1>3. CASE f = "underline"
  BY <1>3 DEF Opening, Closing, Symbols
<1>4. CASE f = "strike"
  BY <1>4 DEF Opening, Closing, Symbols
<1> QED
  BY <1>1, <1>2, <1>3, <1>4 DEF InlineFormats

\* A pair that is found stands in the text, between the cursor and the end of the span.
LEMMA PairsStand ==
  ASSUME NEW v \in Seq(Symbols), NEW x \in Spans(v), NEW p \in Pairs(v, x.from, x.cursor, x.to)
  PROVE  p \in RangesOf(v) /\ x.cursor <= p.start /\ p.end <= x.to
<1> DEFINE Opens(f) == Least(Places(v, x.from, x.cursor, x.to, f, Opening(f)))
           From(f, open) ==
             {[format |-> f, start |-> open, end |-> close + Len(Closing(f)),
               contentStart |-> open + Len(Opening(f)), contentEnd |-> close] :
                close \in Least(Places(v, x.from, open + Len(Opening(f)), x.to, f, Closing(f)))}
           Of(f) == UNION {From(f, open) : open \in Opens(f)}
<1>0. p \in UNION {Of(f) : f \in InlineFormats}
  BY Zenon DEF Pairs
<1> HIDE DEF Of
<1>1. PICK f \in InlineFormats : p \in Of(f)
  BY <1>0
<1> USE DEF Of
<1> HIDE DEF From, Opens
<1>2. PICK open \in Opens(f) : p \in From(f, open)
  BY <1>1
<1> USE DEF From, Opens
<1>3. PICK close \in Least(Places(v, x.from, open + Len(Opening(f)), x.to, f, Closing(f))) :
        p = [format |-> f, start |-> open, end |-> close + Len(Closing(f)),
             contentStart |-> open + Len(Opening(f)), contentEnd |-> close]
  BY <1>2, Zenon
<1>4. /\ x.cursor \in Nat /\ x.to \in 0 .. Len(v) /\ Len(v) \in Nat
      /\ Len(Opening(f)) \in 1 .. 2 /\ Len(Closing(f)) \in 1 .. 2
  BY MarkersHaveWidth DEF Spans
<1>5. /\ open \in x.cursor .. x.to - Len(Opening(f))
      /\ Slice(v, open, open + Len(Opening(f))) = Opening(f)
  BY <1>2, Zenon DEF Least, Places
<1>6. /\ close \in open + Len(Opening(f)) .. x.to - Len(Closing(f))
      /\ Slice(v, close, close + Len(Closing(f))) = Closing(f)
  BY <1>3, Zenon DEF Least, Places
<1> HIDE DEF From, Opens
<1>7. PICK o \in Nat, c \in Nat : o = Len(Opening(f)) /\ c = Len(Closing(f))
  <2>1. Len(Opening(f)) \in Nat /\ Len(Closing(f)) \in Nat
    BY <1>4, SMT
  <2>. QED  BY <2>1, Zenon
<1>8. /\ p = [format |-> f, start |-> open, end |-> close + c,
               contentStart |-> open + o, contentEnd |-> close]
      /\ open \in Nat /\ close \in Nat /\ x.cursor <= open
      /\ open + o <= close /\ close + c <= x.to /\ x.to <= Len(v)
  BY <1>3, <1>4, <1>5, <1>6, <1>7
<1>9. p \in Ranges
  BY <1>8, <1>7 DEF Ranges
<1>10. /\ p.format = f /\ p.start = open /\ p.end = close + c
       /\ p.contentStart = open + o /\ p.contentEnd = close
  BY <1>8
<1>11. /\ Slice(v, p.start, p.contentStart) = Opening(p.format)
       /\ Slice(v, p.contentEnd, p.end) = Closing(p.format)
  BY <1>5, <1>6, <1>7, <1>10
<1> QED
  BY <1>4, <1>7, <1>8, <1>9, <1>10, <1>11 DEF RangesOf

LEMMA FirstIsOne ==
  ASSUME NEW v \in Seq(Symbols), NEW pairs \in SUBSET RangesOf(v), pairs # {}
  PROVE  First(pairs) \in pairs
<1> DEFINE starts == {n \in Nat : \E p \in pairs : p.start = n}
<1>1. \A p \in pairs : p.start \in Nat
  BY DEF RangesOf, Ranges
<1>2. PICK n \in starts : \A k \in starts : n <= k
  BY <1>1, LeastOfNaturals
<1>3. \E p \in pairs : \A q \in pairs : p.start <= q.start
  BY <1>1, <1>2
<1> QED
  BY <1>3 DEF First

\* Where the search goes on, there is less to be searched.
LEMMA SearchesShrink ==
  ASSUME NEW v \in Seq(Symbols), NEW x \in Spans(v), Pairs(v, x.from, x.cursor, x.to) # {},
         NEW next, next = First(Pairs(v, x.from, x.cursor, x.to))
  PROVE  /\ next \in RangesOf(v)
         /\ Inside(next) \in Spans(v) /\ Inside(next).to - Inside(next).cursor < x.to - x.cursor
         /\ After(x, next) \in Spans(v)
         /\ After(x, next).to - After(x, next).cursor < x.to - x.cursor
<1>1. next \in RangesOf(v) /\ x.cursor <= next.start /\ next.end <= x.to
  BY PairsStand, FirstIsOne
<1> DEFINE wide == Len(Opening(next.format))
           broad == Len(Closing(next.format))
<1>2. wide \in 1 .. 2 /\ broad \in 1 .. 2
  BY <1>1, MarkersHaveWidth DEF RangesOf, Ranges
<1>3. /\ next.start \in Nat /\ next.end \in Nat /\ next.end <= Len(v)
      /\ next.contentStart \in Nat /\ next.contentEnd \in Nat
      /\ next.contentStart <= next.contentEnd
      /\ next.contentStart = next.start + wide
      /\ next.end = next.contentEnd + broad
  BY <1>1 DEF RangesOf, Ranges
<1> HIDE DEF wide, broad
<1>4. next.start < next.contentStart /\ next.contentEnd < next.end
  BY <1>2, <1>3
<1>5. x \in Spans(v) /\ Len(v) \in Nat
  OBVIOUS
<1>6. /\ Inside(next) \in Spans(v)
      /\ Inside(next).to - Inside(next).cursor < x.to - x.cursor
  BY <1>1, <1>3, <1>4, <1>5 DEF Spans, Inside
<1>7. /\ After(x, next) \in Spans(v)
      /\ After(x, next).to - After(x, next).cursor < x.to - x.cursor
  BY <1>1, <1>3, <1>4, <1>5 DEF Spans, After
<1> QED
  BY <1>1, <1>6, <1>7

LEMMA NothingInNothing ==
  ASSUME NEW v \in Seq(Symbols), NEW x \in Spans(v), x.to - x.cursor < 0
  PROVE  Pairs(v, x.from, x.cursor, x.to) = {}
<1> SUFFICES ASSUME Pairs(v, x.from, x.cursor, x.to) # {} PROVE FALSE
  OBVIOUS
<1>1. PICK p \in Pairs(v, x.from, x.cursor, x.to) : TRUE
  OBVIOUS
<1>2. p \in RangesOf(v) /\ x.cursor <= p.start /\ p.end <= x.to
  BY <1>1, PairsStand
<1>3. Len(Opening(p.format)) \in Nat /\ Len(Closing(p.format)) \in Nat
  BY <1>2, MarkersHaveWidth DEF RangesOf, Ranges
<1> QED
  BY <1>2, <1>3 DEF RangesOf, Ranges, Spans

\* In has, for every span of less than n, what the search of it collects.
CollectsBelow(v, In, n) ==
  /\ In = [x \in Spans(v) |-> In[x]]
  /\ \A x \in Spans(v) : x.to - x.cursor < n => In[x] = Collected(v, In, x)

LEMMA CollectsNext ==
  ASSUME NEW v \in Seq(Symbols), NEW n \in Nat, NEW In, CollectsBelow(v, In, n)
  PROVE  CollectsBelow(v, [x \in Spans(v) |-> Collected(v, In, x)], n + 1)
<1> DEFINE Out == [x \in Spans(v) |-> Collected(v, In, x)]
<1>1. ASSUME NEW x \in Spans(v), x.to - x.cursor < n + 1
      PROVE  Collected(v, In, x) = Collected(v, Out, x)
  <2> DEFINE pairs == Pairs(v, x.from, x.cursor, x.to)
             next == First(pairs)
  <2>1. CASE pairs = {}
    BY <2>1 DEF Collected
  <2>2. CASE pairs # {}
    <3>1. /\ Inside(next) \in Spans(v) /\ Inside(next).to - Inside(next).cursor < x.to - x.cursor
          /\ After(x, next) \in Spans(v)
          /\ After(x, next).to - After(x, next).cursor < x.to - x.cursor
      BY <2>2, SearchesShrink
    <3> HIDE DEF next
    <3>2. \A y \in Spans(v) : y.to \in Nat /\ y.cursor \in Nat
      BY DEF Spans
    <3>3. Inside(next).to - Inside(next).cursor < n /\ After(x, next).to - After(x, next).cursor < n
      BY <1>1, <3>1, <3>2
    <3>4. In[Inside(next)] = Out[Inside(next)] /\ In[After(x, next)] = Out[After(x, next)]
      BY <3>1, <3>3 DEF CollectsBelow
    <3> HIDE DEF Out
    <3> QED
      BY <3>4, Zenon DEF Collected, next
  <2> QED
    BY <2>1, <2>2
<1> QED
  BY <1>1 DEF CollectsBelow

LEMMA SearchesCollect ==
  ASSUME NEW v \in Seq(Symbols)
  PROVE  \E In : In = [x \in Spans(v) |-> Collected(v, In, x)]
<1> DEFINE failing == {n \in Nat : ~\E In : CollectsBelow(v, In, n)}
<1>1. CollectsBelow(v, [x \in Spans(v) |-> {}], 0)
  <2>1. ASSUME NEW x \in Spans(v), x.to - x.cursor < 0
        PROVE  Collected(v, [y \in Spans(v) |-> {}], x) = {}
    BY <2>1, NothingInNothing DEF Collected
  <2> QED
    BY <2>1 DEF CollectsBelow
<1>2. failing = {}
  <2> SUFFICES ASSUME failing # {} PROVE FALSE
    OBVIOUS
  <2>1. PICK n \in failing : \A k \in failing : n <= k
    BY LeastOfNaturals
  <2>2. n # 0
    BY <1>1, <2>1
  <2>3. n - 1 \in Nat /\ n - 1 \notin failing
    BY <2>1, <2>2
  <2>4. PICK In : CollectsBelow(v, In, n - 1)
    BY <2>3
  <2>5. CollectsBelow(v, [x \in Spans(v) |-> Collected(v, In, x)], (n - 1) + 1)
    BY <2>3, <2>4, CollectsNext
  <2>6. (n - 1) + 1 = n
    BY <2>1
  <2> QED
    BY <2>1, <2>5, <2>6
<1>3. Len(v) + 1 \in Nat
  OBVIOUS
<1>4. PICK In : CollectsBelow(v, In, Len(v) + 1)
  BY <1>2, <1>3
<1>5. \A x \in Spans(v) : x.to - x.cursor < Len(v) + 1
  BY DEF Spans
<1> QED
  BY <1>4, <1>5 DEF CollectsBelow

\* collectInlineMarkerRanges: what is found are pairs of markers that stand in the text,
\* those inside of a pair and those after it too.
THEOREM MarkedRangesStand ==
  ASSUME NEW v \in Seq(Symbols)
  PROVE  MarkerRanges(v) \subseteq RangesOf(v)
<1> DEFINE In == CHOOSE In : In = [x \in Spans(v) |-> Collected(v, In, x)]
           failing == {n \in Nat : \E x \in Spans(v) :
                         x.to - x.cursor < n /\ ~(In[x] \subseteq RangesOf(v))}
<1>1. MarkerRanges(v) = In[Whole(v)]
  BY DEF MarkerRanges
<1>2. In = [x \in Spans(v) |-> Collected(v, In, x)]
  BY SearchesCollect
<1> HIDE DEF In
<1>3. \A x \in Spans(v) : In[x] = Collected(v, In, x)
  BY <1>2
<1>4. \A y \in Spans(v) : y.to \in 0 .. Len(v) /\ y.cursor \in 0 .. Len(v)
  BY DEF Spans
<1>5. failing = {}
  <2> SUFFICES ASSUME failing # {} PROVE FALSE
    OBVIOUS
  <2>1. PICK n \in failing : \A k \in failing : n <= k
    BY LeastOfNaturals
  <2>2. PICK x \in Spans(v) : x.to - x.cursor < n /\ ~(In[x] \subseteq RangesOf(v))
    BY <2>1
  <2> DEFINE pairs == Pairs(v, x.from, x.cursor, x.to)
             next == First(pairs)
  <2>3. pairs # {}
    BY <1>3, <2>2 DEF Collected
  <2>4. n # 0
    BY <2>2, <2>3, NothingInNothing
  <2>5. /\ next \in RangesOf(v)
        /\ Inside(next) \in Spans(v) /\ Inside(next).to - Inside(next).cursor < x.to - x.cursor
        /\ After(x, next) \in Spans(v)
        /\ After(x, next).to - After(x, next).cursor < x.to - x.cursor
    BY <2>3, SearchesShrink
  <2>6. In[x] = {next} \cup In[Inside(next)] \cup In[After(x, next)]
    BY <1>3, <2>3 DEF Collected
  <2> HIDE DEF next
  <2>7. n - 1 \in Nat /\ n - 1 \notin failing
    BY <2>1, <2>4
  <2>8. /\ Inside(next).to - Inside(next).cursor < n - 1
        /\ After(x, next).to - After(x, next).cursor < n - 1
    <3> DEFINE left(y) == y.to - y.cursor
    <3>1. \A y \in Spans(v) : left(y) \in Int
      BY <1>4
    <3>2. /\ left(x) \in Int /\ left(Inside(next)) \in Int /\ left(After(x, next)) \in Int
          /\ left(Inside(next)) < left(x) /\ left(After(x, next)) < left(x) /\ left(x) < n
      BY <2>2, <2>5, <3>1
    <3> HIDE DEF left
    <3>3. left(Inside(next)) < n - 1 /\ left(After(x, next)) < n - 1
      BY <2>1, <3>2
    <3> QED
      BY <3>3 DEF left
  <2>9. In[Inside(next)] \subseteq RangesOf(v) /\ In[After(x, next)] \subseteq RangesOf(v)
    BY <2>5, <2>7, <2>8
  <2> QED
    BY <2>2, <2>5, <2>6, <2>9
<1>6. Whole(v) \in Spans(v) /\ Whole(v).to - Whole(v).cursor < Len(v) + 1 /\ Len(v) + 1 \in Nat
  BY DEF Whole, Spans
<1> QED
  BY <1>1, <1>5, <1>6

------------------------------------------------------------------------------
(* The widening of a selection *)

Selections == [start : Nat, end : Nat]

\* One turn of the loop of normalizeInlineSelection, for a range that is clipped.
WidenedBy(t, r) ==
  [start |-> IF r.start < t.start THEN r.start ELSE t.start,
   end |-> IF t.end < r.end THEN r.end ELSE t.end]

\* What clips a range goes on clipping it when it is widened.
LEMMA ClipsGrows ==
  ASSUME NEW t \in Selections, NEW u \in Selections, Covers(u, t), NEW r \in Ranges, Clips(t, r)
  PROVE  Clips(u, r)
BY DEF Selections, Ranges, Covers, Clips

\* A turn of the loop stays inside of every selection that needs no turn.
LEMMA WideningStaysInside ==
  ASSUME NEW t \in Selections, NEW u \in Selections, Covers(u, t),
         NEW r \in Ranges, Clips(t, r), Clips(u, r) => Covers(u, r)
  PROVE  WidenedBy(t, r) \in Selections /\ Covers(u, WidenedBy(t, r)) /\ Covers(WidenedBy(t, r), t)
<1>1. Covers(u, r)
  BY ClipsGrows
<1> QED
  BY <1>1 DEF Selections, Ranges, Covers, WidenedBy

LEMMA UnclippedAre ==
  ASSUME NEW ranges, NEW s \in Selections, NEW end \in Nat, NEW t \in Unclipped(ranges, s, end)
  PROVE  t \in Selections /\ Covers(t, s) /\ t.end <= end
BY DEF Unclipped, Selections, Covers

\* What both of two such selections select is one as well.
LEMMA UnclippedMeet ==
  ASSUME NEW ranges \in SUBSET Ranges, NEW s \in Selections, NEW end \in Nat,
         NEW t \in Unclipped(ranges, s, end), NEW u \in Unclipped(ranges, s, end)
  PROVE  [start |-> IF t.start < u.start THEN u.start ELSE t.start,
          end |-> IF t.end < u.end THEN t.end ELSE u.end] \in Unclipped(ranges, s, end)
<1> DEFINE m == [start |-> IF t.start < u.start THEN u.start ELSE t.start,
                 end |-> IF t.end < u.end THEN t.end ELSE u.end]
<1>1. /\ t \in [start : 0 .. s.start, end : s.end .. end]
      /\ u \in [start : 0 .. s.start, end : s.end .. end]
      /\ \A r \in ranges : (Clips(t, r) => Covers(t, r)) /\ (Clips(u, r) => Covers(u, r))
  BY DEF Unclipped
<1>2. m \in [start : 0 .. s.start, end : s.end .. end] /\ m \in Selections
  BY <1>1 DEF Selections
<1>3. t \in Selections /\ u \in Selections /\ Covers(t, m) /\ Covers(u, m)
  BY <1>1 DEF Selections, Covers
<1>4. ASSUME NEW r \in ranges, Clips(m, r)
      PROVE  Covers(m, r)
  <2>1. Covers(t, r) /\ Covers(u, r)
    BY <1>1, <1>2, <1>3, <1>4, ClipsGrows
  <2> QED
    BY <2>1, <1>3 DEF Covers, Selections, Ranges
<1> HIDE DEF m
<1>5. m \in Unclipped(ranges, s, end)
  BY <1>2, <1>4 DEF Unclipped
<1> QED
  BY <1>5 DEF m

\* All of the text is one, so there is a smallest.
LEMMA SmallestExists ==
  ASSUME NEW ranges \in SUBSET Ranges, NEW s \in Selections, NEW end \in Nat, s.end <= end,
         \A r \in ranges : r.end <= end
  PROVE  \E t \in Unclipped(ranges, s, end) : \A u \in Unclipped(ranges, s, end) : Covers(u, t)
<1> DEFINE all == Unclipped(ranges, s, end)
           ends == {n \in s.end .. end : \E t \in all : t.end = n}
           offsets == {n \in 0 .. s.start : \E t \in all : t.start = s.start - n}
<1>1. [start |-> 0, end |-> end] \in all
  BY DEF Unclipped, Selections, Covers, Ranges
<1>2. \A t \in all : t.start \in 0 .. s.start /\ t.end \in s.end .. end
  BY DEF Unclipped
<1>3. s.start \in Nat /\ s.end \in Nat
  BY DEF Selections
<1>4. ends # {} /\ ends \subseteq Nat /\ offsets # {} /\ offsets \subseteq Nat
  BY <1>1, <1>2, <1>3
<1> HIDE DEF all
<1>5. PICK e \in ends : \A n \in ends : e <= n
  BY <1>4, LeastOfNaturals
<1>6. PICK o \in offsets : \A n \in offsets : o <= n
  BY <1>4, LeastOfNaturals
<1>7. PICK t \in all, u \in all : t.end = e /\ u.start = s.start - o
  BY <1>5, <1>6
<1>8. \A w \in all : e <= w.end /\ w.start <= s.start - o
  <2> SUFFICES ASSUME NEW w \in all PROVE e <= w.end /\ w.start <= s.start - o
    OBVIOUS
  <2>1. w.end \in ends /\ s.start - w.start \in offsets
    BY <1>2, <1>3
  <2>2. o <= s.start - w.start /\ e <= w.end
    BY <1>5, <1>6, <2>1
  <2> QED
    BY <1>2, <1>3, <1>4, <1>6, <2>2
<1> DEFINE m == [start |-> IF t.start < u.start THEN u.start ELSE t.start,
                 end |-> IF t.end < u.end THEN t.end ELSE u.end]
<1>9. m \in all
  BY <1>7, UnclippedMeet DEF all
<1>10. m.start = s.start - o /\ m.end = e
  BY <1>2, <1>3, <1>7, <1>8
<1> HIDE DEF m
<1>11. \A w \in all : Covers(w, m)
  BY <1>8, <1>10 DEF Covers
<1> QED
  BY <1>9, <1>11 DEF all

LEMMA SmallestSelection ==
  ASSUME NEW v \in Seq(Symbols), NEW s \in Selections, s.end <= Len(v)
  PROVE  /\ NormalizeInlineSelection(v, s) \in Unclipped(MarkerRanges(v), s, Len(v))
         /\ \A u \in Unclipped(MarkerRanges(v), s, Len(v)) : Covers(u, NormalizeInlineSelection(v, s))
<1> DEFINE all == Unclipped(MarkerRanges(v), s, Len(v))
<1>1. MarkerRanges(v) \in SUBSET Ranges /\ \A r \in MarkerRanges(v) : r.end <= Len(v)
  BY MarkedRangesStand DEF RangesOf
<1>2. \E t \in all : \A u \in all : Covers(u, t)
  BY <1>1, SmallestExists
<1> HIDE DEF all
<1>3. Smallest(all) \in all /\ \A u \in all : Covers(u, Smallest(all))
  BY <1>2, Zenon DEF Smallest
<1> QED
  BY <1>3 DEF all, NormalizeInlineSelection

LEMMA CoversIsOrder ==
  ASSUME NEW t \in Selections, NEW u \in Selections, Covers(t, u), Covers(u, t)
  PROVE  t = u
BY DEF Selections, Covers

\* normalizeInlineSelection: where the loop has come to is in every selection around s that
\* clips no range; each turn stays there, and a selection no turn changes is the smallest.
THEOREM WideningEndsAtSmallest ==
  ASSUME NEW v \in Seq(Symbols), NEW s \in Selections, s.end <= Len(v),
         NEW t \in Selections, Covers(t, s), t.end <= Len(v),
         \A u \in Unclipped(MarkerRanges(v), s, Len(v)) : Covers(u, t)
  PROVE  /\ \A r \in MarkerRanges(v) : Clips(t, r) =>
              /\ WidenedBy(t, r) \in Selections /\ Covers(WidenedBy(t, r), s)
              /\ WidenedBy(t, r).end <= Len(v)
              /\ \A u \in Unclipped(MarkerRanges(v), s, Len(v)) : Covers(u, WidenedBy(t, r))
         /\ (\A r \in MarkerRanges(v) : Clips(t, r) => WidenedBy(t, r) = t)
              => t = NormalizeInlineSelection(v, s)
<1> DEFINE all == Unclipped(MarkerRanges(v), s, Len(v))
<1>1. \A r \in MarkerRanges(v) : r \in Ranges /\ r.end <= Len(v)
  BY MarkedRangesStand DEF RangesOf
<1>2. ASSUME NEW u \in all
      PROVE  u \in Selections /\ \A r \in MarkerRanges(v) : Clips(u, r) => Covers(u, r)
  <2>1. u \in Selections
    BY <1>2, UnclippedAre
  <2>2. \A r \in MarkerRanges(v) : Clips(u, r) => Covers(u, r)
    BY <1>2, Zenon DEF Unclipped
  <2> QED
    BY <2>1, <2>2
<1>3. ASSUME NEW r \in MarkerRanges(v), Clips(t, r)
      PROVE  /\ WidenedBy(t, r) \in Selections /\ Covers(WidenedBy(t, r), s)
             /\ WidenedBy(t, r).end <= Len(v)
  BY <1>1, <1>3 DEF WidenedBy, Covers, Selections, Ranges
<1>4. ASSUME NEW r \in MarkerRanges(v), Clips(t, r), NEW u \in all
      PROVE  Covers(u, WidenedBy(t, r))
  BY <1>1, <1>2, <1>4, WideningStaysInside
<1>5. ASSUME \A r \in MarkerRanges(v) : Clips(t, r) => WidenedBy(t, r) = t
      PROVE  t = NormalizeInlineSelection(v, s)
  <2>1. ASSUME NEW r \in MarkerRanges(v), Clips(t, r)
        PROVE  Covers(t, r)
    BY <1>1, <1>5, <2>1 DEF WidenedBy, Covers, Selections, Ranges
  <2>2. t \in [start : 0 .. s.start, end : s.end .. Len(v)]
    BY DEF Selections, Covers
  <2>3. t \in all
    BY <2>1, <2>2 DEF Unclipped
  <2>4. NormalizeInlineSelection(v, s) \in all /\ Covers(t, NormalizeInlineSelection(v, s))
    BY <2>3, SmallestSelection
  <2> QED
    BY <1>2, <2>4, CoversIsOrder
<1> QED
  BY <1>3, <1>4, <1>5

------------------------------------------------------------------------------
(* Formats that are put on and come off *)

LEMMA SliceIs ==
  ASSUME NEW v \in Seq(Symbols), NEW from \in 0 .. Len(v), NEW to \in from .. Len(v)
  PROVE  /\ Slice(v, from, to) \in Seq(Symbols)
         /\ Len(Slice(v, from, to)) = to - from
         /\ \A i \in 1 .. to - from : Slice(v, from, to)[i] = v[from + i]
<1>1. \A i \in from + 1 .. to : v[i] \in Symbols
  BY ElementOfSeq
<1> QED
  BY <1>1, SubSeqProperties DEF Slice

LEMMA SliceOf ==
  ASSUME NEW v \in Seq(Symbols), NEW from \in Nat, NEW n \in Nat, from + n <= Len(v)
  PROVE  /\ Slice(v, from, from + n) \in Seq(Symbols)
         /\ Len(Slice(v, from, from + n)) = n
         /\ \A i \in 1 .. n : Slice(v, from, from + n)[i] = v[from + i]
<1>1. from \in 0 .. Len(v) /\ from + n \in from .. Len(v) /\ (from + n) - from = n
  OBVIOUS
<1> QED
  BY <1>1, SliceIs

\* w is x and then y, and its slices in x are those of x.
Joins(w, x, y) ==
  /\ w \in Seq(Symbols) /\ w = x \o y /\ Len(w) = Len(x) + Len(y)
  /\ Slice(w, Len(x), Len(x) + Len(y)) = y
  /\ \A from \in 0 .. Len(x) : \A to \in from .. Len(x) : Slice(w, from, to) = Slice(x, from, to)

\* v from one place on and u from another one on have the same n symbols.
Agree(v, from, u, base, n) ==
  /\ from + n <= Len(v) /\ base + n <= Len(u)
  /\ \A i \in 1 .. n : v[from + i] = u[base + i]

LEMMA SlicesAgree ==
  ASSUME NEW v \in Seq(Symbols), NEW u \in Seq(Symbols), NEW from \in Nat, NEW base \in Nat,
         NEW n \in Nat, Agree(v, from, u, base, n)
  PROVE  Slice(v, from, from + n) = Slice(u, base, base + n)
<1>1. /\ Slice(v, from, from + n) \in Seq(Symbols) /\ Len(Slice(v, from, from + n)) = n
      /\ \A i \in 1 .. n : Slice(v, from, from + n)[i] = v[from + i]
  BY SliceOf DEF Agree
<1>2. /\ Slice(u, base, base + n) \in Seq(Symbols) /\ Len(Slice(u, base, base + n)) = n
      /\ \A i \in 1 .. n : Slice(u, base, base + n)[i] = u[base + i]
  BY SliceOf DEF Agree
<1> QED
  BY <1>1, <1>2, SeqEqual DEF Agree

LEMMA SliceOfAll ==
  ASSUME NEW v \in Seq(Symbols)
  PROVE  Slice(v, 0, Len(v)) = v
BY SubSeqFull DEF Slice

LEMMA SlicesOfTwo ==
  ASSUME NEW x \in Seq(Symbols), NEW y \in Seq(Symbols)
  PROVE  Joins(x \o y, x, y)
<1>1. PICK a \in Nat, b \in Nat : Len(x) = a /\ Len(y) = b
  OBVIOUS
<1>2. PICK w \in Seq(Symbols) : w = x \o y
  BY ConcatProperties
<1>3. Len(w) = a + b /\ \A i \in 1 .. a + b : w[i] = IF i <= a THEN x[i] ELSE y[i - a]
  BY <1>1, <1>2, ConcatProperties
<1>4. Slice(w, a, a + b) = y
  <2>1. ASSUME NEW i \in 1 .. b PROVE w[a + i] = y[0 + i]
    <3>1. a + i \in 1 .. a + b /\ ~(a + i <= a) /\ (a + i) - a = i /\ 0 + i = i
      BY <2>1
    <3> QED
      BY <1>3, <3>1
  <2>2. a + b <= Len(w) /\ 0 + b <= Len(y) /\ 0 + b = b /\ 0 \in Nat
    BY <1>1, <1>3
  <2>3. Slice(w, a, a + b) = Slice(y, 0, 0 + b)
    <3>1. Agree(w, a, y, 0, b)
      BY <2>1, <2>2 DEF Agree
    <3> QED
      BY <2>2, <3>1, SlicesAgree
  <2> QED
    BY <1>1, <2>2, <2>3, SliceOfAll
<1>5. ASSUME NEW from \in 0 .. a, NEW to \in from .. a
      PROVE  Slice(w, from, to) = Slice(x, from, to)
  <2>0. from \in Nat
    OBVIOUS
  <2>1. PICK n \in Nat : to = from + n
    <3>1. to - from \in Nat /\ to = from + (to - from) /\ from \in Nat
      OBVIOUS
    <3> QED
      BY <3>1
  <2>2. from + n <= Len(w) /\ from + n <= Len(x)
    BY <1>1, <1>3, <2>0, <2>1
  <2>3. ASSUME NEW i \in 1 .. n PROVE w[from + i] = x[from + i]
    <3>1. from + i \in 1 .. a + b /\ from + i <= a
      BY <2>0, <2>1, <2>3
    <3> QED
      BY <1>3, <3>1
  <2>4. Slice(w, from, from + n) = Slice(x, from, from + n)
    <3>1. Agree(w, from, x, from, n)
      BY <2>2, <2>3 DEF Agree
    <3> QED
      BY <2>0, <3>1, SlicesAgree
  <2> QED
    BY <2>1, <2>4
<1>6. Joins(w, x, y)
  <2>1. Len(w) = Len(x) + Len(y) /\ Slice(w, Len(x), Len(x) + Len(y)) = y
    BY <1>1, <1>3, <1>4
  <2>2. \A from \in 0 .. Len(x) : \A to \in from .. Len(x) : Slice(w, from, to) = Slice(x, from, to)
    BY <1>1, <1>5
  <2> QED
    BY <1>2, <2>1, <2>2 DEF Joins
<1> QED
  BY <1>2, <1>6

\* w is the five one after the other, and these are its slices.
JoinsFive(w, p, q, x, y, z) ==
  /\ w \in Seq(Symbols) /\ w = p \o q \o x \o y \o z
  /\ Len(w) = Len(p) + Len(q) + Len(x) + Len(y) + Len(z)
  /\ Slice(w, 0, Len(p)) = p
  /\ Slice(w, Len(p), Len(p) + Len(q)) = q
  /\ Slice(w, Len(p) + Len(q), Len(p) + Len(q) + Len(x)) = x
  /\ Slice(w, Len(p) + Len(q) + Len(x), Len(p) + Len(q) + Len(x) + Len(y)) = y
  /\ Slice(w, Len(p) + Len(q) + Len(x) + Len(y), Len(w)) = z

LEMMA SlicesOfFive ==
  ASSUME NEW p \in Seq(Symbols), NEW q \in Seq(Symbols), NEW x \in Seq(Symbols),
         NEW y \in Seq(Symbols), NEW z \in Seq(Symbols)
  PROVE  JoinsFive(p \o q \o x \o y \o z, p, q, x, y, z)
<1>1. PICK pq \in Seq(Symbols) : pq = p \o q /\ Joins(pq, p, q)
  <2>1. Joins(p \o q, p, q)
    BY SlicesOfTwo
  <2>2. p \o q \in Seq(Symbols)
    BY <2>1, Zenon DEF Joins
  <2> QED
    BY <2>1, <2>2, Zenon
<1>2. PICK pqx \in Seq(Symbols) : pqx = pq \o x /\ Joins(pqx, pq, x)
  <2>1. Joins(pq \o x, pq, x)
    BY SlicesOfTwo
  <2>2. pq \o x \in Seq(Symbols)
    BY <2>1, Zenon DEF Joins
  <2> QED
    BY <2>1, <2>2, Zenon
<1>3. PICK pqxy \in Seq(Symbols) : pqxy = pqx \o y /\ Joins(pqxy, pqx, y)
  <2>1. Joins(pqx \o y, pqx, y)
    BY SlicesOfTwo
  <2>2. pqx \o y \in Seq(Symbols)
    BY <2>1, Zenon DEF Joins
  <2> QED
    BY <2>1, <2>2, Zenon
<1>4. PICK w \in Seq(Symbols) : w = pqxy \o z /\ Joins(w, pqxy, z)
  <2>1. Joins(pqxy \o z, pqxy, z)
    BY SlicesOfTwo
  <2>2. pqxy \o z \in Seq(Symbols)
    BY <2>1, Zenon DEF Joins
  <2> QED
    BY <2>1, <2>2, Zenon
<1>5. PICK a \in Nat, o \in Nat, k \in Nat, c \in Nat, m \in Nat :
        Len(p) = a /\ Len(q) = o /\ Len(x) = k /\ Len(y) = c /\ Len(z) = m
  OBVIOUS
<1>6. /\ Len(pq) = a + o /\ Len(pqx) = a + o + k /\ Len(pqxy) = a + o + k + c
      /\ Len(w) = a + o + k + c + m
  BY <1>1, <1>2, <1>3, <1>4, <1>5, Zenon DEF Joins
<1>7. \A i \in 0 .. a : \A j \in i .. a : Slice(pq, i, j) = Slice(p, i, j)
  BY <1>1, <1>5, Zenon DEF Joins
<1>8. \A i \in 0 .. a + o : \A j \in i .. a + o : Slice(pqx, i, j) = Slice(pq, i, j)
  BY <1>2, <1>6, Zenon DEF Joins
<1>9. \A i \in 0 .. a + o + k : \A j \in i .. a + o + k : Slice(pqxy, i, j) = Slice(pqx, i, j)
  BY <1>3, <1>6, Zenon DEF Joins
<1>10. \A i \in 0 .. a + o + k + c : \A j \in i .. a + o + k + c : Slice(w, i, j) = Slice(pqxy, i, j)
  BY <1>4, <1>6, Zenon DEF Joins
<1>11. Slice(pq, a, a + o) = q
  BY <1>1, <1>5, Zenon DEF Joins
<1>12. Slice(pqx, a + o, a + o + k) = x
  BY <1>2, <1>5, <1>6, Zenon DEF Joins
<1>13. Slice(pqxy, a + o + k, a + o + k + c) = y
  BY <1>3, <1>5, <1>6, Zenon DEF Joins
<1>14. Slice(w, a + o + k + c, Len(w)) = z
  BY <1>4, <1>5, <1>6, Zenon DEF Joins
<1>15. Slice(w, a + o + k, a + o + k + c) = y
  BY <1>10, <1>13
<1>16. Slice(w, a + o, a + o + k) = x
  BY <1>9, <1>10, <1>12
<1>17. Slice(w, a, a + o) = q
  BY <1>8, <1>9, <1>10, <1>11
<1>18. Slice(w, 0, a) = Slice(p, 0, a)
  BY <1>7, <1>8, <1>9, <1>10
<1>19. Slice(p, 0, a) = p
  BY <1>5, SliceOfAll, Zenon
<1>20. w = p \o q \o x \o y \o z
  BY <1>1, <1>2, <1>3, <1>4, Zenon
<1>21. JoinsFive(w, p, q, x, y, z)
  BY <1>5, <1>6, <1>14, <1>15, <1>16, <1>17, <1>18, <1>19, <1>20, Zenon DEF JoinsFive
<1> QED
  BY <1>20, <1>21, Zenon

LEMMA SlicesJoin ==
  ASSUME NEW v \in Seq(Symbols), NEW from \in 0 .. Len(v), NEW to \in from .. Len(v)
  PROVE  Slice(v, 0, from) \o Slice(v, from, to) \o Slice(v, to, Len(v)) = v
<1>1. Len(v) \in Nat /\ from \in Nat /\ to \in Nat
  OBVIOUS
<1>2. SubSeq(v, 1, from) \o SubSeq(v, from + 1, to) = SubSeq(v, 1, to)
  <2>1. 1 \in 1 .. Len(v) + 1 /\ from \in 1 - 1 .. Len(v) /\ to \in from .. Len(v)
    BY <1>1
  <2> QED
    BY <2>1, ConcatAdjacentSubSeq
<1>3. SubSeq(v, 1, to) \o SubSeq(v, to + 1, Len(v)) = SubSeq(v, 1, Len(v))
  <2>1. 1 \in 1 .. Len(v) + 1 /\ to \in 1 - 1 .. Len(v) /\ Len(v) \in to .. Len(v)
    BY <1>1
  <2> QED
    BY <2>1, ConcatAdjacentSubSeq
<1>4. SubSeq(v, 1, Len(v)) = v
  BY SubSeqFull
<1>5. 0 + 1 = 1
  OBVIOUS
<1> QED
  BY <1>2, <1>3, <1>4, <1>5 DEF Slice

\* toggleInlineFormat without its widening: what it wraps, it unwraps, with the selection.
LEMMA WrappedComesOff ==
  ASSUME NEW v \in Seq(Symbols), NEW n \in Selections, n.start <= n.end, n.end <= Len(v),
         NEW f \in InlineFormats, NEW on, on = ToggledAround(v, n, f), Len(v) < Len(on.value)
  PROVE  /\ on.value \in Seq(Symbols) /\ on.selection \in Selections
         /\ on.selection.end <= Len(on.value)
         /\ ToggledAround(on.value, on.selection, f) = [value |-> v, selection |-> n]
<1>1. PICK a \in Nat, b \in Nat, l \in Nat :
        n.start = a /\ n.end = b /\ Len(v) = l /\ a <= b /\ b <= l
  BY DEF Selections
<1>2. PICK q \in Seq(Symbols), y \in Seq(Symbols), o \in Nat, c \in Nat :
        q = Opening(f) /\ y = Closing(f) /\ Len(q) = o /\ Len(y) = c
  BY MarkersHaveWidth
<1>3. PICK p \in Seq(Symbols), x \in Seq(Symbols), z \in Seq(Symbols) :
        /\ p = Slice(v, 0, a) /\ x = Slice(v, a, b) /\ z = Slice(v, b, l)
        /\ Len(p) = a /\ Len(x) = b - a /\ Len(z) = l - b
  <2>1. /\ 0 \in 0 .. Len(v) /\ a \in 0 .. Len(v) /\ b \in a .. Len(v) /\ b \in 0 .. Len(v)
        /\ l \in b .. Len(v)
    BY <1>1
  <2>2. Slice(v, 0, a) \in Seq(Symbols) /\ Len(Slice(v, 0, a)) = a - 0
    BY <2>1, SliceIs
  <2>3. Slice(v, a, b) \in Seq(Symbols) /\ Len(Slice(v, a, b)) = b - a
    BY <2>1, SliceIs
  <2>4. Slice(v, b, l) \in Seq(Symbols) /\ Len(Slice(v, b, l)) = l - b
    BY <1>1, <2>1, SliceIs
  <2> QED
    BY <1>1, <2>2, <2>3, <2>4
<1>4. p \o x \o z = v
  <2>1. a \in 0 .. Len(v) /\ b \in a .. Len(v)
    BY <1>1
  <2>2. Slice(v, 0, a) \o Slice(v, a, b) \o Slice(v, b, Len(v)) = v
    BY <2>1, SlicesJoin
  <2> QED
    BY <1>1, <1>3, <2>2
<1>6. PICK w \in Seq(Symbols) :
      /\ w = p \o q \o x \o y \o z /\ Len(w) = l + o + c
      /\ Slice(w, 0, a) = p /\ Slice(w, a, a + o) = q /\ Slice(w, a + o, b + o) = x
      /\ Slice(w, b + o, b + o + c) = y /\ Slice(w, b + o + c, Len(w)) = z
  <2>1. PICK w : w = p \o q \o x \o y \o z /\ JoinsFive(w, p, q, x, y, z)
    BY SlicesOfFive, Zenon
  <2>2. a + o + (b - a) = b + o /\ a + o + (b - a) + c + (l - b) = l + o + c
    BY <1>1, <1>2
  <2>3. /\ Len(p) + Len(q) + Len(x) = b + o
        /\ Len(p) + Len(q) + Len(x) + Len(y) + Len(z) = l + o + c
    BY <1>2, <1>3, <2>2, Zenon
  <2> QED
    BY <1>2, <1>3, <2>1, <2>3, Zenon DEF JoinsFive
<1> DEFINE standing == /\ o <= a /\ Slice(v, a - o, a) = q
                       /\ b + c <= l /\ Slice(v, b, b + c) = y
           narrow == Slice(v, 0, a - o) \o x \o Slice(v, b + c, l)
<1>7. ToggledAround(v, n, f) =
        IF standing THEN [value |-> narrow, selection |-> [start |-> a - o, end |-> b - o]]
        ELSE [value |-> w, selection |-> [start |-> a + o, end |-> b + o]]
  BY <1>1, <1>2, <1>3, <1>6 DEF ToggledAround
<1>8. ~standing
  <2> SUFFICES ASSUME standing PROVE FALSE
    OBVIOUS
  <2>1. /\ 0 \in 0 .. Len(v) /\ a - o \in 0 .. Len(v) /\ b + c \in 0 .. Len(v)
        /\ l \in b + c .. Len(v)
    BY <1>1
  <2>2. PICK r \in Seq(Symbols), t \in Seq(Symbols) :
          /\ r = Slice(v, 0, a - o) /\ Len(r) = (a - o) - 0
          /\ t = Slice(v, b + c, l) /\ Len(t) = l - (b + c)
    BY <2>1, SliceIs
  <2>3. Len(r \o x \o t) = Len(r) + Len(x) + Len(t)
    <3>1. r \o x \in Seq(Symbols) /\ Len(r \o x) = Len(r) + Len(x)
      BY ConcatProperties
    <3> QED
      BY <3>1, ConcatProperties
  <2>4. Len(narrow) <= l
    BY <1>1, <1>2, <1>3, <2>2, <2>3
  <2> HIDE DEF narrow
  <2>5. on.value = narrow
    BY <1>7
  <2> QED
    BY <1>1, <2>4, <2>5
<1>9. on.value = w /\ on.selection = [start |-> a + o, end |-> b + o]
  BY <1>7, <1>8
<1> HIDE DEF standing, narrow
<1>10. ToggledAround(w, [start |-> a + o, end |-> b + o], f) =
         [value |-> Slice(w, 0, a) \o Slice(w, a + o, b + o) \o Slice(w, b + o + c, Len(w)),
          selection |-> [start |-> a, end |-> b]]
  <2>1. /\ o <= a + o /\ (a + o) - o = a /\ (b + o) - o = b
        /\ (b + o) + c <= Len(w)
    BY <1>1, <1>2, <1>6
  <2> QED
    BY <1>2, <1>6, <2>1 DEF ToggledAround
<1>11. n = [start |-> a, end |-> b]
  BY <1>1 DEF Selections
<1>12. [start |-> a + o, end |-> b + o] \in Selections /\ b + o <= Len(w)
  BY <1>1, <1>2, <1>6 DEF Selections
<1>13. ToggledAround(on.value, on.selection, f) = [value |-> v, selection |-> n]
  BY <1>4, <1>6, <1>9, <1>10, <1>11, Zenon
<1>14. on.selection.end = b + o
  BY <1>9
<1> QED
  BY <1>9, <1>12, <1>13, <1>14, Zenon

\* toggleInlineFormat: what it puts around a selection it takes off again, and the text is
\* as it was, if the new selection clips none of the ranges the text then has.
THEOREM FormatsPutOnComeOff ==
  ASSUME NEW v \in Seq(Symbols), NEW s \in Selections, s.start <= s.end, s.end <= Len(v),
         NEW f \in InlineFormats, NEW on, on = ToggleInlineFormat(v, s, f),
         Len(v) < Len(on.value),
         \A r \in MarkerRanges(on.value) : Clips(on.selection, r) => Covers(on.selection, r)
  PROVE  ToggleInlineFormat(on.value, on.selection, f) =
           [value |-> v, selection |-> NormalizeInlineSelection(v, s)]
<1>1. PICK n : n = NormalizeInlineSelection(v, s)
  OBVIOUS
<1>2. n \in Selections /\ Covers(n, s) /\ n.end <= Len(v)
  BY <1>1, SmallestSelection, UnclippedAre
<1>3. n.start <= n.end
  BY <1>2 DEF Selections, Covers
<1>4. on = ToggledAround(v, n, f)
  BY <1>1 DEF ToggleInlineFormat
<1>5. /\ on.value \in Seq(Symbols) /\ on.selection \in Selections
      /\ on.selection.end <= Len(on.value)
      /\ ToggledAround(on.value, on.selection, f) = [value |-> v, selection |-> n]
  BY <1>2, <1>3, <1>4, WrappedComesOff, ZenonT(60)
<1>6. PICK w \in Seq(Symbols), t \in Selections : w = on.value /\ t = on.selection
  BY <1>5
<1>7. t \in Unclipped(MarkerRanges(w), t, Len(w))
  BY <1>5, <1>6 DEF Unclipped, Selections
<1>8. NormalizeInlineSelection(w, t) = t
  <2>1. /\ NormalizeInlineSelection(w, t) \in Unclipped(MarkerRanges(w), t, Len(w))
        /\ Covers(t, NormalizeInlineSelection(w, t))
    BY <1>5, <1>6, <1>7, SmallestSelection
  <2>2. NormalizeInlineSelection(w, t) \in Selections /\ Covers(NormalizeInlineSelection(w, t), t)
    BY <1>5, <1>6, <2>1, UnclippedAre
  <2> QED
    BY <2>1, <2>2, CoversIsOrder
<1> QED
  BY <1>1, <1>5, <1>6, <1>8 DEF ToggleInlineFormat

------------------------------------------------------------------------------
(* Lists that are put on and come off *)

LEMMA PrefixedLine ==
  ASSUME NEW x, NEW line \in Seq(Symbols), NEW listed, listed = <<x>> \o line, x \in Symbols
  PROVE  listed # <<>> /\ Head(listed) = x /\ Tail(listed) = line
<1>1. <<x>> \in Seq(Symbols) /\ Len(<<x>>) = 1 /\ <<x>>[1] = x
  OBVIOUS
<1>2. /\ listed \in Seq(Symbols) /\ Len(listed) = 1 + Len(line)
      /\ listed[1] = x /\ \A i \in 1 .. Len(line) : listed[1 + i] = line[i]
  BY <1>1
<1>3. listed # <<>> /\ Head(listed) = x
  BY <1>2
<1>4. /\ Tail(listed) \in Seq(Symbols) /\ Len(Tail(listed)) = Len(line)
      /\ \A i \in 1 .. Len(line) : Tail(listed)[i] = line[i]
  BY <1>2
<1>5. Tail(listed) = line
  BY <1>4, SeqEqual
<1> QED
  BY <1>3, <1>5

\* toggleLinePrefix and toggleNumberedList: whatever lines were listed before, unless all
\* were, a list that is put on comes off again and leaves every line as it was, as far
\* as there are numbers.
THEOREM ListsPutOnComeOff ==
  ASSUME NEW lines \in Seq(Seq(Symbols)), NEW p \in Symbols \cup {"numbers"},
         p = "numbers" => Len(lines) <= Len(Numbers),
         ~IsListed(p, lines),
         NEW on, on = ToggledLines(p, lines)
  PROVE  IsListed(p, on) /\ ToggledLines(p, on) = lines
<1>1. /\ DOMAIN on = DOMAIN lines
      /\ \A k \in DOMAIN lines :
           on[k] = IF lines[k] = <<>> THEN <<>> ELSE <<Prefix(p, k)>> \o lines[k]
  BY DEF ToggledLines
<1>2. ASSUME NEW k \in DOMAIN lines
      PROVE  lines[k] \in Seq(Symbols) /\ Prefix(p, k) \in Symbols
  <2>1. k \in 1 .. Len(lines) /\ lines[k] \in Seq(Symbols)
    OBVIOUS
  <2>2. CASE p = "numbers"
    <3>1. Len(Numbers) = 5
      BY DEF Numbers
    <3>2. /\ Numbers[1] = "1. " /\ Numbers[2] = "2. " /\ Numbers[3] = "3. "
          /\ Numbers[4] = "4. " /\ Numbers[5] = "5. "
      BY DEF Numbers
    <3>3. k \in 1 .. 5
      BY <2>1, <2>2, <3>1
    <3>4. k = 1 \/ k = 2 \/ k = 3 \/ k = 4 \/ k = 5
      BY <3>3
    <3>5. Numbers[k] \in {"1. ", "2. ", "3. ", "4. ", "5. "}
      BY <3>2, <3>4
    <3> QED
      <4>1. Prefix(p, k) = Numbers[k]
        BY <2>2 DEF Prefix
      <4>2. {"1. ", "2. ", "3. ", "4. ", "5. "} \subseteq Symbols
        BY DEF Symbols
      <4> QED
        BY <2>1, <3>5, <4>1, <4>2
  <2>3. CASE p # "numbers"
    BY <2>1, <2>3 DEF Prefix
  <2> QED
    BY <2>2, <2>3
<1>3. ASSUME NEW k \in DOMAIN lines, lines[k] # <<>>
      PROVE  on[k] # <<>> /\ Head(on[k]) = Prefix(p, k) /\ Tail(on[k]) = lines[k]
  BY <1>1, <1>2, <1>3, PrefixedLine
<1>4. IsListed(p, on)
  BY <1>1, <1>3 DEF IsListed
<1>5. \A k \in DOMAIN lines :
        lines[k] = (IF on[k] = <<>> THEN <<>> ELSE Tail(on[k]))
  BY <1>1, <1>3
<1>6. ToggledLines(p, on) = [k \in DOMAIN lines |-> lines[k]]
  BY <1>1, <1>4, <1>5 DEF ToggledLines
<1> QED
  BY <1>4, <1>6
==============================================================================
