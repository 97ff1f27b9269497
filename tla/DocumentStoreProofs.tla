------------------------- MODULE DocumentStoreProofs -------------------------
(***************************************************************************)
(* DocumentStore is correct for every set of users, texts and requestIds   *)
(* and every number of versions: the inductive invariant StoreInv implies  *)
(* each invariant of the run document_store, every step only appends to    *)
(* the history, and the store implements the log of VersionHistory.        *)
(***************************************************************************)
EXTENDS DocumentStore, TLAPS

\* At most one commit per key, and a key that committed has its row: the half of
\* AppliedAtMostOnce that the next commit needs.
CommitsAreRecorded ==
  \A key \in Keys : applied[key] <= 1 /\ (applied[key] = 1 => idempotency[key] # NoRow)

\* The parts of the invariant that speak of the version history alone.
HistoryInv == HeadIsLatestVersion /\ NoLostUpdate

\* The inductive invariant.  Each part needs others: a save is based on its
\* predecessor only because the row names the head, and a replay tells the truth
\* only because stored rows and version rows agree.
StoreInv ==
  /\ TypeOK
  /\ HistoryInv
  /\ RevisionDenotesContent
  /\ RepliesStayTrue
  /\ RevertsAnnounced
  /\ CommitsAreRecorded

------------------------------------------------------------------------------
(* What the operators of the handlers do *)

\* SELECT MAX(version_number) yields the number of the current revision.
LEMMA MaxVersionIsHead ==
  ASSUME TypeOK, HeadIsLatestVersion
  PROVE  MaxVersion = doc.revisionId /\ doc.revisionId \in Nat \ {0}
<1>1. doc.revisionId \in Nat \ {0}
  BY DEF TypeOK, HeadIsLatestVersion
<1>2. \A m \in VersionNumbers : m <= doc.revisionId
  BY <1>1 DEF HeadIsLatestVersion
<1>3. \A n \in VersionNumbers : (\A m \in VersionNumbers : m <= n) => n = doc.revisionId
  BY <1>1, <1>2 DEF HeadIsLatestVersion
<1>. QED
  BY <1>1, <1>2, <1>3 DEF MaxVersion, HeadIsLatestVersion

\* A save adds one row behind the head and keeps every older row.
LEMMA UpdateContentHistory ==
  ASSUME TypeOK, HeadIsLatestVersion,
         NEW u \in Users, NEW id \in RequestIds, NEW payload \in UpdatePayload,
         UpdateContent(u, id, payload)
  PROVE  LET next == doc.revisionId + 1 IN
         /\ VersionNumbers = 1..doc.revisionId
         /\ VersionNumbers' = 1..next
         /\ \A n \in VersionNumbers : versions'[n] = versions[n]
         /\ versions'[next] = [snapshot |-> payload.content,
                               reason |-> "content_update", base |-> doc.revisionId]
         /\ doc' = [content |-> payload.content,
                    currentVersionId |-> next, revisionId |-> next]
         /\ payload.base = doc.revisionId
         /\ versions' = [n \in 1..next |-> versions'[n]]
<1>1. MaxVersion = doc.revisionId /\ doc.revisionId \in Nat \ {0}
  BY MaxVersionIsHead
<1>2. payload.base = doc.revisionId
  BY DEF UpdateContent, UpdateAdmitted
<1>3. VersionNumbers = 1..doc.revisionId
  BY DEF HeadIsLatestVersion
<1>4. versions' = [n \in VersionNumbers \cup {doc.revisionId + 1} |->
                     IF n \in {doc.revisionId + 1}
                     THEN [snapshot |-> payload.content,
                           reason |-> "content_update", base |-> payload.base]
                     ELSE versions[n]]
  BY <1>1 DEF UpdateContent, InsertVersions
<1>5. VersionNumbers \cup {doc.revisionId + 1} = 1..(doc.revisionId + 1)
  BY <1>1, <1>3
<1>6. VersionNumbers' = 1..(doc.revisionId + 1)
  BY <1>4, <1>5 DEF VersionNumbers
<1>7. doc' = [content |-> payload.content, currentVersionId |-> doc.revisionId + 1,
              revisionId |-> doc.revisionId + 1]
  BY <1>1 DEF UpdateContent, SetHead
<1>. QED
  BY <1>1, <1>2, <1>3, <1>4, <1>5, <1>6, <1>7

\* A revert adds the backup and the restored snapshot behind the head.
LEMMA RevertHistory ==
  ASSUME TypeOK, HeadIsLatestVersion,
         NEW u \in Users, NEW id \in RequestIds, RevertDocument(u, id)
  PROVE  LET backup == doc.revisionId + 1
             next   == doc.revisionId + 2
         IN
         /\ doc.revisionId \in Nat \ {0}
         /\ VersionNumbers = 1..doc.revisionId
         /\ VersionNumbers' = 1..next
         /\ \A n \in VersionNumbers : versions'[n] = versions[n]
         /\ versions'[backup] = [snapshot |-> doc.content,
               reason |-> "pre_revert_backup", base |-> doc.revisionId]
         /\ versions' = [n \in 1..next |-> versions'[n]]
         /\ events' = events \cup {[currentVersionId |-> next, revisionId |-> next]}
         /\ \E target \in VersionNumbers :
              /\ versions'[next] = [snapshot |-> versions[target].snapshot,
                    reason |-> "revert", base |-> doc.revisionId]
              /\ doc' = [content |-> versions[target].snapshot,
                         currentVersionId |-> next, revisionId |-> next]
              /\ idempotency[<<"revert", u, id>>] = NoRow
              /\ StoreReply(<<"revert", u, id>>, [target |-> target],
                            [currentVersionId |-> next, revertedFrom |-> target])
              /\ applied' = [applied EXCEPT ![<<"revert", u, id>>] = @ + 1]
<1>1. MaxVersion = doc.revisionId /\ doc.revisionId \in Nat \ {0}
  BY MaxVersionIsHead
<1>2. VersionNumbers = 1..doc.revisionId
  BY DEF HeadIsLatestVersion
<1>. DEFINE backup == doc.revisionId + 1
            next   == doc.revisionId + 2
<1>3. PICK target \in VersionNumbers :
        /\ InsertVersions([n \in {backup, next} |->
             IF n = backup
             THEN [snapshot |-> doc.content,
                   reason |-> "pre_revert_backup", base |-> doc.revisionId]
             ELSE [snapshot |-> versions[target].snapshot,
                   reason |-> "revert", base |-> doc.revisionId]])
        /\ doc' = [content |-> versions[target].snapshot,
                   currentVersionId |-> next, revisionId |-> next]
        /\ events' = events \cup {[currentVersionId |-> next, revisionId |-> next]}
        /\ idempotency[<<"revert", u, id>>] = NoRow
        /\ StoreReply(<<"revert", u, id>>, [target |-> target],
                      [currentVersionId |-> next, revertedFrom |-> target])
        /\ applied' = [applied EXCEPT ![<<"revert", u, id>>] = @ + 1]
  BY <1>1 DEF RevertDocument, IsFresh, SetHead, AppendRevertEvent
<1>4. versions' = [n \in VersionNumbers \cup {backup, next} |->
          IF n \in {backup, next}
          THEN (IF n = backup
                THEN [snapshot |-> doc.content,
                      reason |-> "pre_revert_backup", base |-> doc.revisionId]
                ELSE [snapshot |-> versions[target].snapshot,
                      reason |-> "revert", base |-> doc.revisionId])
          ELSE versions[n]]
  BY <1>3 DEF InsertVersions
<1>5. VersionNumbers \cup {backup, next} = 1..next
  BY <1>1, <1>2
<1>6. VersionNumbers' = 1..next
  BY <1>4, <1>5 DEF VersionNumbers
<1>7. /\ versions'[next] = [snapshot |-> versions[target].snapshot,
                            reason |-> "revert", base |-> doc.revisionId]
      /\ versions'[backup] = [snapshot |-> doc.content,
               reason |-> "pre_revert_backup", base |-> doc.revisionId]
      /\ \A n \in VersionNumbers : versions'[n] = versions[n]
      /\ versions' = [n \in 1..next |-> versions'[n]]
  BY <1>1, <1>2, <1>4, <1>5
<1>. QED
  BY <1>1, <1>2, <1>3, <1>6, <1>7

------------------------------------------------------------------------------
(* HistoryInv is inductive *)

\* A row that continues the chain does so in every table that extends its own.
LEMMA ChainKept ==
  ASSUME NEW old, NEW new, NEW r \in Nat, NEW s \in Nat,
         r <= s, DOMAIN old = 1..r, DOMAIN new = 1..s,
         \A m \in 1..r : new[m] = old[m],
         NEW n \in 1..r, ContinuesChain(old, n)
  PROVE  ContinuesChain(new, n)
<1>1. new[n] = old[n]
  OBVIOUS
<1>2. CASE n = 1
  BY <1>1, <1>2 DEF ContinuesChain
<1>3. CASE n # 1
  <2>1. n - 1 \in 1..r /\ new[n - 1] = old[n - 1]
    BY <1>3
  <2>2. n + 1 \in 1..r => n + 1 \in 1..s /\ new[n + 1] = old[n + 1]
    OBVIOUS
  <2>. QED
    BY <1>1, <2>1, <2>2 DEF ContinuesChain
<1>. QED
  BY <1>2, <1>3

\* A step that leaves the documents row and document_versions alone keeps it.
LEMMA HistoryFrame ==
  ASSUME HistoryInv, UNCHANGED <<doc, versions>>
  PROVE  HistoryInv'
BY DEF HistoryInv, HeadIsLatestVersion, NoLostUpdate, VersionNumbers

\* A save that conflicts with nothing continues the chain of versions.
LEMMA UpdateContentKeepsHistory ==
  ASSUME TypeOK, HistoryInv,
         NEW u \in Users, NEW id \in RequestIds, NEW payload \in UpdatePayload,
         UpdateContent(u, id, payload)
  PROVE  HistoryInv'
<1>. DEFINE r == doc.revisionId
<1>1. r \in Nat \ {0}
  BY MaxVersionIsHead DEF HistoryInv
<1>2. /\ VersionNumbers = 1..r
      /\ VersionNumbers' = 1..(r + 1)
      /\ \A n \in VersionNumbers : versions'[n] = versions[n]
      /\ versions'[r + 1] = [snapshot |-> payload.content,
                             reason |-> "content_update", base |-> r]
      /\ doc' = [content |-> payload.content,
                 currentVersionId |-> r + 1, revisionId |-> r + 1]
  BY UpdateContentHistory DEF HistoryInv
<1>3. HeadIsLatestVersion'
  BY <1>1, <1>2 DEF HeadIsLatestVersion
<1>4. NoLostUpdate'
  <2>. SUFFICES ASSUME NEW n \in 1..(r + 1) PROVE ContinuesChain(versions', n)
    BY <1>2 DEF NoLostUpdate
  <2>1. CASE n = r + 1
    BY <1>1, <1>2, <2>1 DEF ContinuesChain
  <2>2. CASE n \in 1..r
    <3>1. ContinuesChain(versions, n)
      BY <1>2, <2>2 DEF HistoryInv, NoLostUpdate
    <3>2. /\ r \in Nat /\ r + 1 \in Nat /\ r <= r + 1
          /\ DOMAIN versions = 1..r /\ DOMAIN versions' = 1..(r + 1)
          /\ \A m \in 1..r : versions'[m] = versions[m]
      BY <1>1, <1>2 DEF VersionNumbers
    <3>. HIDE DEF r
    <3>. QED
      BY <2>2, <3>1, <3>2, ChainKept
  <2>. QED
    BY <1>1, <2>1, <2>2
<1>. QED
  BY <1>3, <1>4 DEF HistoryInv

\* A revert continues the chain with the backup and the restored snapshot.
LEMMA RevertKeepsHistory ==
  ASSUME TypeOK, HistoryInv,
         NEW u \in Users, NEW id \in RequestIds, RevertDocument(u, id)
  PROVE  HistoryInv'
<1>. DEFINE r == doc.revisionId
<1>1. PICK target \in VersionNumbers :
      /\ r \in Nat \ {0}
      /\ VersionNumbers = 1..r
      /\ VersionNumbers' = 1..(r + 2)
      /\ \A n \in VersionNumbers : versions'[n] = versions[n]
      /\ versions'[r + 1] = [snapshot |-> doc.content,
                             reason |-> "pre_revert_backup", base |-> r]
      /\ versions'[r + 2] = [snapshot |-> versions[target].snapshot,
                             reason |-> "revert", base |-> r]
      /\ doc' = [content |-> versions[target].snapshot,
                 currentVersionId |-> r + 2, revisionId |-> r + 2]
  BY RevertHistory DEF HistoryInv
<1>2. HeadIsLatestVersion'
  BY <1>1 DEF HeadIsLatestVersion
<1>3. NoLostUpdate'
  <2>. SUFFICES ASSUME NEW n \in 1..(r + 2) PROVE ContinuesChain(versions', n)
    BY <1>1 DEF NoLostUpdate
  <2>1. CASE n = r + 1
    <3>1. r \in Nat \ {0} /\ r \in VersionNumbers /\ n - 1 = r /\ n + 1 = r + 2 /\ n # 1
      BY <1>1, <2>1
    <3>2. versions'[n] = [snapshot |-> doc.content, reason |-> "pre_revert_backup", base |-> r]
      BY <1>1, <2>1
    <3>3. versions'[n - 1].snapshot = doc.content
      BY <1>1, <3>1 DEF HistoryInv, HeadIsLatestVersion
    <3>4. n + 1 \in DOMAIN versions' /\ versions'[n + 1].reason = "revert"
      BY <1>1, <3>1 DEF VersionNumbers
    <3>. HIDE DEF r
    <3>. QED
      BY <3>1, <3>2, <3>3, <3>4 DEF ContinuesChain
  <2>2. CASE n = r + 2
    <3>1. r \in Nat \ {0} /\ n - 1 = r + 1 /\ n - 2 = r /\ n # 1
      BY <1>1, <2>2
    <3>2. /\ versions'[n].reason = "revert" /\ versions'[n].base = r
          /\ n - 1 \in DOMAIN versions'
          /\ versions'[n - 1].reason = "pre_revert_backup"
      BY <1>1, <2>2, <3>1 DEF VersionNumbers
    <3>. HIDE DEF r
    <3>. QED
      BY <3>1, <3>2 DEF ContinuesChain
  <2>3. CASE n \in 1..r
    <3>1. ContinuesChain(versions, n)
      BY <1>1, <2>3 DEF HistoryInv, NoLostUpdate
    <3>2. /\ r \in Nat /\ r + 2 \in Nat /\ r <= r + 2
          /\ DOMAIN versions = 1..r /\ DOMAIN versions' = 1..(r + 2)
          /\ \A m \in 1..r : versions'[m] = versions[m]
      BY <1>1 DEF VersionNumbers
    <3>. HIDE DEF r
    <3>. QED
      BY <2>3, <3>1, <3>2, ChainKept
  <2>. QED
    BY <1>1, <2>1, <2>2, <2>3
<1>. QED
  BY <1>2, <1>3 DEF HistoryInv

------------------------------------------------------------------------------
(* What clients hold and what the idempotency table holds stays true *)

\* No version row is rewritten or dropped.
RowsKept ==
  /\ VersionNumbers \subseteq VersionNumbers'
  /\ \A n \in VersionNumbers : versions'[n] = versions[n]

\* `rev` is a revision a client may be told, and `c` is its text in `table`.
TrueAnswer(table, rev, c) ==
  /\ rev \in DOMAIN table
  /\ table[rev].snapshot = c
  /\ table[rev].reason # "pre_revert_backup"

\* Pairs a client holds stay true, and a true answer adds a true pair.
LEMMA AnswerKeepsSeen ==
  ASSUME TypeOK, RevisionDenotesContent, RowsKept,
         NEW u \in Users, NEW rev, NEW c,
         seen' = [seen EXCEPT ![u] = @ \cup {[revision |-> rev, content |-> c]}]
           \/ UNCHANGED seen,
         TrueAnswer(versions', rev, c)
  PROVE  RevisionDenotesContent'
<1>1. \A v \in Users : seen'[v] \subseteq seen[v] \cup {[revision |-> rev, content |-> c]}
  BY DEF TypeOK
<1>. QED
  BY <1>1 DEF RevisionDenotesContent, RowsKept, TrueAnswer, VersionNumbers

\* The head is a true answer: it is never a backup.
LEMMA HeadIsTrueAnswer ==
  ASSUME TypeOK, HistoryInv
  PROVE  TrueAnswer(versions, doc.revisionId, doc.content)
BY MaxVersionIsHead
   DEF HistoryInv, HeadIsLatestVersion, NoLostUpdate, ContinuesChain, TrueAnswer, VersionNumbers

\* A stored row that is true stays true while version rows are kept.
LEMMA TrueRowsStayTrue ==
  ASSUME RowsKept, NEW row
  PROVE  /\ TrueUpdateRow(versions, row) => TrueUpdateRow(versions', row)
         /\ TrueRevertRow(versions, row) => TrueRevertRow(versions', row)
BY DEF TrueUpdateRow, TrueRevertRow, RowsKept, VersionNumbers

\* Stored answers stay true while no row is added to the idempotency table.
LEMMA RepliesFrame ==
  ASSUME RepliesStayTrue, RowsKept, UNCHANGED idempotency
  PROVE  RepliesStayTrue'
BY TrueRowsStayTrue DEF RepliesStayTrue

\* Storing one true answer keeps every stored answer true.
LEMMA ReplyStored ==
  ASSUME TypeOK, RepliesStayTrue, RowsKept,
         NEW u \in Users, NEW id \in RequestIds, NEW row, NEW scope \in {"update", "revert"},
         idempotency' = [idempotency EXCEPT ![<<scope, u, id>>] = row],
         scope = "update" => TrueUpdateRow(versions', row),
         scope = "revert" => TrueRevertRow(versions', row)
  PROVE  RepliesStayTrue'
<1>1. /\ \A k \in Keys \ {<<scope, u, id>>} : idempotency'[k] = idempotency[k]
      /\ idempotency'[<<scope, u, id>>] = row
  BY DEF TypeOK, Keys
<1>. SUFFICES ASSUME NEW v \in Users, NEW i \in RequestIds
              PROVE  LET saved    == idempotency'[<<"update", v, i>>]
                         reverted == idempotency'[<<"revert", v, i>>]
                     IN
                     /\ saved # NoRow => TrueUpdateRow(versions', saved)
                     /\ reverted # NoRow => TrueRevertRow(versions', reverted)
  BY DEF RepliesStayTrue
<1>2. <<"update", v, i>> \in Keys /\ <<"revert", v, i>> \in Keys
  BY DEF Keys
<1>3. /\ idempotency[<<"update", v, i>>] # NoRow
           => TrueUpdateRow(versions', idempotency[<<"update", v, i>>])
      /\ idempotency[<<"revert", v, i>>] # NoRow
           => TrueRevertRow(versions', idempotency[<<"revert", v, i>>])
  BY TrueRowsStayTrue DEF RepliesStayTrue
<1>4. CASE scope = "update"
  BY <1>1, <1>2, <1>3, <1>4
<1>5. CASE scope = "revert"
  BY <1>1, <1>2, <1>3, <1>5
<1>. QED
  BY <1>4, <1>5

------------------------------------------------------------------------------
(* Every step keeps StoreInv: one lemma per action *)

LEMMA InitEstablishesStoreInv == Init => StoreInv
<1>. SUFFICES ASSUME Init PROVE StoreInv
  OBVIOUS
<1>. USE StoreAssumption DEF Init
<1>1. VersionNumbers = {1}
  BY DEF VersionNumbers
<1>2. TypeOK
  BY <1>1 DEF TypeOK, Version, Reasons, AnyRole
<1>3. HistoryInv
  BY <1>1 DEF HistoryInv, HeadIsLatestVersion, NoLostUpdate, ContinuesChain
<1>4. RevisionDenotesContent /\ CommitsAreRecorded
  BY DEF RevisionDenotesContent, CommitsAreRecorded
<1>5. RepliesStayTrue
  BY DEF RepliesStayTrue, Keys
<1>6. RevertsAnnounced
  BY <1>1 DEF RevertsAnnounced
<1>. QED
  BY <1>2, <1>3, <1>4, <1>5, <1>6 DEF StoreInv

\* A read adds the head to what a client holds.
LEMMA GetDocumentKeepsStoreInv ==
  ASSUME StoreInv, NEW u \in Users, GetDocument(u)
  PROVE  StoreInv'
<1>. USE DEF StoreInv, GetDocument, tableVars
<1>1. RowsKept
  BY DEF RowsKept, VersionNumbers
<1>2. TypeOK'
  BY DEF TypeOK, Snapshot, VersionNumbers
<1>3. HistoryInv'
  BY HistoryFrame
<1>4. RevisionDenotesContent'
  BY <1>1, HeadIsTrueAnswer, AnswerKeepsSeen
<1>5. RepliesStayTrue'
  BY <1>1, RepliesFrame
<1>6. RevertsAnnounced' /\ CommitsAreRecorded'
  BY DEF RevertsAnnounced, CommitsAreRecorded, VersionNumbers
<1>. QED
  BY <1>2, <1>3, <1>4, <1>5, <1>6

\* A replay only tells the client what the table holds, and that is true.
LEMMA UpdateReplayedKeepsStoreInv ==
  ASSUME StoreInv, NEW u \in Users, NEW id \in RequestIds,
         NEW payload \in UpdatePayload, UpdateReplayed(u, id, payload)
  PROVE  StoreInv'
<1>. DEFINE row == idempotency[<<"update", u, id>>]
<1>. USE DEF StoreInv, UpdateReplayed, tableVars
<1>1. RowsKept
  BY DEF RowsKept, VersionNumbers
<1>2. TrueUpdateRow(versions, row) /\ row.payload = payload
  BY DEF RepliesStayTrue, IsReplay
<1>3. row.reply.revision \in Nat /\ TrueAnswer(versions', row.reply.revision, payload.content)
  BY <1>2 DEF TrueUpdateRow, TrueAnswer, UpdateReply
<1>4. TypeOK'
  BY <1>3 DEF TypeOK, Snapshot, VersionNumbers, Answered, UpdatePayload
<1>5. HistoryInv'
  BY HistoryFrame
<1>6. RevisionDenotesContent'
  BY <1>1, <1>3, AnswerKeepsSeen DEF Answered
<1>7. RepliesStayTrue'
  BY <1>1, RepliesFrame
<1>8. RevertsAnnounced' /\ CommitsAreRecorded'
  BY DEF RevertsAnnounced, CommitsAreRecorded, VersionNumbers
<1>. QED
  BY <1>4, <1>5, <1>6, <1>7, <1>8

\* Saving the text the document has stores an answer about the head.
LEMMA UpdateUnchangedKeepsStoreInv ==
  ASSUME StoreInv, NEW u \in Users, NEW id \in RequestIds,
         NEW payload \in UpdatePayload, UpdateUnchanged(u, id, payload)
  PROVE  StoreInv'
<1>. DEFINE key == <<"update", u, id>>
            row == [payload |-> payload, reply |-> [revision |-> doc.revisionId]]
<1>. USE DEF StoreInv, UpdateUnchanged
<1>1. RowsKept
  BY DEF RowsKept, VersionNumbers
<1>2. TrueAnswer(versions', doc.revisionId, payload.content) /\ doc.revisionId \in Nat
  BY HeadIsTrueAnswer, MaxVersionIsHead DEF HistoryInv
<1>3. TrueUpdateRow(versions', row)
  BY <1>2 DEF TrueUpdateRow, TrueAnswer, UpdateReply
<1>4. key \in Keys /\ idempotency' = [idempotency EXCEPT ![key] = row] /\ row \in StoredReply
  BY <1>2 DEF Keys, StoreReply, StoredReply, UpdateReply
<1>5. TypeOK'
  BY <1>2, <1>4 DEF TypeOK, Snapshot, VersionNumbers, Answered, UpdatePayload
<1>6. HistoryInv'
  BY HistoryFrame
<1>7. RevisionDenotesContent'
  BY <1>1, <1>2, AnswerKeepsSeen DEF Answered
<1>8. RepliesStayTrue'
  BY <1>1, <1>3, <1>4, ReplyStored
<1>9. RevertsAnnounced'
  BY DEF RevertsAnnounced, VersionNumbers
<1>10. CommitsAreRecorded'
  BY <1>4, StoreAssumption DEF CommitsAreRecorded, TypeOK
<1>. QED
  BY <1>5, <1>6, <1>7, <1>8, <1>9, <1>10

\* A save that changes the text commits under a key that has no row yet.
LEMMA UpdateContentKeepsStoreInv ==
  ASSUME StoreInv, NEW u \in Users, NEW id \in RequestIds,
         NEW payload \in UpdatePayload, UpdateContent(u, id, payload)
  PROVE  StoreInv'
<1>. DEFINE key == <<"update", u, id>>
            r == doc.revisionId
            row == [payload |-> payload, reply |-> [revision |-> r + 1]]
<1>. USE DEF StoreInv
<1>1. /\ r \in Nat \ {0} /\ MaxVersion = r
      /\ VersionNumbers = 1..r
      /\ VersionNumbers' = 1..(r + 1)
      /\ \A n \in VersionNumbers : versions'[n] = versions[n]
      /\ versions'[r + 1] = [snapshot |-> payload.content,
                             reason |-> "content_update", base |-> r]
      /\ versions' = [n \in 1..(r + 1) |-> versions'[n]]
      /\ doc' = [content |-> payload.content,
                 currentVersionId |-> r + 1, revisionId |-> r + 1]
  BY UpdateContentHistory, MaxVersionIsHead DEF HistoryInv
<1>2. RowsKept
  BY <1>1 DEF RowsKept
<1>3. /\ key \in Keys
      /\ idempotency[key] = NoRow
      /\ idempotency' = [idempotency EXCEPT ![key] = row]
      /\ applied' = [applied EXCEPT ![key] = @ + 1]
      /\ row \in StoredReply
  BY <1>1 DEF UpdateContent, UpdateAdmitted, IsFresh, Keys, StoreReply, StoredReply, UpdateReply
<1>4. TrueAnswer(versions', r + 1, payload.content)
  BY <1>1 DEF TrueAnswer, VersionNumbers
<1>5. seen' = [seen EXCEPT ![u] = @ \cup {[revision |-> r + 1, content |-> payload.content]}]
        \/ UNCHANGED seen
  BY <1>1 DEF UpdateContent, Answered
<1>6. TypeOK'
  <2>1. doc' \in [content : Contents, currentVersionId : Nat, revisionId : Nat]
    BY <1>1 DEF UpdatePayload
  <2>2. VersionNumbers' \subseteq Nat /\ versions' \in [VersionNumbers' -> Version]
    <3>1. versions'[r + 1] \in Version
      BY <1>1 DEF Version, Reasons, UpdatePayload
    <3>2. \A n \in 1..(r + 1) : versions'[n] \in Version
      BY <1>1, <3>1 DEF TypeOK
    <3>. QED
      BY <1>1, <3>2
  <2>3. idempotency' \in [Keys -> StoredReply \cup {NoRow}] /\ applied' \in [Keys -> Nat]
    BY <1>3 DEF TypeOK
  <2>4. seen' \in [Users -> SUBSET Snapshot]
    BY <1>1, <1>5 DEF TypeOK, Snapshot, UpdatePayload
  <2>5. events' \subseteq RevertEvent /\ roleOf' \in [Users -> AnyRole]
    BY DEF UpdateContent, TypeOK
  <2>. QED
    BY <2>1, <2>2, <2>3, <2>4, <2>5 DEF TypeOK
<1>7. HistoryInv'
  BY UpdateContentKeepsHistory
<1>8. RevisionDenotesContent'
  BY <1>2, <1>4, <1>5, AnswerKeepsSeen
<1>9. RepliesStayTrue'
  <2>1. TrueUpdateRow(versions', row)
    BY <1>1, <1>4 DEF TrueUpdateRow, TrueAnswer, UpdateReply
  <2>. QED
    BY <1>2, <1>3, <2>1, ReplyStored
<1>10. RevertsAnnounced'
  <2>1. events' = events
    BY DEF UpdateContent
  <2>2. {m \in VersionNumbers' : versions'[m].reason = "revert"}
          = {m \in VersionNumbers : versions[m].reason = "revert"}
    BY <1>1
  <2>. QED
    BY <2>1, <2>2 DEF RevertsAnnounced
<1>11. CommitsAreRecorded'
  BY <1>3, StoreAssumption DEF CommitsAreRecorded, TypeOK
<1>. QED
  BY <1>6, <1>7, <1>8, <1>9, <1>10, <1>11

\* A revert commits under a fresh key and is announced.
LEMMA RevertKeepsStoreInv ==
  ASSUME StoreInv, NEW u \in Users, NEW id \in RequestIds, RevertDocument(u, id)
  PROVE  StoreInv'
<1>. DEFINE key == <<"revert", u, id>>
            r == doc.revisionId
<1>. USE DEF StoreInv
<1>1. PICK target \in VersionNumbers :
      /\ r \in Nat \ {0}
      /\ VersionNumbers = 1..r
      /\ VersionNumbers' = 1..(r + 2)
      /\ \A n \in VersionNumbers : versions'[n] = versions[n]
      /\ versions'[r + 1] = [snapshot |-> doc.content,
                             reason |-> "pre_revert_backup", base |-> r]
      /\ versions'[r + 2] = [snapshot |-> versions[target].snapshot,
                             reason |-> "revert", base |-> r]
      /\ versions' = [n \in 1..(r + 2) |-> versions'[n]]
      /\ doc' = [content |-> versions[target].snapshot,
                 currentVersionId |-> r + 2, revisionId |-> r + 2]
      /\ events' = events \cup {[currentVersionId |-> r + 2, revisionId |-> r + 2]}
      /\ idempotency[key] = NoRow
      /\ StoreReply(key, [target |-> target],
                    [currentVersionId |-> r + 2, revertedFrom |-> target])
      /\ applied' = [applied EXCEPT ![key] = @ + 1]
  BY RevertHistory DEF HistoryInv
<1>. DEFINE row == [payload |-> [target |-> target],
                    reply |-> [currentVersionId |-> r + 2, revertedFrom |-> target]]
<1>2. RowsKept
  BY <1>1 DEF RowsKept
<1>3. /\ key \in Keys
      /\ idempotency' = [idempotency EXCEPT ![key] = row]
      /\ row \in [payload : RevertPayload, reply : RevertReply]
  BY <1>1 DEF Keys, StoreReply, RevertPayload, RevertReply
<1>4. UNCHANGED <<roleOf, seen>>
  BY DEF RevertDocument
<1>5. TypeOK'
  <2>1. versions[target].snapshot \in Contents /\ doc.content \in Contents
    BY <1>1 DEF TypeOK, Version
  <2>2. doc' \in [content : Contents, currentVersionId : Nat, revisionId : Nat]
    BY <1>1, <2>1
  <2>3. VersionNumbers' \subseteq Nat /\ versions' \in [VersionNumbers' -> Version]
    <3>1. versions'[r + 1] \in Version /\ versions'[r + 2] \in Version
      BY <1>1, <2>1 DEF Version, Reasons
    <3>2. \A n \in 1..(r + 2) : versions'[n] \in Version
      BY <1>1, <3>1 DEF TypeOK
    <3>. QED
      BY <1>1, <3>2
  <2>4. idempotency' \in [Keys -> StoredReply \cup {NoRow}] /\ applied' \in [Keys -> Nat]
    BY <1>1, <1>3 DEF TypeOK, StoredReply
  <2>5. events' \subseteq RevertEvent
    BY <1>1 DEF TypeOK, RevertEvent
  <2>. QED
    BY <1>4, <2>2, <2>3, <2>4, <2>5 DEF TypeOK
<1>6. HistoryInv'
  BY RevertKeepsHistory
<1>7. RevisionDenotesContent'
  BY <1>2, <1>4 DEF RevisionDenotesContent, RowsKept
<1>8. RepliesStayTrue'
  <2>1. TrueRevertRow(versions', row)
    BY <1>1, <1>3 DEF TrueRevertRow, VersionNumbers
  <2>. QED
    BY <1>2, <1>3, <2>1, ReplyStored
<1>9. RevertsAnnounced'
  <2>1. versions'[r + 1].reason # "revert" /\ versions'[r + 2].reason = "revert"
    BY <1>1
  <2>2. VersionNumbers' = VersionNumbers \cup {r + 1, r + 2}
    <3>1. r \in Nat /\ VersionNumbers = 1..r /\ VersionNumbers' = 1..(r + 2)
      BY <1>1
    <3>2. \A k \in Nat : 1..(k + 2) = (1..k) \cup {k + 1, k + 2}
      OBVIOUS
    <3>. HIDE DEF r
    <3>. QED
      BY <3>1, <3>2
  <2>3. {m \in VersionNumbers' : versions'[m].reason = "revert"}
          = {m \in VersionNumbers : versions[m].reason = "revert"} \cup {r + 2}
    BY <1>1, <2>1, <2>2, Zenon DEF RowsKept
  <2>. QED
    BY <1>1, <2>3 DEF RevertsAnnounced
<1>10. CommitsAreRecorded'
  <2>1. row # NoRow
    BY <1>3, StoreAssumption DEF StoredReply
  <2>. QED
    BY <1>1, <1>3, <2>1 DEF CommitsAreRecorded, TypeOK
<1>. QED
  BY <1>5, <1>6, <1>7, <1>8, <1>9, <1>10

\* The permission handlers and stuttering touch nothing the invariant relates.
LEMMA RoleCommittedKeepsStoreInv ==
  ASSUME StoreInv, NEW u \in Users, RoleCommitted(u)
  PROVE  StoreInv'
<1>. USE DEF StoreInv, RoleCommitted, tableVars
<1>1. TypeOK'
  BY DEF TypeOK, VersionNumbers
<1>2. HistoryInv'
  BY HistoryFrame
<1>3. RevisionDenotesContent' /\ RepliesStayTrue' /\ RevertsAnnounced' /\ CommitsAreRecorded'
  BY DEF RevisionDenotesContent, RepliesStayTrue, RevertsAnnounced, CommitsAreRecorded,
         VersionNumbers
<1>. QED
  BY <1>1, <1>2, <1>3

------------------------------------------------------------------------------
(* The theorems *)

\* The payload of a PUT /content drawn from what a client holds is well formed.
LEMMA HeldPayload ==
  ASSUME TypeOK, NEW u \in Users, NEW held \in seen[u], NEW c \in Contents
  PROVE  [content |-> c, base |-> held.revision] \in UpdatePayload
BY DEF TypeOK, Snapshot, UpdatePayload

\* Every step of the store keeps the inductive invariant.
LEMMA NextKeepsStoreInv == StoreInv /\ [Next]_vars => StoreInv'
<1>. SUFFICES ASSUME StoreInv, [Next]_vars PROVE StoreInv'
  OBVIOUS
<1>1. ASSUME NEW u \in Users, GetDocument(u) PROVE StoreInv'
  BY <1>1, GetDocumentKeepsStoreInv
<1>2. ASSUME NEW u \in Users, NEW id \in RequestIds, UpdateDocument(u, id) PROVE StoreInv'
  <2>1. PICK held \in seen[u], c \in Contents :
          LET payload == [content |-> c, base |-> held.revision] IN
          \/ UpdateReplayed(u, id, payload)
          \/ UpdateUnchanged(u, id, payload)
          \/ UpdateContent(u, id, payload)
    BY <1>2 DEF UpdateDocument
  <2>2. [content |-> c, base |-> held.revision] \in UpdatePayload
    BY HeldPayload DEF StoreInv
  <2>. QED
    BY <2>1, <2>2, UpdateReplayedKeepsStoreInv, UpdateUnchangedKeepsStoreInv,
       UpdateContentKeepsStoreInv
<1>3. ASSUME NEW u \in Users, NEW id \in RequestIds, RevertDocument(u, id) PROVE StoreInv'
  BY <1>3, RevertKeepsStoreInv
<1>4. ASSUME NEW u \in Users, RoleCommitted(u) PROVE StoreInv'
  BY <1>4, RoleCommittedKeepsStoreInv
<1>5. CASE UNCHANGED vars
  BY <1>5 DEF vars, StoreInv, TypeOK, HistoryInv, HeadIsLatestVersion, NoLostUpdate,
     RevisionDenotesContent, RepliesStayTrue, RevertsAnnounced, CommitsAreRecorded,
     VersionNumbers
<1>. QED
  BY <1>1, <1>2, <1>3, <1>4, <1>5 DEF Next

\* The store reaches only states of the inductive invariant.
THEOREM StoreInvariance == Spec => []StoreInv
BY InitEstablishesStoreInv, NextKeepsStoreInv, PTL DEF Spec

\* The tables of the store hold well-formed rows (the rows the statements of
\* document_crud.py, versions.py and idempotency.py write).
THEOREM TypeCorrect == Spec => []TypeOK
BY StoreInvariance, PTL DEF StoreInv

\* After every committed request the documents row names the newest version row
\* and repeats its text (document_crud.py:118-125, versions.py:75-86).
THEOREM HeadCorrect == Spec => []HeadIsLatestVersion
BY StoreInvariance, PTL DEF StoreInv, HistoryInv

\* No save overwrites text its author did not read, and no revert destroys the text
\* it replaces, however many clients save concurrently (document_crud.py:89-97).
THEOREM NoUpdateIsLost == Spec => []NoLostUpdate
BY StoreInvariance, PTL DEF StoreInv, HistoryInv

\* Every (revision, text) pair any client ever received is that version's snapshot.
THEOREM RevisionsDenoteContent == Spec => []RevisionDenotesContent
BY StoreInvariance, PTL DEF StoreInv

\* A replayed answer is as true as it was when stored (idempotency.py:21-59).
THEOREM StoredRepliesStayTrue == Spec => []RepliesStayTrue
BY StoreInvariance, PTL DEF StoreInv

\* A revert and its realtime event commit together (versions.py:75-108).
THEOREM EveryRevertIsAnnounced == Spec => []RevertsAnnounced
BY StoreInvariance, PTL DEF StoreInv

\* A request sent any number of times changes the document at most once
\* (idempotency.py:21-42).
THEOREM ExactlyOnce == Spec => []AppliedAtMostOnce
<1>1. StoreInv => AppliedAtMostOnce
  BY DEF StoreInv, CommitsAreRecorded, AppliedAtMostOnce
<1>. QED
  BY <1>1, StoreInvariance, PTL

\* A step adds version rows or leaves them, whoever takes it.
LEMMA StepKeepsRows ==
  ASSUME StoreInv, [Next]_vars
  PROVE  /\ RowsKept
         /\ doc'.content # doc.content => doc'.revisionId > doc.revisionId
<1>1. ASSUME UNCHANGED <<doc, versions>>
      PROVE  RowsKept /\ doc'.content = doc.content
  BY <1>1 DEF RowsKept, VersionNumbers
<1>2. ASSUME NEW u \in Users, NEW id \in RequestIds, UpdateDocument(u, id)
      PROVE  RowsKept /\ (doc'.content # doc.content => doc'.revisionId > doc.revisionId)
  <2>1. PICK held \in seen[u], c \in Contents :
          LET payload == [content |-> c, base |-> held.revision] IN
          \/ UpdateReplayed(u, id, payload)
          \/ UpdateUnchanged(u, id, payload)
          \/ UpdateContent(u, id, payload)
    BY <1>2 DEF UpdateDocument
  <2>. DEFINE payload == [content |-> c, base |-> held.revision]
  <2>2. payload \in UpdatePayload
    BY HeldPayload DEF StoreInv
  <2>3. CASE UpdateReplayed(u, id, payload) \/ UpdateUnchanged(u, id, payload)
    BY <1>1, <2>3 DEF UpdateReplayed, UpdateUnchanged, tableVars
  <2>4. CASE UpdateContent(u, id, payload)
    <3>1. TypeOK /\ HeadIsLatestVersion /\ doc.revisionId \in Nat
      BY DEF StoreInv, HistoryInv, TypeOK
    <3>. HIDE DEF payload
    <3>2. /\ VersionNumbers = 1..doc.revisionId
          /\ VersionNumbers' = 1..(doc.revisionId + 1)
          /\ \A n \in VersionNumbers : versions'[n] = versions[n]
          /\ doc' = [content |-> payload.content, currentVersionId |-> doc.revisionId + 1,
                     revisionId |-> doc.revisionId + 1]
      BY <2>2, <2>4, <3>1, UpdateContentHistory
    <3>. QED
      BY <3>1, <3>2 DEF RowsKept
  <2>. QED
    BY <2>1, <2>3, <2>4
<1>3. ASSUME NEW u \in Users, NEW id \in RequestIds, RevertDocument(u, id)
      PROVE  RowsKept /\ (doc'.content # doc.content => doc'.revisionId > doc.revisionId)
  <2>1. TypeOK /\ HeadIsLatestVersion
    BY DEF StoreInv, HistoryInv
  <2>2. /\ doc.revisionId \in Nat
        /\ VersionNumbers = 1..doc.revisionId
        /\ VersionNumbers' = 1..(doc.revisionId + 2)
        /\ \A n \in VersionNumbers : versions'[n] = versions[n]
        /\ \E target \in VersionNumbers :
             doc' = [content |-> versions[target].snapshot,
                     currentVersionId |-> doc.revisionId + 2,
                     revisionId |-> doc.revisionId + 2]
    BY <1>3, <2>1, RevertHistory
  <2>. QED
    BY <2>2 DEF RowsKept
<1>. QED
  BY <1>1, <1>2, <1>3 DEF Next, vars, GetDocument, RoleCommitted, tableVars

\* Version rows are immutable and the revision grows with every change of the text.
THEOREM HistoryOnlyGrows == Spec => HistoryAppendOnly
<1>1. StoreInv /\ [Next]_vars =>
        [/\ VersionNumbers \subseteq VersionNumbers'
         /\ \A n \in VersionNumbers : versions'[n] = versions[n]
         /\ doc'.content # doc.content => doc'.revisionId > doc.revisionId]_vars
  BY StepKeepsRows DEF RowsKept
<1>. QED
  BY <1>1, StoreInvariance, PTL DEF Spec, HistoryAppendOnly

------------------------------------------------------------------------------
(* The store implements VersionHistory *)

\* The log of VersionHistory: the snapshots of the version rows.
Log == [n \in VersionNumbers |-> versions[n].snapshot]

\* A save that changes the text appends it to the log.
LEMMA UpdateContentAppends ==
  ASSUME StoreInv, NEW u \in Users, NEW id \in RequestIds,
         NEW payload \in UpdatePayload, UpdateContent(u, id, payload), StoreInv'
  PROVE  payload.content # doc.content /\ History!Append1(payload.content)
<1>. DEFINE r == doc.revisionId
<1>1. TypeOK /\ HeadIsLatestVersion /\ TypeOK' /\ HeadIsLatestVersion'
  BY DEF StoreInv, HistoryInv
<1>2. MaxVersion = r /\ r \in Nat \ {0}
  BY <1>1, MaxVersionIsHead
<1>3. /\ VersionNumbers = 1..r
      /\ VersionNumbers' = 1..(r + 1)
      /\ \A n \in VersionNumbers : versions'[n] = versions[n]
      /\ versions'[r + 1] = [snapshot |-> payload.content,
                             reason |-> "content_update", base |-> r]
      /\ doc' = [content |-> payload.content, currentVersionId |-> r + 1, revisionId |-> r + 1]
  BY <1>1, UpdateContentHistory
<1>4. MaxVersion' = r + 1
  <2>1. \A m \in VersionNumbers' : m <= r + 1
    BY <1>2, <1>3
  <2>2. \A n \in VersionNumbers' : (\A m \in VersionNumbers' : m <= n) => n = r + 1
    BY <1>2, <1>3
  <2>3. r + 1 \in VersionNumbers'
    BY <1>2, <1>3
  <2>. QED
    BY <2>1, <2>2, <2>3 DEF MaxVersion
<1>5. Log' = [n \in 1..(r + 1) |-> IF n = r + 1 THEN payload.content ELSE Log[n]]
  BY <1>2, <1>3 DEF Log
<1>6. payload.content # doc.content /\ doc'.content = payload.content
  BY <1>3 DEF UpdateContent
<1>. QED
  BY <1>2, <1>4, <1>5, <1>6 DEF History!Append1, Log

\* A revert appends the replaced text and then the restored one.
LEMMA RevertAppends ==
  ASSUME StoreInv, NEW u \in Users, NEW id \in RequestIds, RevertDocument(u, id), StoreInv'
  PROVE  \E target \in 1..MaxVersion : History!AppendRevert(target)
<1>. DEFINE r == doc.revisionId
<1>1. TypeOK /\ HeadIsLatestVersion
  BY DEF StoreInv, HistoryInv
<1>2. MaxVersion = r /\ r \in Nat \ {0}
  BY <1>1, MaxVersionIsHead
<1>3. PICK target \in VersionNumbers :
      /\ VersionNumbers = 1..r
      /\ VersionNumbers' = 1..(r + 2)
      /\ \A n \in VersionNumbers : versions'[n] = versions[n]
      /\ versions'[r + 1] = [snapshot |-> doc.content,
                             reason |-> "pre_revert_backup", base |-> r]
      /\ versions'[r + 2] = [snapshot |-> versions[target].snapshot,
                             reason |-> "revert", base |-> r]
      /\ doc' = [content |-> versions[target].snapshot,
                 currentVersionId |-> r + 2, revisionId |-> r + 2]
  BY <1>1, RevertHistory
<1>4. MaxVersion' = r + 2
  <2>1. \A m \in VersionNumbers' : m <= r + 2
    BY <1>2, <1>3
  <2>2. \A n \in VersionNumbers' : (\A m \in VersionNumbers' : m <= n) => n = r + 2
    BY <1>2, <1>3
  <2>3. r + 2 \in VersionNumbers'
    BY <1>2, <1>3
  <2>. QED
    BY <2>1, <2>2, <2>3 DEF MaxVersion
<1>5. Log' = [n \in 1..(r + 2) |->
               CASE n = r + 2 -> Log[target]
                 [] n = r + 1 -> doc.content
                 [] OTHER     -> Log[n]]
  BY <1>2, <1>3 DEF Log
<1>6. target \in 1..r /\ Log[target] = versions[target].snapshot
  BY <1>3 DEF Log
<1>7. doc'.content = Log[target]
  BY <1>3, <1>6
<1>8. History!AppendRevert(target)
  BY <1>2, <1>4, <1>5, <1>6, <1>7 DEF History!AppendRevert, History!AppendAfterBackup, Log
<1>. QED
  BY <1>2, <1>6, <1>8

\* The document store implements the append-only log: every step appends what the
\* log may append or leaves it, so no text that was ever current is lost.
THEOREM StoreImplementsHistory == Spec => ImplementsHistory
<1>1. Init => History!HistoryInit
  <2>. SUFFICES ASSUME Init PROVE History!HistoryInit
    OBVIOUS
  <2>1. StoreInv
    BY InitEstablishesStoreInv
  <2>2. MaxVersion = 1
    BY <2>1, MaxVersionIsHead DEF Init, StoreInv, HistoryInv
  <2>3. Log = [n \in {1} |-> InitialContent]
    BY DEF Init, Log, VersionNumbers
  <2>. QED
    BY <2>2, <2>3 DEF Init, History!HistoryInit, Log
<1>2. ASSUME StoreInv, StoreInv', [Next]_vars
      PROVE  [History!HistoryNext]_(History!historyVars)
  <2>1. ASSUME UNCHANGED <<doc, versions>>
        PROVE  UNCHANGED History!historyVars
    BY <2>1 DEF History!historyVars, MaxVersion, VersionNumbers
  <2>2. ASSUME NEW u \in Users, NEW id \in RequestIds, UpdateDocument(u, id)
        PROVE  [History!HistoryNext]_(History!historyVars)
    <3>1. PICK held \in seen[u], c \in Contents :
            LET payload == [content |-> c, base |-> held.revision] IN
            \/ UpdateReplayed(u, id, payload)
            \/ UpdateUnchanged(u, id, payload)
            \/ UpdateContent(u, id, payload)
      BY <2>2 DEF UpdateDocument
    <3>. DEFINE payload == [content |-> c, base |-> held.revision]
    <3>2. payload \in UpdatePayload
      BY <1>2, HeldPayload DEF StoreInv
    <3>3. CASE UpdateReplayed(u, id, payload) \/ UpdateUnchanged(u, id, payload)
      BY <2>1, <3>3 DEF UpdateReplayed, UpdateUnchanged, tableVars
    <3>4. CASE UpdateContent(u, id, payload)
      <4>1. c # doc.content /\ History!Append1(c)
        BY <1>2, <3>2, <3>4, UpdateContentAppends
      <4>. QED
        BY <3>1, <4>1 DEF History!HistoryNext
    <3>. QED
      BY <3>1, <3>3, <3>4
  <2>3. ASSUME NEW u \in Users, NEW id \in RequestIds, RevertDocument(u, id)
        PROVE  [History!HistoryNext]_(History!historyVars)
    BY <1>2, <2>3, RevertAppends DEF History!HistoryNext
  <2>. QED
    BY <1>2, <2>1, <2>2, <2>3 DEF Next, vars, GetDocument, RoleCommitted, tableVars
<1>. QED
  BY <1>1, <1>2, StoreInvariance, PTL DEF Spec, ImplementsHistory, History!HistorySpec
==============================================================================
