-------------------------- MODULE RealtimeRelayProofs --------------------------
(***************************************************************************)
(* Sharing and RealtimeRelay for any number of users, links, overlapping   *)
(* handlers, sockets, threads, events, timers and restarts.                *)
(*                                                                         *)
(* Sharing keeps its types, every grant matches its link, and its handlers *)
(* implement AccessControl however they overlap, alone and beside the      *)
(* relay.  The relay keeps its types, what is said of its room and of the  *)
(* authors of its text, whatever the backend does.                         *)
(***************************************************************************)
EXTENDS RealtimeRelay, TLAPS

------------------------------------------------------------------------------
(* Sharing *)

\* A handler that accepts a link carries that link's role: a link never changes its
\* role, so what was read before the lock is still true.
AcceptMatchesLink ==
  \A w \in Workers :
    LET h == handler[w] IN
    /\ h # NoRow /\ h.op = "acceptLink" =>
         links[h.link] # NoRow /\ links[h.link].role = h.role
    /\ h # NoRow /\ h.op = "accept" /\ h.upsert =>
         links[h.link] # NoRow /\ links[h.link].role = h.granted

SharingInv == SharingTypeOK /\ AcceptMatchesLink /\ GrantsMatchTheirLink

------------------------------------------------------------------------------

\* An accept that changes a role grants the role of the link.
LEMMA MergeRoleRaises ==
  ASSUME NEW current, NEW incoming \in Granted
  PROVE  /\ MergeRole(current, incoming) \in Granted
         /\ MergeRole(current, incoming) # current => MergeRole(current, incoming) = incoming
BY DEF MergeRole, Granted

\* What the three kinds of in-flight handlers are, and that none of them is NoRow.
LEMMA HandlerKinds ==
  ASSUME SharingTypeOK, NEW w \in Workers, handler[w] # NoRow
  PROVE  LET h == handler[w] IN
         /\ h.op = "update" => h.user \in Users /\ h.role \in Granted /\ h.stamp \in Nat
         /\ h.op = "acceptLink" => h.user \in Users /\ h.link \in Links /\ h.role \in Granted
         /\ h.op = "accept" => /\ h.user \in Users /\ h.link \in Links
                               /\ h.granted \in Granted /\ h.stamp \in Nat
BY DEF SharingTypeOK, Handler

\* The initial tables are empty.
LEMMA SharingInitInv == SharingInit => SharingInv
BY SharingAssumption
   DEF SharingInit, SharingInv, SharingTypeOK, AcceptMatchesLink, GrantsMatchTheirLink

\* The types survive every step of every worker.
LEMMA SharingTypeStep ==
  ASSUME SharingTypeOK, [SharingNext]_sharingVars
  PROVE  SharingTypeOK'
<1>. USE SharingAssumption DEF SharingTypeOK
<1>1. ASSUME NEW w \in Workers, NEW u \in Users, NEW role \in Granted,
             UpdatePermissionStart(w, u, role)
      PROVE  SharingTypeOK'
  <2>1. [op |-> "update", user |-> u, role |-> role, stamp |-> clock] \in Handler
    BY DEF Handler
  <2>. QED  BY <1>1, <2>1 DEF UpdatePermissionStart, TakeStamp
<1>2. ASSUME NEW w \in Workers, UpdatePermissionCommit(w)
      PROVE  SharingTypeOK'
  <2>. DEFINE h == handler[w]
  <2>1. h.user \in Users /\ h.role \in Granted /\ h.stamp \in Nat
    BY <1>2, HandlerKinds DEF UpdatePermissionCommit
  <2>2. PermissionUpdated(h.user, h.role, h.stamp) \in Event
    BY <2>1 DEF PermissionUpdated, Event
  <2>3. [role |-> h.role, via |-> NoRow] \in Permission
    BY <2>1 DEF Permission
  <2>. QED  BY <1>2, <2>1, <2>2, <2>3 DEF UpdatePermissionCommit, AppendRealtimeEvent
<1>3. ASSUME NEW w \in Workers, NEW u \in Users, RevokePermission(w, u)
      PROVE  SharingTypeOK'
  <2>1. AccessRevoked(u, clock) \in Event
    BY DEF AccessRevoked, Event
  <2>. QED  BY <1>3, <2>1 DEF RevokePermission, AppendRealtimeEvent, TakeStamp
<1>4. ASSUME NEW w \in Workers, NEW l \in Links, NEW role \in Granted,
             CreateShareLink(w, l, role)
      PROVE  SharingTypeOK'
  <2>1. [role |-> role, status |-> "active", cut |-> FALSE] \in ShareLink
    BY DEF ShareLink
  <2>. QED  BY <1>4, <2>1 DEF CreateShareLink
<1>5. ASSUME NEW w \in Workers, NEW l \in Links, NEW flag \in RevokeAccess,
             RevokeShareLink(w, l, flag)
      PROVE  SharingTypeOK'
  <2>1. links[l] \in ShareLink /\ flag \in BOOLEAN
    BY <1>5 DEF RevokeShareLink
  <2>2. links' \in [Links -> ShareLink \cup {NoRow}]
    BY <1>5, <2>1 DEF RevokeShareLink, ShareLink
  <2>3. permission' \in [Users -> Permission \cup {NoRow}]
    BY <1>5 DEF RevokeShareLink
  <2>. QED  BY <1>5, <2>2, <2>3 DEF RevokeShareLink
<1>6. ASSUME NEW w \in Workers, NEW u \in Users, NEW l \in Links, AcceptReadsLink(w, u, l)
      PROVE  SharingTypeOK'
  <2>1. links[l] \in ShareLink
    BY <1>6 DEF AcceptReadsLink
  <2>2. [op |-> "acceptLink", user |-> u, link |-> l, role |-> links[l].role] \in Handler
    BY <2>1 DEF Handler, ShareLink
  <2>. QED  BY <1>6, <2>2 DEF AcceptReadsLink
<1>7. ASSUME NEW w \in Workers, AcceptReadsRole(w)
      PROVE  SharingTypeOK'
  <2>. DEFINE h == handler[w]
              granted == MergeRole(RoleOf(h.user), h.role)
  <2>1. h.user \in Users /\ h.link \in Links /\ h.role \in Granted
    BY <1>7, HandlerKinds DEF AcceptReadsRole
  <2>2. granted \in Granted
    BY <2>1, MergeRoleRaises
  <2>. HIDE DEF granted
  <2>3. [op |-> "accept", user |-> h.user, link |-> h.link, granted |-> granted,
         upsert |-> granted # RoleOf(h.user), stamp |-> clock] \in Handler
    BY <2>1, <2>2 DEF Handler
  <2>. QED  BY <1>7, <2>3 DEF AcceptReadsRole, TakeStamp, granted
<1>8. ASSUME NEW w \in Workers, AcceptCommit(w)
      PROVE  SharingTypeOK'
  <2>. DEFINE h == handler[w]
  <2>1. h.user \in Users /\ h.link \in Links /\ h.granted \in Granted /\ h.stamp \in Nat
    BY <1>8, HandlerKinds DEF AcceptCommit
  <2>2. PermissionUpdated(h.user, h.granted, h.stamp) \in Event
    BY <2>1 DEF PermissionUpdated, Event
  <2>3. [role |-> h.granted, via |-> h.link] \in Permission
    BY <2>1 DEF Permission
  <2>. QED  BY <1>8, <2>1, <2>2, <2>3 DEF AcceptCommit, AppendRealtimeEvent
<1>9. ASSUME NEW w \in Workers, HandlerFails(w)
      PROVE  SharingTypeOK'
  BY <1>9 DEF HandlerFails
<1>10. ASSUME NEW l \in Links, ShareLinkExpires(l)
       PROVE  SharingTypeOK'
  BY <1>10 DEF ShareLinkExpires, ShareLink
<1>11. CASE UNCHANGED sharingVars
  BY <1>11 DEF sharingVars
<1>. QED
  BY <1>1, <1>2, <1>3, <1>4, <1>5, <1>6, <1>7, <1>8, <1>9, <1>10, <1>11
  DEF SharingNext, SharingStep

\* A link that exists goes on existing and keeps its role.
LEMMA LinksKeepTheirRole ==
  ASSUME SharingTypeOK, [SharingNext]_sharingVars
  PROVE  \A l \in Links : links[l] # NoRow =>
           links'[l] # NoRow /\ links'[l].role = links[l].role
<1>. USE SharingAssumption DEF SharingTypeOK
<1>1. ASSUME NEW k \in Links, links[k] # NoRow,
             NEW status \in {"expired", "revoked"}, NEW cut \in BOOLEAN,
             links' = [links EXCEPT ![k].status = status, ![k].cut = cut]
      PROVE  \A l \in Links : links[l] # NoRow =>
               links'[l] # NoRow /\ links'[l].role = links[l].role
  <2>1. links[k] \in ShareLink
    BY <1>1
  <2>2. links'[k] = [role |-> links[k].role, status |-> status, cut |-> cut]
    BY <1>1, <2>1 DEF ShareLink
  <2>3. links'[k] \in ShareLink
    BY <2>1, <2>2 DEF ShareLink
  <2>4. \A l \in Links \ {k} : links'[l] = links[l]
    BY <1>1
  <2>5. links'[k] # NoRow
    BY <2>3
  <2>6. links'[k].role = links[k].role
    BY <2>2
  <2>. QED  BY <2>4, <2>5, <2>6
<1>2. CASE \E w \in Workers, l \in Links, flag \in RevokeAccess : RevokeShareLink(w, l, flag)
  BY <1>1, <1>2 DEF RevokeShareLink
<1>3. ASSUME NEW k \in Links, ShareLinkExpires(k)
      PROVE  \A l \in Links : links[l] # NoRow =>
               links'[l] # NoRow /\ links'[l].role = links[l].role
  <2>1. links[k] \in ShareLink
    BY <1>3 DEF ShareLinkExpires
  <2>2. links' = [links EXCEPT ![k].status = "expired", ![k].cut = links[k].cut]
    BY <1>3, <2>1 DEF ShareLinkExpires, ShareLink
  <2>. QED  BY <1>1, <1>3, <2>1, <2>2 DEF ShareLinkExpires, ShareLink
<1>4. CASE \E w \in Workers, l \in Links, role \in Granted : CreateShareLink(w, l, role)
  BY <1>4 DEF CreateShareLink
<1>5. CASE UNCHANGED links
  BY <1>5
<1>. QED
  BY <1>2, <1>3, <1>4, <1>5
  DEF SharingNext, SharingStep, sharingVars, UpdatePermissionStart, UpdatePermissionCommit,
      RevokePermission, AcceptReadsLink, AcceptReadsRole, AcceptCommit, HandlerFails

\* What an accept read of its link stays true while it waits for the lock.
LEMMA AcceptMatchesLinkStep ==
  ASSUME SharingInv, [SharingNext]_sharingVars
  PROVE  AcceptMatchesLink'
<1>. USE SharingAssumption DEF SharingInv, AcceptMatchesLink
<1>1. SharingTypeOK /\ SharingTypeOK'
  BY SharingTypeStep
<1>2. \A l \in Links : links[l] # NoRow =>
        links'[l] # NoRow /\ links'[l].role = links[l].role
  BY LinksKeepTheirRole
<1>3. ASSUME NEW v \in Workers, handler'[v] = handler[v] \/ handler'[v] = NoRow
      PROVE  LET h == handler'[v] IN
             /\ h # NoRow /\ h.op = "acceptLink" =>
                  links'[h.link] # NoRow /\ links'[h.link].role = h.role
             /\ h # NoRow /\ h.op = "accept" /\ h.upsert =>
                  links'[h.link] # NoRow /\ links'[h.link].role = h.granted
  <2>1. CASE handler'[v] = NoRow
    BY <2>1
  <2>2. CASE handler'[v] = handler[v] /\ handler[v] # NoRow
    <3>1. handler[v].op \in {"acceptLink", "accept"} => handler[v].link \in Links
      BY <1>1, <2>2, HandlerKinds
    <3>. QED  BY <1>2, <2>2, <3>1
  <2>. QED  BY <1>3, <2>1, <2>2
<1>4. ASSUME NEW w \in Workers, NEW u \in Users, NEW role \in Granted,
             UpdatePermissionStart(w, u, role)
      PROVE  AcceptMatchesLink'
  <2>1. handler'[w].op = "update"
    BY <1>1, <1>4 DEF UpdatePermissionStart, SharingTypeOK
  <2>2. \A v \in Workers \ {w} : handler'[v] = handler[v]
    BY <1>1, <1>4 DEF UpdatePermissionStart, SharingTypeOK
  <2>. QED  BY <1>3, <2>1, <2>2
<1>5. ASSUME NEW w \in Workers, NEW u \in Users, NEW l \in Links, AcceptReadsLink(w, u, l)
      PROVE  AcceptMatchesLink'
  <2>1. handler'[w] = [op |-> "acceptLink", user |-> u, link |-> l, role |-> links[l].role]
    BY <1>1, <1>5 DEF AcceptReadsLink, SharingTypeOK
  <2>2. links' = links /\ links[l] # NoRow
    BY <1>5 DEF AcceptReadsLink
  <2>3. \A v \in Workers \ {w} : handler'[v] = handler[v]
    BY <1>1, <1>5 DEF AcceptReadsLink, SharingTypeOK
  <2>. QED  BY <1>3, <2>1, <2>2, <2>3
<1>6. ASSUME NEW w \in Workers, AcceptReadsRole(w)
      PROVE  AcceptMatchesLink'
  <2>. DEFINE h == handler[w]
              granted == MergeRole(RoleOf(h.user), h.role)
              raises == granted # RoleOf(h.user)
  <2>1. h # NoRow /\ h.op = "acceptLink" /\ links' = links
    BY <1>6 DEF AcceptReadsRole
  <2>2. h.link \in Links /\ h.role \in Granted
    BY <1>1, <2>1, HandlerKinds
  <2>3. raises => granted = h.role
    BY <2>2, MergeRoleRaises
  <2>4. handler'[w] = [op |-> "accept", user |-> h.user, link |-> h.link, granted |-> granted,
                       upsert |-> raises, stamp |-> clock]
    BY <1>1, <1>6 DEF AcceptReadsRole, SharingTypeOK
  <2>5. \A v \in Workers \ {w} : handler'[v] = handler[v]
    BY <1>1, <1>6 DEF AcceptReadsRole, SharingTypeOK
  <2>. HIDE DEF granted, raises
  <2>6. handler'[w].upsert => handler'[w].granted = h.role
    <3>1. handler'[w].granted = granted /\ handler'[w].upsert = raises
      BY <2>4
    <3>. QED  BY <2>3, <3>1
  <2>7. handler'[w].op = "accept" /\ handler'[w].link = h.link
    BY <2>4
  <2>8. links[h.link] # NoRow /\ links[h.link].role = h.role
    BY <2>1
  <2>. QED  BY <1>3, <2>1, <2>5, <2>6, <2>7, <2>8
<1>7. CASE \A v \in Workers : handler'[v] = handler[v] \/ handler'[v] = NoRow
  BY <1>3, <1>7
<1>8. ASSUME NEW w \in Workers,
             UpdatePermissionCommit(w) \/ AcceptCommit(w) \/ HandlerFails(w)
      PROVE  \A v \in Workers : handler'[v] = handler[v] \/ handler'[v] = NoRow
  BY <1>1, <1>8 DEF SharingTypeOK, UpdatePermissionCommit, AcceptCommit, HandlerFails
<1>9. CASE UNCHANGED handler
  BY <1>7, <1>9
<1>. QED
  BY <1>4, <1>5, <1>6, <1>7, <1>8, <1>9
  DEF SharingNext, SharingStep, sharingVars, RevokePermission, CreateShareLink,
      RevokeShareLink, ShareLinkExpires

\* Every row that is written names no link or the link whose role it holds.
LEMMA GrantsMatchStep ==
  ASSUME SharingInv, [SharingNext]_sharingVars
  PROVE  GrantsMatchTheirLink'
<1>. USE SharingAssumption DEF SharingInv, GrantsMatchTheirLink
<1>1. SharingTypeOK /\ SharingTypeOK'
  BY SharingTypeStep
<1>2. \A l \in Links : links[l] # NoRow =>
        links'[l] # NoRow /\ links'[l].role = links[l].role
  BY LinksKeepTheirRole
<1>3. ASSUME NEW u \in Users, permission'[u] = permission[u] \/ permission'[u] = NoRow,
             permission'[u] # NoRow, permission'[u].via # NoRow
      PROVE  /\ links'[permission'[u].via] # NoRow
             /\ permission'[u].role = links'[permission'[u].via].role
  <2>1. permission'[u] = permission[u] /\ permission[u].via \in Links
    BY <1>1, <1>3 DEF SharingTypeOK, Permission
  <2>. QED  BY <1>2, <1>3, <2>1
<1>4. ASSUME NEW w \in Workers, UpdatePermissionCommit(w)
      PROVE  GrantsMatchTheirLink'
  <2>1. handler[w].user \in Users
    BY <1>1, <1>4, HandlerKinds DEF UpdatePermissionCommit
  <2>2. permission'[handler[w].user].via = NoRow
    BY <1>1, <1>4, <2>1 DEF UpdatePermissionCommit, SharingTypeOK
  <2>3. \A u \in Users \ {handler[w].user} : permission'[u] = permission[u]
    BY <1>1, <1>4, <2>1 DEF UpdatePermissionCommit, SharingTypeOK
  <2>. QED  BY <1>3, <2>2, <2>3
<1>5. ASSUME NEW w \in Workers, AcceptCommit(w)
      PROVE  GrantsMatchTheirLink'
  <2>. DEFINE h == handler[w]
  <2>1. h # NoRow /\ h.op = "accept" /\ h.user \in Users /\ h.link \in Links
    BY <1>1, <1>5, HandlerKinds DEF AcceptCommit
  <2>2. CASE ~h.upsert
    BY <1>3, <1>5, <2>2 DEF AcceptCommit
  <2>3. CASE h.upsert
    <3>1. permission' = [permission EXCEPT ![h.user] = [role |-> h.granted, via |-> h.link]]
      BY <1>5, <2>3 DEF AcceptCommit
    <3>2. permission'[h.user] = [role |-> h.granted, via |-> h.link]
      BY <1>1, <2>1, <3>1 DEF SharingTypeOK
    <3>3. links[h.link] # NoRow /\ links[h.link].role = h.granted
      BY <2>1, <2>3 DEF AcceptMatchesLink
    <3>4. \A u \in Users \ {h.user} : permission'[u] = permission[u]
      BY <1>1, <2>1, <3>1 DEF SharingTypeOK
    <3>5. links'[h.link] # NoRow /\ links'[h.link].role = h.granted
      BY <1>2, <2>1, <3>3
    <3>. QED  BY <1>3, <3>2, <3>4, <3>5
  <2>. QED  BY <2>2, <2>3
<1>6. CASE \A u \in Users : permission'[u] = permission[u] \/ permission'[u] = NoRow
  BY <1>3, <1>6
<1>7. ASSUME NEW w \in Workers, NEW u \in Users, RevokePermission(w, u)
      PROVE  \A v \in Users : permission'[v] = permission[v] \/ permission'[v] = NoRow
  BY <1>1, <1>7 DEF SharingTypeOK, RevokePermission
<1>8. ASSUME NEW w \in Workers, NEW l \in Links, NEW flag \in RevokeAccess,
             RevokeShareLink(w, l, flag)
      PROVE  \A v \in Users : permission'[v] = permission[v] \/ permission'[v] = NoRow
  BY <1>8 DEF RevokeShareLink
<1>9. CASE UNCHANGED permission
  BY <1>6, <1>9
<1>. QED
  BY <1>4, <1>5, <1>6, <1>7, <1>8, <1>9
  DEF SharingNext, SharingStep, sharingVars, UpdatePermissionStart, CreateShareLink,
      AcceptReadsLink, AcceptReadsRole, HandlerFails, ShareLinkExpires

\* The invariant holds in every state of every run of Sharing.
THEOREM SharingInvariance == SharingSpec => []SharingInv
<1>1. SharingInit => SharingInv
  BY SharingInitInv
<1>2. SharingInv /\ [SharingNext]_sharingVars => SharingInv'
  BY SharingTypeStep, AcceptMatchesLinkStep, GrantsMatchStep DEF SharingInv
<1>. QED  BY <1>1, <1>2, PTL DEF SharingSpec

\* The tables hold what their columns allow, and no timestamp passes the bound.
THEOREM SharingTypeCorrect == SharingSpec => []SharingTypeOK
BY SharingInvariance, PTL DEF SharingInv

\* However handlers overlap, the rows of a share link hold the role of that link.
THEOREM GrantsAlwaysMatch == SharingSpec => []GrantsMatchTheirLink
BY SharingInvariance, PTL DEF SharingInv

------------------------------------------------------------------------------
(* Sharing implements AccessControl *)

\* Nobody changes the role of the owner.
HandlersAreOfGuests == \A w \in Workers : handler[w] # NoRow => handler[w].user # Owner

AccessInv == SharingInv /\ HandlersAreOfGuests

LEMMA AccessInitInv == SharingInit => AccessInv
BY SharingInitInv DEF SharingInit, AccessInv, HandlersAreOfGuests

LEMMA HandlersAreOfGuestsStep ==
  ASSUME SharingTypeOK, HandlersAreOfGuests, [SharingNext]_sharingVars
  PROVE  HandlersAreOfGuests'
<1> USE DEF HandlersAreOfGuests
<1>1. SharingTypeOK /\ HandlersAreOfGuests
  OBVIOUS
<1>2. CASE \A w \in Workers : handler'[w] \in {handler[w], NoRow} \/ handler'[w].user # Owner
  BY <1>1, <1>2
<1>3. ASSUME NEW w \in Workers, NEW u \in Users, NEW role \in Granted,
             UpdatePermissionStart(w, u, role)
      PROVE  HandlersAreOfGuests'
  BY <1>1, <1>2, <1>3 DEF UpdatePermissionStart, SharingTypeOK
<1>4. ASSUME NEW w \in Workers,
             UpdatePermissionCommit(w) \/ AcceptCommit(w) \/ HandlerFails(w)
      PROVE  HandlersAreOfGuests'
  BY <1>1, <1>2, <1>4 DEF UpdatePermissionCommit, AcceptCommit, HandlerFails, SharingTypeOK
<1>5. ASSUME NEW w \in Workers, NEW u \in Users, NEW l \in Links, AcceptReadsLink(w, u, l)
      PROVE  HandlersAreOfGuests'
  BY <1>1, <1>2, <1>5 DEF AcceptReadsLink, SharingTypeOK
<1>6. ASSUME NEW w \in Workers, AcceptReadsRole(w)
      PROVE  HandlersAreOfGuests'
  <2>1. handler'[w].user = handler[w].user /\ \A v \in Workers \ {w} : handler'[v] = handler[v]
    BY <1>1, <1>6 DEF AcceptReadsRole, SharingTypeOK
  <2> QED
    BY <1>1, <1>2, <1>6, <2>1 DEF AcceptReadsRole
<1>7. CASE UNCHANGED handler
  BY <1>2, <1>7
<1> QED
  BY <1>3, <1>4, <1>5, <1>6, <1>7
  DEF SharingNext, SharingStep, sharingVars, RevokePermission, CreateShareLink,
      RevokeShareLink, ShareLinkExpires

LEMMA AccessInvStep == AccessInv /\ [SharingNext]_sharingVars => AccessInv'
BY SharingTypeStep, AcceptMatchesLinkStep, GrantsMatchStep, HandlersAreOfGuestsStep
DEF AccessInv, SharingInv

\* What a revocation or the expiry of a link makes of its row, and of no other.
LEMMA RevokedRow ==
  ASSUME SharingTypeOK, NEW w \in Workers, NEW l \in Links, NEW flag \in RevokeAccess,
         RevokeShareLink(w, l, flag)
  PROVE  /\ links'[l].status = "revoked" /\ links'[l].cut = flag
         /\ \A k \in Links \ {l} : links'[k] = links[k]
<1>1. links[l] \in ShareLink
  BY DEF RevokeShareLink, SharingTypeOK
<1> QED
  BY <1>1 DEF RevokeShareLink, SharingTypeOK, ShareLink

LEMMA ExpiredRow ==
  ASSUME SharingTypeOK, NEW l \in Links, ShareLinkExpires(l)
  PROVE  /\ links'[l] # NoRow /\ links'[l].cut = links[l].cut /\ links[l].status = "active"
         /\ \A k \in Links \ {l} : links'[k] = links[k]
<1>1. links[l] \in ShareLink
  BY DEF ShareLinkExpires, SharingTypeOK
<1>2. /\ links'[l] = [role |-> links[l].role, status |-> "expired", cut |-> links[l].cut]
      /\ \A k \in Links \ {l} : links'[k] = links[k]
  BY <1>1 DEF ShareLinkExpires, SharingTypeOK, ShareLink
<1>3. links'[l] \in ShareLink
  BY <1>1, <1>2 DEF ShareLink
<1> QED
  BY <1>2, <1>3, SharingAssumption DEF ShareLinkExpires

\* A row that is written is access given.
LEMMA WrittenRowIsGiven ==
  ASSUME SharingTypeOK, NEW u \in Users \ {Owner}, NEW role \in Granted,
         NEW link \in Links \cup {NoRow},
         permission' = [permission EXCEPT ![u] = [role |-> role, via |-> link]]
  PROVE  Access!Give(u, role, link)
<1>1. [role |-> role, via |-> link] \in Permission
  BY DEF Permission
<1>2. /\ permission'[u] = [role |-> role, via |-> link] /\ permission'[u] # NoRow
      /\ \A v \in Users \ {u} : permission'[v] = permission[v]
  BY <1>1, SharingAssumption DEF SharingTypeOK
<1>3. HaveAccess' = HaveAccess \cup {u}
  BY <1>2 DEF HaveAccess
<1> QED
  BY <1>2, <1>3 DEF Access!Give, HaveAccess

\* Rows that are deleted are access taken back.
LEMMA DeletedRowsAreTakenBack ==
  ASSUME NEW G, permission' = [u \in Users |-> IF u \in G THEN NoRow ELSE permission[u]]
  PROVE  Access!TakeBack(G)
<1>1. HaveAccess' = HaveAccess \ G
  BY DEF HaveAccess
<1> QED
  BY <1>1 DEF Access!TakeBack, HaveAccess

\* A worker whose handler becomes, or is, an accept of u and l asks for it.
LEMMA WorkerAsks ==
  ASSUME NEW w \in Workers, NEW u, NEW l, NEW stage,
         handler'[w] # NoRow, handler'[w].op # "update",
         handler'[w].user = u, handler'[w].link = l, Stage(w)' = stage,
         \A v \in Workers \ {w} : handler'[v] = handler[v]
  PROVE  Access!Ask(w, [guest |-> u, link |-> l, stage |-> stage])
<1>1. Accepting' = Accepting \cup {w}
  BY DEF Accepting
<1>2. \A v \in Accepting \ {w} : handler'[v] = handler[v] /\ Stage(v)' = Stage(v)
  BY DEF Accepting, Stage
<1> QED
  BY <1>1, <1>2 DEF Access!Ask, Asked

\* A worker that is through with its accept has settled it.
LEMMA WorkerSettles ==
  ASSUME NEW w \in Workers, handler'[w] = NoRow,
         \A v \in Workers \ {w} : handler'[v] = handler[v]
  PROVE  Access!Settle(w)
<1>1. Accepting' = Accepting \ {w}
  BY DEF Accepting
<1>2. \A v \in Accepting \ {w} : handler'[v] = handler[v] /\ Stage(v)' = Stage(v)
  BY DEF Accepting, Stage
<1> QED
  BY <1>1, <1>2 DEF Access!Settle, Asked

\* Handlers of other kinds ask for nothing.
LEMMA NothingIsAsked ==
  ASSUME NEW w \in Workers,
         handler[w] = NoRow \/ handler[w].op = "update",
         handler'[w] = NoRow \/ handler'[w].op = "update",
         \A v \in Workers \ {w} : handler'[v] = handler[v]
  PROVE  Asked' = Asked
<1>1. Accepting' = Accepting
  BY DEF Accepting
<1>2. \A v \in Accepting : handler'[v] = handler[v] /\ Stage(v)' = Stage(v)
  BY DEF Accepting, Stage
<1> QED
  BY <1>1, <1>2 DEF Asked

\* PUT /permissions is the owner's grant, at its commit.
LEMMA UpdateGrants ==
  ASSUME AccessInv, NEW w \in Workers, UpdatePermissionCommit(w)
  PROVE  Access!AccessNext
<1> DEFINE h == handler[w]
<1>1. SharingTypeOK /\ h.user \in Users \ {Owner} /\ h.role \in Granted
  BY HandlerKinds DEF UpdatePermissionCommit, AccessInv, HandlersAreOfGuests, SharingInv
<1>2. ASSUME NEW u \in Users \ {Owner}, NEW role \in Granted, u = h.user, role = h.role
      PROVE  Access!Grant(u, role)
  BY <1>1, <1>2, WrittenRowIsGiven DEF Access!Grant, UpdatePermissionCommit, Offered
<1>3. Asked' = Asked
  BY <1>1, NothingIsAsked DEF UpdatePermissionCommit, SharingTypeOK
<1> QED
  BY <1>1, <1>2, <1>3 DEF Access!AccessNext, Access!OwnerActs, Asked

LEMMA RevocationRemoves ==
  ASSUME AccessInv, NEW w \in Workers, NEW u \in Users, RevokePermission(w, u)
  PROVE  Access!AccessNext
<1>1. u \in Users \ {Owner} /\ UNCHANGED <<links, handler>>
  BY DEF RevokePermission
<1>2. permission' = [v \in Users |-> IF v \in {u} THEN NoRow ELSE permission[v]]
  BY DEF RevokePermission, AccessInv, SharingInv, SharingTypeOK
<1>3. Access!Remove(u)
  BY <1>1, <1>2, DeletedRowsAreTakenBack DEF Access!Remove, Offered
<1>4. Asked' = Asked
  BY <1>1 DEF Asked, Accepting, Stage
<1> QED
  BY <1>1, <1>3, <1>4 DEF Access!AccessNext, Access!OwnerActs, Asked

LEMMA CreationOffers ==
  ASSUME AccessInv, NEW w \in Workers, NEW l \in Links, NEW role \in Granted,
         CreateShareLink(w, l, role)
  PROVE  Access!AccessNext
<1> DEFINE row == [role |-> role, status |-> "active", cut |-> FALSE]
<1>1. links \in [Links -> ShareLink \cup {NoRow}] /\ row \in ShareLink
  BY DEF AccessInv, SharingInv, SharingTypeOK, ShareLink
<1>2. row # NoRow /\ row.role = role /\ row.status # "revoked"
  BY <1>1, SharingAssumption
<1>3. /\ links'[l] = row /\ links[l] = NoRow /\ UNCHANGED <<permission, handler>>
      /\ \A k \in Links \ {l} : links'[k] = links[k]
  BY <1>1 DEF CreateShareLink
<1> HIDE DEF row
<1>4. Offered' = Offered \cup {l} /\ l \notin Offered
  BY <1>2, <1>3 DEF Offered
<1>5. Access!Offer(l, role)
  BY <1>2, <1>3, <1>4 DEF Access!Offer, HaveAccess, Offered
<1>6. Asked' = Asked
  BY <1>3 DEF Asked, Accepting, Stage
<1> QED
  BY <1>5, <1>6 DEF Access!AccessNext, Access!OwnerActs, Asked

LEMMA RevocationWithdraws ==
  ASSUME AccessInv, NEW w \in Workers, NEW l \in Links, NEW flag \in RevokeAccess,
         RevokeShareLink(w, l, flag)
  PROVE  Access!AccessNext
<1> DEFINE back == {u \in HaveAccess : flag /\ permission[u].via = l}
           rows == [u \in HaveAccess |-> permission[u]]
           same == {u \in DOMAIN rows : flag /\ rows[u].via = l}
<1>1. SharingTypeOK /\ flag \in BOOLEAN /\ links[l] # NoRow
      /\ links[l].status # "revoked"
  BY SharingAssumption DEF AccessInv, SharingInv, RevokeShareLink
<1>2. /\ links'[l].status = "revoked" /\ links'[l] # NoRow
      /\ links'[l].role = links[l].role
      /\ \A k \in Links \ {l} : links'[k] = links[k]
  BY <1>1, RevokedRow, LinksKeepTheirRole DEF SharingNext, SharingStep
<1>3. permission' = [u \in Users |->
        IF flag /\ permission[u] # NoRow /\ permission[u].via = l THEN NoRow ELSE permission[u]]
  BY DEF RevokeShareLink
<1>4. Offered' = Offered /\ l \in Offered
  BY <1>1, <1>2 DEF Offered
<1>5. HaveAccess' = HaveAccess \ back
  BY <1>3 DEF HaveAccess
<1>6. same = back
  OBVIOUS
<1>7. [u \in HaveAccess' |-> permission'[u]] = [u \in HaveAccess \ back |-> permission[u]]
  BY <1>3, <1>5 DEF HaveAccess
<1>8. rows' = [u \in (DOMAIN rows) \ same |-> rows[u]]
  BY <1>6, <1>7
<1>9. {k \in Offered' : links'[k].status # "revoked"}
        = {k \in Offered : links[k].status # "revoked"} \ {l}
  BY <1>2, <1>4 DEF Offered
<1>10. [k \in Offered' |-> links'[k].role] = [k \in Offered |-> links[k].role]
  BY <1>2, <1>4 DEF Offered
<1>11. l \in {k \in Offered : links[k].status # "revoked"}
  BY <1>1, <1>4
<1>12. Access!Withdraw(l, flag)
  BY <1>8, <1>9, <1>10, <1>11 DEF Access!Withdraw, Access!TakeBack
<1>13. Asked' = Asked
  BY DEF RevokeShareLink, Asked, Accepting, Stage
<1> QED
  BY <1>1, <1>12, <1>13 DEF Access!AccessNext, Access!OwnerActs, Asked

\* An accept follows the link when it reads it: the link is on offer.
LEMMA ReadingFollows ==
  ASSUME AccessInv, NEW w \in Workers, NEW u \in Users, NEW l \in Links,
         AcceptReadsLink(w, u, l)
  PROVE  Access!AccessNext
<1>1. SharingTypeOK /\ u \in Users \ {Owner} /\ handler[w] = NoRow
      /\ UNCHANGED <<permission, links>> /\ l \in Offered /\ links[l].status = "active"
  BY DEF AccessInv, SharingInv, AcceptReadsLink, Offered
<1>2. /\ handler'[w] = [op |-> "acceptLink", user |-> u, link |-> l, role |-> links[l].role]
      /\ \A v \in Workers \ {w} : handler'[v] = handler[v]
  BY <1>1 DEF AcceptReadsLink, SharingTypeOK
<1>3. handler'[w] # NoRow
  <2>1. links[l].role \in Granted
    BY <1>1 DEF SharingTypeOK, ShareLink, Offered
  <2>2. handler'[w] \in Handler
    BY <1>2, <2>1 DEF Handler
  <2> QED
    BY <2>2, SharingAssumption
<1>4. Access!Ask(w, [guest |-> u, link |-> l, stage |-> "follows"])
  <2>1. handler'[w].op = "acceptLink" /\ handler'[w].user = u /\ handler'[w].link = l
    BY <1>2
  <2>2. Stage(w)' = "follows"
    BY <2>1 DEF Stage
  <2> QED
    BY <1>2, <1>3, <2>1, <2>2, WorkerAsks
<1>5. UNCHANGED <<HaveAccess, Offered>> /\ w \notin Accepting
  BY <1>1 DEF HaveAccess, Offered, Accepting
<1>6. Access!Follow(w, u, l)
  BY <1>1, <1>4, <1>5 DEF Access!Follow, Asked
<1> QED
  BY <1>1, <1>6 DEF Access!AccessNext, Access!GuestActs

\* Reading the role weighs the link: where it is to raise the role, it does now.
LEMMA ReadingWeighs ==
  ASSUME AccessInv, NEW w \in Workers, AcceptReadsRole(w)
  PROVE  Access!AccessNext \/ UNCHANGED <<permission, links, Asked>>
<1> DEFINE h == handler[w]
           granted == MergeRole(RoleOf(h.user), h.role)
           raises == granted # RoleOf(h.user)
<1>1. /\ SharingTypeOK /\ h # NoRow /\ h.op = "acceptLink" /\ UNCHANGED <<permission, links>>
      /\ h.user \in Users \ {Owner} /\ h.link \in Links /\ h.role \in Granted
      /\ links[h.link] # NoRow /\ links[h.link].role = h.role
  BY HandlerKinds DEF AcceptReadsRole, AccessInv, SharingInv, HandlersAreOfGuests,
                      AcceptMatchesLink
<1>2. PICK u \in Users \ {Owner}, l \in Links, role \in Granted :
        u = h.user /\ l = h.link /\ role = h.role
  BY <1>1
<1>3. /\ handler'[w] = [op |-> "accept", user |-> u, link |-> l, granted |-> granted,
                        upsert |-> raises, stamp |-> clock]
      /\ \A v \in Workers \ {w} : handler'[v] = handler[v]
  BY <1>1, <1>2 DEF AcceptReadsRole, SharingTypeOK
<1>4. granted \in Granted /\ (raises => granted = role)
  BY <1>2, MergeRoleRaises
<1>5. raises => permission[u] = NoRow \/ (permission[u].role = "viewer" /\ role = "editor")
  <2>1. permission[u] # NoRow => permission[u].role \in Granted
    BY <1>1 DEF Permission, SharingTypeOK
  <2> QED
    BY <1>1, <1>2, <2>1 DEF MergeRole, RoleOf, Granted
<1>6. raises \in BOOLEAN
  OBVIOUS
<1> HIDE DEF granted, raises
<1>7. handler'[w] \in Handler
  BY <1>1, <1>3, <1>4, <1>6 DEF Handler, SharingTypeOK
<1>8. /\ handler'[w] # NoRow /\ handler'[w].op = "accept" /\ handler'[w].user = u
      /\ handler'[w].link = l /\ handler'[w].upsert = raises
  BY <1>3, <1>7, SharingAssumption
<1>9. Stage(w)' = IF raises THEN "joins" ELSE "follows"
  BY <1>8 DEF Stage
<1>10. ASSUME NEW stage, stage = IF raises THEN "joins" ELSE "follows"
       PROVE  Access!Ask(w, [guest |-> u, link |-> l, stage |-> stage])
  BY <1>3, <1>8, <1>9, <1>10, WorkerAsks
<1>11. w \in Accepting /\ Asked[w] = [guest |-> u, link |-> l, stage |-> "follows"]
  BY <1>1, <1>2 DEF Accepting, Asked, Stage
<1>12. UNCHANGED <<HaveAccess, Offered>>
  BY <1>1 DEF HaveAccess, Offered
<1>13. CASE raises
  <2>1. l \in Offered /\ [k \in Offered |-> links[k].role][l] = role
    BY <1>1, <1>2 DEF Offered
  <2>2. u \in HaveAccess => permission[u].role = "viewer" /\ role = "editor"
    BY <1>5, <1>13 DEF HaveAccess
  <2>3. Access!Ask(w, [guest |-> u, link |-> l, stage |-> "joins"])
    BY <1>10, <1>13
  <2>4. Access!Weigh(w, u, l)
    BY <1>1, <1>11, <1>12, <2>1, <2>2, <2>3 DEF Access!Weigh, Asked
  <2> QED
    BY <2>4 DEF Access!AccessNext, Access!GuestActs
<1>14. CASE ~raises
  <2>1. Access!Ask(w, [guest |-> u, link |-> l, stage |-> "follows"])
    BY <1>10, <1>14
  <2>2. Asked' = Asked
    BY <1>11, <2>1 DEF Access!Ask, Asked
  <2> QED
    BY <1>1, <2>2
<1> QED
  BY <1>13, <1>14

\* The commit of an accept that raises the role joins by the link, whatever became of
\* the link or of the role since; the commit of another gives up.
LEMMA CommitJoins ==
  ASSUME AccessInv, NEW w \in Workers, AcceptCommit(w)
  PROVE  Access!AccessNext
<1> DEFINE h == handler[w]
<1>1. /\ h # NoRow /\ h.op = "accept" /\ h.user \in Users \ {Owner} /\ h.link \in Links
      /\ h.granted \in Granted /\ UNCHANGED links /\ SharingTypeOK
  BY HandlerKinds DEF AcceptCommit, AccessInv, HandlersAreOfGuests, SharingInv
<1>2. handler'[w] = NoRow /\ \A v \in Workers \ {w} : handler'[v] = handler[v]
  BY <1>1 DEF AcceptCommit, SharingTypeOK
<1>3. Access!Settle(w)
  BY <1>2, WorkerSettles
<1>4. Offered' = Offered
  BY <1>1 DEF Offered
<1>5. CASE ~h.upsert
  <2>1. permission' = permission
    BY <1>5 DEF AcceptCommit
  <2>2. Access!Quit(w)
    BY <1>1, <1>3, <1>4, <2>1 DEF Access!Quit, HaveAccess
  <2> QED
    BY <2>2 DEF Access!AccessNext, Access!GuestActs
<1>6. CASE h.upsert
  <2>1. PICK u \in Users \ {Owner}, l \in Links, role \in Granted :
          u = h.user /\ l = h.link /\ role = h.granted
    BY <1>1
  <2>2. permission' = [permission EXCEPT ![u] = [role |-> role, via |-> l]]
    BY <1>6, <2>1 DEF AcceptCommit
  <2>3. Access!Give(u, role, l)
    BY <1>1, <2>2, WrittenRowIsGiven
  <2>4. l \in Offered /\ [k \in Offered |-> links[k].role][l] = role
    BY <1>1, <1>6, <2>1 DEF AccessInv, SharingInv, AcceptMatchesLink, Offered
  <2>5. w \in Accepting /\ Stage(w) = "joins"
    BY <1>1, <1>6 DEF Accepting, Stage
  <2>6. Access!Join(w, u, l)
    BY <1>1, <1>3, <1>4, <2>1, <2>3, <2>4, <2>5 DEF Access!Join, Asked
  <2> QED
    BY <2>6 DEF Access!AccessNext, Access!GuestActs
<1> QED
  BY <1>5, <1>6

LEMMA FailureQuits ==
  ASSUME AccessInv, NEW w \in Workers, HandlerFails(w)
  PROVE  Access!AccessNext
<1>1. SharingTypeOK /\ UNCHANGED <<permission, links>>
  BY DEF AccessInv, SharingInv, HandlerFails
<1>2. handler'[w] = NoRow /\ \A v \in Workers \ {w} : handler'[v] = handler[v]
  BY <1>1 DEF HandlerFails, SharingTypeOK
<1>3. Access!Settle(w)
  BY <1>2, WorkerSettles
<1>4. Access!Quit(w)
  BY <1>1, <1>3 DEF Access!Quit, HaveAccess, Offered
<1> QED
  BY <1>4 DEF Access!AccessNext, Access!GuestActs

LEMMA AccessStep ==
  ASSUME AccessInv, [SharingNext]_sharingVars
  PROVE  [Access!AccessNext]_(Access!accessVars)
<1>1. UNCHANGED <<permission, links, Asked>> => UNCHANGED Access!accessVars
  BY DEF Access!accessVars, HaveAccess, Offered, Asked
<1>2. ASSUME NEW l \in Links, ShareLinkExpires(l)
      PROVE  UNCHANGED Access!accessVars
  <2>1. SharingTypeOK /\ links[l] # NoRow /\ UNCHANGED <<permission, handler>>
    BY <1>2 DEF ShareLinkExpires, AccessInv, SharingInv
  <2>2. links'[l].status = "expired" /\ links[l].status = "active"
    BY <1>2, <2>1 DEF ShareLinkExpires, SharingTypeOK, ShareLink
  <2>3. /\ links'[l] # NoRow /\ links'[l].role = links[l].role
        /\ \A k \in Links \ {l} : links'[k] = links[k]
    BY <1>2, <2>1, ExpiredRow, LinksKeepTheirRole DEF SharingNext
  <2>4. /\ HaveAccess' = HaveAccess /\ Offered' = Offered
        /\ {k \in Offered' : links'[k].status # "revoked"}
             = {k \in Offered : links[k].status # "revoked"}
    BY <2>1, <2>2, <2>3 DEF HaveAccess, Offered
  <2>5. [k \in Offered' |-> links'[k].role] = [k \in Offered |-> links[k].role]
    BY <2>3, <2>4 DEF Offered
  <2>6. Asked' = Asked
    BY <2>1 DEF Asked, Accepting, Stage
  <2> QED
    BY <2>1, <2>4, <2>5, <2>6 DEF Access!accessVars, Asked
<1>3. ASSUME NEW w \in Workers, NEW u \in Users, NEW role \in Granted,
             UpdatePermissionStart(w, u, role)
      PROVE  UNCHANGED <<permission, links, Asked>>
  <2>1. SharingTypeOK
    BY DEF AccessInv, SharingInv
  <2>2. /\ handler[w] = NoRow /\ handler'[w].op = "update"
        /\ \A v \in Workers \ {w} : handler'[v] = handler[v]
    BY <1>3, <2>1 DEF UpdatePermissionStart, SharingTypeOK
  <2>3. Asked' = Asked
    BY <2>2, NothingIsAsked
  <2> QED
    BY <1>3, <2>3 DEF UpdatePermissionStart
<1>4. CASE UNCHANGED sharingVars
  BY <1>1, <1>4 DEF sharingVars, Asked, Accepting, Stage
<1> QED
  BY <1>1, <1>2, <1>3, <1>4, UpdateGrants, RevocationRemoves, CreationOffers,
     RevocationWithdraws, ReadingFollows, ReadingWeighs, CommitJoins, FailureQuits
  DEF SharingNext, SharingStep

LEMMA AccessInit == SharingInit => Access!AccessInit
BY DEF SharingInit, Access!AccessInit, HaveAccess, Offered, Accepting, Asked

\* However many handlers overlap, who is let in is what AccessControl allows: the owner's
\* requests act whole at their commit, and an accept gives only the role of a link that
\* was on offer, to somebody who had less, at moments between its call and its commit.
THEOREM SharingImplementsAccessControl == SharingSpec => ImplementsAccessControl
<1>1. AccessInv /\ [SharingNext]_sharingVars => [Access!AccessNext]_(Access!accessVars)
  BY AccessStep
<1> QED
  BY <1>1, AccessInvStep, AccessInitInv, AccessInit,
     PTL DEF SharingSpec, ImplementsAccessControl, Access!AccessSpec


------------------------------------------------------------------------------
(* Types *)

\* A user always has one of the four roles.
LEMMA RoleOfType ==
  ASSUME SharingTypeOK, NEW u \in Users
  PROVE  RoleOf(u) \in AllRoles
BY SharingAssumption DEF RoleOf, SharingTypeOK, Permission, AllRoles, Granted

\* A socket the relay knows, whatever its state is set to.
LEMMA SocketKinds ==
  ASSUME RelayTypeOK, NEW c \in Clients, client[c] # NoRow
  PROVE  /\ client[c] \in Socket
         /\ client[c].user \in Users
         /\ \A s \in {"open", "closing", "failed"} :
              [client[c] EXCEPT !.state = s] \in Socket
         /\ \A r \in Granted : [client[c] EXCEPT !.role = r] \in Socket
BY DEF RelayTypeOK, Socket, AllRoles, Granted

\* The room a socket joins exists.
LEMMA RoomNowType ==
  ASSUME RelayTypeOK
  PROVE  RoomNow \in RelayRoom
BY DEF RoomNow, RelayTypeOK, RelayRoom

LEMMA RelayInitType == Init => RelayTypeOK
<1>. SUFFICES ASSUME Init PROVE RelayTypeOK
  OBVIOUS
<1>1. SharingTypeOK
  BY SharingInitInv DEF Init, SharingInv
<1>2. \A u \in Users : RoleOf(u) \in AllRoles
  BY <1>1, RoleOfType
<1>3. head \in Nat \ {0} /\ reverts \subseteq 1..head
  BY DEF Init
<1>4. client \in [Clients -> Socket \cup {NoRow}] /\ relayRoom \in RelayRoom \cup {NoRow}
  BY DEF Init
<1>5. armed \in BOOLEAN /\ leaked \in Nat /\ batch \subseteq undelivered /\ restarts \in Nat
  BY DEF Init
<1>6. /\ lately \in [Users -> SUBSET AllRoles] /\ sincePoll \in [Users -> SUBSET AllRoles]
      /\ held \in [Users -> SUBSET AllRoles]
  BY <1>2 DEF Init
<1>. QED  BY <1>1, <1>3, <1>4, <1>5, <1>6 DEF RelayTypeOK

\* removeClient arms a timer or leaves the timers alone.
LEMMA RemoveClientType ==
  ASSUME RelayTypeOK, NEW c \in Clients, RemoveClient(c)
  PROVE  armed' \in BOOLEAN /\ leaked' \in Nat
<1>1. CASE armed' = TRUE /\ leaked' = IF armed THEN leaked + 1 ELSE leaked
  BY <1>1 DEF RelayTypeOK
<1>2. CASE UNCHANGED <<armed, leaked>>
  BY <1>2 DEF RelayTypeOK
<1>. QED  BY <1>1, <1>2 DEF RemoveClient

\* What every step says of the history variables keeps their type.
LEMMA RecordRolesType ==
  ASSUME RelayTypeOK, SharingTypeOK', RecordRoles
  PROVE  /\ lately' \in [Users -> SUBSET AllRoles] /\ sincePoll' \in [Users -> SUBSET AllRoles]
         /\ held' \in [Users -> SUBSET AllRoles]
<1>1. \A u \in Users : RoleOf(u)' \in AllRoles
  BY SharingAssumption DEF RoleOf, SharingTypeOK, Permission, AllRoles, Granted
<1>. QED  BY <1>1 DEF RecordRoles, RelayTypeOK

\* A batch is delivered from the front: what is left was undelivered before.
LEMMA DeliveryType ==
  ASSUME RelayTypeOK, DeliverNext
  PROVE  RelayTypeOK'
<1>. USE DEF RelayTypeOK
<1>1. PICK e \in batch :
        /\ IsNext(e)
        /\ \/ e.type = "document_reverted"  /\ ApplyRevert(e)
           \/ e.type = "permission_updated" /\ ApplyRole(e)
           \/ e.type = "access_revoked"     /\ ApplyRevocation(e)
        /\ batch' = batch \ {e}
        /\ undelivered' = undelivered \ {e}
        /\ IF batch = {e} THEN FinishPoll ELSE UNCHANGED <<lately, sincePoll>>
        /\ UNCHANGED <<permission, links, handler, clock, docVars, armed, leaked, restarts, held>>
  BY DEF DeliverNext
<1>2. SharingTypeOK' /\ batch' \subseteq undelivered'
  BY <1>1 DEF SharingTypeOK
<1>3. lately' \in [Users -> SUBSET AllRoles] /\ sincePoll' \in [Users -> SUBSET AllRoles]
  BY <1>1 DEF FinishPoll
<1>4. e \in Event
  BY <1>1 DEF SharingTypeOK
<1>5. client' \in [Clients -> Socket \cup {NoRow}] /\ relayRoom' \in RelayRoom \cup {NoRow}
  <2>1. CASE e.type = "document_reverted" /\ ApplyRevert(e)
    BY <2>1 DEF ApplyRevert, RelayRoom
  <2>2. CASE e.type = "permission_updated" /\ ApplyRole(e)
    <3>1. e.role \in Granted
      BY <1>4, <2>2 DEF Event
    <3>2. \A c \in SocketsOf(e.user) : [client[c] EXCEPT !.role = e.role] \in Socket
      BY <3>1, SocketKinds DEF SocketsOf, Members, HasState
    <3>. QED  BY <2>2, <3>2 DEF ApplyRole
  <2>3. CASE e.type = "access_revoked" /\ ApplyRevocation(e)
    <3>1. \A c \in SocketsOf(e.user) : [client[c] EXCEPT !.state = "closing"] \in Socket
      BY SocketKinds DEF SocketsOf, Members, HasState
    <3>. QED  BY <2>3, <3>1 DEF ApplyRevocation
  <2>. QED  BY <1>1, <2>1, <2>2, <2>3
<1>. QED  BY <1>1, <1>2, <1>3, <1>5 DEF docVars

\* The sharing handlers add events and take none away.
LEMMA SharingKeepsEvents ==
  ASSUME SharingNext
  PROVE  undelivered \subseteq undelivered'
BY DEF SharingNext, SharingStep, UpdatePermissionStart, UpdatePermissionCommit,
  RevokePermission, CreateShareLink, RevokeShareLink, AcceptReadsLink, AcceptReadsRole,
  AcceptCommit, HandlerFails, ShareLinkExpires, AppendRealtimeEvent

\* Types survive every step of backend and relay.
LEMMA RelayTypeStep ==
  ASSUME RelayTypeOK, [Next]_vars
  PROVE  RelayTypeOK'
<1>. USE DEF RelayTypeOK
<1>1. ASSUME UNCHANGED sharingVars  PROVE SharingTypeOK'
  BY <1>1 DEF sharingVars, SharingTypeOK
<1>2. CASE SaveCommitted
  BY <1>1, <1>2 DEF SaveCommitted, sharingVars, relayVars
<1>3. CASE RevertCommitted
  <2>1. DocumentReverted(head + 1, clock) \in Event
    BY DEF DocumentReverted, Event, SharingTypeOK
  <2>2. SharingTypeOK'
    BY <1>3, <2>1, SharingAssumption
    DEF RevertCommitted, SharingTypeOK, TakeStamp, AppendRealtimeEvent
  <2>. QED  BY <1>3, <2>2 DEF RevertCommitted, AppendRealtimeEvent, relayVars
<1>4. CASE SharingStepBeside
  <2>1. SharingTypeOK'
    BY <1>4, SharingTypeStep DEF SharingStepBeside
  <2>2. undelivered \subseteq undelivered'
    BY <1>4, SharingKeepsEvents DEF SharingStepBeside
  <2>. QED  BY <1>4, <2>1, <2>2, RecordRolesType
       DEF SharingStepBeside, docVars, relayVars
<1>5. ASSUME NEW c \in Clients, NEW u \in Users, Connect(c, u)
      PROVE  RelayTypeOK'
  <2>1. [state |-> "open", user |-> u, role |-> RoleOf(u)] \in Socket
    BY <1>5, RoleOfType DEF Connect, Socket
  <2>2. RoomNow \in RelayRoom
    BY RoomNowType
  <2>. QED  BY <1>1, <1>5, <2>1, <2>2 DEF Connect, ClearTimer, sharingVars, docVars
<1>6. ASSUME NEW c \in Clients, EditArrives(c)
      PROVE  RelayTypeOK'
  <2>1. RoomNow \in RelayRoom
    BY RoomNowType
  <2>2. client[c].user \in Users
    BY <1>6, SocketKinds DEF EditArrives, HasState
  <2>3. relayRoom' \in RelayRoom
    BY <1>6, <2>1, <2>2 DEF EditArrives, RelayRoom
  <2>. QED  BY <1>1, <1>6, <2>3 DEF EditArrives, ClearTimer, sharingVars, docVars
<1>7. ASSUME NEW c \in Clients, SocketFails(c)
      PROVE  RelayTypeOK'
  <2>1. [client[c] EXCEPT !.state = "failed"] \in Socket
    BY <1>7, SocketKinds DEF SocketFails, HasState
  <2>2. client' \in [Clients -> Socket \cup {NoRow}]
    BY <1>7, <2>1 DEF SocketFails
  <2>3. armed' \in BOOLEAN /\ leaked' \in Nat
    BY <1>7, RemoveClientType DEF SocketFails
  <2>4. UNCHANGED <<permission, links, handler, clock, undelivered, head, reverts, relayRoom,
                   batch, restarts, lately, sincePoll, held>>
    BY <1>7 DEF SocketFails, sharingVars, docVars
  <2>. QED  BY <1>1, <2>2, <2>3, <2>4 DEF sharingVars
<1>8. ASSUME NEW c \in Clients, SocketCloses(c)
      PROVE  RelayTypeOK'
  <2>1. client' \in [Clients -> Socket \cup {NoRow}]
    BY <1>8 DEF SocketCloses
  <2>2. armed' \in BOOLEAN /\ leaked' \in Nat
    BY <1>8, RemoveClientType DEF SocketCloses
  <2>3. UNCHANGED <<permission, links, handler, clock, undelivered, head, reverts, relayRoom,
                   batch, restarts, lately, sincePoll, held>>
    BY <1>8 DEF SocketCloses, sharingVars, docVars
  <2>. QED  BY <1>1, <2>1, <2>2, <2>3 DEF sharingVars
<1>9. CASE CleanupTimerFires
  BY <1>1, <1>9 DEF CleanupTimerFires, DropIdleRoom, sharingVars, docVars
<1>10. CASE LeakedTimerFires
  BY <1>1, <1>10 DEF LeakedTimerFires, DropIdleRoom, sharingVars, docVars
<1>11. CASE PollFindsNothing
  <2>1. \A u \in Users : RoleOf(u) \in AllRoles
    BY RoleOfType
  <2>. QED  BY <1>1, <1>11, <2>1 DEF PollFindsNothing, sharingVars, docVars, relayVars
<1>12. CASE PollStarts
  <2>1. \A u \in Users : RoleOf(u) \in AllRoles
    BY RoleOfType
  <2>. QED  BY <1>1, <1>12, <2>1 DEF PollStarts, sharingVars, docVars
<1>13. CASE DeliverNext
  BY <1>13, DeliveryType
<1>14. CASE Restart
  <2>1. client' \in [Clients -> Socket \cup {NoRow}] /\ relayRoom' = NoRow
    BY <1>14 DEF Restart
  <2>2. armed' \in BOOLEAN /\ leaked' \in Nat
    BY <1>14 DEF Restart
  <2>3. batch' = {} /\ restarts' \in Nat
    BY <1>14 DEF Restart
  <2>. QED  BY <1>1, <1>14, <2>1, <2>2, <2>3 DEF Restart, docVars
<1>15. CASE UNCHANGED vars
  BY <1>1, <1>15 DEF vars, sharingVars, docVars, relayVars
<1>. QED
  BY <1>2, <1>3, <1>4, <1>5, <1>6, <1>7, <1>8, <1>9, <1>10, <1>11, <1>12, <1>13, <1>14, <1>15
  DEF Next, BackendStep, SocketStep, PollStep

\* The relay and the tables it reads hold what they should.
THEOREM RelayTypeCorrect == Spec => []RelayTypeOK
BY RelayInitType, RelayTypeStep, PTL DEF Spec

------------------------------------------------------------------------------
(* Sharing, with the relay at work *)

LEMMA RelayStepsAside ==
  ASSUME Next, ~SharingNext
  PROVE  UNCHANGED <<permission, links, handler>>
<1>1. CASE BackendStep
  BY <1>1 DEF BackendStep, SaveCommitted, RevertCommitted, SharingStepBeside, sharingVars
<1>2. CASE SocketStep
  BY <1>2 DEF SocketStep, Connect, EditArrives, SocketFails, SocketCloses, CleanupTimerFires,
              LeakedTimerFires, sharingVars
<1>3. CASE PollStep
  BY <1>3 DEF PollStep, PollFindsNothing, PollStarts, DeliverNext, sharingVars
<1>4. CASE Restart
  BY <1>4 DEF Restart, sharingVars
<1> QED
  BY <1>1, <1>2, <1>3, <1>4 DEF Next

\* With the relay at work too: its sockets, polls and restarts change nothing of who is
\* let in, and what it takes away, the events, is nothing the handlers rest on.
THEOREM RelayKeepsAccessControl == Spec => ImplementsAccessControl
<1>1. Init => AccessInv /\ Access!AccessInit
  BY AccessInitInv, AccessInit DEF Init
<1>2. AccessInv /\ RelayTypeOK' /\ [Next]_vars => AccessInv'
  <2> SUFFICES ASSUME AccessInv, RelayTypeOK', [Next]_vars PROVE AccessInv'
    OBVIOUS
  <2>1. CASE SharingNext
    BY <2>1, AccessInvStep
  <2>2. CASE UNCHANGED <<permission, links, handler>>
    BY <2>2 DEF AccessInv, SharingInv, RelayTypeOK, AcceptMatchesLink, GrantsMatchTheirLink,
                HandlersAreOfGuests
  <2> QED
    BY <2>1, <2>2, RelayStepsAside DEF vars, sharingVars
<1>3. AccessInv /\ [Next]_vars => [Access!AccessNext]_(Access!accessVars)
  <2> SUFFICES ASSUME AccessInv, [Next]_vars PROVE [Access!AccessNext]_(Access!accessVars)
    OBVIOUS
  <2>1. CASE SharingNext
    BY <2>1, AccessStep
  <2>2. CASE UNCHANGED <<permission, links, handler>>
    BY <2>2 DEF Access!accessVars, HaveAccess, Offered, Asked, Accepting, Stage
  <2> QED
    BY <2>1, <2>2, RelayStepsAside DEF vars, sharingVars
<1> QED
  BY <1>1, <1>2, <1>3, RelayTypeCorrect,
     PTL DEF Spec, ImplementsAccessControl, Access!AccessSpec

------------------------------------------------------------------------------
(* What the delivery of one event does *)

\* A delivered event changes the state or the role of the sockets of its user, or the
\* text of the room, and nothing else of what the relay knows.
LEMMA DeliveryEffect ==
  ASSUME RelayTypeOK, DeliverNext
  PROVE  \E e \in batch :
    /\ e \in Event /\ IsNext(e)
    /\ batch' = batch \ {e} /\ undelivered' = undelivered \ {e}
    /\ batch = {e} => lately' = sincePoll
    /\ batch # {e} => UNCHANGED lately
    /\ UNCHANGED <<permission, links, handler, clock, head, reverts, armed, sincePoll, held>>
    /\ \A c \in Clients :
         /\ client'[c] = NoRow <=> client[c] = NoRow
         /\ client[c] # NoRow =>
              /\ client'[c].user = client[c].user
              /\ client'[c].state = IF e.type = "access_revoked" /\ c \in SocketsOf(e.user)
                                    THEN "closing" ELSE client[c].state
              /\ client'[c].role = IF e.type = "permission_updated" /\ c \in SocketsOf(e.user)
                                   THEN e.role ELSE client[c].role
    /\ relayRoom' = IF e.type = "document_reverted" /\ relayRoom # NoRow
               THEN [seed |-> head, authors |-> {}] ELSE relayRoom
<1>1. PICK e \in batch :
        /\ IsNext(e)
        /\ \/ e.type = "document_reverted"  /\ ApplyRevert(e)
           \/ e.type = "permission_updated" /\ ApplyRole(e)
           \/ e.type = "access_revoked"     /\ ApplyRevocation(e)
        /\ batch' = batch \ {e}
        /\ undelivered' = undelivered \ {e}
        /\ IF batch = {e} THEN FinishPoll ELSE UNCHANGED <<lately, sincePoll>>
        /\ UNCHANGED <<permission, links, handler, clock, docVars, armed, leaked, restarts, held>>
  BY DEF DeliverNext
<1>. DEFINE Effect(c) ==
         /\ client'[c] = NoRow <=> client[c] = NoRow
         /\ client[c] # NoRow =>
              /\ client'[c].user = client[c].user
              /\ client'[c].state = IF e.type = "access_revoked" /\ c \in SocketsOf(e.user)
                                    THEN "closing" ELSE client[c].state
              /\ client'[c].role = IF e.type = "permission_updated" /\ c \in SocketsOf(e.user)
                                   THEN e.role ELSE client[c].role
<1>2. e \in Event
  BY <1>1 DEF RelayTypeOK, SharingTypeOK
<1>3. /\ batch = {e} => lately' = sincePoll
      /\ batch # {e} => UNCHANGED lately
      /\ UNCHANGED <<sincePoll, held>>
  BY <1>1 DEF FinishPoll
<1>4. ASSUME NEW c \in Clients, c \in SocketsOf(e.user)
      PROVE  client[c] # NoRow /\ client[c] \in Socket
  BY <1>4, SocketKinds DEF SocketsOf, Members, HasState
<1>5. CASE e.type = "document_reverted" /\ ApplyRevert(e)
  <2>1. \A c \in Clients : Effect(c)
    BY <1>5 DEF ApplyRevert
  <2>. QED  BY <1>1, <1>2, <1>3, <1>5, <2>1 DEF ApplyRevert, docVars
<1>6. CASE e.type = "permission_updated" /\ ApplyRole(e)
  <2>1. ASSUME NEW c \in Clients  PROVE Effect(c)
    <3>1. CASE c \in SocketsOf(e.user)
      <4>1. client'[c] = [client[c] EXCEPT !.role = e.role]
        BY <1>6, <3>1 DEF ApplyRole
      <4>2. client[c] # NoRow /\ client[c] \in Socket
        BY <1>4, <3>1
      <4>3. e.role \in Granted
        BY <1>2, <1>6 DEF Event
      <4>4. client'[c] \in Socket
        BY <4>1, <4>2, <4>3, SocketKinds
      <4>5. /\ client'[c].user = client[c].user
            /\ client'[c].state = client[c].state
            /\ client'[c].role = e.role
        BY <4>1, <4>2 DEF Socket
      <4>. QED  BY <1>6, <3>1, <4>2, <4>4, <4>5, RelayAssumption
    <3>2. CASE c \notin SocketsOf(e.user)
      BY <1>6, <3>2 DEF ApplyRole
    <3>. QED  BY <3>1, <3>2
  <2>. QED  BY <1>1, <1>2, <1>3, <1>6, <2>1 DEF ApplyRole, docVars
<1>7. CASE e.type = "access_revoked" /\ ApplyRevocation(e)
  <2>1. ASSUME NEW c \in Clients  PROVE Effect(c)
    <3>1. CASE c \in SocketsOf(e.user)
      <4>1. client'[c] = [client[c] EXCEPT !.state = "closing"]
        BY <1>7, <3>1 DEF ApplyRevocation
      <4>2. client[c] # NoRow /\ client[c] \in Socket
        BY <1>4, <3>1
      <4>3. client'[c] \in Socket
        BY <4>1, <4>2, SocketKinds
      <4>4. /\ client'[c].user = client[c].user
            /\ client'[c].state = "closing"
            /\ client'[c].role = client[c].role
        BY <4>1, <4>2 DEF Socket
      <4>. QED  BY <1>7, <3>1, <4>2, <4>3, <4>4, RelayAssumption
    <3>2. CASE c \notin SocketsOf(e.user)
      BY <1>7, <3>2 DEF ApplyRevocation
    <3>. QED  BY <3>1, <3>2
  <2>. QED  BY <1>1, <1>2, <1>3, <1>7, <2>1 DEF ApplyRevocation, docVars
<1>. QED  BY <1>1, <1>5, <1>6, <1>7

------------------------------------------------------------------------------
(* The room *)

RoomInv == RelayTypeOK /\ ServedSocketsHaveTheRoom /\ RevertsReachTheRoom

\* A room is never the value that stands for "no room".
LEMMA RoomIsNotNoRow == NoRow \notin RelayRoom
BY RelayAssumption

\* A member that fails or closes leaves; if it was the last, the room goes idle.
LEMMA LeavingKeepsTheRoom ==
  ASSUME RelayTypeOK, ServedSocketsHaveTheRoom, NEW c \in Clients, RemoveClient(c),
         UNCHANGED relayRoom, Members' = Members \ {c}
  PROVE  ServedSocketsHaveTheRoom'
<1>1. CASE relayRoom # NoRow /\ Members \subseteq {c}
  BY <1>1 DEF ServedSocketsHaveTheRoom
<1>2. CASE ~(relayRoom # NoRow /\ Members \subseteq {c})
  <2>1. UNCHANGED armed
    BY <1>2 DEF RemoveClient
  <2>. QED  BY <2>1 DEF ServedSocketsHaveTheRoom
<1>. QED  BY <1>1, <1>2

\* Whoever joins or edits finds a room, made from the current row if there was none.
LEMMA JoiningKeepsTheSeed ==
  ASSUME RelayTypeOK, NEW c \in Clients, (\E u \in Users : Connect(c, u)) \/ EditArrives(c)
  PROVE  /\ relayRoom' \in RelayRoom /\ ~armed'
         /\ relayRoom'.seed = IF relayRoom = NoRow THEN head ELSE relayRoom.seed
<1>1. RoomNow \in RelayRoom /\ RoomNow.seed = IF relayRoom = NoRow THEN head ELSE relayRoom.seed
  BY RoomNowType DEF RoomNow
<1>2. CASE \E u \in Users : Connect(c, u)
  BY <1>1, <1>2 DEF Connect, ClearTimer
<1>3. CASE EditArrives(c)
  <2>1. client[c].user \in Users
    BY <1>3, SocketKinds DEF EditArrives, HasState
  <2>2. relayRoom' = [RoomNow EXCEPT !.authors = @ \cup {client[c].user}] /\ armed' = FALSE
    BY <1>3 DEF EditArrives, ClearTimer
  <2>3. relayRoom' \in RelayRoom /\ relayRoom'.seed = RoomNow.seed
    BY <1>1, <2>1, <2>2 DEF RelayRoom
  <2>. QED  BY <1>1, <2>2, <2>3
<1>. QED  BY <1>2, <1>3

LEMMA ServedStep ==
  ASSUME RelayTypeOK, ServedSocketsHaveTheRoom, [Next]_vars
  PROVE  ServedSocketsHaveTheRoom'
<1>1. ASSUME UNCHANGED <<client, relayRoom, armed>>
      PROVE  ServedSocketsHaveTheRoom'
  BY <1>1 DEF ServedSocketsHaveTheRoom, Members, HasState
<1>2. CASE BackendStep \/ PollFindsNothing \/ PollStarts \/ UNCHANGED vars
  BY <1>1, <1>2 DEF BackendStep, SaveCommitted, RevertCommitted, SharingStepBeside,
    PollFindsNothing, PollStarts, vars, relayVars
<1>3. ASSUME NEW c \in Clients, (\E u \in Users : Connect(c, u)) \/ EditArrives(c)
      PROVE  ServedSocketsHaveTheRoom'
  BY <1>3, JoiningKeepsTheSeed, RoomIsNotNoRow DEF ServedSocketsHaveTheRoom
<1>4. ASSUME NEW c \in Clients, SocketFails(c)
      PROVE  ServedSocketsHaveTheRoom'
  <2>1. client'[c].state = "failed"
    BY <1>4, SocketKinds DEF SocketFails, HasState, RelayTypeOK, Socket
  <2>2. \A d \in Clients \ {c} : client'[d] = client[d]
    BY <1>4 DEF SocketFails, RelayTypeOK
  <2>3. Members' = Members \ {c}
    BY <2>1, <2>2 DEF Members, HasState
  <2>4. RemoveClient(c) /\ UNCHANGED relayRoom
    BY <1>4 DEF SocketFails
  <2>. QED  BY <2>3, <2>4, LeavingKeepsTheRoom
<1>5. ASSUME NEW c \in Clients, SocketCloses(c)
      PROVE  ServedSocketsHaveTheRoom'
  <2>1. client'[c] = NoRow /\ \A d \in Clients \ {c} : client'[d] = client[d]
    BY <1>5 DEF SocketCloses, RelayTypeOK
  <2>2. Members' = Members \ {c}
    BY <2>1 DEF Members, HasState
  <2>3. RemoveClient(c) /\ UNCHANGED relayRoom
    BY <1>5 DEF SocketCloses
  <2>. QED  BY <2>2, <2>3, LeavingKeepsTheRoom
<1>6. ASSUME UNCHANGED client, DropIdleRoom, armed' => armed
      PROVE  ServedSocketsHaveTheRoom'
  BY <1>6 DEF ServedSocketsHaveTheRoom, DropIdleRoom, Members, HasState
<1>7. CASE CleanupTimerFires \/ LeakedTimerFires
  BY <1>6, <1>7 DEF CleanupTimerFires, LeakedTimerFires
<1>8. CASE DeliverNext
  <2>1. Members' = Members /\ (relayRoom' = NoRow => relayRoom = NoRow) /\ UNCHANGED armed
    <3>1. [seed |-> head, authors |-> {}] \in RelayRoom
      BY DEF RelayRoom, RelayTypeOK
    <3>. QED  BY <1>8, <3>1, DeliveryEffect, RoomIsNotNoRow DEF Members, HasState, SocketsOf
  <2>. QED  BY <2>1 DEF ServedSocketsHaveTheRoom
<1>9. CASE Restart
  BY <1>9 DEF Restart, ServedSocketsHaveTheRoom, Members, HasState
<1>. QED
  BY <1>2, <1>3, <1>4, <1>5, <1>7, <1>8, <1>9 DEF Next, SocketStep, PollStep

\* A revert waits in the table or is in the room: its event leaves the table only
\* when the room is set from the current row, and that row is at least as new.
LEMMA RevertsStep ==
  ASSUME RelayTypeOK, RevertsReachTheRoom, [Next]_vars
  PROVE  RevertsReachTheRoom'
<1>1. ASSUME UNCHANGED reverts, undelivered \subseteq undelivered',
             \/ relayRoom' = NoRow
             \/ relayRoom' # NoRow /\ relayRoom # NoRow /\ relayRoom'.seed = relayRoom.seed
             \/ relayRoom'.seed = head
      PROVE  RevertsReachTheRoom'
  <2>1. \A n \in reverts : head >= n
    BY DEF RelayTypeOK
  <2>. QED  BY <1>1, <2>1 DEF RevertsReachTheRoom
<1>2. CASE SaveCommitted \/ PollFindsNothing \/ PollStarts \/ UNCHANGED vars
  BY <1>1, <1>2 DEF SaveCommitted, PollFindsNothing, PollStarts, vars, relayVars,
    sharingVars, docVars
<1>3. CASE SharingStepBeside
  <2>1. undelivered \subseteq undelivered'
    BY <1>3, SharingKeepsEvents DEF SharingStepBeside
  <2>. QED  BY <1>1, <1>3, <2>1 DEF SharingStepBeside, docVars, relayVars
<1>4. CASE RevertCommitted
  <2>1. undelivered' = undelivered \cup {DocumentReverted(head + 1, clock)}
    BY <1>4 DEF RevertCommitted, AppendRealtimeEvent
  <2>2. reverts' = reverts \cup {head + 1} /\ relayRoom' = relayRoom
    BY <1>4 DEF RevertCommitted, relayVars
  <2>3. \E e \in undelivered' : e.type = "document_reverted" /\ e.revision = head + 1
    <3>. DEFINE announced == DocumentReverted(head + 1, clock)
    <3>1. announced.type = "document_reverted" /\ announced.revision = head + 1
      BY DEF DocumentReverted
    <3>2. announced \in undelivered'
      BY <2>1
    <3>. HIDE DEF announced
    <3>. QED  BY <3>1, <3>2
  <2>4. ASSUME NEW n \in reverts
        PROVE  \/ \E e \in undelivered' : e.type = "document_reverted" /\ e.revision = n
               \/ relayRoom' = NoRow
               \/ relayRoom'.seed >= n
    BY <2>1, <2>2 DEF RevertsReachTheRoom
  <2>. QED  BY <2>2, <2>3, <2>4 DEF RevertsReachTheRoom
<1>5. ASSUME NEW c \in Clients, (\E u \in Users : Connect(c, u)) \/ EditArrives(c)
      PROVE  RevertsReachTheRoom'
  <2>1. UNCHANGED <<undelivered, reverts>>
    BY <1>5 DEF Connect, EditArrives, sharingVars, docVars
  <2>2. relayRoom' # NoRow /\ ((relayRoom # NoRow /\ relayRoom'.seed = relayRoom.seed) \/ relayRoom'.seed = head)
    BY <1>5, JoiningKeepsTheSeed, RoomIsNotNoRow
  <2>. QED  BY <1>1, <2>1, <2>2
<1>6. CASE \E c \in Clients : SocketFails(c) \/ SocketCloses(c)
  BY <1>1, <1>6 DEF SocketFails, SocketCloses, sharingVars, docVars
<1>7. CASE CleanupTimerFires \/ LeakedTimerFires \/ Restart
  BY <1>1, <1>7 DEF CleanupTimerFires, LeakedTimerFires, DropIdleRoom, Restart,
    sharingVars, docVars
<1>8. CASE DeliverNext
  <2>1. PICK e \in batch :
          /\ undelivered' = undelivered \ {e}
          /\ UNCHANGED reverts
          /\ relayRoom' = IF e.type = "document_reverted" /\ relayRoom # NoRow
                     THEN [seed |-> head, authors |-> {}] ELSE relayRoom
    BY <1>8, DeliveryEffect
  <2>2. \A n \in reverts : head >= n
    BY DEF RelayTypeOK
  <2>3. CASE e.type = "document_reverted" /\ relayRoom # NoRow
    BY <2>1, <2>2, <2>3 DEF RevertsReachTheRoom
  <2>4. CASE e.type # "document_reverted" \/ relayRoom = NoRow
    BY <2>1, <2>4 DEF RevertsReachTheRoom
  <2>. QED  BY <2>3, <2>4
<1>. QED
  BY <1>2, <1>3, <1>4, <1>5, <1>6, <1>7, <1>8 DEF Next, BackendStep, SocketStep, PollStep

\* The room is there for whoever is served, and reverts get into it.
THEOREM RoomCorrect == Spec => []RoomInv
<1>1. Init => RoomInv
  BY RelayInitType DEF Init, RoomInv, ServedSocketsHaveTheRoom, RevertsReachTheRoom,
    Members, HasState
<1>2. RoomInv /\ [Next]_vars => RoomInv'
  BY RelayTypeStep, ServedStep, RevertsStep DEF RoomInv
<1>. QED  BY <1>1, <1>2, PTL DEF Spec

\* No socket that is served loses its room, whichever timers were lost.
THEOREM NobodyLosesTheRoom == Spec => []ServedSocketsHaveTheRoom
BY RoomCorrect, PTL DEF RoomInv

\* Every revert that was delivered is in the room, across idle rooms and restarts.
THEOREM NoRevertIsMissed == Spec => []RevertsReachTheRoom
BY RoomCorrect, PTL DEF RoomInv

------------------------------------------------------------------------------
(* Who may write *)

\* Every role that is had, told, about to be granted or enforced was held by its user.
RolesWereHeld ==
  /\ \A u \in Users : RoleOf(u) \in held[u]
  /\ \A e \in undelivered : e.type = "permission_updated" => e.role \in held[e.user]
  /\ \A w \in Workers :
       LET h == handler[w] IN
       h # NoRow /\ h.op = "accept" /\ ~h.upsert => h.granted \in held[h.user]
  /\ \A c \in Clients : client[c] # NoRow => client[c].role \in held[client[c].user]

HeldInv == RelayTypeOK /\ HandlersAreOfGuests /\ RolesWereHeld /\ AuthorsCouldWrite

\* Writing role r into the row of u gives u that role, and nobody else another one.
LEMMA WritingARole ==
  ASSUME SharingTypeOK, NEW u \in Users, u # Owner, NEW r \in Granted, NEW via \in Links \cup {NoRow},
         permission' = [permission EXCEPT ![u] = [role |-> r, via |-> via]]
  PROVE  RoleOf(u)' = r
<1>1. [role |-> r, via |-> via] \in Permission
  BY DEF Permission
<1>2. permission'[u] = [role |-> r, via |-> via] /\ permission'[u] # NoRow
  BY <1>1, SharingAssumption DEF SharingTypeOK
<1>. QED  BY <1>2 DEF RoleOf

\* A committed event tells a role its user has now or had when the accept read it.
LEMMA ToldRolesWereHeld ==
  ASSUME HeldInv, SharingNext, RecordRoles
  PROVE  \A e \in undelivered' : e.type = "permission_updated" => e.role \in held'[e.user]
<1>. DEFINE Told(e) == e.type = "permission_updated" => e.role \in held'[e.user]
<1>1. SharingTypeOK /\ SharingTypeOK' /\ held \in [Users -> SUBSET AllRoles]
  BY SharingTypeStep DEF HeldInv, RelayTypeOK
<1>2. \A u \in Users : held[u] \subseteq held'[u] /\ RoleOf(u)' \in held'[u]
  BY <1>1 DEF RecordRoles
<1>3. \A e \in undelivered : Told(e)
  <2>. SUFFICES ASSUME NEW e \in undelivered, e.type = "permission_updated"
                PROVE  e.role \in held'[e.user]
    OBVIOUS
  <2>1. e.user \in Users
    BY <1>1 DEF SharingTypeOK, Event
  <2>. QED  BY <1>2, <2>1 DEF HeldInv, RolesWereHeld
<1>4. ASSUME NEW w \in Workers, UpdatePermissionCommit(w)
      PROVE  \A e \in undelivered' : Told(e)
  <2>. DEFINE h == handler[w]
  <2>1. h # NoRow /\ h.op = "update" /\ h.user \in Users /\ h.role \in Granted /\ h.user # Owner
    BY <1>1, <1>4, HandlerKinds DEF UpdatePermissionCommit, HeldInv, HandlersAreOfGuests
  <2>2. PICK u \in Users, r \in Granted : u = h.user /\ r = h.role
    BY <2>1
  <2>3. permission' = [permission EXCEPT ![u] = [role |-> r, via |-> NoRow]]
    BY <1>4, <2>2 DEF UpdatePermissionCommit
  <2>4. RoleOf(u)' = r
    BY <1>1, <2>1, <2>2, <2>3, WritingARole
  <2>5. undelivered' = undelivered \cup {PermissionUpdated(u, r, h.stamp)}
    BY <1>4, <2>2 DEF UpdatePermissionCommit, AppendRealtimeEvent
  <2>6. Told(PermissionUpdated(u, r, h.stamp))
    BY <1>2, <2>4 DEF PermissionUpdated
  <2>. QED  BY <1>3, <2>5, <2>6
<1>5. ASSUME NEW w \in Workers, AcceptCommit(w)
      PROVE  \A e \in undelivered' : Told(e)
  <2>. DEFINE h == handler[w]
  <2>1. /\ h # NoRow /\ h.op = "accept" /\ h.user \in Users /\ h.link \in Links
        /\ h.granted \in Granted /\ h.user # Owner
    BY <1>1, <1>5, HandlerKinds DEF AcceptCommit, HeldInv, HandlersAreOfGuests
  <2>2. PICK u \in Users, l \in Links, r \in Granted : u = h.user /\ l = h.link /\ r = h.granted
    BY <2>1
  <2>3. r \in held'[u]
    <3>1. CASE h.upsert
      <4>1. permission' = [permission EXCEPT ![u] = [role |-> r, via |-> l]]
        BY <1>5, <2>2, <3>1 DEF AcceptCommit
      <4>2. RoleOf(u)' = r
        BY <1>1, <2>1, <2>2, <4>1, WritingARole
      <4>. QED  BY <1>2, <4>2
    <3>2. CASE ~h.upsert
      BY <1>2, <2>1, <2>2, <3>2 DEF HeldInv, RolesWereHeld
    <3>. QED  BY <3>1, <3>2
  <2>4. undelivered' = undelivered \cup {PermissionUpdated(u, r, h.stamp)}
    BY <1>5, <2>2 DEF AcceptCommit, AppendRealtimeEvent
  <2>5. Told(PermissionUpdated(u, r, h.stamp))
    BY <2>3 DEF PermissionUpdated
  <2>. QED  BY <1>3, <2>4, <2>5
<1>6. ASSUME NEW w \in Workers, NEW u \in Users, RevokePermission(w, u)
      PROVE  \A e \in undelivered' : Told(e)
  <2>1. undelivered' = undelivered \cup {AccessRevoked(u, clock)}
    BY <1>6 DEF RevokePermission, AppendRealtimeEvent
  <2>. QED  BY <1>3, <2>1 DEF AccessRevoked
<1>7. CASE UNCHANGED undelivered
  BY <1>3, <1>7
<1>. QED
  BY <1>4, <1>5, <1>6, <1>7
  DEF SharingNext, SharingStep, UpdatePermissionStart, CreateShareLink, RevokeShareLink,
      AcceptReadsLink, AcceptReadsRole, HandlerFails, ShareLinkExpires

\* An accept that changes nothing grants the role it read.
LEMMA KeptRolesWereHeld ==
  ASSUME HeldInv, SharingNext, RecordRoles
  PROVE  \A w \in Workers :
           LET h == handler'[w] IN
           h # NoRow /\ h.op = "accept" /\ ~h.upsert => h.granted \in held'[h.user]
<1>. DEFINE Kept(w) == LET h == handler'[w] IN
                       h # NoRow /\ h.op = "accept" /\ ~h.upsert => h.granted \in held'[h.user]
<1>1. SharingTypeOK /\ held \in [Users -> SUBSET AllRoles]
  BY DEF HeldInv, RelayTypeOK
<1>2. \A u \in Users : held[u] \subseteq held'[u]
  BY <1>1 DEF RecordRoles
<1>3. ASSUME NEW v \in Workers, handler'[v] \in {handler[v], NoRow}
      PROVE  Kept(v)
  <2>. SUFFICES ASSUME handler[v] # NoRow, handler'[v] = handler[v], handler[v].op = "accept",
                       ~handler[v].upsert
                PROVE  handler[v].granted \in held'[handler[v].user]
    BY <1>3
  <2>1. handler[v].user \in Users
    BY <1>1, HandlerKinds
  <2>. QED  BY <1>2, <2>1 DEF HeldInv, RolesWereHeld
<1>4. CASE \A v \in Workers : handler'[v] \in {handler[v], NoRow} \/ handler'[v].op # "accept"
  BY <1>3, <1>4
<1>5. ASSUME NEW w \in Workers, AcceptReadsRole(w)
      PROVE  \A v \in Workers : Kept(v)
  <2>. DEFINE h == handler[w]
              granted == MergeRole(RoleOf(h.user), h.role)
              raises == granted # RoleOf(h.user)
  <2>1. h.user \in Users
    BY <1>1, <1>5, HandlerKinds DEF AcceptReadsRole
  <2>2. /\ handler'[w] = [op |-> "accept", user |-> h.user, link |-> h.link, granted |-> granted,
                          upsert |-> raises, stamp |-> clock]
        /\ \A v \in Workers \ {w} : handler'[v] = handler[v]
    BY <1>1, <1>5 DEF AcceptReadsRole, SharingTypeOK
  <2>3. ~raises => granted \in held'[h.user]
    BY <1>2, <2>1 DEF HeldInv, RolesWereHeld
  <2>. HIDE DEF granted, raises
  <2>4. handler'[w].upsert = raises /\ handler'[w].granted = granted /\ handler'[w].user = h.user
    BY <2>2
  <2>5. Kept(w)
    BY <2>3, <2>4
  <2>. QED  BY <1>3, <2>2, <2>5
<1>6. ASSUME NEW w \in Workers, NEW u \in Users, NEW role \in Granted,
             UpdatePermissionStart(w, u, role)
      PROVE  \A v \in Workers : Kept(v)
  BY <1>1, <1>4, <1>6 DEF UpdatePermissionStart, SharingTypeOK
<1>7. ASSUME NEW w \in Workers, NEW u \in Users, NEW l \in Links, AcceptReadsLink(w, u, l)
      PROVE  \A v \in Workers : Kept(v)
  BY <1>1, <1>4, <1>7 DEF AcceptReadsLink, SharingTypeOK
<1>8. ASSUME NEW w \in Workers,
             UpdatePermissionCommit(w) \/ AcceptCommit(w) \/ HandlerFails(w)
      PROVE  \A v \in Workers : Kept(v)
  BY <1>1, <1>4, <1>8 DEF UpdatePermissionCommit, AcceptCommit, HandlerFails, SharingTypeOK
<1>9. CASE UNCHANGED handler
  BY <1>4, <1>9
<1>. QED
  BY <1>5, <1>6, <1>7, <1>8, <1>9
  DEF SharingNext, SharingStep, RevokePermission, CreateShareLink, RevokeShareLink,
      ShareLinkExpires

\* A socket keeps its role or takes one that was held, and so do the authors it adds.
LEMMA HeldSocketStep ==
  ASSUME HeldInv, UNCHANGED <<permission, handler, held>>, undelivered' \subseteq undelivered,
         RelayTypeOK',
         \A c \in Clients : client'[c] # NoRow => client'[c].role \in held[client'[c].user],
         relayRoom' # NoRow => \A u \in relayRoom'.authors :
           held[u] \cap {"owner", "editor"} # {}
  PROVE  HeldInv'
<1>1. \A u \in Users : RoleOf(u)' = RoleOf(u)
  BY DEF RoleOf
<1>. QED  BY <1>1 DEF HeldInv, HandlersAreOfGuests, RolesWereHeld, AuthorsCouldWrite

LEMMA HeldStep ==
  ASSUME HeldInv, RelayTypeOK', [Next]_vars
  PROVE  HeldInv'
<1>. DEFINE Sockets == \A c \in Clients :
                         client'[c] # NoRow => client'[c].role \in held[client'[c].user]
            Authors == relayRoom' # NoRow => \A u \in relayRoom'.authors :
                         held[u] \cap {"owner", "editor"} # {}
<1>1. /\ RelayTypeOK /\ client \in [Clients -> Socket \cup {NoRow}]
      /\ \A u \in Users : RoleOf(u) \in held[u]
      /\ \A c \in Clients : client[c] # NoRow => client[c].role \in held[client[c].user]
  BY DEF HeldInv, RolesWereHeld, RelayTypeOK
<1>2. UNCHANGED client => Sockets
  BY <1>1
<1>3. UNCHANGED relayRoom \/ relayRoom' = NoRow => Authors
  BY DEF HeldInv, AuthorsCouldWrite
<1>4. RoomNow = relayRoom \/ RoomNow.authors = {}
  BY DEF RoomNow
<1>5. CASE SharingStepBeside
  <2>1. SharingNext /\ RecordRoles /\ UNCHANGED <<docVars, relayVars>>
    BY <1>5 DEF SharingStepBeside
  <2>2. \A u \in Users : held[u] \subseteq held'[u] /\ RoleOf(u)' \in held'[u]
    BY <1>1, <2>1 DEF RecordRoles, RelayTypeOK
  <2>3. HandlersAreOfGuests'
    BY <2>1, HandlersAreOfGuestsStep DEF HeldInv, RelayTypeOK
  <2>4. ASSUME NEW c \in Clients, client'[c] # NoRow
        PROVE  client'[c].role \in held'[client'[c].user]
    <3>1. client'[c] = client[c] /\ client[c].user \in Users
      BY <1>1, <2>1, <2>4, SocketKinds DEF relayVars
    <3>. QED  BY <1>1, <2>2, <2>4, <3>1
  <2>5. AuthorsCouldWrite'
    <3>1. relayRoom' = relayRoom /\ (relayRoom # NoRow => relayRoom.authors \subseteq Users)
      BY <1>1, <2>1 DEF relayVars, RelayTypeOK, RelayRoom
    <3>. QED  BY <2>2, <3>1 DEF HeldInv, AuthorsCouldWrite
  <2>. QED
    BY <2>1, <2>2, <2>3, <2>4, <2>5, ToldRolesWereHeld, KeptRolesWereHeld
    DEF HeldInv, RolesWereHeld
<1>6. CASE RevertCommitted
  <2>1. /\ UNCHANGED <<permission, handler, held, client, relayRoom>>
        /\ undelivered' = undelivered \cup {DocumentReverted(head + 1, clock)}
    BY <1>6 DEF RevertCommitted, AppendRealtimeEvent, relayVars
  <2>2. \A u \in Users : RoleOf(u)' = RoleOf(u)
    BY <2>1 DEF RoleOf
  <2>. QED  BY <2>1, <2>2 DEF HeldInv, HandlersAreOfGuests, RolesWereHeld, AuthorsCouldWrite,
                             DocumentReverted
<1>7. CASE SaveCommitted \/ PollFindsNothing \/ PollStarts \/ UNCHANGED vars
  <2>1. UNCHANGED <<permission, handler, held, client, relayRoom, undelivered>>
    BY <1>7 DEF SaveCommitted, PollFindsNothing, PollStarts, vars, sharingVars, relayVars
  <2>. QED  BY <1>2, <1>3, <2>1, HeldSocketStep
<1>8. ASSUME NEW c \in Clients, NEW u \in Users, Connect(c, u)
      PROVE  HeldInv'
  <2>1. /\ UNCHANGED <<permission, handler, held, undelivered>> /\ relayRoom' = RoomNow
        /\ client' = [client EXCEPT ![c] = [state |-> "open", user |-> u, role |-> RoleOf(u)]]
    BY <1>8 DEF Connect, sharingVars
  <2>2. PICK r \in held[u] : r = RoleOf(u)
    BY <1>1
  <2>3. /\ client'[c] = [state |-> "open", user |-> u, role |-> r]
        /\ \A d \in Clients \ {c} : client'[d] = client[d]
    BY <1>1, <2>1, <2>2
  <2>4. Sockets
    BY <1>1, <2>3
  <2>5. Authors
    BY <1>3, <1>4, <2>1
  <2>. QED  BY <2>1, <2>4, <2>5, HeldSocketStep
<1>9. ASSUME NEW c \in Clients, EditArrives(c)
      PROVE  HeldInv'
  <2>1. /\ UNCHANGED <<permission, handler, held, undelivered, client>>
        /\ relayRoom' = [RoomNow EXCEPT !.authors = @ \cup {client[c].user}]
        /\ client[c] # NoRow /\ client[c].role # "viewer"
    BY <1>9 DEF EditArrives, sharingVars, HasState
  <2>2. client[c].role \in {"owner", "editor"} /\ client[c].role \in held[client[c].user]
    BY <1>1, <2>1, SocketKinds DEF Socket, AllRoles, Granted
  <2>3. relayRoom'.authors = RoomNow.authors \cup {client[c].user}
    BY <1>1, <2>1, RoomNowType DEF RelayRoom
  <2>4. \A u \in RoomNow.authors : held[u] \cap {"owner", "editor"} # {}
    BY DEF RoomNow, HeldInv, AuthorsCouldWrite
  <2>. QED  BY <1>2, <2>1, <2>2, <2>3, <2>4, HeldSocketStep
<1>10. ASSUME NEW c \in Clients, SocketFails(c) \/ SocketCloses(c)
       PROVE  HeldInv'
  <2>1. /\ UNCHANGED <<permission, handler, held, undelivered, relayRoom>>
        /\ \A d \in Clients \ {c} : client'[d] = client[d]
        /\ \/ client'[c] = [client[c] EXCEPT !.state = "failed"] /\ client[c] # NoRow
           \/ client'[c] = NoRow
    BY <1>1, <1>10 DEF SocketFails, SocketCloses, sharingVars, HasState
  <2>2. client'[c] # NoRow =>
          client'[c].role = client[c].role /\ client'[c].user = client[c].user /\ client[c] # NoRow
    BY <1>1, <2>1, SocketKinds DEF Socket
  <2>3. Sockets
    BY <1>1, <2>1, <2>2
  <2>. QED  BY <1>3, <2>1, <2>3, HeldSocketStep
<1>11. CASE CleanupTimerFires \/ LeakedTimerFires
  <2>1. /\ UNCHANGED <<permission, handler, held, undelivered, client>>
        /\ relayRoom' = relayRoom \/ relayRoom' = NoRow
    BY <1>11 DEF CleanupTimerFires, LeakedTimerFires, DropIdleRoom, sharingVars
  <2>. QED  BY <1>2, <1>3, <2>1, HeldSocketStep
<1>12. CASE Restart
  <2>1. /\ UNCHANGED <<permission, handler, held, undelivered>> /\ relayRoom' = NoRow
        /\ \A c \in Clients : client'[c] = NoRow
    BY <1>12 DEF Restart, sharingVars
  <2>. QED  BY <1>3, <2>1, HeldSocketStep
<1>13. CASE DeliverNext
  <2>1. PICK e \in batch :
          /\ \/ e.type = "document_reverted"  /\ ApplyRevert(e)
             \/ e.type = "permission_updated" /\ ApplyRole(e)
             \/ e.type = "access_revoked"     /\ ApplyRevocation(e)
          /\ undelivered' = undelivered \ {e}
          /\ UNCHANGED <<permission, handler, held>>
    BY <1>13 DEF DeliverNext
  <2>2. e \in undelivered /\ e \in Event
    BY <1>1 DEF RelayTypeOK, SharingTypeOK
  <2>3. Authors
    <3>1. relayRoom' \in {relayRoom, NoRow} \/ relayRoom'.authors = {}
      BY <2>1 DEF ApplyRevert, ApplyRole, ApplyRevocation
    <3>. QED  BY <1>3, <3>1
  <2>4. CASE ApplyRevert(e)
    BY <1>2, <2>1, <2>3, <2>4, HeldSocketStep DEF ApplyRevert
  <2>5. CASE e.type = "permission_updated" /\ ApplyRole(e)
    <3>1. ASSUME NEW c \in Clients, client'[c] # NoRow
          PROVE  client'[c].role \in held[client'[c].user]
      <4>1. CASE c \in SocketsOf(e.user)
        <5>1. /\ client[c] # NoRow /\ client[c].user = e.user
              /\ client'[c] = [client[c] EXCEPT !.role = e.role]
          BY <2>5, <4>1 DEF ApplyRole, SocketsOf, Members, HasState
        <5>2. client'[c].role = e.role /\ client'[c].user = e.user
          BY <1>1, <5>1, SocketKinds DEF Socket
        <5>3. e.role \in held[e.user]
          BY <2>2, <2>5 DEF HeldInv, RolesWereHeld
        <5>. QED  BY <5>2, <5>3
      <4>2. CASE c \notin SocketsOf(e.user)
        BY <1>1, <2>5, <3>1, <4>2 DEF ApplyRole
      <4>. QED  BY <4>1, <4>2
    <3>. QED  BY <2>1, <2>3, <3>1, HeldSocketStep
  <2>6. CASE ApplyRevocation(e)
    <3>1. ASSUME NEW c \in Clients, client'[c] # NoRow
          PROVE  client'[c].role \in held[client'[c].user]
      <4>1. CASE c \in SocketsOf(e.user)
        <5>1. client[c] # NoRow /\ client'[c] = [client[c] EXCEPT !.state = "closing"]
          BY <2>6, <4>1 DEF ApplyRevocation, SocketsOf, Members, HasState
        <5>2. client'[c].role = client[c].role /\ client'[c].user = client[c].user
          BY <1>1, <5>1, SocketKinds DEF Socket
        <5>. QED  BY <1>1, <5>1, <5>2
      <4>2. CASE c \notin SocketsOf(e.user)
        BY <1>1, <2>6, <3>1, <4>2 DEF ApplyRevocation
      <4>. QED  BY <4>1, <4>2
    <3>. QED  BY <2>1, <2>3, <3>1, HeldSocketStep
  <2>. QED  BY <2>1, <2>4, <2>5, <2>6
<1>. QED
  BY <1>5, <1>6, <1>7, <1>8, <1>9, <1>10, <1>11, <1>12, <1>13
  DEF Next, BackendStep, SocketStep, PollStep

\* However handlers overlap, events are delivered late or out of order and links are cut,
\* nobody edits the shared text who never had a role that may write.
THEOREM OnlyWritersEdit == Spec => []AuthorsCouldWrite
<1>1. Init => HeldInv
  <2>. SUFFICES ASSUME Init PROVE HeldInv
    OBVIOUS
  <2>1. RelayTypeOK /\ HandlersAreOfGuests
    BY RelayInitType, AccessInitInv DEF Init, AccessInv
  <2>2. /\ undelivered = {} /\ \A c \in Clients : client[c] = NoRow
        /\ \A w \in Workers : handler[w] = NoRow
    BY DEF Init, SharingInit
  <2>. QED  BY <2>1, <2>2 DEF Init, HeldInv, RolesWereHeld, AuthorsCouldWrite
<1>2. HeldInv /\ RelayTypeOK' /\ [Next]_vars => HeldInv'
  BY HeldStep
<1>3. HeldInv => AuthorsCouldWrite
  BY DEF HeldInv
<1>. QED  BY <1>1, <1>2, <1>3, RelayTypeCorrect, PTL DEF Spec
==============================================================================
