------------------------- MODULE RealtimeClientProofs -------------------------
(***************************************************************************)
(* RealtimeClient for any number of pages, services, sockets, edits,       *)
(* reverts, faults and restarts.                                           *)
(***************************************************************************)
EXTENDS RealtimeClient, SequenceTheorems, TLAPS

\* A service has at most one of a session request, a timer and a socket.
OneAttempt(s) ==
  /\ ~(s.awaiting /\ s.timer)
  /\ s.awaiting \/ s.timer => s.socket = 0

SocketsAreOwn ==
  \A n \in DOMAIN service :
    /\ OneAttempt(service[n])
    /\ service[n].socket # 0 =>
         /\ service[n].socket \in DOMAIN link
         /\ link[service[n].socket].service = n

LinksHaveServices == \A l \in DOMAIN link : link[l].service \in DOMAIN service

PagesHaveServices ==
  \A h \in Hooks :
    IF page[h].service = 0 THEN ~page[h].ready ELSE page[h].service \in DOMAIN service

ItemsHaveMakers == \A i \in DOMAIN items : items[i] = 0 \/ items[i] \in DOMAIN service

RoomIsKnown ==
  /\ room.doc \subseteq DOMAIN items /\ room.members \subseteq DOMAIN link
  /\ ~room.exists => room.members = {}

ClientTypes ==
  /\ page \in [Hooks -> Page] /\ service \in Seq(Service)
  /\ link \in Seq(Link) /\ room \in Room /\ items \in Seq(0 .. MaxServices)
  /\ access \subseteq Hooks /\ faults \in 0 .. MaxFaults
  /\ Len(service) <= MaxServices /\ Len(link) <= MaxLinks

ClientBase ==
  /\ ClientTypes /\ SocketsAreOwn /\ LinksHaveServices
  /\ PagesHaveServices /\ ItemsHaveMakers /\ RoomIsKnown

LEMMA BaseGivesType == ClientBase /\ lost \subseteq ItemIds => ClientTypeOK
<1>. SUFFICES ASSUME ClientBase, lost \subseteq ItemIds PROVE ClientTypeOK
  OBVIOUS
<1>1. ASSUME NEW n \in DOMAIN service PROVE \A a, b \in Attempts(service[n]) : a = b
  BY <1>1 DEF ClientBase, SocketsAreOwn, OneAttempt, Attempts
<1>2. ASSUME NEW l \in LinkIds, NEW n \in DOMAIN service, service[n].socket = l
      PROVE  l \in DOMAIN link /\ link[l].service = n
  BY <1>2, ClientAssumption DEF ClientBase, SocketsAreOwn, LinkIds
<1>. QED  BY <1>1, <1>2 DEF ClientBase, ClientTypes, ClientTypeOK

LEMMA BaseInit == ClientInit => ClientBase
<1>. SUFFICES ASSUME ClientInit PROVE ClientBase
  OBVIOUS
<1>1. ClientTypes
  BY ClientAssumption DEF ClientInit, ClientTypes, Page, NoRoom, Room
<1>. QED
  BY <1>1 DEF ClientInit, ClientBase, SocketsAreOwn, LinksHaveServices,
              PagesHaveServices, ItemsHaveMakers, RoomIsKnown, NoRoom

------------------------------------------------------------------------------
(* Sequences *)

LEMMA Remade ==
  ASSUME NEW S, NEW s \in Seq(S), NEW f \in [DOMAIN s -> S]
  PROVE  f \in Seq(S) /\ Len(f) = Len(s) /\ DOMAIN f = DOMAIN s
<1>1. DOMAIN s = 1 .. Len(s) /\ Len(s) \in Nat
  BY LenProperties
<1>. QED  BY <1>1, SeqDef

\* A channel is its first message and the rest.
LEMMA FirstAndRest ==
  ASSUME NEW S, NEW s \in Seq(S), s # << >>
  PROVE  /\ Head(s) = s[1] /\ Head(s) \in S /\ 1 \in DOMAIN s
         /\ Tail(s) \in Seq(S) /\ Len(s) \in Nat \ {0}
         /\ DOMAIN Tail(s) = 1 .. Len(s) - 1 /\ DOMAIN s = 1 .. Len(s)
         /\ \A k \in DOMAIN Tail(s) : Tail(s)[k] = s[k + 1]
<1>1. Len(s) \in Nat \ {0} /\ DOMAIN s = 1 .. Len(s)
  BY EmptySeq, LenProperties
<1>2. /\ Head(s) \in S /\ Tail(s) \in Seq(S) /\ Len(Tail(s)) = Len(s) - 1
      /\ \A k \in 1 .. Len(Tail(s)) : Tail(s)[k] = s[k + 1]
  BY HeadTailProperties
<1>3. DOMAIN Tail(s) = 1 .. Len(s) - 1
  BY <1>2, LenProperties
<1>4. Head(s) = s[1]
  BY <1>1
<1>. QED  BY <1>1, <1>2, <1>3, <1>4

LEMMA Appended ==
  ASSUME NEW S, NEW s \in Seq(S), NEW m \in S
  PROVE  /\ Append(s, m) \in Seq(S) /\ Len(s) + 1 \notin DOMAIN s
         /\ DOMAIN Append(s, m) = DOMAIN s \cup {Len(s) + 1}
         /\ \A k \in DOMAIN s : Append(s, m)[k] = s[k]
         /\ Append(s, m)[Len(s) + 1] = m
<1>1. Len(s) \in Nat /\ DOMAIN s = 1 .. Len(s)
  BY LenProperties
<1>2. DOMAIN Append(s, m) = 1 .. Len(s) + 1
  BY AppendProperties, LenProperties
<1>. QED  BY <1>1, <1>2, AppendProperties

\* What a service is, and what a socket is.
LEMMA Elements ==
  ASSUME ClientTypes
  PROVE  /\ \A n \in DOMAIN service : service[n] \in Service /\ n \in Services
         /\ \A l \in DOMAIN link : link[l] \in Link /\ l \in LinkIds
         /\ DOMAIN service = 1 .. Len(service) /\ Len(service) \in Nat
         /\ DOMAIN link = 1 .. Len(link) /\ Len(link) \in Nat
         /\ DOMAIN items = 1 .. Len(items) /\ Len(items) \in Nat
<1>1. /\ DOMAIN service = 1 .. Len(service) /\ Len(service) \in Nat
      /\ DOMAIN link = 1 .. Len(link) /\ Len(link) \in Nat
      /\ DOMAIN items = 1 .. Len(items) /\ Len(items) \in Nat
  BY LenProperties DEF ClientTypes
<1>2. \A n \in DOMAIN service : service[n] \in Service
  BY <1>1, ElementOfSeq DEF ClientTypes
<1>3. \A l \in DOMAIN link : link[l] \in Link
  BY <1>1, ElementOfSeq DEF ClientTypes
<1>. QED  BY <1>1, <1>2, <1>3, ClientAssumption DEF ClientTypes, Services, LinkIds

------------------------------------------------------------------------------
(* What most steps do *)

ServicesGoOn ==
  /\ service' \in Seq(Service) /\ DOMAIN service' = DOMAIN service
  /\ \A n \in DOMAIN service :
       OneAttempt(service'[n]) /\ service'[n].socket \in {0, service[n].socket}

LinksGoOn ==
  /\ link' \in Seq(Link) /\ DOMAIN link' = DOMAIN link
  /\ \A l \in DOMAIN link : link'[l].service = link[l].service

\* A step that makes no service and no socket keeps the structure, if it keeps the rest.
LEMMA GoingOn ==
  ASSUME ClientBase, ServicesGoOn, LinksGoOn,
         page' \in [Hooks -> Page], PagesHaveServices',
         items' \in Seq(0 .. MaxServices), ItemsHaveMakers',
         room' \in Room, RoomIsKnown',
         access' \subseteq Hooks, faults' \in 0 .. MaxFaults
  PROVE  ClientBase'
<1>0. ClientTypes
  BY DEF ClientBase
<1>1. Len(service') = Len(service) /\ Len(link') = Len(link)
  BY <1>0, Elements, LenProperties DEF ServicesGoOn, LinksGoOn
<1>2. ClientTypes'
  BY <1>0, <1>1 DEF ClientTypes, ServicesGoOn, LinksGoOn
<1>3. SocketsAreOwn'
  <2> SUFFICES ASSUME NEW n \in DOMAIN service'
               PROVE  /\ OneAttempt(service'[n])
                      /\ service'[n].socket # 0 =>
                           /\ service'[n].socket \in DOMAIN link'
                           /\ link'[service'[n].socket].service = n
      BY DEF SocketsAreOwn, OneAttempt
  <2>. QED  BY DEF ClientBase, SocketsAreOwn, ServicesGoOn, LinksGoOn
<1>4. LinksHaveServices'
  BY DEF ClientBase, LinksHaveServices, ServicesGoOn, LinksGoOn
<1>. QED  BY <1>2, <1>3, <1>4 DEF ClientBase

\* One service is changed.
LEMMA OneServiceGoesOn ==
  ASSUME ClientBase, NEW n \in DOMAIN service, NEW s \in Service,
         OneAttempt(s), s.socket \in {0, service[n].socket},
         service' = [service EXCEPT ![n] = s]
  PROVE  ServicesGoOn
<1>1. service' \in Seq(Service) /\ DOMAIN service' = DOMAIN service
  BY Elements, ExceptSeq DEF ClientBase, ClientTypes
<1>2. ASSUME NEW m \in DOMAIN service
      PROVE  OneAttempt(service'[m]) /\ service'[m].socket \in {0, service[m].socket}
  <2>1. OneAttempt(service[m])
    BY <1>2 DEF ClientBase, SocketsAreOwn
  <2>2. service'[m] = IF m = n THEN s ELSE service[m]
    BY Elements DEF ClientBase
  <2>. QED  BY <2>1, <2>2
<1>. QED  BY <1>1, <1>2 DEF ServicesGoOn

LEMMA LinksRemade ==
  ASSUME ClientBase, DOMAIN link' = DOMAIN link, link' \in [DOMAIN link -> Link],
         \A l \in DOMAIN link : link'[l].service = link[l].service
  PROVE  LinksGoOn
BY Remade DEF ClientBase, ClientTypes, LinksGoOn

LEMMA OneLinkGoesOn ==
  ASSUME ClientBase, NEW l \in DOMAIN link, NEW x \in Link, x.service = link[l].service,
         link' = [link EXCEPT ![l] = x]
  PROVE  LinksGoOn
<1>1. link' \in [DOMAIN link -> Link]
  BY Elements DEF ClientBase
<1>. QED  BY <1>1, LinksRemade

LEMMA ServicesStay == ASSUME ClientBase, UNCHANGED service PROVE ServicesGoOn
BY DEF ClientBase, ClientTypes, SocketsAreOwn, ServicesGoOn

LEMMA LinksStay == ASSUME ClientBase, UNCHANGED link PROVE LinksGoOn
BY DEF ClientBase, ClientTypes, LinksGoOn

\* What the pages, the items and the room need, for as long as they are not touched.
LEMMA PagesStay ==
  ASSUME ClientBase, UNCHANGED page, DOMAIN service' = DOMAIN service
  PROVE  page' \in [Hooks -> Page] /\ PagesHaveServices'
BY DEF ClientBase, ClientTypes, PagesHaveServices

LEMMA ItemsStay ==
  ASSUME ClientBase, UNCHANGED items, DOMAIN service' = DOMAIN service
  PROVE  items' \in Seq(0 .. MaxServices) /\ ItemsHaveMakers'
BY DEF ClientBase, ClientTypes, ItemsHaveMakers

LEMMA RoomStays ==
  ASSUME ClientBase, UNCHANGED room, DOMAIN link' = DOMAIN link,
         DOMAIN items \subseteq DOMAIN items'
  PROVE  room' \in Room /\ RoomIsKnown'
BY DEF ClientBase, ClientTypes, RoomIsKnown

LEMMA NewItems ==
  ASSUME ClientBase, NEW by, by = 0 \/ by \in DOMAIN service, NewItem(by),
         DOMAIN service' = DOMAIN service
  PROVE  /\ items' \in Seq(0 .. MaxServices) /\ ItemsHaveMakers'
         /\ Len(items') = Len(items) + 1 /\ DOMAIN items' = 1 .. Len(items) + 1
         /\ \A i \in DOMAIN items : i \in DOMAIN items' /\ items'[i] = items[i]
         /\ items'[Len(items) + 1] = by
         /\ Len(items) + 1 \in ItemIds
<1>1. ClientTypes
  BY DEF ClientBase
<1>2. by \in 0 .. MaxServices
  BY <1>1, Elements, ClientAssumption DEF ClientTypes
<1>3. /\ items' \in Seq(0 .. MaxServices) /\ Len(items') = Len(items) + 1
      /\ \A i \in 1 .. Len(items) : items'[i] = items[i]
      /\ items'[Len(items) + 1] = by
  BY <1>1, <1>2, AppendProperties DEF ClientTypes, NewItem
<1>4. DOMAIN items' = 1 .. Len(items) + 1
  BY <1>3, LenProperties
<1>5. ItemsHaveMakers'
  BY <1>1, <1>3, <1>4, Elements DEF ClientBase, ItemsHaveMakers
<1>. QED  BY <1>1, <1>3, <1>4, <1>5, Elements DEF ItemIds

LEMMA Faulty ==
  ASSUME ClientBase, Fault \/ UNCHANGED faults
  PROVE  faults' \in 0 .. MaxFaults
BY ClientAssumption DEF ClientBase, ClientTypes, Fault

------------------------------------------------------------------------------
(* Every step keeps the structure *)

LEMMA SentThings ==
  /\ Plain("step1") \in Message /\ Plain("document_reverted") \in Message
  /\ Plain("access_revoked") \in Message
  /\ \A news \in SUBSET ItemIds : Carrying(news) \in Message
BY DEF Plain, Carrying, Message

LEMMA LinkFields ==
  ASSUME NEW x \in Link
  PROVE  /\ x.service \in Services /\ x.up \in Seq(Message) /\ x.down \in Seq(Message)
         /\ x.state \in {"opening", "open", "closing", "broken"}
BY DEF Link

LEMMA ClosedLinks ==
  ASSUME NEW x \in Link
  PROVE  /\ CloseSocket(x) \in Link /\ CloseSocket(x).service = x.service
         /\ Lost(x) \in Link /\ Lost(x).service = x.service
<1>1. << >> \in Seq(Message)
  BY EmptySeq
<1>2. CloseSocket(x) \in Link /\ CloseSocket(x).service = x.service
  BY <1>1 DEF Link, CloseSocket
<1>3. Lost(x) \in Link /\ Lost(x).service = x.service
  BY <1>1 DEF Link, Lost
<1>. QED  BY <1>2, <1>3

LEMMA LinkIsSent ==
  ASSUME NEW x \in Link, NEW m \in Message
  PROVE  /\ [x EXCEPT !.down = Append(@, m)] \in Link
         /\ [x EXCEPT !.up = Append(@, m)] \in Link
<1>1. Append(x.down, m) \in Seq(Message) /\ Append(x.up, m) \in Seq(Message)
  BY LinkFields, AppendProperties
<1>. QED  BY <1>1 DEF Link

LEMMA BroadcastGoesOn ==
  ASSUME ClientBase, NEW news \in SUBSET ItemIds, NEW origin
  PROVE  /\ Broadcast(news, origin) \in [DOMAIN link -> Link]
         /\ \A l \in DOMAIN link :
              /\ Broadcast(news, origin)[l].service = link[l].service
              /\ Broadcast(news, origin)[l].up = link[l].up
              /\ Broadcast(news, origin)[l].state = link[l].state
<1>1. Carrying(news) \in Message
  BY SentThings
<1>2. \A l \in DOMAIN link : link[l] \in Link
  BY Elements DEF ClientBase
<1>3. ASSUME NEW l \in DOMAIN link
      PROVE  LET x == [link[l] EXCEPT !.down = Append(@, Carrying(news))]
             IN x \in Link /\ x.service = link[l].service /\ x.up = link[l].up /\ x.state = link[l].state
  <2>1. [link[l] EXCEPT !.down = Append(@, Carrying(news))] \in Link
    BY <1>1, <1>2, LinkIsSent
  <2>. QED  BY <1>2, <2>1 DEF Link
<1>. QED  BY <1>2, <1>3 DEF Broadcast

LEMMA Reading ==
  ASSUME ClientBase, NEW l \in DOMAIN link, link[l].down # <<>>
  PROVE  /\ Read(l) \in [DOMAIN link -> Link]
         /\ \A j \in DOMAIN link :
              /\ Read(l)[j].service = link[j].service /\ Read(l)[j].state = link[j].state
              /\ Read(l)[j].up = link[j].up
              /\ Read(l)[j].down = IF j = l THEN Tail(link[l].down) ELSE link[j].down
<1>1. \A j \in DOMAIN link : link[j] \in Link
  BY Elements DEF ClientBase
<1>2. [link[l] EXCEPT !.down = Tail(@)] \in Link
  <2>1. Tail(link[l].down) \in Seq(Message)
    BY <1>1, LinkFields, HeadTailProperties
  <2>. QED  BY <1>1, <2>1 DEF Link
<1>. QED  BY <1>1, <1>2 DEF Read, Link

LEMMA DisconnectGoesOn ==
  ASSUME ClientBase, NEW n \in DOMAIN service, service' = Disconnected(n)
  PROVE  ServicesGoOn
<1> DEFINE s == [service[n] EXCEPT !.wanted = FALSE, !.timer = FALSE, !.socket = 0,
                   !.doc = IF service[n].awaiting THEN @ ELSE {}]
<1>1. service[n] \in Service
  BY Elements DEF ClientBase
<1>2. s \in Service /\ OneAttempt(s) /\ s.socket = 0
  <2>1. 0 \in 0 .. MaxLinks
    BY ClientAssumption
  <2>2. {} \in SUBSET ItemIds /\ service[n].doc \in SUBSET ItemIds
    BY <1>1 DEF Service
  <2>. QED  BY <1>1, <2>1, <2>2 DEF Service, OneAttempt
<1>3. service' = [service EXCEPT ![n] = s]
  BY <1>1 DEF Disconnected, Service
<1>. QED  BY <1>2, <1>3, OneServiceGoesOn

LEMMA ClosingGoesOn ==
  ASSUME ClientBase, NEW l \in DOMAIN link, link' = [link EXCEPT ![l] = CloseSocket(@)]
  PROVE  LinksGoOn
<1>1. link[l] \in Link
  BY Elements DEF ClientBase
<1>. QED  BY <1>1, ClosedLinks, OneLinkGoesOn

LEMMA PageLeft ==
  ASSUME ClientBase, NEW h, DOMAIN service' = DOMAIN service,
         page' = [page EXCEPT ![h] = [service |-> 0, ready |-> FALSE]]
  PROVE  page' \in [Hooks -> Page] /\ PagesHaveServices'
<1>1. [service |-> 0, ready |-> FALSE] \in Page
  BY ClientAssumption DEF Page
<1>. QED  BY <1>1 DEF ClientBase, ClientTypes, PagesHaveServices

LEMMA UnmountKeeps ==
  ASSUME ClientBase, NEW h \in Hooks, Unmount(h)
  PROVE  ClientBase'
<1> DEFINE n == page[h].service
<1>1. n \in DOMAIN service
  BY DEF Unmount, ClientBase, PagesHaveServices
<1>2. ServicesGoOn
  BY <1>1, DisconnectGoesOn DEF Unmount, Disconnect
<1>3. LinksGoOn
  <2>1. CASE service[n].socket = 0
    BY <2>1, LinksStay DEF Unmount, Disconnect
  <2>2. CASE service[n].socket # 0
    <3>1. service[n].socket \in DOMAIN link
      BY <1>1, <2>2 DEF ClientBase, SocketsAreOwn
    <3>. QED  BY <2>2, <3>1, ClosingGoesOn DEF Unmount, Disconnect
  <2>. QED  BY <2>1, <2>2
<1>4. page' \in [Hooks -> Page] /\ PagesHaveServices'
  BY <1>2, PageLeft DEF Unmount, ServicesGoOn
<1>5. items' \in Seq(0 .. MaxServices) /\ ItemsHaveMakers' /\ room' \in Room /\ RoomIsKnown'
  BY <1>2, <1>3, ItemsStay, RoomStays DEF Unmount, ServicesGoOn, LinksGoOn
<1>6. access' \subseteq Hooks /\ faults' \in 0 .. MaxFaults
  BY Zenon DEF Unmount, ClientBase, ClientTypes
<1>. QED  BY <1>2, <1>3, <1>4, <1>5, <1>6, GoingOn

\* A revert is told: the page's own service goes, if it has one, with its socket.
LEMMA BeingReverted ==
  ASSUME ClientBase, NEW l \in DOMAIN link, ClientIsReverted(l)
  PROVE  LET h == service[link[l].service].hook
             n == page[h].service
             k == service[n].socket
         IN /\ h \in Hooks /\ link[l].service \in DOMAIN service
            /\ link[l].down # << >> /\ Head(link[l].down).type # "items"
            /\ page' = [page EXCEPT ![h] = [service |-> 0, ready |-> FALSE]]
            /\ UNCHANGED <<room, items, access, faults>>
            /\ \/ n = 0 /\ UNCHANGED service /\ link' = Read(l)
               \/ /\ n \in DOMAIN service /\ service' = Disconnected(n)
                  /\ \/ k = 0 /\ link' = Read(l)
                     \/ k \in DOMAIN link /\ link' = [Read(l) EXCEPT ![k] = CloseSocket(@)]
<1> DEFINE h == service[link[l].service].hook
           n == page[h].service
           k == service[n].socket
<1>1. link[l].service \in DOMAIN service /\ h \in Hooks
  BY Elements DEF ClientBase, LinksHaveServices, Service
<1>2. n = 0 \/ n \in DOMAIN service
  BY <1>1 DEF ClientBase, PagesHaveServices
<1>3. n # 0 => k = 0 \/ k \in DOMAIN link
  BY <1>2 DEF ClientBase, SocketsAreOwn
<1>4. /\ link[l].down # << >> /\ Head(link[l].down).type = "document_reverted"
      /\ page' = [page EXCEPT ![h] = [service |-> 0, ready |-> FALSE]]
      /\ UNCHANGED <<room, items, access, faults>>
      /\ service' = IF n = 0 THEN service ELSE Disconnected(n)
      /\ link' = IF n = 0 \/ k = 0 THEN Read(l) ELSE [Read(l) EXCEPT ![k] = CloseSocket(@)]
  BY Zenon DEF ClientIsReverted
<1> HIDE DEF h, n, k
<1>5. CASE n = 0
  BY <1>1, <1>4, <1>5 DEF h, n, k
<1>6. CASE n # 0 /\ k = 0
  BY Zenon, <1>1, <1>2, <1>4, <1>6 DEF h, n, k
<1>7. CASE n # 0 /\ k # 0
  BY Zenon, <1>1, <1>2, <1>3, <1>4, <1>7 DEF h, n, k
<1>. QED  BY Zenon, <1>5, <1>6, <1>7

LEMMA RevertedKeeps ==
  ASSUME ClientBase, NEW l \in DOMAIN link, ClientIsReverted(l)
  PROVE  ClientBase'
<1> DEFINE h == service[link[l].service].hook
           n == page[h].service
           k == service[n].socket
<1>1. /\ h \in Hooks /\ link[l].down # << >>
      /\ page' = [page EXCEPT ![h] = [service |-> 0, ready |-> FALSE]]
      /\ UNCHANGED <<room, items, access, faults>>
      /\ \/ UNCHANGED service
         \/ n \in DOMAIN service /\ service' = Disconnected(n)
      /\ \/ link' = Read(l)
         \/ k \in DOMAIN link /\ link' = [Read(l) EXCEPT ![k] = CloseSocket(@)]
  BY Zenon, BeingReverted
<1> HIDE DEF h, n, k
<1>2. ServicesGoOn
  BY Zenon, <1>1, DisconnectGoesOn, ServicesStay
<1>3. /\ Read(l) \in [DOMAIN link -> Link]
      /\ \A j \in DOMAIN link : Read(l)[j].service = link[j].service
  BY <1>1, Reading
<1>4. LinksGoOn
  <2>1. CASE link' = Read(l)
    BY <2>1, <1>3, LinksRemade
  <2>2. CASE k \in DOMAIN link /\ link' = [Read(l) EXCEPT ![k] = CloseSocket(@)]
    <3> DEFINE taken == Read(l)
    <3>1. taken \in [DOMAIN link -> Link] /\ link' = [taken EXCEPT ![k] = CloseSocket(@)]
      BY <1>3, <2>2
    <3> HIDE DEF taken
    <3>2. CloseSocket(taken[k]) \in Link /\ CloseSocket(taken[k]).service = taken[k].service
      BY <2>2, <3>1, ClosedLinks
    <3>3. /\ link' \in [DOMAIN link -> Link]
          /\ \A j \in DOMAIN link : link'[j].service = taken[j].service
      BY <3>1, <3>2
    <3>. QED  BY <1>3, <3>3, LinksRemade DEF taken
  <2>. QED  BY <1>1, <2>1, <2>2
<1>5. page' \in [Hooks -> Page] /\ PagesHaveServices'
  BY Zenon, <1>1, <1>2, PageLeft DEF ServicesGoOn
<1>6. items' \in Seq(0 .. MaxServices) /\ ItemsHaveMakers' /\ room' \in Room /\ RoomIsKnown'
  <2>1. DOMAIN service' = DOMAIN service /\ DOMAIN link' = DOMAIN link
    BY <1>2, <1>4 DEF ServicesGoOn, LinksGoOn
  <2>. QED  BY <1>1, <2>1, ItemsStay, RoomStays
<1>7. access' \subseteq Hooks /\ faults' \in 0 .. MaxFaults
  BY <1>1 DEF ClientBase, ClientTypes
<1>. QED  BY <1>2, <1>4, <1>5, <1>6, <1>7, GoingOn

LEMMA MountKeeps ==
  ASSUME ClientBase, NEW h \in Hooks, Mount(h)
  PROVE  ClientBase'
<1> DEFINE s == NewService(h)
<1>1. ClientTypes
  BY DEF ClientBase
<1>2. s \in Service /\ OneAttempt(s) /\ s.socket = 0
  <2> DEFINE r == [hook |-> h, wanted |-> TRUE, awaiting |-> TRUE, timer |-> FALSE,
                   socket |-> 0, revoked |-> FALSE, doc |-> {}]
  <2>1. r \in Service
    BY ClientAssumption DEF Service
  <2>2. s = Connecting(r) /\ r.socket = 0
    BY DEF NewService
  <2>. QED  BY <2>1, <2>2 DEF Connecting, Service, OneAttempt
<1>3. /\ service' \in Seq(Service) /\ Len(service') = Len(service) + 1
      /\ \A n \in 1 .. Len(service) : service'[n] = service[n]
      /\ service'[Len(service) + 1] = s
  BY <1>1, <1>2, AppendProperties DEF ClientTypes, Mount
<1>4. DOMAIN service' = 1 .. Len(service) + 1
  BY <1>3, LenProperties
<1>5. /\ \A n \in DOMAIN service : n \in DOMAIN service' /\ service'[n] = service[n]
      /\ \A n \in DOMAIN service' : n \in DOMAIN service \/ n = Len(service) + 1
      /\ Len(service) + 1 \in DOMAIN service' /\ Len(service) + 1 # 0
  BY <1>1, <1>3, <1>4, Elements
<1>6. [service |-> Len(service) + 1, ready |-> FALSE] \in Page
  BY <1>1, Elements, ClientAssumption DEF Page, Mount
<1>7. ClientTypes'
  BY <1>1, <1>3, <1>6, Elements, ClientAssumption DEF ClientTypes, Mount
<1>8. SocketsAreOwn'
  <2> SUFFICES ASSUME NEW n \in DOMAIN service'
               PROVE  /\ OneAttempt(service'[n])
                      /\ service'[n].socket # 0 =>
                           /\ service'[n].socket \in DOMAIN link'
                           /\ link'[service'[n].socket].service = n
      BY DEF SocketsAreOwn, OneAttempt
  <2>1. CASE n \in DOMAIN service
    BY <1>5, <2>1 DEF ClientBase, SocketsAreOwn, Mount
  <2>2. CASE n = Len(service) + 1
    BY <1>2, <1>3, <2>2
  <2>. QED  BY <1>5, <2>1, <2>2
<1>9. LinksHaveServices' /\ ItemsHaveMakers' /\ RoomIsKnown'
  BY <1>5 DEF ClientBase, LinksHaveServices, ItemsHaveMakers, RoomIsKnown, Mount
<1>10. PagesHaveServices'
  BY <1>1, <1>5 DEF ClientBase, ClientTypes, PagesHaveServices, Mount
<1>. QED  BY <1>7, <1>8, <1>9, <1>10 DEF ClientBase

LEMMA OpenSocketKeeps ==
  ASSUME ClientBase, NEW n \in DOMAIN service, OpenSocket(n)
  PROVE  ClientBase'
<1> DEFINE l == Len(link) + 1
           x == [service |-> n, state |-> "opening", up |-> <<>>, down |-> <<>>]
           s == [service[n] EXCEPT !.awaiting = FALSE, !.socket = l]
<1>1. ClientTypes
  BY DEF ClientBase
<1>2. n \in Services /\ l \in 1 .. MaxLinks /\ service[n] \in Service
  BY <1>1, Elements, ClientAssumption DEF OpenSocket
<1>3. x \in Link
  BY <1>2, EmptySeq DEF Link
<1>4. /\ link' \in Seq(Link) /\ Len(link') = Len(link) + 1
      /\ \A k \in 1 .. Len(link) : link'[k] = link[k]
      /\ link'[l] = x
  BY <1>1, <1>3, AppendProperties DEF ClientTypes, OpenSocket
<1>5. DOMAIN link' = 1 .. Len(link) + 1
  BY <1>4, LenProperties
<1>6. /\ \A k \in DOMAIN link : k \in DOMAIN link' /\ link'[k] = link[k]
      /\ \A k \in DOMAIN link' : k \in DOMAIN link \/ k = l
      /\ l \in DOMAIN link'
  BY <1>1, <1>4, <1>5, Elements
<1>7. s \in Service /\ OneAttempt(s) /\ s.socket = l
  <2>1. l \in 0 .. MaxLinks /\ service[n].awaiting /\ OneAttempt(service[n])
    BY <1>2, ClientAssumption DEF OpenSocket, ClientBase, SocketsAreOwn
  <2>2. s \in Service /\ s.socket = l
    BY <1>2, <2>1 DEF Service
  <2>3. s.awaiting = FALSE /\ s.timer = FALSE
    BY <1>2, <2>1 DEF Service, OneAttempt
  <2>. QED  BY <2>2, <2>3 DEF OneAttempt
<1>8. service' = [service EXCEPT ![n] = s]
  BY DEF OpenSocket
<1>9. service' \in Seq(Service) /\ DOMAIN service' = DOMAIN service /\ Len(service') = Len(service)
  BY <1>1, <1>7, <1>8, Elements, ExceptSeq DEF ClientTypes
<1>10. \A m \in DOMAIN service : service'[m] = IF m = n THEN s ELSE service[m]
  BY <1>1, <1>8, Elements
<1>11. ClientTypes'
  BY <1>1, <1>2, <1>4, <1>9, Elements, ClientAssumption DEF ClientTypes, OpenSocket
<1>12. SocketsAreOwn'
  <2> SUFFICES ASSUME NEW m \in DOMAIN service
               PROVE  /\ OneAttempt(service'[m])
                      /\ service'[m].socket # 0 =>
                           /\ service'[m].socket \in DOMAIN link'
                           /\ link'[service'[m].socket].service = m
      BY <1>9 DEF SocketsAreOwn, OneAttempt
  <2>1. CASE m = n
    <3>1. service'[m] = s
      BY <1>10, <2>1
    <3>2. l \in DOMAIN link' /\ link'[l].service = n
      BY <1>4, <1>6
    <3>. QED  BY <1>7, <2>1, <3>1, <3>2
  <2>2. CASE m # n
    <3>1. service'[m] = service[m]
      BY <1>10, <2>2
    <3>2. /\ OneAttempt(service[m])
          /\ service[m].socket # 0 =>
               service[m].socket \in DOMAIN link /\ link[service[m].socket].service = m
      BY DEF ClientBase, SocketsAreOwn
    <3>. QED  BY <1>6, <3>1, <3>2
  <2>. QED  BY <2>1, <2>2
<1>13. LinksHaveServices'
  BY <1>4, <1>6, <1>9 DEF ClientBase, LinksHaveServices
<1>14. ItemsHaveMakers' /\ RoomIsKnown' /\ PagesHaveServices'
  BY <1>6, <1>9 DEF ClientBase, ItemsHaveMakers, RoomIsKnown, PagesHaveServices, OpenSocket
<1>. QED  BY <1>11, <1>12, <1>13, <1>14 DEF ClientBase

\* The steps of a service that touch nothing else.
LEMMA ServiceAlone ==
  ASSUME ClientBase, ServicesGoOn, UNCHANGED <<page, link, room, items, access>>,
         Fault \/ UNCHANGED faults
  PROVE  ClientBase'
<1>1. DOMAIN service' = DOMAIN service
  BY DEF ServicesGoOn
<1>2. page' \in [Hooks -> Page] /\ PagesHaveServices'
  BY <1>1, PagesStay
<1>3. items' \in Seq(0 .. MaxServices) /\ ItemsHaveMakers'
  BY <1>1, ItemsStay
<1>4. room' \in Room /\ RoomIsKnown'
  BY RoomStays
<1>. QED
  BY <1>2, <1>3, <1>4, GoingOn, LinksStay, Faulty DEF ClientBase, ClientTypes

LEMMA SessionFailsKeeps ==
  ASSUME ClientBase, NEW n \in DOMAIN service, SessionFails(n)
  PROVE  ClientBase'
<1> DEFINE s == ScheduleReconnect([service[n] EXCEPT !.awaiting = FALSE])
<1>1. service[n] \in Service /\ OneAttempt(service[n])
  BY Elements DEF ClientBase, SocketsAreOwn
<1>2. s \in Service /\ OneAttempt(s) /\ s.socket = service[n].socket
  BY <1>1 DEF SessionFails, ScheduleReconnect, Service, OneAttempt
<1>3. service' = [service EXCEPT ![n] = s]
  BY DEF SessionFails
<1>. QED  BY <1>2, <1>3, OneServiceGoesOn, ServiceAlone DEF SessionFails

LEMMA TimerFiresKeeps ==
  ASSUME ClientBase, NEW n \in DOMAIN service, TimerFires(n)
  PROVE  ClientBase'
<1>1. service[n] \in Service /\ OneAttempt(service[n])
  BY Elements DEF ClientBase, SocketsAreOwn
<1>2. /\ Connecting(service[n]) \in Service /\ OneAttempt(Connecting(service[n]))
      /\ Connecting(service[n]).socket = service[n].socket
  BY <1>1 DEF TimerFires, Connecting, Service, OneAttempt
<1>3. service' = [service EXCEPT ![n] = Connecting(service[n])]
  BY DEF TimerFires
<1>. QED  BY <1>2, <1>3, OneServiceGoesOn, ServiceAlone DEF TimerFires

LEMMA ClosesKeeps ==
  ASSUME ClientBase, NEW l \in DOMAIN link, ClientNoticesClose(l)
  PROVE  ClientBase'
<1> DEFINE n == link[l].service
           s == ScheduleReconnect([service[n] EXCEPT !.socket = 0])
<1>1. n \in DOMAIN service /\ service[n] \in Service /\ OneAttempt(service[n])
  BY Elements DEF ClientBase, SocketsAreOwn, LinksHaveServices
<1>2. service[n].socket # 0
  BY Elements DEF ClientBase, ClientNoticesClose, Current, LinkIds
<1>3. s \in Service /\ OneAttempt(s) /\ s.socket = 0
  <2>1. 0 \in 0 .. MaxLinks /\ ~service[n].awaiting
    BY <1>1, <1>2, ClientAssumption DEF OneAttempt
  <2>. QED  BY Zenon, <1>1, <2>1 DEF ScheduleReconnect, Service, OneAttempt
<1>4. service' = [service EXCEPT ![n] = s]
  BY DEF ClientNoticesClose, SocketClosed
<1>. QED  BY <1>1, <1>3, <1>4, OneServiceGoesOn, ServiceAlone DEF ClientNoticesClose

LEMMA EditKeeps ==
  ASSUME ClientBase, NEW h \in Hooks, Edit(h)
  PROVE  ClientBase'
<1> DEFINE n == page[h].service
           next == Len(items) + 1
           l == service[n].socket
           s == [service[n] EXCEPT !.doc = @ \cup {next}]
<1>1. n \in DOMAIN service
  BY Zenon DEF ClientBase, PagesHaveServices, Edit
<1>2. service[n] \in Service /\ OneAttempt(service[n])
  BY <1>1, Elements DEF ClientBase, SocketsAreOwn
<1>3. next \in ItemIds
  BY Elements DEF ClientBase, ItemIds
<1>4. s \in Service /\ OneAttempt(s) /\ s.socket = service[n].socket
  BY Zenon, <1>2, <1>3 DEF Service, OneAttempt
<1>5. service' = [service EXCEPT ![n] = s]
  BY Zenon DEF Edit
<1>6. ServicesGoOn
  BY Zenon, <1>1, <1>4, <1>5, OneServiceGoesOn
<1>7. LinksGoOn
  <2>1. CASE l # 0 /\ OpenHere(link[l])
    <3>1. l \in DOMAIN link /\ link[l] \in Link
      BY <1>1, <2>1, Elements DEF ClientBase, SocketsAreOwn
    <3>2. Carrying({next}) \in Message
      BY <1>3, SentThings
    <3>3. [link[l] EXCEPT !.up = Append(@, Carrying({next}))] \in Link
      BY <3>1, <3>2, LinkIsSent
    <3>4. link' = [link EXCEPT ![l] = [link[l] EXCEPT !.up = Append(@, Carrying({next}))]]
      BY <2>1, <3>1 DEF Edit, Link
    <3>5. [link[l] EXCEPT !.up = Append(@, Carrying({next}))].service = link[l].service
      BY Zenon, <3>1 DEF Link
    <3>. QED  BY <3>1, <3>3, <3>4, <3>5, OneLinkGoesOn
  <2>2. CASE ~(l # 0 /\ OpenHere(link[l]))
    BY Zenon, <2>2, LinksStay DEF Edit
  <2>. QED  BY Zenon, <2>1, <2>2
<1>8. NewItem(n) /\ DOMAIN service' = DOMAIN service
  BY Zenon, <1>6 DEF Edit, ServicesGoOn
<1>9. page' \in [Hooks -> Page] /\ PagesHaveServices'
  BY <1>8, PagesStay DEF Edit
<1>10. /\ items' \in Seq(0 .. MaxServices) /\ ItemsHaveMakers'
       /\ DOMAIN items \subseteq DOMAIN items'
  BY Zenon, <1>1, <1>8, NewItems
<1>11. room' \in Room /\ RoomIsKnown'
  BY Zenon, <1>7, <1>10, RoomStays DEF Edit, LinksGoOn
<1>. QED
  BY Zenon, <1>6, <1>7, <1>9, <1>10, <1>11, GoingOn DEF Edit, ClientBase, ClientTypes

LEMMA ReceivesKeeps ==
  ASSUME ClientBase, NEW l \in DOMAIN link, ClientReceives(l)
  PROVE  ClientBase'
<1> DEFINE n == link[l].service
           message == Head(link[l].down)
           heard == [service[n] EXCEPT !.doc = @ \cup message.items]
           told == [service[n] EXCEPT !.wanted = FALSE, !.revoked = TRUE]
<1>1. link[l] \in Link /\ n \in DOMAIN service /\ service[n] \in Service /\ OneAttempt(service[n])
  BY Elements DEF ClientBase, SocketsAreOwn, LinksHaveServices
<1>2. message \in Message /\ Tail(link[l].down) \in Seq(Message)
  BY <1>1, LinkFields, HeadTailProperties DEF ClientReceives
<1>3. message.items \subseteq ItemIds
  BY <1>2 DEF Message
<1>4. /\ heard \in Service /\ OneAttempt(heard) /\ heard.socket = service[n].socket
      /\ told \in Service /\ OneAttempt(told) /\ told.socket = service[n].socket
  BY <1>1, <1>3 DEF Service, OneAttempt
<1>5. \/ service' = [service EXCEPT ![n] = heard]
      \/ service' = [service EXCEPT ![n] = told]
  BY DEF ClientReceives, ReceivedBy
<1>6. ServicesGoOn
  BY <1>1, <1>4, <1>5, OneServiceGoesOn
<1>7. LinksGoOn
  <2>1. [link[l] EXCEPT !.down = Tail(@)] \in Link
    BY <1>1, <1>2 DEF Link
  <2>2. link' = [link EXCEPT ![l] = [link[l] EXCEPT !.down = Tail(@)]]
    BY <1>1 DEF ClientReceives, Read, Link
  <2>3. [link[l] EXCEPT !.down = Tail(@)].service = link[l].service
    BY <1>1 DEF Link
  <2>. QED  BY <2>1, <2>2, <2>3, OneLinkGoesOn
<1>8. page' \in [Hooks -> Page] /\ PagesHaveServices'
  BY <1>6, PagesStay DEF ClientReceives, ServicesGoOn
<1>9. items' \in Seq(0 .. MaxServices) /\ ItemsHaveMakers' /\ room' \in Room /\ RoomIsKnown'
  BY <1>6, <1>7, ItemsStay, RoomStays DEF ClientReceives, ServicesGoOn, LinksGoOn
<1>. QED
  BY <1>6, <1>7, <1>8, <1>9, GoingOn DEF ClientReceives, ClientBase, ClientTypes

\* The steps of sockets that touch no service, page or item.
LEMMA LinksAlone ==
  ASSUME ClientBase, LinksGoOn, UNCHANGED <<page, service, items>>,
         room' \in Room, RoomIsKnown', access' \subseteq Hooks, Fault \/ UNCHANGED faults
  PROVE  ClientBase'
<1>1. DOMAIN service' = DOMAIN service
  OBVIOUS
<1>2. page' \in [Hooks -> Page] /\ PagesHaveServices'
  BY <1>1, PagesStay
<1>3. items' \in Seq(0 .. MaxServices) /\ ItemsHaveMakers'
  BY <1>1, ItemsStay
<1>. QED
  BY <1>2, <1>3, GoingOn, ServicesStay, Faulty

LEMMA RefuseKeeps ==
  ASSUME ClientBase, NEW l \in DOMAIN link, Refuse(l)
  PROVE  ClientBase'
<1> DEFINE x == [link[l] EXCEPT !.state = "closing"]
<1>1. link[l] \in Link
  BY Elements DEF ClientBase
<1>2. x \in Link /\ x.service = link[l].service
  BY <1>1 DEF Link
<1>3. LinksGoOn
  BY <1>2, OneLinkGoesOn DEF Refuse
<1>. QED
  BY <1>3, LinksAlone, RoomStays DEF Refuse, LinksGoOn, ClientBase, ClientTypes

LEMMA BreakKeeps ==
  ASSUME ClientBase, NEW l \in DOMAIN link, Break(l)
  PROVE  ClientBase'
<1>1. link[l] \in Link
  BY Elements DEF ClientBase
<1>2. LinksGoOn
  BY <1>1, ClosedLinks, OneLinkGoesOn DEF Break
<1>. QED
  BY <1>2, LinksAlone, RoomStays DEF Break, LinksGoOn, ClientBase, ClientTypes

LEMMA RestartKeeps ==
  ASSUME ClientBase, RelayRestarts
  PROVE  ClientBase'
<1>1. \A l \in DOMAIN link : link[l] \in Link
  BY Elements DEF ClientBase
<1>2. LinksGoOn
  BY <1>1, ClosedLinks, LinksRemade DEF RelayRestarts
<1>3. room' \in Room /\ RoomIsKnown'
  BY DEF RelayRestarts, NoRoom, Room, RoomIsKnown
<1>. QED
  BY <1>2, <1>3, LinksAlone DEF RelayRestarts, ClientBase, ClientTypes

LEMMA RevokeKeeps ==
  ASSUME ClientBase, NEW h \in Hooks, LoseAccess(h)
  PROVE  ClientBase'
<1>1. ASSUME NEW l \in DOMAIN link
      PROVE  link'[l] \in Link /\ link'[l].service = link[l].service
  <2> DEFINE down == IF Current(l) THEN Append(link[l].down, Plain("access_revoked"))
                                   ELSE link[l].down
  <2>1. link[l] \in Link
    BY Elements DEF ClientBase
  <2>2. << >> \in Seq(Message) /\ down \in Seq(Message)
    BY <2>1, EmptySeq, LinkFields, SentThings, AppendProperties
  <2>3. \/ link'[l] = link[l]
        \/ link'[l] = [link[l] EXCEPT !.state = "closing", !.down = down]
    BY Zenon, <2>1 DEF LoseAccess, Link
  <2>. QED  BY <2>1, <2>2, <2>3 DEF Link
<1>2. LinksGoOn
  BY Zenon, <1>1, LinksRemade DEF LoseAccess
<1>. QED
  BY Zenon, <1>2, LinksAlone, RoomStays DEF LoseAccess, LinksGoOn, ClientBase, ClientTypes

LEMMA RelayClosesKeeps ==
  ASSUME ClientBase, NEW l \in DOMAIN link, RelayNoticesClose(l)
  PROVE  ClientBase'
<1>1. room' \in Room /\ RoomIsKnown'
  BY DEF RelayNoticesClose, ClientBase, ClientTypes, RoomIsKnown, Room
<1>. QED
  BY <1>1, LinksAlone, LinksStay DEF RelayNoticesClose, ClientBase, ClientTypes

LEMMA DropRoomKeeps ==
  ASSUME ClientBase, DropRoom
  PROVE  ClientBase'
<1>1. room' \in Room /\ RoomIsKnown'
  BY DEF DropRoom, NoRoom, Room, RoomIsKnown
<1>. QED
  BY <1>1, LinksAlone, LinksStay DEF DropRoom, ClientBase, ClientTypes

LEMMA AcceptKeeps ==
  ASSUME ClientBase, NEW l \in DOMAIN link, Accept(l)
  PROVE  ClientBase'
<1> DEFINE up == IF Current(l) THEN <<Plain("step1")>> ELSE <<>>
           x == [link[l] EXCEPT !.state = "open", !.up = up]
           h == service[link[l].service].hook
<1>1. link[l] \in Link /\ service[link[l].service] \in Service
  BY Elements DEF ClientBase, LinksHaveServices
<1>2. up \in Seq(Message)
  BY SentThings, EmptySeq
<1>3. x \in Link /\ x.service = link[l].service
  BY <1>1, <1>2 DEF Link
<1>4. link' = [link EXCEPT ![l] = x]
  BY <1>1 DEF Accept, Link
<1>5. LinksGoOn /\ ServicesGoOn
  <2>1. ServicesGoOn
    BY ServicesStay DEF Accept
  <2> HIDE DEF x
  <2>2. LinksGoOn
    BY Zenon, <1>3, <1>4, OneLinkGoesOn
  <2>. QED  BY <2>1, <2>2
<1>6. DOMAIN service' = DOMAIN service
  BY DEF Accept
<1>7. page' \in [Hooks -> Page] /\ PagesHaveServices'
  <2>1. CASE page' = page
    BY <2>1, <1>6, PagesStay
  <2>2. CASE page' = Ready(h)
    BY <1>6, <2>2 DEF Ready, ClientBase, ClientTypes, PagesHaveServices, Page
  <2>. QED  BY <2>1, <2>2 DEF Accept
<1>8. /\ items' \in Seq(0 .. MaxServices) /\ ItemsHaveMakers'
      /\ DOMAIN items \subseteq DOMAIN items'
  BY <1>6, NewItems, ItemsStay DEF Accept
<1>9. room' \in Room /\ RoomIsKnown'
  <2>1. room'.members = room.members \cup {l} /\ room'.exists
    BY DEF Accept
  <2>2. room'.doc \subseteq DOMAIN items' /\ room'.doc \subseteq ItemIds
    <3>1. CASE room.exists
      BY <1>8, <3>1 DEF Accept, ClientBase, ClientTypes, Room, RoomIsKnown
    <3>2. CASE ~room.exists
      BY <1>6, <3>2, NewItems, Elements DEF Accept, ClientBase
    <3>. QED  BY <3>1, <3>2
  <2>3. room'.members \subseteq DOMAIN link' /\ room'.members \subseteq LinkIds
    BY <1>5, <2>1, Elements DEF LinksGoOn, ClientBase, RoomIsKnown
  <2>. QED  BY <2>1, <2>2, <2>3 DEF Accept, RoomIsKnown, Room
<1>. QED
  BY <1>5, <1>7, <1>8, <1>9, GoingOn DEF Accept, ClientBase, ClientTypes

LEMMA RevertKeeps ==
  ASSUME ClientBase, Revert
  PROVE  ClientBase'
<1> DEFINE news == {Len(items) + 1}
           reset == Broadcast(news, 0)
<1>1. DOMAIN service' = DOMAIN service /\ NewItem(0)
  BY DEF Revert
<1>2. /\ items' \in Seq(0 .. MaxServices) /\ ItemsHaveMakers'
      /\ DOMAIN items \subseteq DOMAIN items' /\ Len(items) + 1 \in DOMAIN items'
      /\ news \subseteq ItemIds
  BY <1>1, NewItems, Elements DEF ClientBase
<1>3. ASSUME NEW l \in DOMAIN link
      PROVE  link'[l] \in Link /\ link'[l].service = link[l].service
  <2>1. reset[l] \in Link /\ reset[l].service = link[l].service /\ link[l] \in Link
    BY <1>2, BroadcastGoesOn, Elements DEF ClientBase
  <2>2. \/ link'[l] = link[l]
        \/ link'[l] = [reset[l] EXCEPT !.down = Append(@, Plain("document_reverted"))]
    BY DEF Revert
  <2>3. [reset[l] EXCEPT !.down = Append(@, Plain("document_reverted"))] \in Link
    BY <2>1, SentThings, LinkIsSent
  <2>. QED  BY <2>1, <2>2, <2>3 DEF Link
<1>4. LinksGoOn /\ ServicesGoOn
  BY <1>3, LinksRemade, ServicesStay DEF Revert
<1>5. room' \in Room /\ RoomIsKnown'
  BY <1>2, <1>4 DEF Revert, ClientBase, ClientTypes, Room, RoomIsKnown, LinksGoOn
<1>. QED
  BY <1>1, <1>2, <1>4, <1>5, PagesStay, GoingOn DEF Revert, ClientBase, ClientTypes

------------------------------------------------------------------------------
(* What is sent, and what a service keeps *)

\* A page sends the items of the service it uses, and nothing else.
SentIsOwn ==
  \A l \in DOMAIN link : \A k \in DOMAIN link[l].up :
    \A i \in link[l].up[k].items : i \in DOMAIN items /\ items[i] = link[l].service

(* A service that may still come to send has every item it made: its document is    *)
(* given up only when it can no longer be connected.                                *)
Busy(s) == s.awaiting \/ s.timer \/ s.socket # 0

OwnItemsKept ==
  \A n \in DOMAIN service : Busy(service[n]) =>
    \A i \in DOMAIN items : items[i] = n => i \in service[n].doc

\* Nothing makes a service try again once it was told that access is revoked.
RevokedIsIdle ==
  \A n \in DOMAIN service : service[n].revoked => ~service[n].wanted /\ ~service[n].timer

\* What a service has, or will have when it has read the messages of its socket.
Gets(s, x) == s.doc \cup UNION {m.items : m \in {n \in Range(x.down) : n.type = "items"}}

\* The socket's SyncStep1 is still to be answered.
Asks(x) == \E k \in DOMAIN x.up : x.up[k].type = "step1"

Served(l) ==
  Live(l) /\ ~Asks(link[l]) => Applied(room.doc) \subseteq Gets(service[link[l].service], link[l])

EveryoneIsServed == \A l \in DOMAIN link : Served(l)

ClientInv == ClientBase /\ SentIsOwn /\ OwnItemsKept /\ RevokedIsIdle /\ EveryoneIsServed

LEMMA RelayReceivesKeeps ==
  ASSUME ClientBase, SentIsOwn, NEW l \in DOMAIN link, RelayReceives(l)
  PROVE  ClientBase'
<1> DEFINE message == Head(link[l].up)
           received == [link EXCEPT ![l].up = Tail(@)]
           doc == room.doc \cup message.items
           sent == Broadcast(Applied(doc) \ Applied(room.doc), l)
<1>1. link[l] \in Link /\ message \in Message /\ Tail(link[l].up) \in Seq(Message)
  BY Elements, LinkFields, HeadTailProperties DEF RelayReceives, ClientBase
<1>2. message.items \subseteq DOMAIN items /\ message.items \subseteq ItemIds
  <2>1. message = link[l].up[1] /\ 1 \in DOMAIN link[l].up
    BY <1>1, LinkFields, FirstAndRest DEF RelayReceives
  <2>. QED  BY <1>1, <2>1 DEF SentIsOwn, Message
<1>3. room.doc \subseteq DOMAIN items /\ room.doc \subseteq ItemIds
  BY DEF ClientBase, ClientTypes, Room, RoomIsKnown
<1>4. room' \in Room /\ RoomIsKnown'
  <2>1. DOMAIN link' = DOMAIN link
    BY DEF RelayReceives, Broadcast
  <2>2. CASE message.type = "step1"
    <3>1. UNCHANGED <<room, items>>
      BY <2>2 DEF RelayReceives
    <3>. QED  BY <2>1, <3>1, RoomStays
  <2>3. CASE message.type # "step1"
    <3>1. room' = [room EXCEPT !.doc = doc] /\ UNCHANGED items
      BY <2>3 DEF RelayReceives
    <3>2. doc \subseteq DOMAIN items /\ doc \subseteq ItemIds
      BY <1>2, <1>3
    <3>. QED
      BY <2>1, <3>1, <3>2 DEF ClientBase, ClientTypes, Room, RoomIsKnown
  <2>. QED  BY <2>2, <2>3
<1>5. LinksGoOn
  <2>1. CASE message.type = "step1"
    <3> DEFINE down == IF link[l].state = "open" THEN Append(link[l].down, Carrying(room.doc))
                                                 ELSE link[l].down
               x == [link[l] EXCEPT !.up = Tail(@), !.down = down]
    <3>1. down \in Seq(Message)
      BY <1>1, <1>3, LinkFields, SentThings, AppendProperties
    <3>2. x \in Link /\ x.service = link[l].service
      BY <1>1, <3>1 DEF Link
    <3>3. link' = [link EXCEPT ![l] = x]
      BY Zenon, <1>1, <2>1 DEF RelayReceives, Link
    <3>. QED  BY <3>2, <3>3, OneLinkGoesOn
  <2>2. CASE message.type # "step1"
    <3>1. Applied(doc) \ Applied(room.doc) \in SUBSET ItemIds
      BY <1>2, <1>3 DEF Applied
    <3>2. /\ sent \in [DOMAIN link -> Link]
          /\ \A j \in DOMAIN link : sent[j].service = link[j].service /\ sent[j].up = link[j].up
      BY <3>1, BroadcastGoesOn
    <3>3. link' = [sent EXCEPT ![l].up = Tail(@)]
      BY <2>2 DEF RelayReceives
    <3>4. [sent[l] EXCEPT !.up = Tail(@)] \in Link
      BY <1>1, <3>2 DEF Link
    <3>. QED  BY Zenon, <3>2, <3>3, <3>4, LinksRemade DEF Link
  <2>. QED  BY <2>1, <2>2
<1>6. access' \subseteq Hooks /\ (Fault \/ UNCHANGED faults) /\ UNCHANGED <<page, service, items>>
  BY DEF RelayReceives, ClientBase, ClientTypes
<1>. QED  BY <1>4, <1>5, <1>6, LinksAlone

LEMMA BaseStep == ClientBase /\ SentIsOwn /\ [ClientNext]_clientVars => ClientBase'
<1> SUFFICES ASSUME ClientBase, SentIsOwn, [ClientNext]_clientVars PROVE ClientBase'
    OBVIOUS
<1>1. CASE UNCHANGED clientVars
  BY <1>1, LinksAlone, LinksStay, RoomStays DEF clientVars, ClientBase, ClientTypes
<1>2. ASSUME NEW h \in Hooks, Mount(h) \/ Unmount(h) \/ Edit(h) \/ LoseAccess(h)
      PROVE  ClientBase'
  BY <1>2, MountKeeps, UnmountKeeps, EditKeeps, RevokeKeeps
<1>3. ASSUME NEW n \in DOMAIN service, OpenSocket(n) \/ SessionFails(n) \/ TimerFires(n)
      PROVE  ClientBase'
  BY <1>3, OpenSocketKeeps, SessionFailsKeeps, TimerFiresKeeps
<1>4. ASSUME NEW l \in DOMAIN link, ClientReceives(l) \/ ClientIsReverted(l) \/ ClientNoticesClose(l)
      PROVE  ClientBase'
  BY <1>4, ReceivesKeeps, RevertedKeeps, ClosesKeeps
<1>5. ASSUME NEW l \in DOMAIN link,
             Accept(l) \/ Refuse(l) \/ RelayReceives(l) \/ RelayNoticesClose(l) \/ Break(l)
      PROVE  ClientBase'
  BY <1>5, AcceptKeeps, RefuseKeeps, RelayReceivesKeeps, RelayClosesKeeps, BreakKeeps
<1>6. CASE DropRoom \/ Revert \/ RelayRestarts
  BY <1>6, DropRoomKeeps, RevertKeeps, RestartKeeps
<1>. QED  BY <1>1, <1>2, <1>3, <1>4, <1>5, <1>6 DEF ClientNext

LEMMA OneChanged ==
  ASSUME ClientBase, NEW n \in DOMAIN service, NEW s, service' = [service EXCEPT ![n] = s]
  PROVE  /\ DOMAIN service' = DOMAIN service
         /\ \A m \in DOMAIN service : service'[m] = IF m = n THEN s ELSE service[m]
OBVIOUS

\* A disconnected service is not busy but for a session request, and then keeps its items.
LEMMA Disconnecting ==
  ASSUME ClientBase, NEW n \in DOMAIN service, service' = Disconnected(n)
  PROVE  /\ DOMAIN service' = DOMAIN service
         /\ \A m \in DOMAIN service \ {n} : service'[m] = service[m]
         /\ ~service'[n].wanted /\ ~service'[n].timer /\ service'[n].socket = 0
         /\ service'[n].hook = service[n].hook
         /\ Busy(service'[n]) => Busy(service[n]) /\ service'[n].doc = service[n].doc
<1>1. service[n] \in Service
  BY Elements DEF ClientBase
<1>. QED  BY <1>1 DEF Disconnected, Service, Busy

\* The steps that change no service.
RelayStep ==
  \/ \E h \in Hooks : LoseAccess(h)
  \/ \E l \in DOMAIN link :
       Accept(l) \/ Refuse(l) \/ RelayReceives(l) \/ RelayNoticesClose(l) \/ Break(l)
  \/ DropRoom \/ Revert \/ RelayRestarts \/ UNCHANGED clientVars

LEMMA Steps ==
  ASSUME [ClientNext]_clientVars
  PROVE  \/ RelayStep
         \/ \E h \in Hooks : Mount(h) \/ Unmount(h) \/ Edit(h)
         \/ \E n \in DOMAIN service : OpenSocket(n) \/ SessionFails(n) \/ TimerFires(n)
         \/ \E l \in DOMAIN link :
              ClientReceives(l) \/ ClientIsReverted(l) \/ ClientNoticesClose(l)
BY Zenon DEF ClientNext, RelayStep

LEMMA RelayLeavesServices == ASSUME RelayStep PROVE UNCHANGED service
BY Zenon DEF RelayStep, LoseAccess, Accept, Refuse, RelayReceives, RelayNoticesClose, Break,
       DropRoom, Revert, RelayRestarts, clientVars

\* A new service has no item yet and nothing to be revoked.
LEMMA Mounting ==
  ASSUME ClientBase, NEW h \in Hooks, Mount(h)
  PROVE  /\ DOMAIN service' = DOMAIN service \cup {Len(service) + 1}
         /\ Len(service) + 1 \notin DOMAIN service
         /\ \A n \in DOMAIN service : service'[n] = service[n]
         /\ ~service'[Len(service) + 1].revoked
         /\ \A i \in DOMAIN items : items[i] # Len(service) + 1
<1>1. ClientTypes
  BY DEF ClientBase
<1>2. NewService(h) \in Service
  <2> DEFINE r == [hook |-> h, wanted |-> TRUE, awaiting |-> TRUE, timer |-> FALSE,
                   socket |-> 0, revoked |-> FALSE, doc |-> {}]
  <2>1. r \in Service
    BY ClientAssumption DEF Service
  <2>2. NewService(h) = Connecting(r)
    BY DEF NewService
  <2>. QED  BY <2>1, <2>2 DEF Connecting, Service
<1>3. ~NewService(h).revoked
  BY DEF NewService, Connecting
<1>4. /\ service' \in Seq(Service) /\ Len(service') = Len(service) + 1
      /\ \A n \in 1 .. Len(service) : service'[n] = service[n]
      /\ service'[Len(service) + 1] = NewService(h)
  BY <1>1, <1>2, AppendProperties DEF ClientTypes, Mount
<1>5. DOMAIN service' = 1 .. Len(service) + 1
  BY <1>4, LenProperties
<1>. QED  BY <1>1, <1>3, <1>4, <1>5, Elements DEF ClientBase, ItemsHaveMakers

LEMMA RevokedStep ==
  ASSUME ClientBase, RevokedIsIdle, [ClientNext]_clientVars
  PROVE  RevokedIsIdle'
<1> DEFINE Idle(s) == s.revoked => ~s.wanted /\ ~s.timer
<1>0. \A n \in DOMAIN service : Idle(service[n]) /\ service[n] \in Service /\ OneAttempt(service[n])
  BY Elements DEF RevokedIsIdle, ClientBase, SocketsAreOwn
<1>1. CASE RelayStep
  BY <1>1, RelayLeavesServices DEF RevokedIsIdle
<1>2. ASSUME NEW h \in Hooks, Mount(h)
      PROVE  RevokedIsIdle'
  BY <1>2, Mounting DEF RevokedIsIdle
<1>3. ASSUME NEW n \in DOMAIN service, service' = Disconnected(n)
      PROVE  RevokedIsIdle'
  BY <1>3, Disconnecting DEF RevokedIsIdle
<1>4. ASSUME NEW h \in Hooks, Unmount(h)
      PROVE  RevokedIsIdle'
  BY <1>3, <1>4 DEF Unmount, Disconnect, ClientBase, PagesHaveServices
<1>5. ASSUME NEW l \in DOMAIN link, ClientIsReverted(l)
      PROVE  RevokedIsIdle'
  BY Zenon, <1>3, <1>5, BeingReverted DEF RevokedIsIdle
<1>6. ASSUME NEW n \in DOMAIN service, NEW s, Idle(s), service' = [service EXCEPT ![n] = s]
      PROVE  RevokedIsIdle'
  BY <1>0, <1>6, OneChanged DEF RevokedIsIdle
<1>7. ASSUME NEW h \in Hooks, Edit(h)
      PROVE  RevokedIsIdle'
  <2> DEFINE n == page[h].service
             s == [service[n] EXCEPT !.doc = @ \cup {Len(items) + 1}]
  <2>1. n \in DOMAIN service
    BY Zenon, <1>7 DEF Edit, ClientBase, PagesHaveServices
  <2>2. Idle(s)
    BY Zenon, <1>0, <2>1 DEF Service
  <2>3. service' = [service EXCEPT ![n] = s]
    BY Zenon, <1>7 DEF Edit
  <2>. QED  BY Zenon, <1>6, <2>1, <2>2, <2>3
<1>8. ASSUME NEW n \in DOMAIN service, OpenSocket(n)
      PROVE  RevokedIsIdle'
  <2> DEFINE s == [service[n] EXCEPT !.awaiting = FALSE, !.socket = Len(link) + 1]
  <2>1. Idle(s)
    BY <1>0, <1>8 DEF Service
  <2>2. service' = [service EXCEPT ![n] = s]
    BY <1>8 DEF OpenSocket
  <2>. QED  BY <1>6, <2>1, <2>2
<1>9. ASSUME NEW n \in DOMAIN service, SessionFails(n)
      PROVE  RevokedIsIdle'
  <2> DEFINE s == ScheduleReconnect([service[n] EXCEPT !.awaiting = FALSE])
  <2>1. Idle(s)
    BY <1>0, <1>9 DEF Service, ScheduleReconnect
  <2>2. service' = [service EXCEPT ![n] = s]
    BY <1>9 DEF SessionFails
  <2>. QED  BY <1>6, <2>1, <2>2
<1>10. ASSUME NEW n \in DOMAIN service, TimerFires(n)
       PROVE  RevokedIsIdle'
  <2>1. Idle(Connecting(service[n]))
    BY <1>0, <1>10 DEF Service, Connecting, TimerFires
  <2>2. service' = [service EXCEPT ![n] = Connecting(service[n])]
    BY <1>10 DEF TimerFires
  <2>. QED  BY <1>6, <2>1, <2>2
<1>11. ASSUME NEW l \in DOMAIN link, ClientReceives(l)
       PROVE  RevokedIsIdle'
  <2> DEFINE n == link[l].service
             heard == [service[n] EXCEPT !.doc = @ \cup Head(link[l].down).items]
             told == [service[n] EXCEPT !.wanted = FALSE, !.revoked = TRUE]
  <2>1. n \in DOMAIN service /\ service[n].socket # 0
    BY <1>11, Elements DEF ClientReceives, Current, LinkIds, ClientBase, LinksHaveServices
  <2>2. Idle(heard) /\ Idle(told)
    BY <1>0, <2>1 DEF Service, OneAttempt
  <2>3. \/ service' = [service EXCEPT ![n] = heard]
        \/ service' = [service EXCEPT ![n] = told]
    BY <1>11 DEF ClientReceives, ReceivedBy
  <2>. QED  BY <1>6, <2>1, <2>2, <2>3
<1>12. ASSUME NEW l \in DOMAIN link, ClientNoticesClose(l)
       PROVE  RevokedIsIdle'
  <2> DEFINE n == link[l].service
             s == ScheduleReconnect([service[n] EXCEPT !.socket = 0])
  <2>1. n \in DOMAIN service
    BY DEF ClientBase, LinksHaveServices
  <2>2. Idle(s)
    BY <1>0, <2>1 DEF Service, ScheduleReconnect
  <2>3. service' = [service EXCEPT ![n] = s]
    BY <1>12 DEF ClientNoticesClose, SocketClosed
  <2>. QED  BY <1>6, <2>1, <2>2, <2>3
<1>. QED
  BY Steps, <1>1, <1>2, <1>4, <1>5, <1>7, <1>8, <1>9, <1>10, <1>11, <1>12

LEMMA StaysAwayStep ==
  ASSUME ClientBase, RevokedIsIdle, [ClientNext]_clientVars,
         NEW m \in DOMAIN service, service[m].revoked, service'[m].awaiting
  PROVE  service[m].awaiting
<1>0. service[m] \in Service /\ ~service[m].timer
  BY Elements DEF RevokedIsIdle, ClientBase
<1>1. CASE RelayStep
  BY <1>1, RelayLeavesServices
<1>2. ASSUME NEW h \in Hooks, Mount(h)
      PROVE  service[m].awaiting
  BY <1>2, Mounting
<1>3. ASSUME NEW n \in DOMAIN service, service' = Disconnected(n)
      PROVE  service[m].awaiting
  BY <1>0, <1>3 DEF Disconnected, Service
<1>4. ASSUME NEW h \in Hooks, Unmount(h)
      PROVE  service[m].awaiting
  BY <1>3, <1>4 DEF Unmount, Disconnect, ClientBase, PagesHaveServices
<1>5. ASSUME NEW l \in DOMAIN link, ClientIsReverted(l)
      PROVE  service[m].awaiting
  BY Zenon, <1>3, <1>5, BeingReverted
<1>6. ASSUME NEW h \in Hooks, Edit(h)
      PROVE  service[m].awaiting
  BY Zenon, <1>0, <1>6 DEF Edit, Service
<1>7. ASSUME NEW n \in DOMAIN service, OpenSocket(n) \/ SessionFails(n)
      PROVE  service[m].awaiting
  BY <1>0, <1>7 DEF OpenSocket, SessionFails, ScheduleReconnect, Service
<1>8. ASSUME NEW n \in DOMAIN service, TimerFires(n)
      PROVE  service[m].awaiting
  BY <1>0, <1>8 DEF TimerFires
<1>9. ASSUME NEW l \in DOMAIN link, ClientReceives(l) \/ ClientNoticesClose(l)
      PROVE  service[m].awaiting
  <2>1. \/ service' = SocketClosed(link[l].service)
        \/ service' = [service EXCEPT ![link[l].service].doc = @ \cup Head(link[l].down).items]
        \/ service' = [service EXCEPT ![link[l].service].wanted = FALSE,
                                      ![link[l].service].revoked = TRUE]
    BY <1>9 DEF ClientReceives, ReceivedBy, ClientNoticesClose
  <2>. QED  BY <1>0, <2>1 DEF SocketClosed, ScheduleReconnect, Service
<1>. QED
  BY Steps, <1>1, <1>2, <1>4, <1>5, <1>6, <1>7, <1>8, <1>9

\* Items are only added, each by the relay or, in an edit, by the page's service.
LEMMA ItemsGrow ==
  ASSUME ClientBase, [ClientNext]_clientVars, ~ \E h \in Hooks : Edit(h)
  PROVE  /\ \A i \in DOMAIN items : i \in DOMAIN items' /\ items'[i] = items[i]
         /\ \A i \in DOMAIN items' \ DOMAIN items : items'[i] = 0
<1>1. UNCHANGED items \/ NewItem(0)
  BY Zenon DEF ClientNext, Mount, Unmount, LoseAccess, OpenSocket, SessionFails, TimerFires,
         ClientReceives, ClientIsReverted, ClientNoticesClose, Accept, Refuse, RelayReceives,
         RelayNoticesClose, Break, DropRoom, Revert, RelayRestarts, clientVars
<1>2. ASSUME NewItem(0)
      PROVE  /\ DOMAIN items' = 1 .. Len(items) + 1 /\ items'[Len(items) + 1] = 0
             /\ \A i \in DOMAIN items : i \in DOMAIN items' /\ items'[i] = items[i]
  <2>1. items' \in Seq(0 .. MaxServices) /\ Len(items') = Len(items) + 1
    BY <1>2, ClientAssumption, AppendProperties DEF NewItem, ClientBase, ClientTypes
  <2>2. DOMAIN items' = 1 .. Len(items) + 1
    BY <2>1, LenProperties
  <2>. QED
    BY <1>2, <2>2, ClientAssumption, AppendProperties, Elements DEF NewItem, ClientBase, ClientTypes
<1>. QED  BY <1>1, <1>2, Elements DEF ClientBase

\* An edit adds an item of the page's service.
LEMMA Editing ==
  ASSUME ClientBase, NEW h \in Hooks, Edit(h)
  PROVE  /\ page[h].service \in DOMAIN service
         /\ DOMAIN items' = DOMAIN items \cup {Len(items) + 1}
         /\ Len(items) + 1 \notin DOMAIN items
         /\ \A i \in DOMAIN items : items'[i] = items[i]
         /\ items'[Len(items) + 1] = page[h].service
         /\ DOMAIN service' = DOMAIN service
         /\ \A m \in DOMAIN service : service'[m] =
              IF m = page[h].service
              THEN [service[m] EXCEPT !.doc = @ \cup {Len(items) + 1}] ELSE service[m]
<1> DEFINE n == page[h].service
<1>1. n \in DOMAIN service
  BY Zenon DEF Edit, ClientBase, PagesHaveServices
<1>2. n \in 0 .. MaxServices /\ NewItem(n)
  BY <1>1, Elements, ClientAssumption DEF Edit, ClientBase, ClientTypes
<1>3. /\ items' \in Seq(0 .. MaxServices) /\ Len(items') = Len(items) + 1
      /\ \A i \in 1 .. Len(items) : items'[i] = items[i]
      /\ items'[Len(items) + 1] = n
  BY <1>2, AppendProperties DEF NewItem, ClientBase, ClientTypes
<1>4. DOMAIN items' = 1 .. Len(items) + 1
  BY <1>3, LenProperties
<1>5. service' = [service EXCEPT ![n] = [service[n] EXCEPT !.doc = @ \cup {Len(items) + 1}]]
  BY Zenon DEF Edit
<1>6. /\ DOMAIN service' = DOMAIN service
      /\ \A m \in DOMAIN service : service'[m] =
           IF m = n THEN [service[m] EXCEPT !.doc = @ \cup {Len(items) + 1}] ELSE service[m]
  BY <1>1, <1>5, OneChanged
<1>7. /\ DOMAIN items' = DOMAIN items \cup {Len(items) + 1}
      /\ Len(items) + 1 \notin DOMAIN items
      /\ \A i \in DOMAIN items : items'[i] = items[i]
  BY <1>3, <1>4, Elements DEF ClientBase
<1>. QED  BY Zenon, <1>1, <1>3, <1>6, <1>7

LEMMA OwnItemsStep ==
  ASSUME ClientBase, OwnItemsKept, [ClientNext]_clientVars
  PROVE  OwnItemsKept'
<1> DEFINE Less(m) == Busy(service'[m]) => Busy(service[m]) /\ service[m].doc \subseteq service'[m].doc
<1>0. \A n \in DOMAIN service : n # 0 /\ service[n] \in Service
  BY Elements DEF ClientBase
<1>1. ASSUME ~ \E h \in Hooks : Edit(h), DOMAIN service' = DOMAIN service,
             \A m \in DOMAIN service : Less(m)
      PROVE  OwnItemsKept'
  BY <1>0, <1>1, ItemsGrow DEF OwnItemsKept
<1>2. ASSUME NEW h \in Hooks, Edit(h)
      PROVE  OwnItemsKept'
  <2> SUFFICES ASSUME NEW m \in DOMAIN service, Busy(service'[m]),
                      NEW i \in DOMAIN items', items'[i] = m
               PROVE  i \in service'[m].doc
    BY <1>2, Editing DEF OwnItemsKept
  <2> DEFINE s == [service[m] EXCEPT !.doc = @ \cup {Len(items) + 1}]
  <2>1. service'[m] = IF m = page[h].service THEN s ELSE service[m]
    BY <1>2, Editing
  <2>2. /\ s.doc = service[m].doc \cup {Len(items) + 1}
        /\ Busy(s) => Busy(service[m])
    BY <1>0 DEF Busy, Service
  <2>3. CASE i \in DOMAIN items
    <3>1. i \in service[m].doc
      BY <1>2, <2>1, <2>2, <2>3, Editing DEF OwnItemsKept
    <3>. QED  BY <2>1, <2>2, <3>1
  <2>4. CASE i = Len(items) + 1
    BY <1>0, <1>2, <2>1, <2>2, <2>4, Editing
  <2>. QED  BY <1>2, <2>3, <2>4, Editing
<1>. SUFFICES ASSUME ~ \E h \in Hooks : Edit(h) PROVE OwnItemsKept'
  BY <1>2
<1>3. CASE RelayStep
  BY <1>1, <1>3, RelayLeavesServices
<1>4. ASSUME NEW h \in Hooks, Mount(h)
      PROVE  OwnItemsKept'
  BY <1>0, <1>4, Mounting, ItemsGrow DEF OwnItemsKept, Mount
<1>5. ASSUME NEW n \in DOMAIN service, service' = Disconnected(n)
      PROVE  OwnItemsKept'
  BY <1>1, <1>5, Disconnecting
<1>6. ASSUME NEW h \in Hooks, Unmount(h)
      PROVE  OwnItemsKept'
  BY <1>5, <1>6 DEF Unmount, Disconnect, ClientBase, PagesHaveServices
<1>7. ASSUME NEW l \in DOMAIN link, ClientIsReverted(l)
      PROVE  OwnItemsKept'
  <2>1. UNCHANGED service \/ \E n \in DOMAIN service : service' = Disconnected(n)
    BY Zenon, <1>7, BeingReverted
  <2>. QED  BY <1>1, <1>5, <2>1
<1>8. ASSUME NEW n \in DOMAIN service, NEW s, service' = [service EXCEPT ![n] = s],
             Busy(s) => Busy(service[n]), service[n].doc \subseteq s.doc
      PROVE  OwnItemsKept'
  BY <1>1, <1>8, OneChanged
<1>9. ASSUME NEW n \in DOMAIN service, OpenSocket(n)
      PROVE  OwnItemsKept'
  <2> DEFINE s == [service[n] EXCEPT !.awaiting = FALSE, !.socket = Len(link) + 1]
  <2>1. service' = [service EXCEPT ![n] = s] /\ Busy(service[n]) /\ s.doc = service[n].doc
    BY <1>0, <1>9 DEF OpenSocket, Busy, Service
  <2>. QED  BY <1>8, <2>1
<1>10. ASSUME NEW n \in DOMAIN service, SessionFails(n)
       PROVE  OwnItemsKept'
  <2> DEFINE s == ScheduleReconnect([service[n] EXCEPT !.awaiting = FALSE])
  <2>1. service' = [service EXCEPT ![n] = s] /\ Busy(service[n]) /\ s.doc = service[n].doc
    BY <1>0, <1>10 DEF SessionFails, Busy, Service, ScheduleReconnect
  <2>. QED  BY <1>8, <2>1
<1>11. ASSUME NEW n \in DOMAIN service, TimerFires(n)
       PROVE  OwnItemsKept'
  <2> DEFINE s == Connecting(service[n])
  <2>1. service' = [service EXCEPT ![n] = s] /\ Busy(service[n]) /\ s.doc = service[n].doc
    BY <1>0, <1>11 DEF TimerFires, Busy, Service, Connecting
  <2>. QED  BY <1>8, <2>1
<1>12. ASSUME NEW l \in DOMAIN link, ClientReceives(l)
       PROVE  OwnItemsKept'
  <2> DEFINE n == link[l].service
             heard == [service[n] EXCEPT !.doc = @ \cup Head(link[l].down).items]
             told == [service[n] EXCEPT !.wanted = FALSE, !.revoked = TRUE]
  <2>1. n \in DOMAIN service
    BY DEF ClientBase, LinksHaveServices
  <2>2. /\ Busy(heard) => Busy(service[n])
        /\ Busy(told) => Busy(service[n])
        /\ service[n].doc \subseteq heard.doc /\ service[n].doc \subseteq told.doc
    BY <1>0, <2>1 DEF Busy, Service
  <2>3. \/ service' = [service EXCEPT ![n] = heard]
        \/ service' = [service EXCEPT ![n] = told]
    BY <1>12 DEF ClientReceives, ReceivedBy
  <2>. QED  BY <1>8, <2>1, <2>2, <2>3
<1>13. ASSUME NEW l \in DOMAIN link, ClientNoticesClose(l)
       PROVE  OwnItemsKept'
  <2> DEFINE n == link[l].service
             s == ScheduleReconnect([service[n] EXCEPT !.socket = 0])
  <2>1. n \in DOMAIN service /\ service[n].socket # 0
    BY <1>13, Elements DEF ClientNoticesClose, Current, LinkIds, ClientBase, LinksHaveServices
  <2>2. Busy(service[n]) /\ s.doc = service[n].doc
    BY <1>0, <2>1 DEF Busy, Service, ScheduleReconnect
  <2>3. service' = [service EXCEPT ![n] = s]
    BY <1>13 DEF ClientNoticesClose, SocketClosed
  <2>. QED  BY <1>8, <2>1, <2>2, <2>3
<1>. QED
  BY Steps, <1>3, <1>4, <1>6, <1>7, <1>9, <1>10, <1>11, <1>12, <1>13

\* Items stay what they are.
LEMMA ItemsStand ==
  ASSUME ClientBase, [ClientNext]_clientVars
  PROVE  \A i \in DOMAIN items : i \in DOMAIN items' /\ items'[i] = items[i]
BY ItemsGrow, Editing

\* What the relay sends when it has read a message.
LEMMA RelayReceiving ==
  ASSUME ClientBase, SentIsOwn, NEW l \in DOMAIN link, RelayReceives(l)
  PROVE  /\ DOMAIN link' = DOMAIN link
         /\ \A j \in DOMAIN link :
              /\ link'[j].service = link[j].service /\ link'[j].state = link[j].state
              /\ link'[j].up = IF j = l THEN Tail(link[l].up) ELSE link[j].up
         /\ Head(link[l].up).type = "step1" =>
              /\ UNCHANGED room
              /\ \A j \in DOMAIN link : link'[j].down =
                   IF j = l /\ link[l].state = "open"
                   THEN Append(link[l].down, Carrying(room.doc)) ELSE link[j].down
         /\ Head(link[l].up).type # "step1" =>
              LET doc == room.doc \cup Head(link[l].up).items
                  news == Applied(doc) \ Applied(room.doc)
              IN /\ room' = [room EXCEPT !.doc = doc]
                 /\ news \subseteq ItemIds
                 /\ \A j \in DOMAIN link : link'[j].down =
                      IF j \in room.members \ {l} /\ link[j].state = "open" /\ news # {}
                      THEN Append(link[j].down, Carrying(news)) ELSE link[j].down
<1> DEFINE message == Head(link[l].up)
           doc == room.doc \cup message.items
           news == Applied(doc) \ Applied(room.doc)
           sent == Broadcast(news, l)
<1>1. \A j \in DOMAIN link : link[j] \in Link
  BY Elements DEF ClientBase
<1>2. message \in Message /\ message.items \subseteq ItemIds
  <2>1. link[l].up \in Seq(Message) /\ link[l].up # << >>
    BY <1>1, LinkFields DEF RelayReceives
  <2>2. message \in Message
    BY <2>1, FirstAndRest
  <2>. QED  BY <2>2 DEF Message
<1>3. news \subseteq ItemIds
  BY <1>2 DEF Applied, ClientBase, ClientTypes, Room
<1>4. CASE message.type = "step1"
  <2> DEFINE down == IF link[l].state = "open" THEN Append(link[l].down, Carrying(room.doc))
                                               ELSE link[l].down
         x == [link[l] EXCEPT !.up = Tail(@), !.down = down]
  <2>1. UNCHANGED room /\ link' = [link EXCEPT ![l] = x]
    BY Zenon, <1>1, <1>4 DEF RelayReceives, Link
  <2>2. /\ DOMAIN link' = DOMAIN link
        /\ \A j \in DOMAIN link : link'[j] = IF j = l THEN x ELSE link[j]
    BY <2>1
  <2>3. /\ x.service = link[l].service /\ x.state = link[l].state
        /\ x.up = Tail(link[l].up) /\ x.down = down
    BY <1>1 DEF Link
  <2>. QED  BY <1>1, <1>4, <2>1, <2>2, <2>3
<1>5. CASE message.type # "step1"
  <2>1. /\ room' = [room EXCEPT !.doc = doc]
        /\ link' = [sent EXCEPT ![l].up = Tail(@)]
    BY <1>5 DEF RelayReceives
  <2>2. /\ sent \in [DOMAIN link -> Link]
        /\ \A j \in DOMAIN link :
             /\ sent[j].service = link[j].service /\ sent[j].state = link[j].state
             /\ sent[j].up = link[j].up
    <3>1. news \in SUBSET ItemIds
      BY <1>3
    <3>. QED  BY <3>1, BroadcastGoesOn
  <2>3. ASSUME NEW j \in DOMAIN link
        PROVE  sent[j].down =
                 IF j \in room.members \ {l} /\ link[j].state = "open" /\ news # {}
                 THEN Append(link[j].down, Carrying(news)) ELSE link[j].down
    BY <1>1 DEF Broadcast, Link
  <2>4. /\ DOMAIN link' = DOMAIN link
        /\ \A j \in DOMAIN link :
             /\ link'[j].service = sent[j].service /\ link'[j].state = sent[j].state
             /\ link'[j].up = IF j = l THEN Tail(link[l].up) ELSE sent[j].up
             /\ link'[j].down = sent[j].down
    <3>1. \A j \in DOMAIN link : sent[j] \in Link
      BY <2>2
    <3>2. link' = [sent EXCEPT ![l].up = Tail(@)] /\ DOMAIN sent = DOMAIN link
      BY <2>1, <2>2
    <3> HIDE DEF sent
    <3>. QED  BY <2>2, <3>1, <3>2 DEF Link
  <2>. QED  BY <1>3, <1>5, <2>1, <2>2, <2>3, <2>4
<1>. QED  BY <1>4, <1>5

LEMMA Reverting ==
  ASSUME ClientBase, Revert
  PROVE  LET news == {Len(items) + 1}
         IN /\ DOMAIN link' = DOMAIN link
            /\ \A j \in DOMAIN link :
                 /\ link'[j].service = link[j].service /\ link'[j].state = link[j].state
                 /\ link'[j].up = link[j].up
                 /\ link'[j].down =
                      IF j \in room.members /\ link[j].state = "open"
                      THEN Append(Append(link[j].down, Carrying(news)), Plain("document_reverted"))
                      ELSE link[j].down
<1> DEFINE news == {Len(items) + 1}
           reset == Broadcast(news, 0)
<1>1. \A j \in DOMAIN link : link[j] \in Link /\ j # 0
  BY Elements DEF ClientBase
<1>2. news \subseteq ItemIds
  BY Elements DEF ClientBase, ItemIds
<1>3. reset \in [DOMAIN link -> Link]
  BY <1>2, BroadcastGoesOn
<1>4. ASSUME NEW j \in DOMAIN link
      PROVE  /\ reset[j].service = link[j].service /\ reset[j].state = link[j].state
             /\ reset[j].up = link[j].up
             /\ reset[j].down = IF j \in room.members /\ link[j].state = "open"
                               THEN Append(link[j].down, Carrying(news)) ELSE link[j].down
  BY <1>1 DEF Broadcast, Link
<1>5. ASSUME NEW j \in DOMAIN link
      PROVE  link'[j] = IF j \in room.members /\ link[j].state = "open"
                        THEN [reset[j] EXCEPT !.down = Append(@, Plain("document_reverted"))]
                        ELSE link[j]
  BY DEF Revert
<1>6. DOMAIN link' = DOMAIN link
  BY DEF Revert
<1> HIDE DEF reset, news
<1>7. ASSUME NEW j \in DOMAIN link
      PROVE  /\ link'[j].service = link[j].service /\ link'[j].state = link[j].state
             /\ link'[j].up = link[j].up
             /\ link'[j].down =
                  IF j \in room.members /\ link[j].state = "open"
                  THEN Append(Append(link[j].down, Carrying(news)), Plain("document_reverted"))
                  ELSE link[j].down
  <2>1. CASE j \in room.members /\ link[j].state = "open"
    <3> DEFINE x == reset[j]
    <3>1. x \in Link /\ link'[j] = [x EXCEPT !.down = Append(@, Plain("document_reverted"))]
      BY <1>3, <1>5, <2>1
    <3>2. x.down = Append(link[j].down, Carrying(news))
      BY <1>4, <2>1
    <3>3. x.service = link[j].service /\ x.state = link[j].state /\ x.up = link[j].up
      BY <1>4
    <3> HIDE DEF x
    <3>. QED  BY <2>1, <3>1, <3>2, <3>3 DEF Link
  <2>2. CASE ~(j \in room.members /\ link[j].state = "open")
    BY <1>5, <2>2
  <2>. QED  BY <2>1, <2>2
<1>. QED  BY Zenon, <1>6, <1>7 DEF news

\* Only an edit puts items into a socket.
LEMMA UpsShrink ==
  ASSUME ClientBase, SentIsOwn, [ClientNext]_clientVars, ~ \E h \in Hooks : Edit(h),
         NEW l \in DOMAIN link', NEW k \in DOMAIN link'[l].up
  PROVE  \/ link'[l].up[k].items = {}
         \/ /\ l \in DOMAIN link /\ link'[l].service = link[l].service
            /\ \E j \in DOMAIN link[l].up : link'[l].up[k] = link[l].up[j]
<1> DEFINE Same(j) == link'[j].up = link[j].up /\ link'[j].service = link[j].service
           Good == \/ link'[l].up[k].items = {}
                   \/ /\ l \in DOMAIN link /\ link'[l].service = link[l].service
                      /\ \E j \in DOMAIN link[l].up : link'[l].up[k] = link[l].up[j]
<1>0. \A j \in DOMAIN link : link[j] \in Link
  BY Elements DEF ClientBase
<1>1. CASE l \in DOMAIN link /\ Same(l)
  BY <1>1
<1>2. CASE link'[l].up = <<>>
  BY <1>2
<1>3. CASE UNCHANGED link
  BY <1>1, <1>3
<1>4. ASSUME NEW j \in DOMAIN link, link' = [link EXCEPT ![j] = CloseSocket(@)]
      PROVE  Good
  BY <1>0, <1>1, <1>4 DEF CloseSocket, Link
<1>5. ASSUME NEW h \in Hooks, Unmount(h)
      PROVE  Good
  BY Zenon, <1>3, <1>4, <1>5 DEF Unmount, Disconnect, ClientBase, PagesHaveServices, SocketsAreOwn
<1>6. ASSUME NEW h \in Hooks, LoseAccess(h)
      PROVE  Good
  <2>1. l \in DOMAIN link
    BY Zenon, <1>6 DEF LoseAccess
  <2>. QED  BY Zenon, <1>0, <1>1, <1>2, <1>6, <2>1 DEF LoseAccess, Link
<1>7. ASSUME NEW n \in DOMAIN service, OpenSocket(n)
      PROVE  Good
  <2> DEFINE x == [service |-> n, state |-> "opening", up |-> <<>>, down |-> <<>>]
  <2>1. n \in Services /\ link \in Seq(Link)
    BY Elements DEF ClientBase, ClientTypes
  <2>2. x \in Link
    BY <2>1, EmptySeq DEF Link
  <2>3. /\ Len(link') = Len(link) + 1 /\ link' \in Seq(Link)
        /\ \A j \in 1 .. Len(link) : link'[j] = link[j]
        /\ link'[Len(link) + 1] = x
    BY <1>7, <2>1, <2>2, AppendProperties DEF OpenSocket
  <2>4. DOMAIN link' = 1 .. Len(link) + 1 /\ DOMAIN link = 1 .. Len(link) /\ Len(link) \in Nat
    BY <2>1, <2>3, LenProperties
  <2>. QED  BY <1>1, <1>2, <2>3, <2>4
<1>8. ASSUME NEW j \in DOMAIN link, ClientReceives(j)
      PROVE  Good
  BY <1>0, <1>1, <1>8 DEF ClientReceives, Read, Link
<1>9. ASSUME NEW j \in DOMAIN link, ClientIsReverted(j)
      PROVE  Good
  <2> DEFINE taken == Read(j)
  <2>1. /\ link[j].down # << >>
        /\ link' = taken \/ \E i \in DOMAIN link : link' = [taken EXCEPT ![i] = CloseSocket(@)]
    BY Zenon, <1>9, BeingReverted
  <2>2. /\ taken \in [DOMAIN link -> Link]
        /\ \A i \in DOMAIN link : taken[i].up = link[i].up /\ taken[i].service = link[i].service
    BY <2>1, Reading
  <2> HIDE DEF taken
  <2>3. l \in DOMAIN link /\ (link'[l] = taken[l] \/ link'[l] = CloseSocket(taken[l]))
    BY <2>1, <2>2
  <2>. QED  BY <1>1, <2>2, <2>3 DEF CloseSocket, Link
<1>10. ASSUME NEW j \in DOMAIN link, Accept(j)
       PROVE  Good
  BY <1>0, <1>1, <1>2, <1>10 DEF Accept, Link, Plain
<1>11. ASSUME NEW j \in DOMAIN link, Refuse(j)
       PROVE  Good
  BY <1>0, <1>1, <1>11 DEF Refuse, Link
<1>12. ASSUME NEW j \in DOMAIN link, Break(j)
       PROVE  Good
  BY <1>0, <1>1, <1>2, <1>12 DEF Break, Link, Lost
<1>13. CASE RelayRestarts
  BY Zenon, <1>0, <1>2, <1>13 DEF RelayRestarts, Link, Lost
<1>14. ASSUME NEW j \in DOMAIN link, RelayReceives(j)
       PROVE  Good
  <2>1. /\ l \in DOMAIN link /\ link'[l].service = link[l].service
        /\ link'[l].up = IF l = j THEN Tail(link[l].up) ELSE link[l].up
    BY <1>14, RelayReceiving
  <2>2. CASE l = j
    <3>1. link[j].up \in Seq(Message) /\ link[j].up # << >>
      BY <1>0, <1>14, <2>1, <2>2 DEF Link, RelayReceives
    <3>2. k + 1 \in DOMAIN link[j].up /\ Tail(link[j].up)[k] = link[j].up[k + 1]
      BY <2>1, <2>2, <3>1, FirstAndRest
    <3>. QED  BY <2>1, <2>2, <3>2
  <2>3. CASE l # j
    BY <1>1, <2>1, <2>3
  <2>. QED  BY <2>2, <2>3
<1>15. CASE Revert
  BY <1>1, <1>15, Reverting
<1>16. CASE \/ \E h \in Hooks : Mount(h)
            \/ \E n \in DOMAIN service : SessionFails(n) \/ TimerFires(n)
            \/ \E j \in DOMAIN link : ClientNoticesClose(j) \/ RelayNoticesClose(j)
            \/ DropRoom \/ UNCHANGED clientVars
  BY <1>3, <1>16 DEF Mount, SessionFails, TimerFires, ClientNoticesClose, RelayNoticesClose,
                     DropRoom, clientVars
<1>. QED
  BY <1>5, <1>6, <1>7, <1>8, <1>9, <1>10, <1>11, <1>12, <1>13, <1>14, <1>15, <1>16 DEF ClientNext

\* An element of an extended sequence is an old one or the new one.
LEMMA OldOrAppended ==
  ASSUME NEW x \in Seq(Message), NEW m \in Message, NEW k \in DOMAIN Append(x, m)
  PROVE  Append(x, m)[k] = m \/ (k \in DOMAIN x /\ Append(x, m)[k] = x[k])
<1>1. /\ DOMAIN Append(x, m) = DOMAIN x \cup {Len(x) + 1}
      /\ \A j \in DOMAIN x : Append(x, m)[j] = x[j]
      /\ Append(x, m)[Len(x) + 1] = m
  BY Appended
<1>. QED  BY Zenon, <1>1

LEMMA SentIsOwnStep ==
  ASSUME ClientBase, SentIsOwn, [ClientNext]_clientVars
  PROVE  SentIsOwn'
<1>1. \A i \in DOMAIN items : i \in DOMAIN items' /\ items'[i] = items[i]
  BY ItemsStand
<1>2. CASE ~ \E h \in Hooks : Edit(h)
  <2> SUFFICES ASSUME NEW l \in DOMAIN link', NEW k \in DOMAIN link'[l].up,
                      NEW i \in link'[l].up[k].items
               PROVE  i \in DOMAIN items' /\ items'[i] = link'[l].service
    BY DEF SentIsOwn
  <2>. QED  BY <1>1, <1>2, UpsShrink DEF SentIsOwn
<1>3. ASSUME NEW h \in Hooks, Edit(h)
      PROVE  SentIsOwn'
  <2> DEFINE n == page[h].service
             next == Len(items) + 1
             sock == service[n].socket
             y == [link[sock] EXCEPT !.up = Append(@, Carrying({next}))]
  <2>1. CASE sock # 0 /\ OpenHere(link[sock])
    <3>1. sock \in DOMAIN link /\ link[sock].service = n /\ link[sock] \in Link
      BY <1>3, <2>1, Editing, Elements DEF ClientBase, SocketsAreOwn
    <3>2. link' = [link EXCEPT ![sock] = y]
      BY Zenon, <1>3, <2>1 DEF Edit
    <3>3. Carrying({next}) \in Message /\ Carrying({next}).items = {next}
      BY Elements, SentThings DEF ClientBase, ItemIds, Carrying
    <3>4. y.service = n /\ y.up = Append(link[sock].up, Carrying({next}))
      BY <3>1 DEF Link
    <3>5. next \in DOMAIN items' /\ items'[next] = n
      BY Zenon, <1>3, Editing
    <3>6. link[sock].up \in Seq(Message)
      BY <3>1, LinkFields
    <3> HIDE DEF y, n, next, sock
    <3>7. ASSUME NEW k \in DOMAIN y.up
          PROVE  y.up[k] = Carrying({next}) \/ (k \in DOMAIN link[sock].up /\ y.up[k] = link[sock].up[k])
      <4> DEFINE old == link[sock].up
                 news == Carrying({next})
      <4>1. old \in Seq(Message) /\ news \in Message /\ y.up = Append(old, news)
        BY Zenon, <3>3, <3>4, <3>6
      <4> HIDE DEF old, news
      <4>2. k \in DOMAIN Append(old, news)
        BY Zenon, <4>1
      <4>3. Append(old, news)[k] = news \/ (k \in DOMAIN old /\ Append(old, news)[k] = old[k])
        BY Zenon, <4>1, <4>2, OldOrAppended
      <4>. QED  BY Zenon, <4>1, <4>3 DEF old, news
    <3>8. \A l \in DOMAIN link : link'[l] = IF l = sock THEN y ELSE link[l]
      BY Zenon, <3>2
    <3> SUFFICES ASSUME NEW l \in DOMAIN link, NEW k \in DOMAIN link'[l].up,
                        NEW i \in link'[l].up[k].items
                 PROVE  i \in DOMAIN items' /\ items'[i] = link'[l].service
      BY Zenon, <3>2 DEF SentIsOwn
    <3>9. CASE l # sock
      <4>1. link'[l] = link[l]
        BY Zenon, <3>8, <3>9
      <4>2. k \in DOMAIN link[l].up /\ i \in link[l].up[k].items
        BY Zenon, <4>1
      <4>. QED  BY Zenon, <1>1, <4>1, <4>2 DEF SentIsOwn
    <3>10. CASE l = sock
      <4>1. link'[l] = y
        BY Zenon, <3>8, <3>10
      <4>2. k \in DOMAIN y.up /\ i \in y.up[k].items
        BY Zenon, <4>1
      <4>3. CASE y.up[k] = Carrying({next})
        BY Zenon, <3>3, <3>4, <3>5, <4>1, <4>2, <4>3
      <4>4. CASE k \in DOMAIN link[sock].up /\ y.up[k] = link[sock].up[k]
        <5>1. i \in link[sock].up[k].items
          BY Zenon, <4>2, <4>4
        <5>2. i \in DOMAIN items /\ items[i] = n
          BY Zenon, <3>1, <4>4, <5>1 DEF SentIsOwn
        <5>. QED  BY Zenon, <1>1, <3>4, <4>1, <5>2
      <4>. QED  BY Zenon, <3>7, <4>2, <4>3, <4>4
    <3>. QED  BY Zenon, <3>9, <3>10
  <2>2. CASE ~(sock # 0 /\ OpenHere(link[sock]))
    <3>1. UNCHANGED link
      BY Zenon, <1>3, <2>2 DEF Edit
    <3>. QED  BY Zenon, <1>1, <3>1 DEF SentIsOwn
  <2>. QED  BY <2>1, <2>2
<1>. QED  BY <1>2, <1>3

LEMMA InGets ==
  ASSUME NEW s, NEW x, NEW i
  PROVE  i \in Gets(s, x) <=>
           \/ i \in s.doc
           \/ \E k \in DOMAIN x.down : x.down[k].type = "items" /\ i \in x.down[k].items
BY DEF Gets, Range

\* A message sent takes nothing from what a service gets.
LEMMA GetsAppended ==
  ASSUME NEW s, NEW x, NEW y, x.down \in Seq(Message), NEW m \in Message,
         y.down = Append(x.down, m)
  PROVE  Gets(s, x) \subseteq Gets(s, y) /\ (m.type = "items" => m.items \subseteq Gets(s, y))
<1>1. /\ DOMAIN y.down = DOMAIN x.down \cup {Len(x.down) + 1}
      /\ \A k \in DOMAIN x.down : y.down[k] = x.down[k]
      /\ y.down[Len(x.down) + 1] = m
  BY Appended
<1>. QED  BY <1>1, InGets

\* A message read is given to the document, if it carries items.
LEMMA GetsRead ==
  ASSUME NEW s, NEW t, NEW x, NEW y, x.down \in Seq(Message), x.down # << >>,
         y.down = Tail(x.down), s.doc \subseteq t.doc,
         Head(x.down).type = "items" => Head(x.down).items \subseteq t.doc
  PROVE  Gets(s, x) \subseteq Gets(t, y)
<1> SUFFICES ASSUME NEW i \in Gets(s, x), i \notin s.doc
             PROVE  i \in Gets(t, y)
    BY InGets
<1>1. PICK k \in DOMAIN x.down : x.down[k].type = "items" /\ i \in x.down[k].items
  BY InGets
<1>2. CASE k = 1
  BY <1>1, <1>2, FirstAndRest, InGets
<1>3. CASE k # 1
  <2>1. k - 1 \in DOMAIN y.down /\ y.down[k - 1] = x.down[k]
    <3>1. /\ Len(x.down) \in Nat /\ DOMAIN x.down = 1 .. Len(x.down)
          /\ DOMAIN Tail(x.down) = 1 .. Len(x.down) - 1
          /\ \A j \in DOMAIN Tail(x.down) : Tail(x.down)[j] = x.down[j + 1]
      BY FirstAndRest
    <3>. QED  BY <1>3, <3>1
  <2>. QED  BY <1>1, <2>1, InGets
<1>. QED  BY <1>2, <1>3

LEMMA GetsMore ==
  ASSUME NEW s, NEW t, NEW x, NEW y, s.doc \subseteq t.doc, x.down = y.down
  PROVE  Gets(s, x) \subseteq Gets(t, y)
BY InGets

\* As long as the room's document stands, so does what is applied of it.
LEMMA AppliedStands ==
  ASSUME ClientBase, [ClientNext]_clientVars, room'.doc = room.doc
  PROVE  Applied(room.doc)' = Applied(room.doc)
<1>1. \A i \in DOMAIN items : i \in DOMAIN items' /\ items'[i] = items[i]
  BY ItemsStand
<1>2. room.doc \subseteq DOMAIN items /\ DOMAIN items = 1 .. Len(items) /\ Len(items) \in Nat
  BY Elements DEF ClientBase, RoomIsKnown
<1>3. \A i \in room.doc : \A j \in 1 .. i - 1 : j \in DOMAIN items
  BY <1>2
<1>4. Applied(room.doc)' =
        {i \in room.doc : i \in DOMAIN items' =>
           \A j \in 1 .. i - 1 : items'[j] = items'[i] /\ items'[i] # 0 => j \in room.doc}
  BY DEF Applied
<1>5. ASSUME NEW i \in room.doc
      PROVE  /\ i \in DOMAIN items /\ i \in DOMAIN items' /\ items'[i] = items[i]
             /\ \A j \in 1 .. i - 1 : items'[j] = items[j]
  BY <1>1, <1>2, <1>3
<1>. QED  BY <1>4, <1>5 DEF Applied

LEMMA StillServed ==
  ASSUME ClientBase, EveryoneIsServed, [ClientNext]_clientVars,
         NEW l \in DOMAIN link, room'.doc = room.doc,
         Live(l)' /\ ~Asks(link'[l]) =>
           /\ Live(l) /\ ~Asks(link[l])
           /\ Gets(service[link[l].service], link[l])
                \subseteq Gets(service'[link'[l].service], link'[l])
  PROVE  Served(l)'
<1>1. Applied(room.doc)' = Applied(room.doc)
  BY AppliedStands
<1>2. Served(l)
  BY DEF EveryoneIsServed
<1>. QED  BY <1>1, <1>2 DEF Served

\* A service that lost its socket is not served; the others are as before.
LEMMA DisconnectServes ==
  ASSUME ClientBase, EveryoneIsServed, [ClientNext]_clientVars,
         NEW n \in DOMAIN service, service' = Disconnected(n),
         room'.doc = room.doc, room'.members = room.members,
         NEW l \in DOMAIN link, link'[l].service = link[l].service,
         l # service[n].socket =>
           /\ link'[l].state = link[l].state /\ link'[l].up = link[l].up
           /\ \A s : Gets(s, link[l]) \subseteq Gets(s, link'[l])
  PROVE  Served(l)'
<1>1. l # 0 /\ link[l].service \in DOMAIN service
  BY Elements DEF ClientBase, LinksHaveServices, LinkIds
<1>2. ASSUME Live(l)'
      PROVE  link[l].service # n /\ service'[link[l].service] = service[link[l].service]
  BY <1>1, <1>2, Disconnecting DEF Live, Current
<1>3. ASSUME Live(l)'
      PROVE  l # service[n].socket
  BY <1>1, <1>2, <1>3 DEF ClientBase, SocketsAreOwn
<1>4. Live(l)' => Live(l) /\ link'[l].up = link[l].up
  BY Zenon, <1>2, <1>3 DEF Live, Current
<1>. QED  BY <1>2, <1>3, <1>4, StillServed DEF Asks

LEMMA UnmountServes ==
  ASSUME ClientBase, EveryoneIsServed, [ClientNext]_clientVars,
         NEW h \in Hooks, Unmount(h), NEW l \in DOMAIN link
  PROVE  Served(l)'
<1> DEFINE n == page[h].service
<1>1. n \in DOMAIN service
  BY DEF Unmount, ClientBase, PagesHaveServices
<1>2. link[l] \in Link /\ link[l].service \in DOMAIN service
  BY Elements DEF ClientBase, LinksHaveServices
<1>3. link'[l] = link[l] \/ (l = service[n].socket /\ link'[l] = CloseSocket(link[l]))
  BY DEF Unmount, Disconnect
<1>4. link'[l].service = link[l].service
  BY <1>2, <1>3 DEF CloseSocket, Link
<1>. QED  BY <1>1, <1>3, <1>4, DisconnectServes DEF Unmount, Disconnect

LEMMA RevertedServes ==
  ASSUME ClientBase, EveryoneIsServed, [ClientNext]_clientVars,
         NEW j \in DOMAIN link, ClientIsReverted(j), NEW l \in DOMAIN link
  PROVE  Served(l)'
<1> DEFINE n == page[service[link[j].service].hook].service
           taken == Read(j)
<1>1. /\ link[j].down # << >> /\ Head(link[j].down).type # "items" /\ UNCHANGED room
      /\ \/ UNCHANGED service /\ link' = taken
         \/ /\ n \in DOMAIN service /\ service' = Disconnected(n)
            /\ \/ link' = taken
               \/ link' = [taken EXCEPT ![service[n].socket] = CloseSocket(@)]
  BY Zenon, BeingReverted
<1>2. /\ taken \in [DOMAIN link -> Link] /\ taken[l].service = link[l].service
      /\ taken[l].state = link[l].state /\ taken[l].up = link[l].up
      /\ taken[l].down = IF l = j THEN Tail(link[j].down) ELSE link[l].down
  BY Zenon, <1>1, Reading
<1> HIDE DEF taken, n
<1>3. ASSUME NEW s
      PROVE  Gets(s, link[l]) \subseteq Gets(s, taken[l])
  <2>1. CASE l = j
    <3>1. link[j].down \in Seq(Message)
      BY Elements, LinkFields DEF ClientBase
    <3>. QED  BY <1>1, <1>2, <2>1, <3>1, GetsRead
  <2>2. CASE l # j
    BY <1>2, <2>2, GetsMore
  <2>. QED  BY <2>1, <2>2
<1>4. CASE UNCHANGED service /\ link' = taken
  BY <1>1, <1>2, <1>3, <1>4, StillServed DEF Live, Current, Asks
<1>5. CASE n \in DOMAIN service /\ service' = Disconnected(n)
  <2>1. \/ link'[l] = taken[l]
        \/ l = service[n].socket /\ link'[l] = CloseSocket(taken[l])
    BY <1>1, <1>2
  <2>2. link'[l].service = link[l].service
    BY <1>2, <2>1 DEF CloseSocket, Link
  <2>3. l # service[n].socket =>
          /\ link'[l].state = link[l].state /\ link'[l].up = link[l].up
          /\ \A s : Gets(s, link[l]) \subseteq Gets(s, link'[l])
    BY <1>2, <1>3, <2>1
  <2>. QED  BY <1>1, <1>5, <2>2, <2>3, DisconnectServes
<1>. QED  BY <1>1, <1>4, <1>5

\* The steps of services alone.
LEMMA ServiceAloneServes ==
  ASSUME ClientBase, EveryoneIsServed, [ClientNext]_clientVars, UNCHANGED <<link, room>>,
         NEW n \in DOMAIN service, NEW s, service' = [service EXCEPT ![n] = s],
         s.socket \in {0, service[n].socket}, service[n].doc \subseteq s.doc,
         NEW l \in DOMAIN link
  PROVE  Served(l)'
<1>1. l # 0 /\ link[l].service \in DOMAIN service
  BY Elements DEF ClientBase, LinksHaveServices, LinkIds
<1>2. service'[link[l].service] =
        IF link[l].service = n THEN s ELSE service[link[l].service]
  BY <1>1, OneChanged
<1>3. Live(l)' => Live(l)
  BY <1>1, <1>2 DEF Live, Current
<1>4. Gets(service[link[l].service], link[l]) \subseteq Gets(service'[link[l].service], link[l])
  BY <1>2, GetsMore
<1>. QED  BY <1>3, <1>4, StillServed DEF Asks

LEMMA OpenSocketServes ==
  ASSUME ClientBase, EveryoneIsServed, [ClientNext]_clientVars,
         NEW n \in DOMAIN service, OpenSocket(n), NEW l \in DOMAIN link'
  PROVE  Served(l)'
<1> DEFINE x == [service |-> n, state |-> "opening", up |-> <<>>, down |-> <<>>]
           s == [service[n] EXCEPT !.awaiting = FALSE, !.socket = Len(link) + 1]
<1>1. /\ n \in Services /\ link \in Seq(Link) /\ service[n] \in Service
      /\ OneAttempt(service[n]) /\ \A j \in DOMAIN link : j # 0
  BY Elements DEF ClientBase, ClientTypes, LinkIds, SocketsAreOwn
<1>2. x \in Link
  BY <1>1, EmptySeq DEF Link
<1>3. /\ DOMAIN link' = DOMAIN link \cup {Len(link) + 1} /\ Len(link) + 1 \notin DOMAIN link
      /\ \A j \in DOMAIN link : link'[j] = link[j]
      /\ link'[Len(link) + 1] = x
  BY <1>1, <1>2, Appended DEF OpenSocket
<1>4. CASE l = Len(link) + 1
  BY <1>3, <1>4 DEF Served, Live
<1>5. CASE l \in DOMAIN link
  <2>1. link'[l] = link[l] /\ link[l].service \in DOMAIN service
    BY <1>3, <1>5 DEF ClientBase, LinksHaveServices
  <2>2. service' = [service EXCEPT ![n] = s] /\ UNCHANGED room
    BY DEF OpenSocket
  <2>3. service'[link[l].service] =
          IF link[l].service = n THEN s ELSE service[link[l].service]
    BY <2>1, <2>2, OneChanged
  <2>4. s.socket = Len(link) + 1
    BY <1>1 DEF Service
  <2>5. Live(l)' => link[l].service # n
    BY <1>3, <1>5, <2>1, <2>3, <2>4 DEF Live, Current
  <2>6. Live(l)' => Live(l) /\ service'[link[l].service] = service[link[l].service]
    BY Zenon, <2>1, <2>2, <2>3, <2>5 DEF Live, Current
  <2>. QED  BY <1>5, <2>1, <2>2, <2>6, StillServed
<1>. QED  BY <1>3, <1>4, <1>5

LEMMA EditServes ==
  ASSUME ClientBase, EveryoneIsServed, [ClientNext]_clientVars,
         NEW h \in Hooks, Edit(h), NEW l \in DOMAIN link
  PROVE  Served(l)'
<1> DEFINE n == page[h].service
           next == Len(items) + 1
           sock == service[n].socket
           old == link[l].up
           up == Append(old, Carrying({next}))
<1>1. link[l] \in Link /\ link[l].service \in DOMAIN service
  BY Zenon, Elements DEF ClientBase, LinksHaveServices
<1>2. link'[l] = link[l] \/ link'[l] = [link[l] EXCEPT !.up = up]
  BY Zenon, <1>1 DEF Edit, Link
<1>3. /\ link'[l].service = link[l].service /\ link'[l].state = link[l].state
      /\ link'[l].down = link[l].down /\ link'[l].up \in {old, up}
  BY <1>1, <1>2 DEF Link
<1>4. Asks(link[l]) => Asks(link'[l])
  <2>1. Carrying({next}) \in Message
    BY Elements, SentThings DEF ClientBase, ItemIds
  <2>2. old \in Seq(Message)
    BY <1>1, LinkFields
  <2>3. DOMAIN old \subseteq DOMAIN up /\ \A k \in DOMAIN old : up[k] = old[k]
    BY <2>1, <2>2, Appended
  <2>. QED  BY <1>3, <2>3 DEF Asks
<1>5. /\ service'[link[l].service].socket = service[link[l].service].socket
      /\ service[link[l].service].doc \subseteq service'[link[l].service].doc
  <2> DEFINE s == [service[n] EXCEPT !.doc = @ \cup {next}]
  <2>1. n \in DOMAIN service /\ service[n] \in Service
    BY Zenon, Editing, Elements DEF ClientBase
  <2>2. service' = [service EXCEPT ![n] = s]
    BY Zenon DEF Edit
  <2>3. s.socket = service[n].socket /\ service[n].doc \subseteq s.doc
    BY Zenon, <2>1 DEF Service
  <2>. QED  BY <1>1, <2>1, <2>2, <2>3, OneChanged
<1>6. Live(l)' => Live(l)
  BY Zenon, <1>3, <1>5 DEF Live, Current, Edit
<1>7. Gets(service[link[l].service], link[l]) \subseteq Gets(service'[link'[l].service], link'[l])
  BY <1>3, <1>5, GetsMore
<1>. QED  BY Zenon, <1>4, <1>6, <1>7, StillServed DEF Edit

LEMMA ReceivesServes ==
  ASSUME ClientBase, EveryoneIsServed, [ClientNext]_clientVars,
         NEW j \in DOMAIN link, ClientReceives(j), NEW l \in DOMAIN link
  PROVE  Served(l)'
<1> DEFINE n == link[j].service
           message == Head(link[j].down)
           heard == [service[n] EXCEPT !.doc = @ \cup message.items]
           told == [service[n] EXCEPT !.wanted = FALSE, !.revoked = TRUE]
           s == IF message.type = "items" THEN heard ELSE told
<1>1. n \in DOMAIN service /\ service[n] \in Service /\ link[l].service \in DOMAIN service
  BY Elements DEF ClientBase, LinksHaveServices
<1>2. link' = Read(j) /\ UNCHANGED room /\ service' = [service EXCEPT ![n] = s]
  BY DEF ClientReceives, ReceivedBy, Read
<1>3. /\ s.socket = service[n].socket /\ service[n].doc \subseteq s.doc
      /\ message.type = "items" => message.items \subseteq s.doc
  BY <1>1 DEF Service
<1>4. service'[link[l].service] =
        IF link[l].service = n THEN s ELSE service[link[l].service]
  BY <1>1, <1>2, OneChanged
<1>5. /\ link'[l].service = link[l].service /\ link'[l].state = link[l].state
      /\ link'[l].up = link[l].up
      /\ link'[l].down = IF l = j THEN Tail(link[j].down) ELSE link[l].down
  BY <1>2, Reading DEF ClientReceives
<1>6. Live(l)' => Live(l)
  BY <1>2, <1>3, <1>4, <1>5 DEF Live, Current
<1>7. Gets(service[link[l].service], link[l]) \subseteq Gets(service'[link'[l].service], link'[l])
  <2>1. CASE l = j
    <3>1. link[j].down \in Seq(Message) /\ link[j].down # << >>
      BY Elements, LinkFields DEF ClientBase, ClientReceives
    <3> HIDE DEF s
    <3>. QED  BY <1>3, <1>4, <1>5, <2>1, <3>1, GetsRead
  <2>2. CASE l # j
    <3> HIDE DEF s
    <3>. QED  BY <1>3, <1>4, <1>5, <2>2, GetsMore
  <2>. QED  BY <2>1, <2>2
<1>. QED  BY <1>2, <1>5, <1>6, <1>7, StillServed DEF Asks

\* A step that touches one socket's state, and leaves it not open.
LEMMA ClosingServes ==
  ASSUME ClientBase, EveryoneIsServed, [ClientNext]_clientVars, UNCHANGED service,
         room'.doc = room.doc, room'.members \subseteq room.members,
         NEW l \in DOMAIN link, link'[l] = link[l] \/ link'[l].state # "open"
  PROVE  Served(l)'
<1>1. Live(l)' => Live(l) /\ link'[l] = link[l]
  BY DEF Live, Current
<1>. QED  BY <1>1, StillServed

LEMMA AcceptServes ==
  ASSUME ClientBase, EveryoneIsServed, [ClientNext]_clientVars,
         NEW j \in DOMAIN link, Accept(j), NEW l \in DOMAIN link
  PROVE  Served(l)'
<1> DEFINE up == IF Current(j) THEN <<Plain("step1")>> ELSE <<>>
<1>1. link[l] \in Link /\ link[j] \in Link
  BY Elements DEF ClientBase
<1>2. /\ link'[l] = IF l = j THEN [link[j] EXCEPT !.state = "open", !.up = up] ELSE link[l]
      /\ UNCHANGED service
  BY <1>1 DEF Accept, Link
<1>3. CASE l = j
  <2>1. link'[l].up = up /\ link'[l].service = link[j].service
    BY <1>1, <1>2, <1>3 DEF Link
  <2>2. Current(j) => Asks(link'[l])
    BY <2>1 DEF Asks, Plain
  <2>3. Live(l)' => Current(j)
    BY <1>2, <1>3, <2>1 DEF Live, Current
  <2>. QED  BY <2>2, <2>3 DEF Served
<1>4. CASE l # j /\ ~room.exists
  BY <1>4 DEF Accept, Served, Live, ClientBase, RoomIsKnown
<1>5. CASE l # j /\ room.exists
  <2>1. room'.doc = room.doc /\ room'.members = room.members \cup {j}
    BY <1>5 DEF Accept
  <2>. QED  BY <1>2, <1>5, <2>1, StillServed DEF Live, Current
<1>. QED  BY <1>3, <1>4, <1>5

\* What an update makes part of the room's text has been made by its sender.
LEMMA NewlyApplied ==
  ASSUME ClientBase, SentIsOwn, NEW l \in DOMAIN link, link[l].up # << >>,
         NEW i \in Applied(room.doc \cup Head(link[l].up).items) \ Applied(room.doc)
  PROVE  i \in DOMAIN items /\ items[i] = link[l].service
<1> DEFINE message == Head(link[l].up)
<1>1. \A m \in message.items : m \in DOMAIN items /\ items[m] = link[l].service
  <2>1. message = link[l].up[1] /\ 1 \in DOMAIN link[l].up
    BY Elements, LinkFields, FirstAndRest DEF ClientBase
  <2>. QED  BY <2>1 DEF SentIsOwn
<1>2. i \in room.doc \cup message.items /\ i \in DOMAIN items
  BY <1>1 DEF Applied, ClientBase, RoomIsKnown
<1>3. CASE items[i] # link[l].service
  <2>1. i \in room.doc
    BY <1>1, <1>2, <1>3
  <2>2. PICK j \in 1 .. i - 1 : items[j] = items[i] /\ items[i] # 0 /\ j \notin room.doc
    BY <2>1 DEF Applied
  <2>3. j \in room.doc \cup message.items
    BY <1>2, <2>2 DEF Applied
  <2>. QED  BY <1>1, <1>3, <2>2, <2>3
<1>. QED  BY <1>2, <1>3

LEMMA RelayReceivesServes ==
  ASSUME ClientBase, SentIsOwn, OwnItemsKept, EveryoneIsServed, [ClientNext]_clientVars,
         NEW j \in DOMAIN link, RelayReceives(j), NEW l \in DOMAIN link
  PROVE  Served(l)'
<1> DEFINE message == Head(link[j].up)
           n == link[l].service
<1>0. /\ link[l] \in Link /\ n \in DOMAIN service /\ l # 0 /\ link[l].down \in Seq(Message)
      /\ link[j].up \in Seq(Message) /\ link[j].up # << >> /\ room.doc \in SUBSET ItemIds
  <2>1. link[l] \in Link /\ link[j] \in Link /\ l # 0
    BY Elements DEF ClientBase, LinkIds
  <2>2. link[l].down \in Seq(Message) /\ link[j].up \in Seq(Message)
    BY <2>1, LinkFields
  <2>3. n \in DOMAIN service /\ link[j].up # << >> /\ room.doc \in SUBSET ItemIds
    BY DEF ClientBase, LinksHaveServices, RelayReceives, ClientTypes, Room
  <2>. QED  BY <2>1, <2>2, <2>3
<1>1. UNCHANGED <<service, items>>
  BY DEF RelayReceives
<1>2. /\ link'[l].service = n /\ link'[l].state = link[l].state
      /\ link'[l].up = IF l = j THEN Tail(link[j].up) ELSE link[l].up
  BY RelayReceiving
<1>3. CASE message.type = "step1"
  <2>1. /\ UNCHANGED room
        /\ link'[l].down = IF l = j /\ link[j].state = "open"
                           THEN Append(link[l].down, Carrying(room.doc)) ELSE link[l].down
    BY <1>3, RelayReceiving
  <2>2. CASE l # j
    BY <1>1, <1>2, <2>1, <2>2, GetsMore, StillServed DEF Live, Current, Asks
  <2>3. CASE l = j
    <3> SUFFICES ASSUME Live(l)' PROVE Applied(room.doc)' \subseteq Gets(service'[n], link'[l])
      BY <1>2 DEF Served
    <3>1. link[l].state = "open"
      BY <1>2 DEF Live
    <3>2. /\ Carrying(room.doc) \in Message /\ Carrying(room.doc).type = "items"
          /\ Carrying(room.doc).items = room.doc
      BY <1>0, SentThings DEF Carrying
    <3>3. room.doc \subseteq Gets(service[n], link'[l])
      <4>1. link'[l].down = Append(link[l].down, Carrying(room.doc))
        BY <2>1, <2>3, <3>1
      <4>. QED  BY <1>0, <3>2, <4>1, GetsAppended
    <3>4. Applied(room.doc)' \subseteq room.doc
      BY <2>1 DEF Applied
    <3>. QED  BY <1>1, <3>3, <3>4
  <2>. QED  BY <2>2, <2>3
<1>4. CASE message.type # "step1"
  <2> DEFINE doc == room.doc \cup message.items
             news == Applied(doc) \ Applied(room.doc)
  <2>1. /\ room' = [room EXCEPT !.doc = doc] /\ news \subseteq ItemIds
        /\ link'[l].down = IF l \in room.members \ {j} /\ link[l].state = "open" /\ news # {}
                           THEN Append(link[l].down, Carrying(news)) ELSE link[l].down
    BY <1>4, RelayReceiving
  <2>2. room'.doc = doc /\ room'.members = room.members
    BY <2>1 DEF ClientBase, ClientTypes, Room
  <2>3. Applied(room.doc)' = Applied(doc)
    BY <1>1, <2>2 DEF Applied
  <2> SUFFICES ASSUME Live(l)', ~Asks(link'[l])
               PROVE  Applied(doc) \subseteq Gets(service[n], link'[l])
    BY <1>1, <1>2, <2>3 DEF Served
  <2>4. Live(l) /\ service[n].socket = l
    BY <1>1, <1>2, <2>2 DEF Live, Current
  <2>5. ~Asks(link[l])
    <3>1. CASE l # j
      BY <1>2, <3>1 DEF Asks
    <3>2. CASE l = j
      <4> SUFFICES ASSUME NEW k \in DOMAIN link[j].up, link[j].up[k].type = "step1"
                   PROVE  FALSE
        BY <3>2 DEF Asks
      <4>1. k # 1
        BY <1>0, <1>4, FirstAndRest
      <4>2. k - 1 \in DOMAIN Tail(link[j].up) /\ Tail(link[j].up)[k - 1] = link[j].up[k]
        <5>1. /\ Len(link[j].up) \in Nat /\ DOMAIN link[j].up = 1 .. Len(link[j].up)
              /\ DOMAIN Tail(link[j].up) = 1 .. Len(link[j].up) - 1
              /\ \A m \in DOMAIN Tail(link[j].up) : Tail(link[j].up)[m] = link[j].up[m + 1]
          BY <1>0, FirstAndRest
        <5>. QED  BY <4>1, <5>1
      <4>. QED  BY <1>2, <3>2, <4>2 DEF Asks
    <3>. QED  BY <3>1, <3>2
  <2>6. Applied(room.doc) \subseteq Gets(service[n], link[l])
    BY <2>4, <2>5 DEF EveryoneIsServed, Served
  <2>7. CASE l = j
    <3>1. news \subseteq service[n].doc
      BY <1>0, <2>4, <2>7, NewlyApplied DEF OwnItemsKept, Busy
    <3>2. link'[l].down = link[l].down
      BY <2>1, <2>7
    <3>3. Gets(service[n], link[l]) \subseteq Gets(service[n], link'[l])
      BY <3>2, GetsMore
    <3>. QED  BY <2>6, <3>1, <3>3, InGets
  <2>8. CASE l # j /\ news = {}
    <3>1. link'[l].down = link[l].down
      BY <2>1, <2>8
    <3>2. Gets(service[n], link[l]) \subseteq Gets(service[n], link'[l])
      BY <3>1, GetsMore
    <3>. QED  BY <2>6, <2>8, <3>2
  <2>9. CASE l # j /\ news # {}
    <3>1. link'[l].down = Append(link[l].down, Carrying(news))
      BY <2>1, <2>4, <2>9 DEF Live
    <3>2. /\ Carrying(news) \in Message /\ Carrying(news).type = "items"
          /\ Carrying(news).items = news
      BY <2>1, SentThings DEF Carrying
    <3>3. /\ Gets(service[n], link[l]) \subseteq Gets(service[n], link'[l])
          /\ news \subseteq Gets(service[n], link'[l])
      <4> HIDE DEF news
      <4>. QED  BY <1>0, <3>1, <3>2, GetsAppended
    <3>. QED  BY <2>6, <3>3
  <2>. QED  BY <2>7, <2>8, <2>9
<1>. QED  BY <1>3, <1>4

LEMMA RevertServes ==
  ASSUME ClientBase, EveryoneIsServed, [ClientNext]_clientVars, Revert, NEW l \in DOMAIN link
  PROVE  Served(l)'
<1> DEFINE next == Len(items) + 1
           n == link[l].service
           plain == Plain("document_reverted")
           between == [link[l] EXCEPT !.down = Append(@, Carrying({next}))]
<1>1. link[l] \in Link /\ link[l].down \in Seq(Message)
  BY Elements, LinkFields DEF ClientBase
<1>2. /\ NewItem(0) /\ UNCHANGED service /\ room' = [room EXCEPT !.doc = @ \cup {next}]
      /\ DOMAIN service' = DOMAIN service
  BY DEF Revert
<1>3. room'.doc = room.doc \cup {next} /\ room'.members = room.members
  BY <1>2 DEF ClientBase, ClientTypes, Room
<1>4. /\ link'[l].service = n /\ link'[l].state = link[l].state /\ link'[l].up = link[l].up
      /\ link'[l].down = IF l \in room.members /\ link[l].state = "open"
                         THEN Append(Append(link[l].down, Carrying({next})), plain)
                         ELSE link[l].down
  BY Reverting
<1>5. Applied(room.doc)' \subseteq Applied(room.doc) \cup {next}
  <2>1. \A i \in DOMAIN items : i \in DOMAIN items' /\ items'[i] = items[i]
    BY ItemsStand
  <2>2. room.doc \subseteq DOMAIN items /\ DOMAIN items = 1 .. Len(items) /\ Len(items) \in Nat
    BY Elements DEF ClientBase, RoomIsKnown
  <2> SUFFICES ASSUME NEW i \in Applied(room.doc)', i # next PROVE i \in Applied(room.doc)
    OBVIOUS
  <2>3. i \in room.doc /\ i \in DOMAIN items /\ i \in DOMAIN items'
    BY <1>3, <2>1, <2>2 DEF Applied
  <2>4. \A j \in 1 .. i - 1 : items'[j] = items'[i] /\ items'[i] # 0 => j \in room'.doc
    BY <2>3 DEF Applied
  <2>5. \A j \in 1 .. i - 1 : j \in DOMAIN items /\ j # next
    BY <2>2, <2>3
  <2>. QED  BY <1>3, <2>1, <2>3, <2>4, <2>5 DEF Applied
<1> SUFFICES ASSUME Live(l)', ~Asks(link'[l])
             PROVE  Applied(room.doc)' \subseteq Gets(service[n], link'[l])
  BY <1>2, <1>4 DEF Served
<1>6. Live(l) /\ ~Asks(link[l])
  BY <1>2, <1>3, <1>4 DEF Live, Current, Asks
<1>7. Applied(room.doc) \subseteq Gets(service[n], link[l])
  BY <1>6 DEF EveryoneIsServed, Served
<1>8. /\ Carrying({next}) \in Message /\ Carrying({next}).type = "items"
      /\ Carrying({next}).items = {next} /\ plain \in Message
  BY Elements, SentThings DEF ClientBase, ItemIds, Carrying
<1>9. between.down = Append(link[l].down, Carrying({next})) /\ between.down \in Seq(Message)
  BY <1>1, <1>8, Appended DEF Link
<1>10. link'[l].down = Append(between.down, plain)
  BY <1>4, <1>6, <1>9 DEF Live
<1> HIDE DEF between, plain, next, n
<1>11. Gets(service[n], link[l]) \cup {next} \subseteq Gets(service[n], between)
  <2> DEFINE news == Carrying({next})
  <2>1. news \in Message /\ news.type = "items" /\ news.items = {next}
    BY <1>8
  <2>2. link[l].down \in Seq(Message) /\ between.down = Append(link[l].down, news)
    BY <1>1, <1>9
  <2> HIDE DEF news
  <2>3. Gets(service[n], link[l]) \subseteq Gets(service[n], between)
    BY Zenon, <2>1, <2>2, GetsAppended
  <2>4. news.items \subseteq Gets(service[n], between)
    BY Zenon, <2>1, <2>2, GetsAppended
  <2>. QED  BY <2>1, <2>3, <2>4
<1>12. Gets(service[n], between) \subseteq Gets(service[n], link'[l])
  BY <1>8, <1>9, <1>10, GetsAppended
<1>. QED  BY <1>5, <1>7, <1>11, <1>12

LEMMA ServedStep ==
  ASSUME ClientBase, SentIsOwn, OwnItemsKept, EveryoneIsServed, [ClientNext]_clientVars
  PROVE  EveryoneIsServed'
<1>0. \A j \in DOMAIN link : link[j] \in Link
  BY Elements DEF ClientBase
<1>1. ASSUME NEW n \in DOMAIN service, OpenSocket(n)
      PROVE  EveryoneIsServed'
  BY <1>1, OpenSocketServes DEF EveryoneIsServed
<1>. SUFFICES ASSUME ~ \E n \in DOMAIN service : OpenSocket(n), NEW l \in DOMAIN link
              PROVE  Served(l)'
  <2>1. (~ \E n \in DOMAIN service : OpenSocket(n)) => DOMAIN link' = DOMAIN link
    BY Zenon DEF ClientNext, Mount, Unmount, Disconnect, Edit, LoseAccess, SessionFails,
           TimerFires, ClientReceives, ClientIsReverted, Read, ClientNoticesClose, Accept, Refuse,
           RelayReceives, Broadcast, RelayNoticesClose, Break, DropRoom, Revert,
           RelayRestarts, clientVars
  <2>. QED  BY Zenon, <1>1, <2>1 DEF EveryoneIsServed
<1>2. CASE UNCHANGED clientVars
  BY <1>2, ClosingServes DEF clientVars
<1>3. ASSUME NEW h \in Hooks, Mount(h)
      PROVE  Served(l)'
  <2>1. link[l].service \in DOMAIN service
    BY DEF ClientBase, LinksHaveServices
  <2>2. service'[link[l].service] = service[link[l].service] /\ UNCHANGED <<link, room>>
    BY <1>3, <2>1, Mounting DEF Mount
  <2>. QED  BY <2>2, StillServed DEF Live, Current, Asks
<1>4. ASSUME NEW h \in Hooks, LoseAccess(h)
      PROVE  Served(l)'
  <2>1. link'[l] = link[l] \/ link'[l].state # "open"
    BY Zenon, <1>0, <1>4 DEF LoseAccess, Link
  <2>. QED  BY Zenon, <1>4, <2>1, ClosingServes DEF LoseAccess
<1>5. ASSUME NEW n \in DOMAIN service, SessionFails(n)
      PROVE  Served(l)'
  <2> DEFINE s == ScheduleReconnect([service[n] EXCEPT !.awaiting = FALSE])
  <2>1. service[n] \in Service
    BY Elements DEF ClientBase
  <2>2. s.socket = service[n].socket /\ s.doc = service[n].doc
    BY <2>1 DEF ScheduleReconnect, Service
  <2>3. service' = [service EXCEPT ![n] = s] /\ UNCHANGED <<link, room>>
    BY <1>5 DEF SessionFails
  <2>. QED  BY <2>2, <2>3, ServiceAloneServes
<1>6. ASSUME NEW n \in DOMAIN service, TimerFires(n)
      PROVE  Served(l)'
  <2> DEFINE s == Connecting(service[n])
  <2>1. service[n] \in Service
    BY Elements DEF ClientBase
  <2>2. s.socket = service[n].socket /\ s.doc = service[n].doc
    BY <2>1 DEF Connecting, Service
  <2>3. service' = [service EXCEPT ![n] = s] /\ UNCHANGED <<link, room>>
    BY <1>6 DEF TimerFires
  <2>. QED  BY <2>2, <2>3, ServiceAloneServes
<1>7. ASSUME NEW j \in DOMAIN link, ClientNoticesClose(j)
      PROVE  Served(l)'
  <2> DEFINE n == link[j].service
             s == ScheduleReconnect([service[n] EXCEPT !.socket = 0])
  <2>1. n \in DOMAIN service /\ service[n] \in Service
    BY Elements DEF ClientBase, LinksHaveServices
  <2>2. s.socket = 0 /\ s.doc = service[n].doc
    BY <2>1 DEF ScheduleReconnect, Service
  <2>3. service' = [service EXCEPT ![n] = s] /\ UNCHANGED <<link, room>>
    BY <1>7 DEF ClientNoticesClose, SocketClosed
  <2>. QED  BY <2>1, <2>2, <2>3, ServiceAloneServes
<1>8. ASSUME NEW j \in DOMAIN link, Refuse(j) \/ Break(j)
      PROVE  Served(l)'
  <2>1. link'[l] = link[l] \/ link'[l].state # "open"
    BY <1>0, <1>8 DEF Refuse, Break, Lost, Link
  <2>. QED  BY <1>8, <2>1, ClosingServes DEF Refuse, Break
<1>9. ASSUME NEW j \in DOMAIN link, RelayNoticesClose(j)
      PROVE  Served(l)'
  <2>1. room'.doc = room.doc /\ room'.members \subseteq room.members
    BY <1>9 DEF RelayNoticesClose, ClientBase, ClientTypes, Room
  <2>. QED  BY <1>9, <2>1, ClosingServes DEF RelayNoticesClose
<1>10. CASE DropRoom \/ RelayRestarts
  BY <1>10 DEF DropRoom, RelayRestarts, NoRoom, Served, Live
<1>. QED
  BY <1>2, <1>3, <1>4, <1>5, <1>6, <1>7, <1>8, <1>9, <1>10, UnmountServes, EditServes,
     ReceivesServes, RevertedServes, AcceptServes, RelayReceivesServes, RevertServes
     DEF ClientNext

------------------------------------------------------------------------------
(* What is typed arrives *)

(* The relay has a socket that is open, or has something to read, for a client; an   *)
(* opening or broken one carries nothing.                                            *)
LinkStates ==
  \A l \in DOMAIN link :
    /\ link[l].state = "open" \/ link[l].down # <<>> => l \in room.members
    /\ link[l].state \in {"opening", "broken"} => link[l].up = <<>> /\ link[l].down = <<>>

StepsAreEmpty ==
  \A l \in DOMAIN link : \A k \in DOMAIN link[l].up :
    link[l].up[k].type = "step1" => link[l].up[k].items = {}

SentBy(l, i) == \E k \in DOMAIN link[l].up : i \in link[l].up[k].items

Vacant == ~room.exists => room.doc = {}

\* The relay was given every item, or will read it, or it is lost.
Arrives ==
  \A i \in DOMAIN items :
    i \in room.doc \cup lost \/ \E l \in room.members : SentBy(l, i)

\* Nobody has an item that was not made.
DocsAreKnown ==
  /\ lost \subseteq DOMAIN items
  /\ \A n \in DOMAIN service : service[n].doc \subseteq DOMAIN items
  /\ \A l \in DOMAIN link : \A k \in DOMAIN link[l].down :
       link[l].down[k].items \subseteq DOMAIN items

ArrivalInv == LinkStates /\ StepsAreEmpty /\ Vacant /\ Arrives /\ DocsAreKnown

\* An edit is sent on the socket, which the browser holds for open, or it is lost.
LEMMA EditSends ==
  ASSUME ClientBase, NEW h \in Hooks, Edit(h)
  PROVE  LET next == Len(items) + 1
             sock == service[page[h].service].socket
         IN \/ UNCHANGED link /\ lost' = lost \cup {next}
            \/ /\ UNCHANGED lost /\ sock \in DOMAIN link /\ OpenHere(link[sock])
               /\ DOMAIN link' = DOMAIN link
               /\ \A l \in DOMAIN link :
                    /\ link'[l].state = link[l].state /\ link'[l].down = link[l].down
                    /\ link'[l].up = IF l = sock THEN Append(link[l].up, Carrying({next}))
                                                 ELSE link[l].up
<1> DEFINE n == page[h].service
           next == Len(items) + 1
           sock == service[n].socket
           y == [link[sock] EXCEPT !.up = Append(@, Carrying({next}))]
<1>1. CASE sock # 0 /\ OpenHere(link[sock])
  <2>1. sock \in DOMAIN link /\ \A l \in DOMAIN link : link[l] \in Link
    BY <1>1, Editing, Elements DEF ClientBase, SocketsAreOwn
  <2>2. link' = [link EXCEPT ![sock] = y] /\ UNCHANGED lost
    BY Zenon, <1>1 DEF Edit
  <2>3. /\ y.state = link[sock].state /\ y.down = link[sock].down
        /\ y.up = Append(link[sock].up, Carrying({next}))
    BY <2>1 DEF Link
  <2> HIDE DEF y
  <2>4. /\ DOMAIN link' = DOMAIN link
        /\ \A l \in DOMAIN link : link'[l] = IF l = sock THEN y ELSE link[l]
    BY <2>2
  <2> HIDE DEF sock, next
  <2>5. \A l \in DOMAIN link :
          /\ link'[l].state = link[l].state /\ link'[l].down = link[l].down
          /\ link'[l].up = IF l = sock THEN Append(link[l].up, Carrying({next}))
                                       ELSE link[l].up
    BY <2>3, <2>4
  <2>. QED  BY <1>1, <2>1, <2>2, <2>4, <2>5 DEF sock, next
<1>2. CASE ~(sock # 0 /\ OpenHere(link[sock]))
  BY Zenon, <1>2 DEF Edit
<1>. QED  BY <1>1, <1>2

LEMMA StepsAreEmptyStep ==
  ASSUME ClientBase, SentIsOwn, StepsAreEmpty, [ClientNext]_clientVars
  PROVE  StepsAreEmpty'
<1>1. CASE ~ \E h \in Hooks : Edit(h)
  BY <1>1, UpsShrink DEF StepsAreEmpty
<1>2. ASSUME NEW h \in Hooks, Edit(h)
      PROVE  StepsAreEmpty'
  <2> DEFINE news == Carrying({Len(items) + 1})
             sock == service[page[h].service].socket
  <2>1. news \in Message /\ news.type # "step1"
    BY Elements, SentThings DEF ClientBase, ItemIds, Carrying
  <2>2. \A l \in DOMAIN link : link[l].up \in Seq(Message)
    BY Elements, LinkFields DEF ClientBase
  <2>3. DOMAIN link' = DOMAIN link /\ \A l \in DOMAIN link :
          link'[l].up = link[l].up \/ link'[l].up = Append(link[l].up, news)
    BY <1>2, EditSends
  <2> HIDE DEF news
  <2> SUFFICES ASSUME NEW l \in DOMAIN link, NEW k \in DOMAIN link'[l].up,
                      link'[l].up[k].type = "step1"
               PROVE  link'[l].up[k].items = {}
    BY <2>3 DEF StepsAreEmpty
  <2>4. k \in DOMAIN link[l].up /\ link'[l].up[k] = link[l].up[k]
    BY <2>1, <2>2, <2>3, OldOrAppended
  <2>. QED  BY <2>4 DEF StepsAreEmpty
<1>. QED  BY <1>1, <1>2

\* A socket that the browser closes, after it has read a message or not.
LEMMA ClosingFields ==
  ASSUME NEW x \in Link
  PROVE  /\ CloseSocket(x).up = x.up /\ CloseSocket(x).down = <<>>
         /\ CloseSocket(x).state = IF x.state = "broken" THEN "broken" ELSE "closing"
         /\ Lost(x).up = <<>> /\ Lost(x).down = <<>> /\ Lost(x).state = "broken"
BY DEF CloseSocket, Lost, Link

\* What the steps of the browser but Edit and OpenSocket do to a socket.
Quieter(l) ==
  /\ link'[l].up = link[l].up
  /\ link'[l].state \in {link[l].state, "closing"}
  /\ link[l].state = "broken" => link'[l].state = "broken"
  /\ \/ link'[l].down \in {link[l].down, <<>>}
     \/ link[l].down # <<>> /\ link'[l].down = Tail(link[l].down)

LEMMA BrowserQuiet ==
  ASSUME ClientBase,
         \/ \E h \in Hooks : Mount(h) \/ Unmount(h)
         \/ \E n \in DOMAIN service : SessionFails(n) \/ TimerFires(n)
         \/ \E j \in DOMAIN link :
              ClientReceives(j) \/ ClientIsReverted(j) \/ ClientNoticesClose(j)
  PROVE  /\ UNCHANGED <<room, items, lost>> /\ DOMAIN link' = DOMAIN link
         /\ \A l \in DOMAIN link : Quieter(l)
<1>0. \A j \in DOMAIN link : link[j] \in Link
  BY Elements DEF ClientBase
<1>1. UNCHANGED <<room, items, lost>>
  BY Zenon DEF Mount, Unmount, SessionFails, TimerFires, ClientReceives, ClientIsReverted,
               ClientNoticesClose
<1>2. CASE UNCHANGED link
  BY <1>0, <1>1, <1>2 DEF Quieter, Link
<1>3. CASE \/ \E h \in Hooks : Mount(h)
           \/ \E n \in DOMAIN service : SessionFails(n) \/ TimerFires(n)
           \/ \E j \in DOMAIN link : ClientNoticesClose(j)
  BY Zenon, <1>2, <1>3 DEF Mount, SessionFails, TimerFires, ClientNoticesClose
<1>4. ASSUME NEW h \in Hooks, Unmount(h)
      PROVE  DOMAIN link' = DOMAIN link /\ \A l \in DOMAIN link : Quieter(l)
  <2> DEFINE k == service[page[h].service].socket
  <2>1. UNCHANGED link \/ link' = [link EXCEPT ![k] = CloseSocket(@)]
    BY Zenon, <1>4 DEF Unmount, Disconnect
  <2> HIDE DEF k
  <2>2. CASE link' = [link EXCEPT ![k] = CloseSocket(@)]
    <3> SUFFICES ASSUME NEW l \in DOMAIN link PROVE Quieter(l)
      BY <2>2
    <3>1. link'[l] = link[l] \/ link'[l] = CloseSocket(link[l])
      BY <2>2
    <3>. QED  BY <1>0, <3>1, ClosingFields DEF Quieter
  <2>. QED  BY <1>2, <2>1, <2>2
<1>5. ASSUME NEW j \in DOMAIN link, ClientReceives(j)
      PROVE  DOMAIN link' = DOMAIN link /\ \A l \in DOMAIN link : Quieter(l)
  <2>1. link' = Read(j) /\ link[j].down # << >>
    BY Zenon, <1>5 DEF ClientReceives
  <2>. QED  BY <1>0, <2>1, Reading DEF Quieter
<1>6. ASSUME NEW j \in DOMAIN link, ClientIsReverted(j)
      PROVE  DOMAIN link' = DOMAIN link /\ \A l \in DOMAIN link : Quieter(l)
  <2> DEFINE taken == Read(j)
  <2>1. /\ link[j].down # << >>
        /\ link' = taken \/ \E k \in DOMAIN link : link' = [taken EXCEPT ![k] = CloseSocket(@)]
    BY Zenon, <1>6, BeingReverted
  <2>2. /\ taken \in [DOMAIN link -> Link]
        /\ \A l \in DOMAIN link :
             /\ taken[l].up = link[l].up /\ taken[l].state = link[l].state
             /\ taken[l].down = IF l = j THEN Tail(link[j].down) ELSE link[l].down
    BY <2>1, Reading
  <2> HIDE DEF taken
  <2>3. DOMAIN link' = DOMAIN link /\ \A l \in DOMAIN link :
          link'[l] = taken[l] \/ link'[l] = CloseSocket(taken[l])
    BY <2>1, <2>2
  <2> SUFFICES ASSUME NEW l \in DOMAIN link PROVE Quieter(l)
    BY <2>3
  <2>4. CASE link'[l] = taken[l]
    BY <2>1, <2>2, <2>4 DEF Quieter
  <2>5. CASE link'[l] = CloseSocket(taken[l])
    BY <2>2, <2>5, ClosingFields DEF Quieter
  <2>. QED  BY <2>3, <2>4, <2>5
<1>. QED  BY Zenon, <1>1, <1>3, <1>4, <1>5, <1>6

\* A new socket is opening and carries nothing.
LEMMA SocketOpens ==
  ASSUME ClientBase, NEW n \in DOMAIN service, OpenSocket(n)
  PROVE  /\ DOMAIN link' = DOMAIN link \cup {Len(link) + 1} /\ Len(link) + 1 \notin DOMAIN link
         /\ \A l \in DOMAIN link : link'[l] = link[l]
         /\ link'[Len(link) + 1].state = "opening"
         /\ link'[Len(link) + 1].up = <<>> /\ link'[Len(link) + 1].down = <<>>
<1> DEFINE x == [service |-> n, state |-> "opening", up |-> <<>>, down |-> <<>>]
<1>1. n \in Services /\ link \in Seq(Link)
  BY Elements DEF ClientBase, ClientTypes
<1>2. x \in Link
  BY <1>1, EmptySeq DEF Link
<1>. QED  BY <1>1, <1>2, Appended DEF OpenSocket

\* What the steps of the relay do to a socket, and to the room's clients.
LEMMA LinkStatesStep ==
  ASSUME ClientBase, SentIsOwn, LinkStates, [ClientNext]_clientVars
  PROVE  LinkStates'
<1> DEFINE Right(l) ==
             /\ link'[l].state = "open" \/ link'[l].down # <<>> => l \in room'.members
             /\ link'[l].state \in {"opening", "broken"} =>
                  link'[l].up = <<>> /\ link'[l].down = <<>>
<1>0. \A j \in DOMAIN link : link[j] \in Link
  BY Elements DEF ClientBase
<1>1. ASSUME DOMAIN link' = DOMAIN link, \A l \in DOMAIN link : Right(l)
      PROVE  LinkStates'
  BY <1>1 DEF LinkStates
<1>2. ASSUME UNCHANGED room, DOMAIN link' = DOMAIN link, \A l \in DOMAIN link : Quieter(l)
      PROVE  LinkStates'
  BY <1>1, <1>2 DEF LinkStates, Quieter
<1>3. CASE \/ \E h \in Hooks : Mount(h) \/ Unmount(h)
           \/ \E n \in DOMAIN service : SessionFails(n) \/ TimerFires(n)
           \/ \E j \in DOMAIN link :
                ClientReceives(j) \/ ClientIsReverted(j) \/ ClientNoticesClose(j)
  BY <1>2, <1>3, BrowserQuiet
<1>4. CASE UNCHANGED clientVars
  BY <1>4 DEF clientVars, LinkStates
<1>5. ASSUME NEW n \in DOMAIN service, OpenSocket(n)
      PROVE  LinkStates'
  <2>1. UNCHANGED room
    BY <1>5 DEF OpenSocket
  <2>. QED  BY <1>5, <2>1, SocketOpens DEF LinkStates
<1>6. ASSUME NEW h \in Hooks, Edit(h)
      PROVE  LinkStates'
  <2>1. UNCHANGED room
    BY Zenon, <1>6 DEF Edit
  <2> DEFINE news == Carrying({Len(items) + 1})
             sock == service[page[h].service].socket
  <2>2. \/ UNCHANGED link
        \/ /\ OpenHere(link[sock]) /\ DOMAIN link' = DOMAIN link
           /\ \A l \in DOMAIN link :
                /\ link'[l].state = link[l].state /\ link'[l].down = link[l].down
                /\ link'[l].up = IF l = sock THEN Append(link[l].up, news) ELSE link[l].up
    BY <1>6, EditSends
  <2> HIDE DEF sock, news
  <2>3. CASE UNCHANGED link
    BY <2>1, <2>3 DEF LinkStates
  <2>. QED  BY <1>1, <2>1, <2>2, <2>3 DEF LinkStates, OpenHere
<1>7. ASSUME NEW h \in Hooks, LoseAccess(h)
      PROVE  LinkStates'
  <2>1. UNCHANGED room /\ DOMAIN link' = DOMAIN link
    BY Zenon, <1>7 DEF LoseAccess
  <2> SUFFICES ASSUME NEW l \in DOMAIN link PROVE Right(l)
    BY <1>1, <2>1
  <2> DEFINE down == IF Current(l) THEN Append(link[l].down, Plain("access_revoked"))
                                   ELSE link[l].down
  <2>2. \/ link'[l] = link[l]
        \/ l \in room.members /\ link'[l] = [link[l] EXCEPT !.state = "closing", !.down = down]
    BY Zenon, <1>0, <1>7 DEF LoseAccess, Link
  <2> HIDE DEF down
  <2>3. CASE link'[l] = link[l]
    BY <2>1, <2>3 DEF LinkStates
  <2>4. CASE l \in room.members /\ link'[l] = [link[l] EXCEPT !.state = "closing", !.down = down]
    BY <1>0, <2>1, <2>4 DEF Link
  <2>. QED  BY <2>2, <2>3, <2>4
<1>8. ASSUME NEW j \in DOMAIN link, Accept(j)
      PROVE  LinkStates'
  <2> DEFINE up == IF Current(j) THEN <<Plain("step1")>> ELSE <<>>
  <2>1. /\ link' = [link EXCEPT ![j] = [link[j] EXCEPT !.state = "open", !.up = up]]
        /\ room'.members = room.members \cup {j}
    BY <1>0, <1>8 DEF Accept, Link
  <2> HIDE DEF up
  <2> SUFFICES ASSUME NEW l \in DOMAIN link PROVE Right(l)
    BY <1>1, <2>1
  <2>2. CASE l = j
    BY <1>0, <2>1, <2>2 DEF Link
  <2>3. CASE l # j
    BY <2>1, <2>3 DEF LinkStates
  <2>. QED  BY <2>2, <2>3
<1>9. ASSUME NEW j \in DOMAIN link, Refuse(j)
      PROVE  LinkStates'
  <2>1. /\ link' = [link EXCEPT ![j].state = "closing"] /\ UNCHANGED room
        /\ link[j].state = "opening"
    BY <1>9 DEF Refuse
  <2>. QED  BY <1>0, <1>1, <2>1 DEF LinkStates, Link
<1>10. ASSUME NEW j \in DOMAIN link, RelayReceives(j)
       PROVE  LinkStates'
  <2>1. /\ DOMAIN link' = DOMAIN link /\ j \in room.members /\ link[j].up # <<>>
        /\ room'.members = room.members
    BY <1>10, RelayReceiving DEF RelayReceives, ClientBase, ClientTypes, Room
  <2> SUFFICES ASSUME NEW l \in DOMAIN link PROVE Right(l)
    BY <1>1, <2>1
  <2>2. /\ link'[l].state = link[l].state
        /\ link'[l].up = IF l = j THEN Tail(link[j].up) ELSE link[l].up
    BY <1>10, RelayReceiving
  <2>3. \/ link'[l].down = link[l].down
        \/ link[l].state = "open"
    BY <1>10, RelayReceiving
  <2>. QED  BY <2>1, <2>2, <2>3 DEF LinkStates
<1>11. ASSUME NEW j \in DOMAIN link, RelayNoticesClose(j)
       PROVE  LinkStates'
  <2>1. /\ UNCHANGED link /\ room'.members = room.members \ {j}
        /\ link[j].state # "open" /\ link[j].down = <<>>
    BY <1>11 DEF RelayNoticesClose, ClientBase, ClientTypes, Room, LinkStates
  <2>. QED  BY <2>1 DEF LinkStates
<1>12. ASSUME NEW j \in DOMAIN link, Break(j)
       PROVE  LinkStates'
  <2>1. link' = [link EXCEPT ![j] = Lost(@)] /\ UNCHANGED room
    BY <1>12 DEF Break
  <2> SUFFICES ASSUME NEW l \in DOMAIN link PROVE Right(l)
    BY <1>1, <2>1
  <2>2. link'[l] = link[l] \/ link'[l] = Lost(link[l])
    BY <2>1
  <2>. QED  BY <1>0, <2>1, <2>2, ClosingFields DEF LinkStates
<1>13. CASE DropRoom
  BY <1>13 DEF DropRoom, LinkStates, NoRoom
<1>14. CASE RelayRestarts
  BY <1>0, <1>1, <1>14, ClosingFields DEF RelayRestarts
<1>15. CASE Revert
  <2>1. DOMAIN link' = DOMAIN link /\ room'.members = room.members
    BY <1>15, Reverting DEF Revert, ClientBase, ClientTypes, Room
  <2> SUFFICES ASSUME NEW l \in DOMAIN link PROVE Right(l)
    BY <1>1, <2>1
  <2>2. link'[l].state = link[l].state /\ link'[l].up = link[l].up
    BY <1>15, Reverting
  <2>3. \/ link'[l].down = link[l].down
        \/ link[l].state = "open"
    BY <1>15, Reverting
  <2>. QED  BY <2>1, <2>2, <2>3 DEF LinkStates
<1>. QED
  BY <1>3, <1>4, <1>5, <1>6, <1>7, <1>8, <1>9, <1>10, <1>11, <1>12, <1>13, <1>14, <1>15
     DEF ClientNext

\* A step that makes no item and takes nothing from the relay, what it will read, or the lost.
LEMMA ArrivesStill ==
  ASSUME Arrives, UNCHANGED items, room.doc \subseteq room'.doc, lost \subseteq lost',
         \A l \in room.members : \A i : SentBy(l, i) => SentBy(l, i)' \/ i \in lost' \cup room'.doc,
         \A l \in room.members : l \in room'.members \/ \A i : ~SentBy(l, i)
  PROVE  Arrives'
<1> SUFFICES ASSUME NEW i \in DOMAIN items, ~(i \in room'.doc \cup lost')
             PROVE  \E l \in room'.members : SentBy(l, i)'
  BY DEF Arrives
<1>1. PICK l \in room.members : SentBy(l, i)
  BY DEF Arrives
<1>. QED  BY <1>1

LEMMA VacantStep ==
  ASSUME ClientBase, SentIsOwn, Vacant, [ClientNext]_clientVars
  PROVE  Vacant'
<1>1. ASSUME NEW j \in DOMAIN link, Accept(j)
      PROVE  Vacant'
  BY <1>1 DEF Accept, Vacant
<1>2. ASSUME NEW j \in DOMAIN link, RelayReceives(j) \/ RelayNoticesClose(j)
      PROVE  Vacant'
  <2>1. room.exists /\ room'.exists = room.exists
    BY <1>2 DEF RelayReceives, RelayNoticesClose, ClientBase, ClientTypes, Room, RoomIsKnown
  <2>. QED  BY <2>1 DEF Vacant
<1>3. CASE DropRoom \/ RelayRestarts \/ Revert
  BY <1>3 DEF DropRoom, RelayRestarts, Revert, NoRoom, Vacant, ClientBase, ClientTypes, Room
<1>4. CASE UNCHANGED room
  BY <1>4 DEF Vacant
<1>5. UNCHANGED room \/ DropRoom \/ RelayRestarts \/ Revert
        \/ \E j \in DOMAIN link : Accept(j) \/ RelayReceives(j) \/ RelayNoticesClose(j)
  BY Zenon DEF ClientNext, Mount, Unmount, Edit, LoseAccess, OpenSocket, SessionFails,
         TimerFires, ClientReceives, ClientIsReverted, ClientNoticesClose, Refuse, Break, clientVars
<1>. QED  BY Zenon, <1>1, <1>2, <1>3, <1>4, <1>5

LEMMA ArrivesStep ==
  ASSUME ClientBase, SentIsOwn, LinkStates, StepsAreEmpty, Vacant, Arrives,
         [ClientNext]_clientVars
  PROVE  Arrives'
<1>0. \A j \in DOMAIN link : link[j] \in Link
  BY Elements DEF ClientBase
<1>1. room.members \subseteq DOMAIN link /\ room.doc \subseteq DOMAIN items
  BY DEF ClientBase, RoomIsKnown
<1>2. ASSUME UNCHANGED <<room, items, lost>>, \A l \in DOMAIN link : link'[l].up = link[l].up
      PROVE  Arrives'
  BY <1>1, <1>2, ArrivesStill DEF SentBy
<1>3. CASE \/ \E h \in Hooks : Mount(h) \/ Unmount(h)
           \/ \E n \in DOMAIN service : SessionFails(n) \/ TimerFires(n)
           \/ \E j \in DOMAIN link :
                ClientReceives(j) \/ ClientIsReverted(j) \/ ClientNoticesClose(j)
  BY <1>2, <1>3, BrowserQuiet DEF Quieter
<1>4. CASE UNCHANGED clientVars
  BY <1>2, <1>4 DEF clientVars
<1>5. ASSUME NEW n \in DOMAIN service, OpenSocket(n)
      PROVE  Arrives'
  <2>1. UNCHANGED <<room, items, lost>>
    BY <1>5 DEF OpenSocket
  <2>. QED  BY <1>2, <1>5, <2>1, SocketOpens
<1>6. ASSUME NEW h \in Hooks, Edit(h)
      PROVE  Arrives'
  <2> DEFINE next == Len(items) + 1
             news == Carrying({next})
             sock == service[page[h].service].socket
  <2>1. UNCHANGED room /\ DOMAIN items' = DOMAIN items \cup {next}
    BY <1>6, Editing DEF Edit
  <2>2. news \in Message /\ news.items = {next}
    BY Elements, SentThings DEF ClientBase, ItemIds, Carrying
  <2>3. \/ UNCHANGED link /\ lost' = lost \cup {next}
        \/ /\ UNCHANGED lost /\ sock \in DOMAIN link /\ OpenHere(link[sock])
           /\ \A l \in DOMAIN link :
                link'[l].up = IF l = sock THEN Append(link[l].up, news) ELSE link[l].up
    BY <1>6, EditSends
  <2> HIDE DEF next, news, sock
  <2>4. CASE UNCHANGED link /\ lost' = lost \cup {next}
    BY <2>1, <2>4 DEF Arrives, SentBy
  <2>5. CASE /\ UNCHANGED lost /\ sock \in DOMAIN link /\ OpenHere(link[sock])
             /\ \A l \in DOMAIN link :
                  link'[l].up = IF l = sock THEN Append(link[l].up, news) ELSE link[l].up
    <3>1. sock \in room.members
      BY <2>5 DEF LinkStates, OpenHere
    <3>2. link[sock].up \in Seq(Message)
      BY <1>0, <2>5, LinkFields
    <3>3. /\ DOMAIN Append(link[sock].up, news) = DOMAIN link[sock].up \cup {Len(link[sock].up) + 1}
          /\ \A k \in DOMAIN link[sock].up : Append(link[sock].up, news)[k] = link[sock].up[k]
          /\ Append(link[sock].up, news)[Len(link[sock].up) + 1] = news
      BY <2>2, <3>2, Appended
    <3>4. \E k \in DOMAIN link'[sock].up : next \in link'[sock].up[k].items
      <4> DEFINE last == Len(link[sock].up) + 1
      <4>1. last \in DOMAIN link'[sock].up /\ link'[sock].up[last] = news
        BY <2>5, <3>3
      <4> HIDE DEF last
      <4>. QED  BY <2>2, <4>1
    <3>5. \A l \in room.members, i \in DOMAIN items : SentBy(l, i) => SentBy(l, i)'
      BY <1>1, <2>5, <3>3 DEF SentBy
    <3> SUFFICES ASSUME NEW i \in DOMAIN items', ~(i \in room.doc \cup lost)
                 PROVE  \E l \in room.members : SentBy(l, i)'
      BY <2>1, <2>5 DEF Arrives
    <3>6. CASE i = next
      BY <3>1, <3>4, <3>6 DEF SentBy
    <3>7. CASE i \in DOMAIN items
      <4>1. PICK l \in room.members : SentBy(l, i)
        BY <3>7 DEF Arrives
      <4>. QED  BY Zenon, <3>5, <3>7, <4>1
    <3>. QED  BY <2>1, <3>6, <3>7
  <2>. QED  BY <2>3, <2>4, <2>5
<1>7. ASSUME NEW h \in Hooks, LoseAccess(h)
      PROVE  Arrives'
  <2>1. UNCHANGED <<room, items, lost>>
    BY Zenon, <1>7 DEF LoseAccess
  <2>2. \A l \in DOMAIN link : link'[l].up = link[l].up
    <3> TAKE l \in DOMAIN link
    <3> DEFINE down == IF Current(l) THEN Append(link[l].down, Plain("access_revoked"))
                                     ELSE link[l].down
    <3>1. \/ link'[l] = link[l]
          \/ link'[l] = [link[l] EXCEPT !.state = "closing", !.down = down]
      BY Zenon, <1>0, <1>7 DEF LoseAccess, Link
    <3> HIDE DEF down
    <3>. QED  BY <1>0, <3>1 DEF Link
  <2>. QED  BY <1>2, <2>1, <2>2
<1>8. ASSUME NEW j \in DOMAIN link, Accept(j)
      PROVE  Arrives'
  <2>1. /\ \A l \in DOMAIN link \ {j} : link'[l].up = link[l].up
        /\ link[j].up = <<>> /\ room'.members = room.members \cup {j} /\ UNCHANGED lost
    BY <1>8 DEF Accept, LinkStates
  <2>2. CASE room.exists
    <3>1. room'.doc = room.doc /\ UNCHANGED items
      BY <1>8, <2>2 DEF Accept
    <3>. QED  BY <1>1, <2>1, <3>1, ArrivesStill DEF SentBy
  <2>3. CASE ~room.exists
    <3>1. room.members = {} /\ DOMAIN items' = 1 .. Len(items) + 1
      BY <1>8, <2>3, NewItems DEF Accept, ClientBase, RoomIsKnown
    <3>2. DOMAIN items = 1 .. Len(items) /\ Len(items) \in Nat /\ room'.doc = {Len(items) + 1}
      BY <1>8, <2>3, Elements DEF ClientBase, Accept
    <3>3. room.doc = {}
      BY <2>3 DEF Vacant
    <3>. QED  BY <2>1, <3>1, <3>2, <3>3 DEF Arrives
  <2>. QED  BY <2>2, <2>3
<1>9. ASSUME NEW j \in DOMAIN link, Refuse(j)
      PROVE  Arrives'
  <2>1. link' = [link EXCEPT ![j].state = "closing"] /\ UNCHANGED <<room, items, lost>>
    BY <1>9 DEF Refuse
  <2>. QED  BY <1>0, <1>2, <2>1 DEF Link
<1>10. ASSUME NEW j \in DOMAIN link, RelayReceives(j)
       PROVE  Arrives'
  <2>1. /\ UNCHANGED <<items, lost>> /\ link[j].up # <<>>
        /\ room'.members = room.members
        /\ link[j].up \in Seq(Message) /\ j \in room.members
    BY <1>0, <1>10, RelayReceiving, LinkFields DEF RelayReceives, ClientBase, ClientTypes, Room
  <2>2. room.doc \subseteq room'.doc /\ Head(link[j].up).items \subseteq room'.doc
    <3>1. CASE Head(link[j].up).type = "step1"
      <4>1. Head(link[j].up) = link[j].up[1] /\ 1 \in DOMAIN link[j].up
        BY <2>1, FirstAndRest
      <4>2. Head(link[j].up).items = {}
        BY <3>1, <4>1 DEF StepsAreEmpty
      <4>3. UNCHANGED room
        BY <1>10, <3>1, RelayReceiving
      <4>. QED  BY <4>2, <4>3
    <3>2. CASE Head(link[j].up).type # "step1"
      <4>1. room' = [room EXCEPT !.doc = room.doc \cup Head(link[j].up).items]
        BY <1>10, <3>2, RelayReceiving
      <4>2. room \in Room
        BY DEF ClientBase, ClientTypes
      <4>. QED  BY <4>1, <4>2 DEF Room
    <3>. QED  BY <3>1, <3>2
  <2>3. ASSUME NEW l \in room.members, NEW i, SentBy(l, i)
        PROVE  SentBy(l, i)' \/ i \in room'.doc
    <3>1. link'[l].up = IF l = j THEN Tail(link[j].up) ELSE link[l].up
      BY <1>1, <1>10, RelayReceiving
    <3>2. CASE l # j
      BY <2>3, <3>1, <3>2 DEF SentBy
    <3>3. CASE l = j
      <4>1. PICK k \in DOMAIN link[j].up : i \in link[j].up[k].items
        BY <2>3, <3>3 DEF SentBy
      <4>2. /\ Len(link[j].up) \in Nat /\ DOMAIN link[j].up = 1 .. Len(link[j].up)
            /\ DOMAIN Tail(link[j].up) = 1 .. Len(link[j].up) - 1
            /\ Head(link[j].up) = link[j].up[1]
            /\ \A m \in DOMAIN Tail(link[j].up) : Tail(link[j].up)[m] = link[j].up[m + 1]
        BY <2>1, FirstAndRest
      <4>3. CASE k = 1
        BY <2>2, <4>1, <4>2, <4>3
      <4>4. CASE k # 1
        <5>1. k - 1 \in DOMAIN Tail(link[j].up) /\ Tail(link[j].up)[k - 1] = link[j].up[k]
          BY <4>1, <4>2, <4>4
        <5>. QED  BY <3>1, <3>3, <4>1, <5>1 DEF SentBy
      <4>. QED  BY <4>3, <4>4
    <3>. QED  BY <3>2, <3>3
  <2>. QED  BY <2>1, <2>2, <2>3, ArrivesStill
<1>11. ASSUME NEW j \in DOMAIN link, RelayNoticesClose(j)
       PROVE  Arrives'
  <2>1. /\ UNCHANGED <<link, items, lost>> /\ room'.doc = room.doc
        /\ room'.members = room.members \ {j} /\ link[j].up = <<>>
    BY <1>11 DEF RelayNoticesClose, ClientBase, ClientTypes, Room, LinkStates
  <2>. QED  BY <2>1, ArrivesStill DEF SentBy
<1>12. ASSUME NEW j \in DOMAIN link, Break(j)
       PROVE  Arrives'
  <2>1. /\ link' = [link EXCEPT ![j] = Lost(@)] /\ UNCHANGED <<room, items>>
        /\ lost' = lost \cup SentOn(link[j])
    BY <1>12 DEF Break
  <2>2. \A i : SentBy(j, i) => i \in lost'
    BY <2>1 DEF SentBy, SentOn, Range
  <2>3. \A l \in room.members \ {j} : link'[l] = link[l]
    BY <1>1, <2>1
  <2>. QED  BY <2>1, <2>2, <2>3, ArrivesStill DEF SentBy
<1>13. CASE DropRoom
  BY <1>13 DEF DropRoom, Arrives, NoRoom
<1>14. CASE RelayRestarts
  <2>1. UNCHANGED items /\ lost' = lost \cup room.doc \cup UNION {SentOn(link[l]) : l \in DOMAIN link}
    BY <1>14 DEF RelayRestarts
  <2>2. \A l \in DOMAIN link, i \in DOMAIN items : SentBy(l, i) => i \in SentOn(link[l])
    BY DEF SentBy, SentOn, Range
  <2>. QED  BY <1>1, <2>1, <2>2 DEF Arrives
<1>15. CASE Revert
  <2> DEFINE next == Len(items) + 1
  <2>1. /\ \A l \in DOMAIN link : link'[l].up = link[l].up
        /\ room' = [room EXCEPT !.doc = @ \cup {next}] /\ UNCHANGED lost
        /\ NewItem(0) /\ DOMAIN service' = DOMAIN service
    BY <1>15, Reverting DEF Revert
  <2>2. /\ DOMAIN items' = 1 .. next /\ DOMAIN items = 1 .. Len(items) /\ Len(items) \in Nat
        /\ room'.doc = room.doc \cup {next} /\ room'.members = room.members
    BY <2>1, NewItems, Elements DEF ClientBase, ClientTypes, Room
  <2>3. \A l \in room.members, i \in DOMAIN items : SentBy(l, i) => SentBy(l, i)'
    BY <1>1, <2>1 DEF SentBy
  <2> SUFFICES ASSUME NEW i \in DOMAIN items', ~(i \in room'.doc \cup lost)
               PROVE  \E l \in room.members : SentBy(l, i)'
    BY <2>1, <2>2 DEF Arrives
  <2>4. i \in DOMAIN items /\ ~(i \in room.doc \cup lost)
    BY <2>2
  <2>. QED  BY <2>3, <2>4 DEF Arrives
<1>. QED
  BY <1>3, <1>4, <1>5, <1>6, <1>7, <1>8, <1>9, <1>10, <1>11, <1>12, <1>13, <1>14, <1>15
     DEF ClientNext

LEMMA DocsAreKnownStep ==
  ASSUME ClientBase, SentIsOwn, DocsAreKnown, [ClientNext]_clientVars
  PROVE  DocsAreKnown'
<1> DEFINE Known(x) == \A k \in DOMAIN x.down : x.down[k].items \subseteq DOMAIN items'
<1>0. /\ \A j \in DOMAIN link : link[j] \in Link /\ link[j].down \in Seq(Message)
      /\ \A n \in DOMAIN service : service[n] \in Service
  BY Elements, LinkFields DEF ClientBase
<1>1. DOMAIN items \subseteq DOMAIN items' /\ room.doc \subseteq DOMAIN items
  BY ItemsStand DEF ClientBase, RoomIsKnown
<1>2. lost' \subseteq DOMAIN items'
  <2>1. ASSUME NEW h \in Hooks, Edit(h)
        PROVE  lost' \subseteq DOMAIN items'
    BY <1>1, <2>1, EditSends, Editing DEF DocsAreKnown
  <2>2. \A j \in DOMAIN link : SentOn(link[j]) \subseteq DOMAIN items
    BY DEF SentIsOwn, SentOn, Range
  <2>3. \/ UNCHANGED lost \/ DropRoom \/ RelayRestarts \/ \E j \in DOMAIN link : Break(j)
        \/ \E h \in Hooks : Edit(h)
    BY Zenon DEF ClientNext, Mount, Unmount, LoseAccess, OpenSocket, SessionFails, TimerFires,
           ClientReceives, ClientIsReverted, ClientNoticesClose, Accept, Refuse, RelayReceives,
           RelayNoticesClose, Revert, clientVars
  <2>. QED  BY <1>1, <2>1, <2>2, <2>3 DEF DocsAreKnown, DropRoom, RelayRestarts, Break
<1>3. \A n \in DOMAIN service' : service'[n].doc \subseteq DOMAIN items'
  <2> DEFINE Good == \A n \in DOMAIN service' : service'[n].doc \subseteq DOMAIN items'
  <2>1. ASSUME UNCHANGED service PROVE Good
    BY <1>1, <2>1 DEF DocsAreKnown
  <2>2. ASSUME NEW n \in DOMAIN service, NEW s, service' = [service EXCEPT ![n] = s],
               s.doc \subseteq DOMAIN items'
        PROVE  Good
    BY <1>1, <2>2, OneChanged DEF DocsAreKnown
  <2>3. CASE RelayStep
    BY <2>1, <2>3, RelayLeavesServices
  <2>4. ASSUME NEW h \in Hooks, Mount(h)
        PROVE  Good
    <3> DEFINE next == Len(service) + 1
    <3>1. /\ DOMAIN service' = DOMAIN service \cup {next}
          /\ \A n \in DOMAIN service : service'[n] = service[n]
      BY <2>4, Mounting
    <3>2. service'[next].doc = {}
      <4> DEFINE r == [hook |-> h, wanted |-> TRUE, awaiting |-> TRUE, timer |-> FALSE,
                       socket |-> 0, revoked |-> FALSE, doc |-> {}]
      <4>1. r \in Service /\ r.doc = {}
        BY ClientAssumption DEF Service
      <4>2. NewService(h) = Connecting(r)
        BY DEF NewService
      <4> HIDE DEF r
      <4>3. NewService(h) \in Service /\ NewService(h).doc = {}
        BY <4>1, <4>2 DEF Connecting, Service
      <4>4. service' = Append(service, NewService(h)) /\ service \in Seq(Service)
        BY <2>4 DEF Mount, ClientBase, ClientTypes
      <4>. QED  BY <4>3, <4>4, AppendProperties
    <3>. QED  BY <1>1, <3>1, <3>2 DEF DocsAreKnown
  <2>5. ASSUME NEW n \in DOMAIN service, service' = Disconnected(n)
        PROVE  Good
    <3> DEFINE s == [service[n] EXCEPT !.wanted = FALSE, !.timer = FALSE, !.socket = 0,
                       !.doc = IF service[n].awaiting THEN @ ELSE {}]
    <3>1. service' = [service EXCEPT ![n] = s] /\ s.doc \subseteq service[n].doc
      BY <1>0, <2>5 DEF Disconnected, Service
    <3> HIDE DEF s
    <3>. QED  BY <1>1, <2>2, <3>1 DEF DocsAreKnown
  <2>6. ASSUME NEW h \in Hooks, Unmount(h)
        PROVE  Good
    BY <2>5, <2>6 DEF Unmount, Disconnect, ClientBase, PagesHaveServices
  <2>7. ASSUME NEW l \in DOMAIN link, ClientIsReverted(l)
        PROVE  Good
    <3>1. UNCHANGED service \/ \E n \in DOMAIN service : service' = Disconnected(n)
      BY Zenon, <2>7, BeingReverted
    <3>. QED  BY <2>1, <2>5, <3>1
  <2>8. ASSUME NEW h \in Hooks, Edit(h)
        PROVE  Good
    <3> SUFFICES ASSUME NEW m \in DOMAIN service
                 PROVE  service'[m].doc \subseteq DOMAIN items'
      BY <2>8, Editing
    <3>1. \/ service'[m] = service[m]
          \/ service'[m] = [service[m] EXCEPT !.doc = @ \cup {Len(items) + 1}]
      BY <2>8, Editing
    <3>2. service'[m].doc \subseteq service[m].doc \cup {Len(items) + 1}
      BY <1>0, <3>1 DEF Service
    <3>3. Len(items) + 1 \in DOMAIN items'
      BY <2>8, Editing
    <3>. QED  BY <1>1, <3>2, <3>3 DEF DocsAreKnown
  <2>9. ASSUME NEW n \in DOMAIN service, OpenSocket(n)
        PROVE  Good
    <3> DEFINE s == [service[n] EXCEPT !.awaiting = FALSE, !.socket = Len(link) + 1]
    <3>1. service' = [service EXCEPT ![n] = s] /\ s.doc = service[n].doc
      BY <1>0, <2>9 DEF OpenSocket, Service
    <3> HIDE DEF s
    <3>. QED  BY <1>1, <2>2, <3>1 DEF DocsAreKnown
  <2>10. ASSUME NEW n \in DOMAIN service, SessionFails(n)
         PROVE  Good
    <3> DEFINE s == ScheduleReconnect([service[n] EXCEPT !.awaiting = FALSE])
    <3>1. service' = [service EXCEPT ![n] = s] /\ s.doc = service[n].doc
      BY <1>0, <2>10 DEF SessionFails, Service, ScheduleReconnect
    <3> HIDE DEF s
    <3>. QED  BY <1>1, <2>2, <3>1 DEF DocsAreKnown
  <2>11. ASSUME NEW n \in DOMAIN service, TimerFires(n)
         PROVE  Good
    <3> DEFINE s == Connecting(service[n])
    <3>1. service' = [service EXCEPT ![n] = s] /\ s.doc = service[n].doc
      BY <1>0, <2>11 DEF TimerFires, Service, Connecting
    <3> HIDE DEF s
    <3>. QED  BY <1>1, <2>2, <3>1 DEF DocsAreKnown
  <2>12. ASSUME NEW l \in DOMAIN link, ClientReceives(l)
         PROVE  Good
    <3> DEFINE n == link[l].service
               message == Head(link[l].down)
               heard == [service[n] EXCEPT !.doc = @ \cup message.items]
               told == [service[n] EXCEPT !.wanted = FALSE, !.revoked = TRUE]
    <3>1. n \in DOMAIN service /\ service[n].doc \subseteq DOMAIN items
      BY DEF ClientBase, LinksHaveServices, DocsAreKnown
    <3>2. message.items \subseteq DOMAIN items
      <4>1. message = link[l].down[1] /\ 1 \in DOMAIN link[l].down
        BY <1>0, <2>12, FirstAndRest DEF ClientReceives
      <4>. QED  BY <4>1 DEF DocsAreKnown
    <3>3. heard.doc \subseteq DOMAIN items' /\ told.doc \subseteq DOMAIN items'
      BY <1>0, <1>1, <3>1, <3>2 DEF Service
    <3>4. \/ service' = [service EXCEPT ![n] = heard]
          \/ service' = [service EXCEPT ![n] = told]
      BY <2>12 DEF ClientReceives, ReceivedBy
    <3> HIDE DEF n, heard, told
    <3>. QED  BY <2>2, <3>1, <3>3, <3>4
  <2>13. ASSUME NEW l \in DOMAIN link, ClientNoticesClose(l)
         PROVE  Good
    <3> DEFINE n == link[l].service
               s == ScheduleReconnect([service[n] EXCEPT !.socket = 0])
    <3>1. n \in DOMAIN service
      BY DEF ClientBase, LinksHaveServices
    <3>2. service' = [service EXCEPT ![n] = s] /\ s.doc = service[n].doc
      BY <1>0, <2>13, <3>1 DEF ClientNoticesClose, SocketClosed, Service, ScheduleReconnect
    <3> HIDE DEF n, s
    <3>. QED  BY <1>1, <2>2, <3>1, <3>2 DEF DocsAreKnown
  <2>. QED
    BY Steps, <2>3, <2>4, <2>6, <2>7, <2>8, <2>9, <2>10, <2>11, <2>12, <2>13
<1>4. \A l \in DOMAIN link' : Known(link'[l])
  <2>1. ASSUME NEW l \in DOMAIN link, link'[l].down = link[l].down \/ link'[l].down = <<>>
        PROVE  Known(link'[l])
    BY <1>1, <2>1 DEF DocsAreKnown
  <2>2. ASSUME NEW l \in DOMAIN link, link[l].down # <<>>, link'[l].down = Tail(link[l].down)
        PROVE  Known(link'[l])
    <3>1. \A k \in DOMAIN Tail(link[l].down) :
            k + 1 \in DOMAIN link[l].down /\ Tail(link[l].down)[k] = link[l].down[k + 1]
      BY <1>0, <2>2, FirstAndRest
    <3>. QED  BY <1>1, <2>2, <3>1 DEF DocsAreKnown
  <2>3. ASSUME NEW x \in Seq(Message), NEW m \in Message, m.items \subseteq DOMAIN items',
               \A k \in DOMAIN x : x[k].items \subseteq DOMAIN items'
        PROVE  /\ Append(x, m) \in Seq(Message)
               /\ \A k \in DOMAIN Append(x, m) : Append(x, m)[k].items \subseteq DOMAIN items'
    BY <2>3, OldOrAppended, AppendProperties
  <2>4. ASSUME NEW l \in DOMAIN link, NEW m \in Message, m.items \subseteq DOMAIN items',
               link'[l].down = Append(link[l].down, m)
        PROVE  Known(link'[l])
    <3>1. \A k \in DOMAIN link[l].down : link[l].down[k].items \subseteq DOMAIN items'
      BY <1>1 DEF DocsAreKnown
    <3>. QED  BY <1>0, <2>3, <2>4, <3>1
  <2>5. CASE \/ \E h \in Hooks : Mount(h) \/ Unmount(h)
             \/ \E n \in DOMAIN service : SessionFails(n) \/ TimerFires(n)
             \/ \E j \in DOMAIN link :
                  ClientReceives(j) \/ ClientIsReverted(j) \/ ClientNoticesClose(j)
    <3>1. DOMAIN link' = DOMAIN link /\ \A l \in DOMAIN link : Quieter(l)
      BY <2>5, BrowserQuiet
    <3>. QED  BY <2>1, <2>2, <3>1 DEF Quieter
  <2>6. ASSUME NEW n \in DOMAIN service, OpenSocket(n)
        PROVE  \A l \in DOMAIN link' : Known(link'[l])
    <3>1. ASSUME NEW l \in DOMAIN link'
          PROVE  Known(link'[l])
      <4>1. CASE l \in DOMAIN link
        BY <2>1, <2>6, <4>1, SocketOpens
      <4>2. CASE l = Len(link) + 1
        BY <2>6, <4>2, SocketOpens
      <4>. QED  BY <2>6, <3>1, <4>1, <4>2, SocketOpens
    <3>. QED  BY <3>1
  <2>7. ASSUME NEW h \in Hooks, Edit(h)
        PROVE  \A l \in DOMAIN link' : Known(link'[l])
    <3>1. DOMAIN link' = DOMAIN link /\ \A l \in DOMAIN link : link'[l].down = link[l].down
      BY <2>7, EditSends
    <3>. QED  BY <2>1, <3>1
  <2>8. ASSUME NEW h \in Hooks, LoseAccess(h)
        PROVE  \A l \in DOMAIN link' : Known(link'[l])
    <3>1. DOMAIN link' = DOMAIN link
      BY Zenon, <2>8 DEF LoseAccess
    <3>2. ASSUME NEW l \in DOMAIN link
          PROVE  Known(link'[l])
      <4> DEFINE plain == Plain("access_revoked")
                 down == IF Current(l) THEN Append(link[l].down, plain) ELSE link[l].down
      <4>1. \/ link'[l] = link[l]
            \/ link'[l] = [link[l] EXCEPT !.state = "closing", !.down = down]
        BY Zenon, <1>0, <2>8 DEF LoseAccess, Link
      <4>2. plain \in Message /\ plain.items = {}
        BY SentThings DEF Plain
      <4>3. link'[l].down = link[l].down \/ link'[l].down = Append(link[l].down, plain)
        BY <1>0, <4>1 DEF Link
      <4> HIDE DEF plain
      <4>. QED  BY <2>1, <2>4, <4>2, <4>3
    <3>. QED  BY <3>1, <3>2
  <2>9. ASSUME NEW j \in DOMAIN link, Accept(j) \/ Refuse(j) \/ RelayNoticesClose(j) \/ Break(j)
        PROVE  \A l \in DOMAIN link' : Known(link'[l])
    <3> DEFINE Same == DOMAIN link' = DOMAIN link /\ \A l \in DOMAIN link :
                         link'[l].down = link[l].down \/ link'[l].down = <<>>
    <3>2. ASSUME Accept(j) PROVE Same
      <4> DEFINE up == IF Current(j) THEN <<Plain("step1")>> ELSE <<>>
      <4>1. link' = [link EXCEPT ![j] = [link[j] EXCEPT !.state = "open", !.up = up]]
        BY <1>0, <3>2 DEF Accept, Link
      <4> HIDE DEF up
      <4>. QED  BY <1>0, <4>1 DEF Link
    <3>3. ASSUME Refuse(j) PROVE Same
      BY <1>0, <3>3 DEF Refuse, Link
    <3>4. ASSUME RelayNoticesClose(j) PROVE Same
      BY <3>4 DEF RelayNoticesClose
    <3>5. ASSUME Break(j) PROVE Same
      BY <1>0, <3>5, ClosingFields DEF Break
    <3>1. Same
      BY <2>9, <3>2, <3>3, <3>4, <3>5
    <3>. QED  BY <2>1, <3>1
  <2>10. CASE DropRoom \/ RelayRestarts \/ UNCHANGED clientVars
    <3>1. DOMAIN link' = DOMAIN link /\ \A l \in DOMAIN link :
            link'[l].down = link[l].down \/ link'[l].down = <<>>
      BY <1>0, <2>10, ClosingFields DEF DropRoom, RelayRestarts, clientVars
    <3>. QED  BY <2>1, <3>1
  <2>11. ASSUME NEW j \in DOMAIN link, RelayReceives(j)
         PROVE  \A l \in DOMAIN link' : Known(link'[l])
    <3> DEFINE doc == room.doc \cup Head(link[j].up).items
               news == Applied(doc) \ Applied(room.doc)
    <3>1. DOMAIN link' = DOMAIN link
      BY <2>11, RelayReceiving
    <3>2. doc \subseteq DOMAIN items /\ doc \subseteq ItemIds
      <4>1. link[j].up \in Seq(Message) /\ link[j].up # <<>>
        BY <1>0, <2>11, LinkFields DEF RelayReceives
      <4>2. Head(link[j].up) = link[j].up[1] /\ 1 \in DOMAIN link[j].up
        BY <4>1, FirstAndRest
      <4>. QED  BY <1>1, <4>2, Elements DEF SentIsOwn, ClientBase, ItemIds
    <3>3. /\ Carrying(room.doc) \in Message /\ Carrying(room.doc).items \subseteq DOMAIN items
          /\ Carrying(news) \in Message /\ Carrying(news).items \subseteq DOMAIN items
      BY <3>2, SentThings DEF Carrying, Applied
    <3>4. ASSUME NEW l \in DOMAIN link
          PROVE  \/ link'[l].down = link[l].down
                 \/ link'[l].down = Append(link[l].down, Carrying(room.doc))
                 \/ link'[l].down = Append(link[l].down, Carrying(news))
      BY <2>11, RelayReceiving
    <3> DEFINE first == Carrying(room.doc)
               second == Carrying(news)
    <3>5. /\ first \in Message /\ first.items \subseteq DOMAIN items'
          /\ second \in Message /\ second.items \subseteq DOMAIN items'
          /\ \A l \in DOMAIN link : link'[l].down \in
               {link[l].down, Append(link[l].down, first), Append(link[l].down, second)}
      BY <1>1, <3>3, <3>4
    <3> HIDE DEF first, second
    <3>. QED  BY <2>1, <2>4, <3>1, <3>5
  <2>12. CASE Revert
    <3> DEFINE news == Carrying({Len(items) + 1})
               plain == Plain("document_reverted")
    <3>1. news \in Message /\ news.items \subseteq DOMAIN items' /\ plain \in Message /\ plain.items = {}
      <4>1. Len(items) + 1 \in ItemIds /\ Len(items) + 1 \in DOMAIN items'
        BY <2>12, NewItems, Elements DEF Revert, ClientBase
      <4>. QED  BY <4>1, SentThings DEF Carrying, Plain
    <3>2. DOMAIN link' = DOMAIN link /\ \A l \in DOMAIN link :
            \/ link'[l].down = link[l].down
            \/ link'[l].down = Append(Append(link[l].down, news), plain)
      BY <2>12, Reverting
    <3> HIDE DEF news, plain
    <3>3. ASSUME NEW l \in DOMAIN link, link'[l].down = Append(Append(link[l].down, news), plain)
          PROVE  Known(link'[l])
      <4>1. \A k \in DOMAIN link[l].down : link[l].down[k].items \subseteq DOMAIN items'
        BY <1>1 DEF DocsAreKnown
      <4> DEFINE mid == Append(link[l].down, news)
      <4>2. mid \in Seq(Message) /\ \A k \in DOMAIN mid : mid[k].items \subseteq DOMAIN items'
        BY <1>0, <2>3, <3>1, <4>1
      <4>3. link'[l].down = Append(mid, plain)
        BY <3>3
      <4> HIDE DEF mid
      <4>. QED  BY <2>3, <3>1, <4>2, <4>3
    <3>. QED  BY <2>1, <3>2, <3>3
  <2>. QED
    BY <2>5, <2>6, <2>7, <2>8, <2>9, <2>10, <2>11, <2>12 DEF ClientNext
<1>. QED  BY <1>2, <1>3, <1>4 DEF DocsAreKnown

ClientFullInv == ClientInv /\ ArrivalInv

LEMMA ArrivalInit == ClientInit => ArrivalInv
<1> SUFFICES ASSUME ClientInit PROVE ArrivalInv
  OBVIOUS
<1>1. DOMAIN items = {} /\ DOMAIN link = {} /\ DOMAIN service = {}
  BY DEF ClientInit
<1>. QED
  BY <1>1 DEF ClientInit, NoRoom, ArrivalInv, LinkStates, StepsAreEmpty, Vacant, Arrives, DocsAreKnown

LEMMA ArrivalStep ==
  ASSUME ClientBase, SentIsOwn, ArrivalInv, [ClientNext]_clientVars
  PROVE  ArrivalInv'
BY LinkStatesStep, StepsAreEmptyStep, VacantStep, ArrivesStep, DocsAreKnownStep DEF ArrivalInv

------------------------------------------------------------------------------
(* Theorems *)

LEMMA ClientInvInit == ClientInit => ClientFullInv
<1>1. ClientInit => ClientInv
  BY BaseInit DEF ClientInit, ClientInv, SentIsOwn, OwnItemsKept, RevokedIsIdle, EveryoneIsServed
<1>. QED  BY <1>1, ArrivalInit DEF ClientFullInv

LEMMA ClientInvStep == ClientFullInv /\ [ClientNext]_clientVars => ClientFullInv'
BY BaseStep, SentIsOwnStep, OwnItemsStep, RevokedStep, ServedStep, ArrivalStep
   DEF ClientInv, ClientFullInv

LEMMA ClientInvHolds == ClientSpec => []ClientFullInv
BY ClientInvInit, ClientInvStep, PTL DEF ClientSpec

(* A service never has two of a session request, a timer and a socket, and a socket  *)
(* it has is its own (realtime.ts: connect, disconnect, scheduleReconnect).          *)
THEOREM ClientTypeCorrect == ClientSpec => []ClientTypeOK
<1>1. ClientFullInv => ClientTypeOK
  <2> SUFFICES ASSUME ClientFullInv PROVE ClientTypeOK
    OBVIOUS
  <2>1. lost \subseteq ItemIds
    BY Elements DEF ClientFullInv, ClientInv, ClientBase, ArrivalInv, DocsAreKnown, ItemIds
  <2>. QED  BY <2>1, BaseGivesType DEF ClientFullInv, ClientInv
<1>. QED  BY <1>1, ClientInvHolds, PTL

\* A settled service has what is applied of the room's document.
LEMMA SettledHaveTheRoom ==
  ASSUME ClientInv, NEW l \in DOMAIN link, Settled(l)
  PROVE  Applied(room.doc) \subseteq service[link[l].service].doc
<1>1. Live(l) /\ ~Asks(link[l])
  BY DEF Settled, Asks, Range
<1>2. Gets(service[link[l].service], link[l]) = service[link[l].service].doc
  BY DEF Settled, Gets, Range
<1>. QED  BY <1>1, <1>2 DEF ClientInv, EveryoneIsServed, Served

(* A connected service to which nothing is under way has the text of the room, and    *)
(* every edit that was sent, by anyone, arrives unless a connection or the room is    *)
(* lost before, whatever was typed, closed, reverted and opened again in between      *)
(* (realtime.ts: sendBinary and onopen, protocol.js: handleSyncMessage).              *)
THEOREM ClientsSettle == ClientSpec => []SettledServicesAgree
<1>1. ClientFullInv => SettledServicesAgree
  <2> SUFFICES ASSUME ClientFullInv PROVE SettledServicesAgree
    OBVIOUS
  <2>1. ASSUME NEW l \in DOMAIN link, Settled(l)
        PROVE  Applied(room.doc) \subseteq service[link[l].service].doc
    BY <2>1, SettledHaveTheRoom DEF ClientFullInv
  <2>2. ASSUME \A l \in room.members : link[l].up = <<>>,
               NEW n \in DOMAIN service, NEW i \in service[n].doc
        PROVE  i \in room.doc \cup lost
    <3>1. i \in DOMAIN items
      BY <2>2 DEF ClientFullInv, ArrivalInv, DocsAreKnown
    <3>2. \A l \in room.members : ~SentBy(l, i)
      BY <2>2 DEF SentBy
    <3>. QED  BY <3>1, <3>2 DEF ClientFullInv, ArrivalInv, Arrives
  <2>. QED  BY <2>1, <2>2 DEF SettledServicesAgree
<1>. QED  BY <1>1, ClientInvHolds, PTL

(* A service that was told that access is revoked never asks for a session again.     *)
THEOREM RevokedServicesStayAway == ClientSpec => RevokedStaysAway
<1>1. ClientFullInv /\ [ClientNext]_clientVars =>
        [\A n \in DOMAIN service :
           service[n].revoked /\ service'[n].awaiting => service[n].awaiting]_clientVars
  BY StaysAwayStep DEF ClientFullInv, ClientInv
<1>. QED  BY <1>1, ClientInvHolds, PTL DEF ClientSpec, RevokedStaysAway

==============================================================================
