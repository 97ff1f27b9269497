---------------------------- MODULE RealtimeClient ----------------------------
(***************************************************************************)
(* The collaborative text of one document: the browser's realtime services *)
(* (services/realtime.ts, useRealtimeDocument.ts), their sockets, and the  *)
(* relay's room (rooms.js, protocol.js).                                   *)
(* A Yjs document is the set of the items it has been given.  Without all  *)
(* earlier items of the same client an item stays pending: applied and     *)
(* announced to nobody.  (It needs its neighbours as well; that is left    *)
(* out.)  A connect of the hook makes a service with a document of its     *)
(* own, so a service is also what Yjs calls a client.                      *)
(***************************************************************************)
EXTENDS Naturals, Sequences, SequencesExt, FiniteSets

CONSTANTS
  Hooks,         \* the pages that may open the document
  Restless,      \* bound: the pages that are left again or lose access
  MaxServices,   \* bound: services made
  MaxLinks,      \* bound: sockets opened
  MaxItems,      \* bound: no edit and no revert once so many items are made
  MaxFaults      \* bound: broken sockets, failed requests and relay restarts

ASSUME ClientAssumption == MaxServices \in Nat /\ MaxLinks \in Nat /\ MaxFaults \in Nat

VARIABLES
  page,     \* each hook: the service it uses and what the page believes of it
  service,  \* the services made so far
  link,     \* the sockets opened so far
  room,     \* the relay's room: what its document was given, and its clients
  items,    \* every item made so far: the service that made it, 0 for the relay
  access,   \* the hooks whose user may open the document
  faults,   \* how many faults have happened
  lost      \* history: the items that were not sent, or went with a socket or a room

clientVars == <<page, service, link, room, items, access, faults, lost>>

Services == 1 .. MaxServices
LinkIds == 1 .. MaxLinks
ItemIds == Nat \ {0}

\* ready: collaborationReady of the hook, which lasts until the next connect.
Page == [service : 0 .. MaxServices, ready : BOOLEAN]

(* awaiting: createSession is not answered.  socket: 0 is null.  wanted:            *)
(* shouldReconnect.  timer: reconnectTimer is set.  revoked: access_revoked came.   *)
Service == [hook : Hooks, wanted : BOOLEAN, awaiting : BOOLEAN, timer : BOOLEAN,
            socket : 0 .. MaxLinks, revoked : BOOLEAN, doc : SUBSET ItemIds]

Message == [type : {"step1", "items", "document_reverted", "access_revoked"},
            items : SUBSET ItemIds]

\* closing: one side has closed and what it sent before is still under way.
Link == [service : Services, state : {"opening", "open", "closing", "broken"},
         up : Seq(Message), down : Seq(Message)]

Room == [exists : BOOLEAN, doc : SUBSET ItemIds, members : SUBSET LinkIds]

NoRoom == [exists |-> FALSE, doc |-> {}, members |-> {}]

Plain(type) == [type |-> type, items |-> {}]
Carrying(news) == [type |-> "items", items |-> news]

\* The items of a document that are part of its text.
Applied(doc) ==
  {i \in doc : i \in DOMAIN items =>
     \A j \in 1 .. i - 1 : items[j] = items[i] /\ items[i] # 0 => j \in doc}

ClientInit ==
  /\ page = [h \in Hooks |-> [service |-> 0, ready |-> FALSE]]
  /\ service = <<>> /\ link = <<>> /\ items = <<>>
  /\ room = NoRoom /\ access = Hooks /\ faults = 0 /\ lost = {}

------------------------------------------------------------------------------
(* The service *)

Fault == faults < MaxFaults /\ faults' = faults + 1

\* connect up to its await; it is called without a socket.
Connecting(s) == [s EXCEPT !.wanted = TRUE, !.timer = FALSE, !.awaiting = TRUE]

\* Mutant: the attempt is over and nothing is scheduled.
ScheduleNothing(s) == s

\* scheduleReconnect.
ScheduleReconnect(s) == [s EXCEPT !.timer = @ \/ s.wanted]

\* socket.close(): what was sent before arrives before the close, what comes is ignored.
CloseSocket(l) ==
  [l EXCEPT !.state = IF @ = "broken" THEN @ ELSE "closing", !.down = <<>>]

\* What is on its way to the relay.
SentOn(l) == UNION {m.items : m \in Range(l.up)}

\* A connection is gone with what was under way.
Lost(l) == [l EXCEPT !.state = "broken", !.up = <<>>, !.down = <<>>]

(* disconnect(): the attempt that waits for its session is not told.  It is called  *)
(* for the service of a page that leaves or replaces it: but for such an attempt,   *)
(* its document is garbage.                                                         *)
Disconnected(n) == [service EXCEPT
  ![n].wanted = FALSE, ![n].timer = FALSE, ![n].socket = 0,
  ![n].doc = IF service[n].awaiting THEN @ ELSE {}]

Disconnect(n) ==
  /\ service' = Disconnected(n)
  /\ link' = IF service[n].socket = 0 THEN link
             ELSE [link EXCEPT ![service[n].socket] = CloseSocket(@)]

NewService(h) ==
  Connecting([hook |-> h, wanted |-> TRUE, awaiting |-> TRUE, timer |-> FALSE,
              socket |-> 0, revoked |-> FALSE, doc |-> {}])

\* The effect that connects: a new service, nothing shown of it yet.
Mount(h) ==
  /\ page[h].service = 0 /\ Len(service) < MaxServices
  /\ service' = Append(service, NewService(h))
  /\ page' = [page EXCEPT ![h] = [service |-> Len(service) + 1, ready |-> FALSE]]
  /\ UNCHANGED <<link, room, items, access, faults, lost>>

\* The page is left, or is told of a revert (connectionEpoch); Mount follows.
Unmount(h) ==
  /\ h \in Restless /\ page[h].service # 0
  /\ Disconnect(page[h].service)
  /\ page' = [page EXCEPT ![h] = [service |-> 0, ready |-> FALSE]]
  /\ UNCHANGED <<room, items, access, faults, lost>>

\* createSession is answered: shouldReconnect is not looked at again.
OpenSocket(n) ==
  /\ service[n].awaiting /\ service[n].hook \in access /\ Len(link) < MaxLinks
  /\ link' = Append(link, [service |-> n, state |-> "opening", up |-> <<>>,
                           down |-> <<>>])
  /\ service' = [service EXCEPT ![n].awaiting = FALSE, ![n].socket = Len(link) + 1]
  /\ UNCHANGED <<page, room, items, access, faults, lost>>

\* createSession is refused or fails.
SessionFails(n) ==
  /\ service[n].awaiting
  /\ IF service[n].hook \in access THEN Fault ELSE UNCHANGED faults
  /\ service' = [service EXCEPT ![n] = ScheduleReconnect([@ EXCEPT !.awaiting = FALSE])]
  /\ UNCHANGED <<page, link, room, items, access, lost>>

TimerFires(n) ==
  /\ service[n].timer
  /\ service' = [service EXCEPT ![n] = Connecting(@)]
  /\ UNCHANGED <<page, link, room, items, access, faults, lost>>

\* The handlers of a socket look at it only while it is the service's own.
Current(l) == service[link[l].service].socket = l

\* Mutant: a service whose access was revoked connects again.
SocketClosedAnyway(n) == [service EXCEPT ![n].socket = 0, ![n].timer = TRUE]

\* onclose.
SocketClosed(n) == [service EXCEPT ![n] = ScheduleReconnect([@ EXCEPT !.socket = 0])]

ClientNoticesClose(l) ==
  /\ Current(l)
  /\ \/ link[l].state = "broken"
     \/ link[l].state = "closing" /\ l \notin room.members /\ link[l].down = <<>>
  /\ service' = SocketClosed(link[l].service)
  /\ UNCHANGED <<page, link, room, items, access, faults, lost>>

NewItem(by) == items' = Append(items, by)

\* The browser holds a socket for open until it has read the relay's close.
OpenHere(l) == l.state = "open" \/ (l.state = "closing" /\ l.down # <<>>)

(* applyLocalChange and replaceSelection; sendBinary drops the update unless the     *)
(* socket is open.                                                                   *)
Edit(h) ==
  LET n == page[h].service
      next == Len(items) + 1
      l == service[n].socket
  IN
  /\ page[h].ready /\ ~service[n].revoked
  /\ Len(items) < MaxItems /\ NewItem(n)
  /\ service' = [service EXCEPT ![n].doc = @ \cup {next}]
  /\ IF l # 0 /\ OpenHere(link[l])
     THEN link' = [link EXCEPT ![l].up = Append(@, Carrying({next}))] /\ UNCHANGED lost
     ELSE lost' = lost \cup {next} /\ UNCHANGED link
  /\ UNCHANGED <<page, room, access, faults>>

\* A sync message or access_revoked.
ReceivedBy(n, message) ==
  IF message.type = "items" THEN [service EXCEPT ![n].doc = @ \cup message.items]
  ELSE [service EXCEPT ![n].wanted = FALSE, ![n].revoked = TRUE]

\* The first message of a socket is taken.
Read(l) == [link EXCEPT ![l].down = Tail(@)]

\* onmessage, but for document_reverted.
ClientReceives(l) ==
  LET n == link[l].service
      message == Head(link[l].down)
  IN
  /\ Current(l) /\ link[l].down # <<>> /\ message.type # "document_reverted"
  /\ link' = Read(l)
  /\ service' = ReceivedBy(n, message)
  /\ UNCHANGED <<page, room, items, access, faults, lost>>

(* connectionEpoch + 1: the page disconnects the service it has now, which need not  *)
(* be the one that was told, and Mount makes the next.                               *)
ClientIsReverted(l) ==
  LET h == service[link[l].service].hook
      n == page[h].service
  IN
  /\ Current(l) /\ link[l].down # <<>>
  /\ Head(link[l].down).type = "document_reverted"
  /\ service' = IF n = 0 THEN service ELSE Disconnected(n)
  /\ link' = IF n = 0 \/ service[n].socket = 0 THEN Read(l)
             ELSE [Read(l) EXCEPT ![service[n].socket] = CloseSocket(@)]
  /\ page' = [page EXCEPT ![h] = [service |-> 0, ready |-> FALSE]]
  /\ UNCHANGED <<room, items, access, faults, lost>>

------------------------------------------------------------------------------
(* The relay *)

Ready(h) == [page EXCEPT ![h].ready = page[h].service # 0]

\* room.ydoc's "update" event: what has become applied goes to every other client.
Broadcast(news, origin) ==
  [l \in DOMAIN link |->
     IF l \in room.members \ {origin} /\ link[l].state = "open" /\ news # {}
     THEN [link[l] EXCEPT !.down = Append(@, Carrying(news))] ELSE link[l]]

(* "connection" at the relay and onopen at the client.  getOrCreateRoom fills a new *)
(* room with the stored text, as an item of its own.  Both sides send a SyncStep1:  *)
(* the client throws the answer to the relay's away, but the hook is ready by it.   *)
Accept(l) ==
  /\ link[l].state = "opening" /\ service[link[l].service].hook \in access
  /\ IF room.exists THEN UNCHANGED items ELSE NewItem(0)
  /\ room' = [exists |-> TRUE, members |-> room.members \cup {l},
              doc |-> IF room.exists THEN room.doc ELSE {Len(items) + 1}]
  /\ link' = [link EXCEPT ![l].state = "open",
                          ![l].up = IF Current(l) THEN <<Plain("step1")>> ELSE <<>>]
  /\ page' = IF Current(l) THEN Ready(service[link[l].service].hook) ELSE page
  /\ UNCHANGED <<service, access, faults, lost>>

\* The user has lost the role: "permission denied", and the socket is closed.
Refuse(l) ==
  /\ link[l].state = "opening" /\ service[link[l].service].hook \notin access
  /\ link' = [link EXCEPT ![l].state = "closing"]
  /\ UNCHANGED <<page, service, room, items, access, faults, lost>>

\* handleSyncMessage: SyncStep1 is answered with all the room was given.
RelayReceives(l) ==
  LET message == Head(link[l].up)
      received == [link EXCEPT ![l].up = Tail(@)]
      doc == room.doc \cup message.items
      sent == Broadcast(Applied(doc) \ Applied(room.doc), l)
  IN
  /\ l \in room.members /\ link[l].up # <<>>
  /\ IF message.type = "step1"
     THEN /\ link' = [received EXCEPT ![l].down =
                        IF link[l].state = "open" THEN Append(@, Carrying(room.doc)) ELSE @]
          /\ UNCHANGED room
     ELSE /\ link' = [sent EXCEPT ![l].up = Tail(@)]
          /\ room' = [room EXCEPT !.doc = doc]
  /\ UNCHANGED <<page, service, items, access, faults, lost>>

\* removeClient, by the close of the socket, which both sides have read by then.
RelayNoticesClose(l) ==
  /\ l \in room.members
  /\ \/ link[l].state = "broken"
     \/ link[l].state = "closing" /\ link[l].up = <<>> /\ link[l].down = <<>>
  /\ room' = [room EXCEPT !.members = @ \ {l}]
  /\ UNCHANGED <<page, service, link, items, access, faults, lost>>

\* The cleanup timer of an idle room.
DropRoom ==
  /\ room.exists /\ room.members = {}
  /\ room' = NoRoom
  /\ lost' = lost \cup room.doc
  /\ UNCHANGED <<page, service, link, items, access, faults>>

\* applyDocumentReset, then document_reverted to every client of the document.
Revert ==
  LET news == {Len(items) + 1}
      reset == Broadcast(news, 0)
  IN
  /\ room.exists /\ room.members # {}
  /\ Len(items) < MaxItems /\ NewItem(0)
  /\ room' = [room EXCEPT !.doc = @ \cup news]
  /\ link' = [l \in DOMAIN link |->
       IF l \in room.members /\ link[l].state = "open"
       THEN [reset[l] EXCEPT !.down = Append(@, Plain("document_reverted"))] ELSE link[l]]
  /\ UNCHANGED <<page, service, access, faults, lost>>

\* Mutant: the relay stops listening to the socket at once.
LoseAccessDeaf(h) ==
  /\ h \in Restless \cap access
  /\ access' = access \ {h}
  /\ link' = [l \in DOMAIN link |->
       IF l \in room.members /\ service[link[l].service].hook = h /\ link[l].state # "broken"
       THEN [link[l] EXCEPT !.up = <<>>, !.state = "closing",
               !.down = IF Current(l) THEN Append(@, Plain("access_revoked")) ELSE @]
       ELSE link[l]]
  /\ UNCHANGED <<page, service, room, items, faults, lost>>

\* access_revoked is sent and the closing handshake begins; what the socket sends before
\* it has read the close still arrives, and client.role is as it was.
LoseAccess(h) ==
  /\ h \in Restless \cap access
  /\ access' = access \ {h}
  /\ link' = [l \in DOMAIN link |->
       IF l \in room.members /\ service[link[l].service].hook = h /\ link[l].state # "broken"
       THEN [link[l] EXCEPT !.state = "closing",
               !.down = IF Current(l) THEN Append(@, Plain("access_revoked")) ELSE @]
       ELSE link[l]]
  /\ UNCHANGED <<page, service, room, items, faults, lost>>

\* A connection is lost; each side notices in its own time.
Break(l) ==
  /\ link[l].state \in {"opening", "open"} /\ Fault
  /\ link' = [link EXCEPT ![l] = Lost(@)]
  /\ lost' = lost \cup SentOn(link[l])
  /\ UNCHANGED <<page, service, room, items, access>>

RelayRestarts ==
  /\ Fault
  /\ link' = [l \in DOMAIN link |-> Lost(link[l])]
  /\ room' = NoRoom
  /\ lost' = lost \cup room.doc \cup UNION {SentOn(link[l]) : l \in DOMAIN link}
  /\ UNCHANGED <<page, service, items, access>>

ClientNext ==
  \/ \E h \in Hooks : Mount(h) \/ Unmount(h) \/ Edit(h) \/ LoseAccess(h)
  \/ \E n \in DOMAIN service : OpenSocket(n) \/ SessionFails(n) \/ TimerFires(n)
  \/ \E l \in DOMAIN link :
       \/ ClientReceives(l) \/ ClientIsReverted(l) \/ ClientNoticesClose(l)
       \/ Accept(l) \/ Refuse(l) \/ RelayReceives(l) \/ RelayNoticesClose(l) \/ Break(l)
  \/ DropRoom \/ Revert \/ RelayRestarts

ClientSpec == ClientInit /\ [][ClientNext]_clientVars

(* Requests are answered, timers fire, what is sent arrives or its loss is noticed; *)
(* nobody has to type, leave or come back.                                          *)
ClientFairness ==
  /\ \A n \in Services :
       /\ WF_clientVars(n \in DOMAIN service /\ (OpenSocket(n) \/ SessionFails(n)))
       /\ WF_clientVars(n \in DOMAIN service /\ TimerFires(n))
  /\ \A l \in LinkIds :
       /\ WF_clientVars(l \in DOMAIN link /\ (Accept(l) \/ Refuse(l)))
       /\ WF_clientVars(l \in DOMAIN link /\ ClientReceives(l))
       /\ WF_clientVars(l \in DOMAIN link /\ ClientIsReverted(l))
       /\ WF_clientVars(l \in DOMAIN link /\ ClientNoticesClose(l))
       /\ WF_clientVars(l \in DOMAIN link /\ RelayReceives(l))
       /\ WF_clientVars(l \in DOMAIN link /\ RelayNoticesClose(l))

ClientFairSpec == ClientSpec /\ ClientFairness

------------------------------------------------------------------------------
(* Properties *)

\* What a service is waiting for or using.
Attempts(s) ==
  (IF s.awaiting THEN {"session"} ELSE {}) \cup (IF s.timer THEN {"timer"} ELSE {})
    \cup (IF s.socket # 0 THEN {"socket"} ELSE {})

\* A service never has two of a session request, a timer and a socket.
ClientTypeOK ==
  /\ page \in [Hooks -> Page] /\ service \in Seq(Service)
  /\ link \in Seq(Link) /\ room \in Room /\ items \in Seq(0 .. MaxServices)
  /\ access \subseteq Hooks /\ faults \in 0 .. MaxFaults /\ lost \subseteq ItemIds
  /\ \A n \in DOMAIN service :
       \A a, b \in Attempts(service[n]) : a = b
  /\ \A l \in LinkIds, n \in DOMAIN service :
       service[n].socket = l => l \in DOMAIN link /\ link[l].service = n

Live(l) == Current(l) /\ l \in room.members /\ link[l].state = "open"

\* A service to which nothing is under way, though its own edits may be.
Settled(l) ==
  Live(l) /\ link[l].down = <<>> /\ \A m \in Range(link[l].up) : m.type # "step1"

(* Whatever was typed, broken off, closed and opened again in between: a settled     *)
(* service has the room's text (the relay enters a client before it is asked for the *)
(* text, and sends the answer in turn), and every edit that was sent by anyone       *)
(* arrives, also on a socket that is being closed, unless a connection breaks or the *)
(* room is dropped before.  What was typed without a socket is lost to the others.   *)
SettledServicesAgree ==
  /\ \A l \in DOMAIN link :
       Settled(l) => Applied(room.doc) \subseteq service[link[l].service].doc
  /\ (\A l \in room.members : link[l].up = <<>>) =>
       \A n \in DOMAIN service : service[n].doc \subseteq room.doc \cup lost

(* "All connected clients converge to the same content after the final update is     *)
(* applied": once nothing is under way, two connected services have the same text.   *)
(* It fails by an edit that was typed while the socket was down (sendBinary).        *)
ConnectedClientsConverge ==
  (\A l \in DOMAIN link : link[l].up = <<>> /\ link[l].down = <<>>) =>
    \A l, j \in DOMAIN link : Live(l) /\ Live(j) =>
      Applied(service[link[l].service].doc) = Applied(service[link[j].service].doc)

(* A service that was told that access is revoked never asks for a session again,    *)
(* whatever timers, failed requests and closing sockets are under way.               *)
RevokedStaysAway ==
  [][\A n \in DOMAIN service :
       service[n].revoked /\ service'[n].awaiting => service[n].awaiting]_clientVars

(* Faults may end, and then a page that stays and whose user keeps access ends up    *)
(* in the room and ready, however its socket was lost before.                        *)
InTheRoom(h) ==
  \E l \in DOMAIN link : link[l].service = page[h].service /\ Live(l) /\ page[h].ready

PagesComeBack ==
  \A h \in Hooks :
    []<>(page[h].service = 0 \/ h \notin access \/ InTheRoom(h))
==============================================================================
