----------------------------- MODULE RealtimeRelay -----------------------------
(***************************************************************************)
(* The realtime relay beside the sharing handlers of Sharing: its sockets, *)
(* the room of one document and the poller that reads realtime_events.     *)
(* Node runs one callback at a time, so a poll is never interleaved with a *)
(* connect, a message or a timer, but the backend commits at any moment,   *)
(* also between two events of one poll.  The relay keeps nothing on disk:  *)
(* a restart loses all of it and delivers again what was not marked.       *)
(***************************************************************************)
EXTENDS Sharing

CONSTANTS
  Clients,      \* the sockets the relay may hold
  MaxRevision,  \* bound: the document is not changed further
  MaxRestarts,  \* bound: the relay is not restarted more often
  MaxTimers     \* bound: a socket is not removed while this many timers are pending

VARIABLES
  head,        \* the revision of the documents row; its text is left out
  reverts,     \* the revisions that reverts made
  client,      \* socket -> what the relay knows of it, NoRow if closed
  relayRoom,        \* the room of the document, NoRow if there is none
  armed,       \* room.cleanupTimer is pending
  leaked,      \* the pending timers no room refers to any more
  batch,       \* the events of the running poll that are not yet handled
  restarts,    \* the number of restarts so far
  lately,      \* history: the roles each user held since the last finished poll began
  sincePoll,   \* history: the roles each user held since the last poll began
  held         \* history: the roles each user ever held

relayVars == <<client, relayRoom, armed, leaked, batch, restarts>>
docVars == <<head, reverts>>
vars == <<sharingVars, docVars, relayVars, lately, sincePoll, held>>

AllRoles == Granted \cup {"owner", "none"}

\* state: "open"; "closing" after ws.close(), until the peer answers or the socket
\* times out; "failed" between the error event and the close event.
Socket == [state : {"open", "closing", "failed"}, user : Users,
           role : AllRoles \ {"none"}]

\* seed is the revision the text was last set from, authors those who edited it since.
RelayRoom == [seed : Nat, authors : SUBSET Users]

ASSUME RelayAssumption ==
  /\ MaxRevision \in Nat
  /\ MaxRestarts \in Nat
  /\ MaxTimers \in Nat
  /\ NoRow \notin Socket \cup RelayRoom

------------------------------------------------------------------------------

HasState(c, states) == client[c] # NoRow /\ client[c].state \in states

\* room.clients
Members == {c \in Clients : HasState(c, {"open", "closing"})}

Idle == batch = {}

\* Every role a user holds after this step is one it held lately.
RecordRoles ==
  /\ lately' = [u \in Users |-> lately[u] \cup {RoleOf(u)'}]
  /\ sincePoll' = [u \in Users |-> sincePoll[u] \cup {RoleOf(u)'}]
  /\ held' = [u \in Users |-> held[u] \cup {RoleOf(u)'}]

Init ==
  /\ SharingInit
  /\ head = 1 /\ reverts = {}
  /\ client = [c \in Clients |-> NoRow]
  /\ relayRoom = NoRow
  /\ armed = FALSE /\ leaked = 0
  /\ batch = {}
  /\ restarts = 0
  /\ lately = [u \in Users |-> {RoleOf(u)}]
  /\ sincePoll = [u \in Users |-> {RoleOf(u)}]
  /\ held = [u \in Users |-> {RoleOf(u)}]

------------------------------------------------------------------------------
(* The backend: DocumentStore and Sharing model these handlers in full *)

SaveCommitted ==
  /\ head < MaxRevision
  /\ head' = head + 1
  /\ UNCHANGED <<sharingVars, reverts, relayVars, lately, sincePoll, held>>

\* The revert and its event, in one transaction.
RevertCommitted ==
  /\ head < MaxRevision
  /\ head' = head + 1
  /\ reverts' = reverts \cup {head + 1}
  /\ TakeStamp
  /\ AppendRealtimeEvent(DocumentReverted(head + 1, clock))
  /\ UNCHANGED <<permission, links, handler, relayVars, lately, sincePoll, held>>

SharingStepBeside ==
  /\ SharingNext
  /\ RecordRoles
  /\ UNCHANGED <<docVars, relayVars>>

------------------------------------------------------------------------------
(* Sockets and the room *)

\* getOrCreateRoom: the room, made from the documents row if there is none.  It also
\* clears the timer the room refers to.
ClearTimer == armed' = FALSE /\ UNCHANGED leaked
RoomNow == IF relayRoom = NoRow THEN [seed |-> head, authors |-> {}] ELSE relayRoom

\* removeClient(c), for an error and again for the close that follows it: an empty
\* room gets a new timer, and the handle of one that is still pending is lost.
RemoveClient(c) ==
  IF relayRoom # NoRow /\ Members \subseteq {c}
  THEN /\ armed => leaked < MaxTimers
       /\ armed' = TRUE
       /\ leaked' = IF armed THEN leaked + 1 ELSE leaked
  ELSE UNCHANGED <<armed, leaked>>

\* A socket with a valid session token opens: the role is read from the database,
\* and the socket joins the room.
Connect(c, u) ==
  /\ Idle
  /\ client[c] = NoRow
  /\ RoleOf(u) # "none"
  /\ client' = [client EXCEPT ![c] =
       [state |-> "open", user |-> u, role |-> RoleOf(u)]]
  /\ relayRoom' = RoomNow
  /\ ClearTimer
  /\ UNCHANGED <<sharingVars, docVars, batch, restarts, lately, sincePoll, held>>

\* Mutant: the role is not looked at.
EditByAnyone(c) ==
  /\ Idle
  /\ HasState(c, {"open", "closing"})
  /\ relayRoom' = [RoomNow EXCEPT !.authors = @ \cup {client[c].user}]
  /\ ClearTimer
  /\ UNCHANGED <<sharingVars, docVars, client, batch, restarts, lately, sincePoll, held>>

\* handleSyncMessage of an update: applied and relayed unless the sender is a viewer.
\* ws still delivers messages of a socket that is closing.
EditArrives(c) ==
  /\ Idle
  /\ HasState(c, {"open", "closing"})
  /\ client[c].role # "viewer"
  /\ relayRoom' = [RoomNow EXCEPT !.authors = @ \cup {client[c].user}]
  /\ ClearTimer
  /\ UNCHANGED <<sharingVars, docVars, client, batch, restarts, lately, sincePoll, held>>

SocketFails(c) ==
  /\ Idle
  /\ HasState(c, {"open", "closing"})
  /\ RemoveClient(c)
  /\ client' = [client EXCEPT ![c].state = "failed"]
  /\ UNCHANGED <<sharingVars, docVars, relayRoom, batch, restarts, lately, sincePoll, held>>

\* The close event, whoever closed the socket.
SocketCloses(c) ==
  /\ Idle
  /\ client[c] # NoRow
  /\ RemoveClient(c)
  /\ client' = [client EXCEPT ![c] = NoRow]
  /\ UNCHANGED <<sharingVars, docVars, relayRoom, batch, restarts, lately, sincePoll, held>>

\* Mutant: the timer does not look whether somebody joined again.
DropRoomAlways == relayRoom' = NoRow

\* What a cleanup timer does when it fires.
DropIdleRoom == relayRoom' = IF Members = {} THEN NoRow ELSE relayRoom

CleanupTimerFires ==
  /\ Idle
  /\ armed
  /\ DropIdleRoom
  /\ armed' = FALSE
  /\ UNCHANGED <<sharingVars, docVars, client, leaked, batch, restarts, lately, sincePoll, held>>

\* A timer whose handle was lost fires too; if it drops the room, the timer of that
\* room stays pending and is lost in turn.
LeakedTimerFires ==
  /\ Idle
  /\ leaked > 0
  /\ DropIdleRoom
  /\ armed' = (armed /\ relayRoom' # NoRow)
  /\ leaked' = IF armed /\ relayRoom' = NoRow THEN leaked ELSE leaked - 1
  /\ UNCHANGED <<sharingVars, docVars, client, batch, restarts, lately, sincePoll, held>>

\* The process stops and is started again.
Restart ==
  /\ restarts < MaxRestarts
  /\ restarts' = restarts + 1
  /\ client' = [c \in Clients |-> NoRow]
  /\ relayRoom' = NoRow
  /\ armed' = FALSE /\ leaked' = 0
  /\ batch' = {}
  /\ UNCHANGED <<sharingVars, docVars, lately, sincePoll, held>>

------------------------------------------------------------------------------
(* processRealtimeEvents *)

FinishPoll ==
  /\ lately' = sincePoll
  /\ UNCHANGED sincePoll

\* Nothing to deliver: the poll ends where it began.
PollFindsNothing ==
  /\ Idle
  /\ undelivered = {}
  /\ lately' = [u \in Users |-> {RoleOf(u)}]
  /\ sincePoll' = lately'
  /\ UNCHANGED <<sharingVars, docVars, relayVars, held>>

\* listUndeliveredEvents
PollStarts ==
  /\ Idle
  /\ undelivered # {}
  /\ batch' = undelivered
  /\ sincePoll' = [u \in Users |-> {RoleOf(u)}]
  /\ UNCHANGED <<sharingVars, docVars, client, relayRoom, armed, leaked, restarts, lately, held>>

\* ORDER BY created_at
IsNext(e) == e \in batch /\ \A other \in batch : e.stamp <= other.stamp

\* The sockets of user u that are still in `clients`.
SocketsOf(u) == {c \in Members : client[c].user = u}

\* Mutant: the room is reset only for the sockets that are told.
ApplyRevertToEmptyRoomNot(e) ==
  /\ relayRoom' = IF relayRoom = NoRow \/ Members = {} THEN relayRoom
             ELSE [seed |-> head, authors |-> {}]
  /\ UNCHANGED client

\* document_reverted: the room is set to what the documents row holds by now.
ApplyRevert(e) ==
  /\ relayRoom' = IF relayRoom = NoRow THEN NoRow ELSE [seed |-> head, authors |-> {}]
  /\ UNCHANGED client

\* permission_updated: every socket of the user takes the role of the event.
ApplyRole(e) ==
  /\ client' = [c \in Clients |->
       IF c \in SocketsOf(e.user) THEN [client[c] EXCEPT !.role = e.role] ELSE client[c]]
  /\ UNCHANGED relayRoom

\* Mutant: the user is told, the socket stays.
ApplyRevocationWithoutClose(e) == UNCHANGED <<client, relayRoom>>

\* access_revoked: every socket of the user starts to close; its role stays.
ApplyRevocation(e) ==
  /\ client' = [c \in Clients |->
       IF c \in SocketsOf(e.user) THEN [client[c] EXCEPT !.state = "closing"] ELSE client[c]]
  /\ UNCHANGED relayRoom

\* One event is handled and marked.  A restart between the two is a restart before
\* the first: all that handling changed is lost with the process.
DeliverNext ==
  \E e \in batch :
    /\ IsNext(e)
    /\ \/ e.type = "document_reverted"  /\ ApplyRevert(e)
       \/ e.type = "permission_updated" /\ ApplyRole(e)
       \/ e.type = "access_revoked"     /\ ApplyRevocation(e)
    /\ batch' = batch \ {e}
    /\ undelivered' = undelivered \ {e}
    /\ IF batch = {e} THEN FinishPoll ELSE UNCHANGED <<lately, sincePoll>>
    /\ UNCHANGED <<permission, links, handler, clock, docVars, armed, leaked, restarts, held>>

------------------------------------------------------------------------------

BackendStep == SaveCommitted \/ RevertCommitted \/ SharingStepBeside

SocketStep ==
  \/ \E c \in Clients :
       \/ \E u \in Users : Connect(c, u)
       \/ EditArrives(c)
       \/ SocketFails(c)
       \/ SocketCloses(c)
  \/ CleanupTimerFires
  \/ LeakedTimerFires

PollStep == PollFindsNothing \/ PollStarts \/ DeliverNext

Next == BackendStep \/ SocketStep \/ PollStep \/ Restart

Spec == Init /\ [][Next]_vars

\* setInterval keeps polling, and ws ends a closing socket after its timeout at the
\* latest.  Nothing makes a client connect, edit or leave, or the owner do anything.
Fairness ==
  /\ WF_vars(PollStarts) /\ WF_vars(DeliverNext)
  /\ \A c \in Clients : WF_vars(HasState(c, {"closing"}) /\ SocketCloses(c))

FairSpec == Spec /\ Fairness

------------------------------------------------------------------------------
(* Properties *)

RelayTypeOK ==
  /\ SharingTypeOK
  /\ head \in Nat \ {0} /\ reverts \subseteq 1..head
  /\ client \in [Clients -> Socket \cup {NoRow}]
  /\ relayRoom \in RelayRoom \cup {NoRow}
  /\ armed \in BOOLEAN /\ leaked \in Nat
  /\ batch \subseteq undelivered
  /\ restarts \in Nat
  /\ lately \in [Users -> SUBSET AllRoles]
  /\ sincePoll \in [Users -> SUBSET AllRoles]
  /\ held \in [Users -> SUBSET AllRoles]

Concerns(e, u) == e.type # "document_reverted" /\ e.user = u

\* Once every event about a user was delivered, the role the relay enforces on each
\* open socket of that user is the role in document_permissions: "Permission changes
\* affect collaboration behavior promptly" (03-requirements-engineering.tex:126).  A link
\* cut with its grants tells nobody, and of two handlers that overlap the one whose
\* timestamp is older may commit last; either violates it.
RelayAgreesWhenDelivered ==
  \A c \in Clients :
    HasState(c, {"open"}) /\ (\A e \in undelivered : ~Concerns(e, client[c].user))
      => client[c].role = RoleOf(client[c].user)

\* "Deny further writes from the revoked user" (:320): who edits the shared text could
\* write a poll ago or is being disconnected.
EditsAreAuthorised ==
  [][relayRoom # NoRow /\ relayRoom' # NoRow =>
       \A u \in relayRoom'.authors \ relayRoom.authors :
         \/ lately[u] \cap {"owner", "editor"} # {}
         \/ \E c \in SocketsOf(u) : client[c].state = "closing"]_vars

\* However handlers overlap, whatever links are cut and whenever the relay restarts,
\* nobody is an author of the shared text who never had a role that may write.
AuthorsCouldWrite ==
  relayRoom # NoRow => \A u \in relayRoom.authors : held[u] \cap {"owner", "editor"} # {}

\* A revert whose event was delivered is in the room, also in one that was idle, that
\* was made later or that a restarted relay made anew: its text was set from the
\* reverted revision or a newer one.
RevertsReachTheRoom ==
  \A n \in reverts :
    \/ \E e \in undelivered : e.type = "document_reverted" /\ e.revision = n
    \/ relayRoom = NoRow
    \/ relayRoom.seed >= n

\* Whatever timers were lost, sockets that are still served have the room they edit:
\* the text they share is not made anew under them.
ServedSocketsHaveTheRoom == Members # {} => relayRoom # NoRow /\ ~armed

\* "Active realtime sessions are updated promptly" (:325): a role that stays as it is
\* comes to rule every open socket of the user; with no role left, none stays open.
RolesConverge ==
  \A u \in Users, r \in AllRoles :
    <>[](RoleOf(u) = r) =>
      <>[](\A c \in Clients :
             HasState(c, {"open", "closing"}) /\ client[c].user = u => client[c].role = r)
==============================================================================
