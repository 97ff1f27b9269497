------------------------------ MODULE MCRealtime ------------------------------
(***************************************************************************)
(* The two sides of the realtime service: the relay with an owner, a       *)
(* collaborator and two sockets (RealtimeRelay), and the services of two   *)
(* pages, one of which may be left and lose access (RealtimeClient).  The  *)
(* two share no state, so that while one moves the other is as at first.   *)
(***************************************************************************)
EXTENDS RealtimeRelay, RealtimeClient

CONSTANTS alice, bob, w1, k1, k2, h1, h2

MCUsers == {alice, bob}
MCClients == {k1, k2}
MCOneWorker == {w1}
MCNoLinks == {}
MCHooks == {h1, h2}
MCOneHook == {h1}

\* A page was left, or its user lost access.
Disturbed ==
  access # Hooks \/ \E n \in DOMAIN service : page[service[n].hook].service # n

\* Bound: a third item is an edit, made while no page was left and nobody lost access;
\* none of that comes after it.
ThirdIfCalm ==
  /\ Len(items) = 2 /\ items' # items /\ room.exists = room'.exists =>
       ~Disturbed /\ items'[3] # 0
  /\ Len(items) > 2 => ~\E h \in Hooks : Unmount(h) \/ LoseAccess(h)

RealtimeInit == Init /\ ClientInit

RealtimeNext ==
  \/ ClientInit /\ Next /\ UNCHANGED clientVars
  \/ Init /\ ClientNext /\ ThirdIfCalm /\ UNCHANGED vars

RealtimeSpec ==
  /\ RealtimeInit /\ [][RealtimeNext]_<<vars, clientVars>>
  /\ Fairness /\ ClientFairness
===============================================================================
