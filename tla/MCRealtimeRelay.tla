---------------------------- MODULE MCRealtimeRelay ----------------------------
(* RealtimeRelay with one owner, one collaborator and two sockets: without links  *)
(* and one sharing handler at a time, or with a link and two handlers.            *)
EXTENDS RealtimeRelay, TLC

CONSTANTS alice, bob, w1, w2, k1, k2, l1

MCUsers == {alice, bob}
MCOneWorker == {w1}
MCWorkers == {w1, w2}
MCClients == {k1, k2}
MCNoLinks == {}
MCLinks == {l1}
==============================================================================
