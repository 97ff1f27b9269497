--------------------------- MODULE MCRealtimeClient ---------------------------
(* RealtimeClient with two pages that stay and keep access.                       *)
EXTENDS RealtimeClient

CONSTANTS h1, h2

MCHooks == {h1, h2}
MCNoHooks == {}
===============================================================================
