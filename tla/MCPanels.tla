-------------------------------- MODULE MCPanels --------------------------------
(***************************************************************************)
(* What is beside the editor: the export panel with its jobs (ExportJobs), *)
(* the sharing panel (PermissionsPanel), and the handlers of the server    *)
(* that write the tables of sharing (Sharing, with one owner, one          *)
(* collaborator and two links, and two workers).  The three models share no *)
(* state, so that while one of them moves the others are as they are at    *)
(* first.                                                                  *)
(***************************************************************************)
EXTENDS ExportJobs, PermissionsPanel, Sharing

CONSTANTS alice, bob, j1, j2, l1, l2, h1, h2, w1, w2

MCUsers == {alice, bob}
MCCollaborators == {bob}
MCLinks == {l1, l2}
MCHandlers == {h1, h2}
MCJobs == {j1, j2}
MCWorkers == {w1, w2}

allVars == <<vars, permissionsVars, sharingVars>>

Exports(A) == PermissionsInit /\ SharingInit /\ A /\ UNCHANGED <<permissionsVars, sharingVars>>
Clicks(A) == Init /\ backend = "fastapi" /\ SharingInit /\ A /\ UNCHANGED <<vars, sharingVars>>
Serves(A) == Init /\ backend = "fastapi" /\ PermissionsInit /\ A /\ UNCHANGED <<vars, permissionsVars>>

PanelsInit == Init /\ PermissionsInit /\ SharingInit

PanelsNext == Exports(Next) \/ Clicks(PermissionsNext) \/ Serves(SharingNext)

PanelsSpec == PanelsInit /\ [][PanelsNext]_allVars /\ ExportFairness
================================================================================
