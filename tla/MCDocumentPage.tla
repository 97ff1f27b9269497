----------------------------- MODULE MCDocumentPage -----------------------------
(***************************************************************************)
(* Two pages of one document, one of which may revert and the other apply  *)
(* suggestions (DocumentPage), and an owner, a collaborator and an         *)
(* administrator on one document of the Express backend (ExpressAi).  The  *)
(* two share no state, so that while one moves the other is as at first.   *)
(***************************************************************************)
EXTENDS DocumentPage, ExpressAi

CONSTANTS p1, p2, alice, bob, root, c1, c2, q1, q2, j1, j2

MCPages == {p1, p2}
MCReverters == {p1}
MCAppliers == {p2}

MCUsers == {alice, bob, root}
MCAdmins == {root}
MCContents == {c1, c2}
MCRequestIds == {q1, q2}
MCJobs == {j1, j2}
MCPolicies == {[aiEnabled |-> TRUE, allowedRolesForAI |-> {"owner"}, dailyQuota |-> 1]}

BothInit == PageInit /\ Init

BothNext ==
  \/ Init /\ PageNext /\ UNCHANGED vars
  \/ PageInit /\ Next /\ UNCHANGED pageVars

\* The pages are fair unless Express is what moves: their first load may wait for ever then.
BothSpec ==
  /\ BothInit /\ [][BothNext]_<<pageVars, vars>>
  /\ Fairness
  /\ []<>~Init \/ PageFairness
=================================================================================
