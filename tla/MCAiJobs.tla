-------------------------------- MODULE MCAiJobs --------------------------------
(***************************************************************************)
(* The AI jobs of a document whose owner may give and deny a collaborator  *)
(* access (AiJobs), and the AI service that runs its own jobs (AiService): *)
(* selections around the boundaries 0 and start = end, missing fields and  *)
(* an unknown action.  The two share no state, so that while one of them   *)
(* moves the other is as it is at first.                                   *)
(***************************************************************************)
EXTENDS AiJobs, AiService, TLC

CONSTANTS alice, bob, j1, j2, w1, s1, s2, c1, c2, hello

MCUsers == {alice, bob}
MCJobs == {j1, j2}
MCWorkers == {w1}

\* Fewer requests a day than there are jobs, and none by the collaborator.
MCPolicies == {[enabled |-> TRUE, allowed |-> {"owner"}, quota |-> 1]}

MCJobIds == {s1, s2}
MCCalls == {c1, c2}
MCAnswers == {hello}
MCInputs ==
  [action : {"rewrite"}, start : {-1, 0, 1, None}, end : {0, 1, 2, None},
   blank : {{}}, language : {FALSE}]
  \cup [action : {"translate", None}, start : {0}, end : {1},
        blank : {{}, {"userId"}}, language : BOOLEAN]

AiSymmetry == Permutations(MCJobs)

BothInit == AiInit /\ Init

BothNext ==
  \/ Init /\ AiNext /\ UNCHANGED vars
  \/ AiInit /\ Next /\ UNCHANGED aiVars

BothSpec == BothInit /\ [][BothNext]_<<aiVars, vars>>
==============================================================================
