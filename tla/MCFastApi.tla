-------------------------------- MODULE MCFastApi --------------------------------
(***************************************************************************)
(* What FastAPI keeps of one document: its versions (DocumentStore) and    *)
(* its AI job with the owner's panel, a collaborator and two threads       *)
(* (AiPanel), besides one key of the rate limiter (RateLimiter), whose     *)
(* handlers may wait for the write lock while the clock ticks.  The three  *)
(* share no state, so that while one moves the others are as at first.     *)
(***************************************************************************)
EXTENDS DocumentStore, RateLimiter, AiPanel

CONSTANTS alice, bob, c1, c2, q1, q2, j1, w1, w2

MCUsers == {alice, bob}
MCContents == {c1, c2}
MCRequestIds == {q1, q2}
MCJobs == {j1}
MCWorkers == {w1, w2}
MCNoPolicies == {}

FastApiInit == Init /\ LimiterInit /\ PanelInit

FastApiNext ==
  \/ LimiterInit /\ PanelInit /\ Next /\ UNCHANGED <<limiterVars, allVars>>
  \/ Init /\ PanelInit /\ LimiterNext /\ UNCHANGED <<vars, allVars>>
  \/ Init /\ LimiterInit /\ PanelNext /\ UNCHANGED <<vars, limiterVars>>

FastApiSpec ==
  FastApiInit /\ [][FastApiNext]_<<vars, limiterVars, allVars>> /\ PanelFairness
==================================================================================
