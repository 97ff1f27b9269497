-------------------------------- MODULE MCAiPanel --------------------------------
(* AiPanel with two runs by the owner.                                           *)
EXTENDS AiPanel

CONSTANTS alice, j1, j2, w1

MCUsers == {alice}
MCJobs == {j1, j2}
MCWorkers == {w1}
MCNoPolicies == {}
==================================================================================
