-------------------------- MODULE MCExperimentMenu --------------------------
(***************************************************************************)
(* Two servers.  Experiment e1 is deployed on both, e2 on the first only.  *)
(* On the first a build makes a proxy and two senders, on the second a     *)
(* receiver and a sender: a sender that fails while its agent is stopping  *)
(* senders can leave another one behind, and one command can report two    *)
(* failures.                                                               *)
(***************************************************************************)
EXTENDS ExperimentMenu

CONSTANTS e1, e2, rcv, prx, snd, snd2

MCExperiments == {e1, e2}
MCReceivers == {rcv}
MCProxies == {prx}
MCSenders == {snd, snd2}
MCBuilds == (0 :> {{prx, snd, snd2}}) @@ (1 :> {{rcv, snd}})
MCDeployed == [e \in MCExperiments |-> IF e = e1 THEN {0, 1} ELSE {0}]
MCReasonRest == {0}
MCTestProxy == -1

MCLists == {<<e1>>, <<e2>>}
MCScenarioList == <<0>>
MCRerun == <<[exp |-> e2, scens |-> <<1, 0>>]>>
MCNoRerun == <<>>
=============================================================================
