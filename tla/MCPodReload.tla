----------------------------- MODULE MCPodReload -----------------------------
(* A Deployment with two pods, a Job's pod, a gateway and a pod of its own, *)
(* two labelled objects with a common consumer.                             *)
EXTENDS PodReload, TLC

CONSTANTS deploy, job, p1, p2, p3, p4

MCControllerKind == deploy :> "Deployment" @@ job :> "Job"
MCOwner == p1 :> deploy @@ p2 :> deploy @@ p3 :> job @@ p4 :> None
MCUses == "cert" :> {p1, p2, p4} @@ "conf" :> {p1, p3} @@ "istio" :> {p2}
MCSelectors == {None, Invalid, {p4}}
=============================================================================
