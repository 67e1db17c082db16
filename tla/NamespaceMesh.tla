---------------------------- MODULE NamespaceMesh ----------------------------
(***************************************************************************)
(* The namespace of a package in the mesh: its Istio label and the pods    *)
(* that run with a sidecar or without (istio/namespace.ts), the waypoints  *)
(* of its SSO clients and the labels that send pods and services through   *)
(* them (istio/ambient-waypoint.ts). Labels of workloads are written by    *)
(* the watcher and, whenever a workload is created or updated, by the      *)
(* webhooks of the admission pods, from the package as they know it.       *)
(*                                                                         *)
(* A spec is [mode, sso, ports, probes]; sso is the sequence of clients    *)
(* with an authservice selector, a selector the workloads it matches.      *)
(* There is one package per namespace.                                     *)
(***************************************************************************)
EXTENDS Naturals, Sequences, FiniteSets

CONSTANTS Package, Client, None,
          Pod, Service,  \* workloads
          In             \* workload -> package in whose namespace it is

ASSUME WorkloadAssumption == Pod \cap Service = {} /\ In \in [Pod \cup Service -> Package]

ASSUME NoneAssumption == None \notin Client \cup {"none", "ambient", "sidecar"}

VARIABLES namespace,  \* package -> [label, original, pkg]
          workload,   \* pod or service -> [leaving, sidecar, waypoint]
          gateways,   \* package -> client -> generation of its waypoint, 0 without one
          webhook     \* package -> spec the admission pods know, None without one

Workload == Pod \cup Service
WorkloadsOf(k) == {w \in Workload : In[w] = k}
IstioState == {"none", "ambient", "sidecar"}

----------------------------------------------------------------------------
(* istio/namespace.ts. The state before the first package is remembered in *)
(* an annotation, which goes with the last package.                        *)
Annotated(ns, mode) ==
  [label |-> mode, original |-> IF ns.original = None THEN ns.label ELSE ns.original, pkg |-> TRUE]

Restored(ns) ==
  [label |-> IF ns.original = None THEN "none" ELSE ns.original, original |-> None, pkg |-> FALSE]

(* Mutant: leaving the sidecar mode restarts nothing.                      *)
ShouldRestartPodsOnEnable(target, current) == target = "sidecar" /\ current # "sidecar"

ShouldRestartPods(target, current) ==
  IF target = "sidecar" THEN current # "sidecar" ELSE current = "sidecar"

PodsToKill(k, wantSidecar) ==
  {p \in Pod \cap WorkloadsOf(k) : ~workload[p].leaving /\ workload[p].sidecar # wantSidecar}

----------------------------------------------------------------------------
(* istio/ambient-waypoint.ts. The first client that matches gives the      *)
(* label; a workload no client matches keeps the label it has.             *)
MatchingClient(spec, w) ==
  IF spec = None \/ spec.mode # "ambient" THEN None
  ELSE LET matching == {i \in DOMAIN spec.sso : w \in spec.sso[i].selects}
       IN  IF matching = {} THEN None
           ELSE spec.sso[CHOOSE i \in matching : \A j \in matching : i <= j].client

Labelled(w, label) ==
  LET client == MatchingClient(webhook[In[w]], w) IN IF client = None THEN label ELSE client

PatchLabel(w, label) == workload' = [workload EXCEPT ![w].waypoint = Labelled(w, label)]

(* The pod is created anew by its controller: Istio's webhook looks at the *)
(* namespace, the operator's at the package.                               *)
NewPod(p) ==
  [leaving |-> FALSE, sidecar |-> namespace[In[p]].label = "sidecar", waypoint |-> Labelled(p, None)]

CreateWaypoint(k, client, gen) == gateways' = [gateways EXCEPT ![k][client] = gen]

PurgeWaypoints(k, gen) ==
  gateways' = [gateways EXCEPT ![k] = [c \in Client |-> IF @[c] = gen THEN gen ELSE 0]]

(* purgeAuthserviceClients: the clients whose labels are taken away, by    *)
(* the clients and the mode that the status lists.                         *)
(* Mutant: a client that stays keeps its labels, whatever changed.         *)
ClientsRemoved(listed, sso, modeChanged) ==
  {old.client : old \in {l \in listed : \A i \in DOMAIN sso : sso[i].client # l.client}}

ClientsToClean(listed, sso, modeChanged) ==
  LET new == {sso[i] : i \in DOMAIN sso}
      kept == {n.client : n \in new}
  IN  {old.client : old \in {l \in listed : l.client \notin kept \/ modeChanged \/ l \notin new}}

HasLabelOf(k, clients) ==
  {w \in WorkloadsOf(k) : workload[w].waypoint \in clients /\ ~workload[w].leaving}
=============================================================================
