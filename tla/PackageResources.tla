-------------------------- MODULE PackageResources --------------------------
(***************************************************************************)
(* What a package holds outside its own manifests, from reconciliation to  *)
(* finalization: the mesh state and waypoints of its namespace             *)
(* (NamespaceMesh) and its entries in objects all packages share           *)
(* (SharedWrites). The steps are those of reconcilePackageFlow and         *)
(* packageFinalizer that touch them, in their order, one per request.      *)
(*                                                                         *)
(* How a reconciliation starts is PackageLifecycle's subject; here one     *)
(* works from the latest version, and a package that waits for its first   *)
(* look at an edit or for its turn after a restart is not deleted then.    *)
(***************************************************************************)
EXTENDS NamespaceMesh

CONSTANTS Port, Probe,
          Specs,        \* package -> specs the webhook admits
          InitialSpec,  \* package -> spec
          InitialStates,  \* package -> states of the mesh its namespace may have had
          MaxChanges,   \* bound: package -> edits and deletions
          MaxFaults     \* bound: failing requests and restarts

Mode == {"ambient", "sidecar"}
SsoClient == [client : Client, selects : SUBSET Workload]
PackageSpec == [mode : Mode, sso : Seq(SsoClient), ports : SUBSET Port, probes : SUBSET Probe]

ASSUME SpecsAssumption ==
  /\ InitialSpec \in [Package -> PackageSpec] /\ None \notin PackageSpec
  /\ \A k \in Package : Specs[k] \subseteq PackageSpec /\ InitialStates[k] \subseteq IstioState

ASSUME BoundsAssumption == MaxChanges \in [Package -> Nat] /\ MaxFaults \in Nat

VARIABLES object,   \* package -> the custom resource
          due,      \* packages with an event still to reconcile
          flow,     \* package -> its reconciliation or finalization
          listeners, gateway, secret, gatewayMutex, secretMutex,
          before,   \* history: package -> mesh state before the package
          changes, faults,
          trouble   \* history: package -> what went wrong

INSTANCE SharedWrites

mesh == <<namespace, workload, gateways, webhook>>
gatewayVars == <<listeners, gateway, gatewayMutex>>
secretVars == <<secret, secretMutex>>
bounds == <<before, changes, faults>>
vars == <<mesh, object, due, flow, gatewayVars, secretVars, bounds, trouble>>

Idle == [job |-> "none", at |-> "idle", snap |-> None, next |-> 0, todo |-> {}, content |-> {}]

Init ==
  /\ before \in [Package -> IstioState] /\ \A k \in Package : before[k] \in InitialStates[k]
  /\ namespace = [k \in Package |-> [label |-> before[k], original |-> None, pkg |-> FALSE]]
  /\ workload = [w \in Workload |-> [leaving |-> FALSE, sidecar |-> w \in Pod /\ before[In[w]] = "sidecar",
                                     waypoint |-> None]]
  /\ gateways = [k \in Package |-> [c \in Client |-> 0]]
  /\ webhook = [k \in Package |-> None]
  /\ object = [k \in Package |-> [exists |-> TRUE, deleted |-> FALSE, gen |-> 1, spec |-> InitialSpec[k],
                                  phase |-> "Pending", clients |-> {}, mode |-> "ambient"]]
  /\ due = Package /\ flow = [k \in Package |-> Idle]
  /\ listeners = [k \in Package |-> {}] /\ gateway = {} /\ secret = {}
  /\ gatewayMutex = <<>> /\ secretMutex = <<>>
  /\ changes = [k \in Package |-> 0] /\ faults = 0 /\ trouble = [k \in Package |-> {}]

----------------------------------------------------------------------------
(* Users, and the cluster.                                                 *)
Edit(k, spec) ==
  /\ changes[k] < MaxChanges[k] /\ object[k].exists /\ ~object[k].deleted /\ spec # object[k].spec
  /\ object' = [object EXCEPT ![k].spec = spec, ![k].gen = @ + 1]
  /\ due' = due \cup {k} /\ changes' = [changes EXCEPT ![k] = @ + 1]
  /\ UNCHANGED <<mesh, flow, gatewayVars, secretVars, before, faults, trouble>>

Delete(k) ==
  /\ changes[k] < MaxChanges[k] /\ object[k].exists /\ ~object[k].deleted
  /\ k \in due => object[k].phase = "Retrying"
  /\ object' = [object EXCEPT ![k].deleted = TRUE, ![k].gen = @ + 1]
  /\ changes' = [changes EXCEPT ![k] = @ + 1]
  /\ UNCHANGED <<mesh, due, flow, gatewayVars, secretVars, before, faults, trouble>>

----------------------------------------------------------------------------
Goto(k, at) == flow' = [flow EXCEPT ![k].at = at]
At(k, job, at) == flow[k].job \in job /\ flow[k].at = at
Reconcile == {"reconcile"}
Finalize == {"finalize"}
Either == Reconcile \cup Finalize
Troubled(k, what) == trouble' = [trouble EXCEPT ![k] = @ \cup what]
SnapSpec(k) == flow[k].snap.spec
LatestSpec(k) == IF object[k].exists /\ ~object[k].deleted THEN object[k].spec ELSE None
Lag(k) == IF webhook[k] # LatestSpec(k) THEN {"lag"} ELSE {}

(* startPackageWatch of the admission pods.                                *)
Learn(k) ==
  /\ webhook[k] # LatestSpec(k) /\ WorkloadsOf(k) # {}
  /\ webhook' = [webhook EXCEPT ![k] = LatestSpec(k)]
  /\ UNCHANGED <<namespace, workload, gateways, object, due, flow, gatewayVars, secretVars, bounds, trouble>>

(* What was to be done with the pod that is gone finds nothing.            *)
Replace(p) ==
  /\ workload[p].leaving
  /\ workload' = [workload EXCEPT ![p] = NewPod(p)]
  /\ flow' = [flow EXCEPT ![In[p]].todo = @ \ {p}]
  /\ Troubled(In[p], Lag(In[p]))
  /\ UNCHANGED <<namespace, gateways, webhook, object, due, gatewayVars, secretVars, bounds>>

StartReconcile(k) ==
  /\ flow[k] = Idle /\ k \in due /\ object[k].exists
  /\ object' = [object EXCEPT ![k].phase = "Pending"]
  /\ due' = due \ {k}
  /\ flow' = [flow EXCEPT ![k] = [Idle EXCEPT !.job = "reconcile", !.at = "get", !.snap = object[k]]]
  /\ UNCHANGED <<mesh, gatewayVars, secretVars, bounds, trouble>>

StartFinalize(k) ==
  /\ flow[k] = Idle /\ k \notin due
  /\ object[k].exists /\ object[k].deleted /\ object[k].phase \in {"Ready", "Failed"}
  /\ object' = [object EXCEPT ![k].phase = "Removing"]
  /\ flow' = [flow EXCEPT ![k] = [Idle EXCEPT !.job = "finalize", !.at = "get", !.snap = object[k]]]
  /\ UNCHANGED <<mesh, due, gatewayVars, secretVars, bounds, trouble>>

(* enableIstio and cleanupNamespace. The pods are listed after the label   *)
(* is set, so that one replaced meanwhile is none to kill: they are taken  *)
(* at the same time here. Nobody else writes the labels of the namespace.  *)
Target(k) ==
  IF flow[k].job = "reconcile" THEN Annotated(namespace[k], SnapSpec(k).mode) ELSE Restored(namespace[k])

ApplyNamespace(k) ==
  /\ At(k, Either, "get")
  /\ namespace' = [namespace EXCEPT ![k] = Target(k)]
  /\ LET restart == ShouldRestartPods(Target(k).label, namespace[k].label)
     IN  flow' = [flow EXCEPT ![k].at = "kill",
                              ![k].todo = IF restart THEN PodsToKill(k, Target(k).label = "sidecar") ELSE {}]
  /\ UNCHANGED <<workload, gateways, webhook, object, due, gatewayVars, secretVars, bounds, trouble>>

KillPod(k, p) ==
  /\ At(k, Either, "kill") /\ p \in flow[k].todo
  /\ workload' = [workload EXCEPT ![p].leaving = TRUE]
  /\ flow' = [flow EXCEPT ![k].todo = @ \ {p}]
  /\ UNCHANGED <<namespace, gateways, webhook, object, due, gatewayVars, secretVars, bounds, trouble>>

(* authservice: a waypoint for each client, and the labels that lead to it *)
(* for whatever its selector matches.                                      *)
ClientsLeft(k) == flow[k].job = "reconcile" /\ SnapSpec(k).mode = "ambient" /\ flow[k].next < Len(SnapSpec(k).sso)

SetupAmbientWaypoint(k) ==
  /\ flow[k].at \in {"kill", "label"} /\ flow[k].todo = {} /\ ClientsLeft(k)
  /\ LET new == SnapSpec(k).sso[flow[k].next + 1]
     IN  /\ CreateWaypoint(k, new.client, flow[k].snap.gen)
         /\ flow' = [flow EXCEPT ![k].next = @ + 1, ![k].at = "label", ![k].todo = new.selects \cap WorkloadsOf(k)]
  /\ UNCHANGED <<namespace, workload, webhook, object, due, gatewayVars, secretVars, bounds, trouble>>

LabelResource(k, w) ==
  /\ At(k, Reconcile, "label") /\ w \in flow[k].todo
  /\ PatchLabel(w, SnapSpec(k).sso[flow[k].next].client)
  /\ flow' = [flow EXCEPT ![k].todo = @ \ {w}]
  /\ Troubled(k, Lag(k))
  /\ UNCHANGED <<namespace, gateways, webhook, object, due, gatewayVars, secretVars, bounds>>

(* A label that neither the client which is to have the workload nor the   *)
(* clients, selectors and mode of the status account for.                  *)
Hidden(k, snap, spec) ==
  \E w \in WorkloadsOf(k) :
    workload[w].waypoint \notin {None, MatchingClient(spec, w)} \cup
      {l.client : l \in {c \in snap.clients : snap.mode = "ambient" /\ w \in c.selects}}

(* purgeAuthserviceClients, by what the status of the snapshot lists; the  *)
(* clients are treated together.                                           *)
PurgeClients(k) ==
  /\ flow[k].at \in {"kill", "label"} /\ flow[k].todo = {} /\ ~ClientsLeft(k)
  /\ LET snap == flow[k].snap
         reconciles == flow[k].job = "reconcile"
         clean == ClientsToClean(snap.clients, IF reconciles THEN snap.spec.sso ELSE <<>>,
                                 reconciles /\ snap.mode # snap.spec.mode)
     IN  /\ flow' = [flow EXCEPT ![k].at = "clean", ![k].todo = HasLabelOf(k, clean)]
         /\ Troubled(k, IF Hidden(k, snap, IF reconciles THEN snap.spec ELSE None) THEN {"status"} ELSE {})
  /\ UNCHANGED <<mesh, object, due, gatewayVars, secretVars, bounds>>

UnlabelResource(k, w) ==
  /\ At(k, Either, "clean") /\ w \in flow[k].todo
  /\ PatchLabel(w, None)
  /\ flow' = [flow EXCEPT ![k].todo = @ \ {w}]
  /\ Troubled(k, Lag(k))
  /\ UNCHANGED <<namespace, gateways, webhook, object, due, gatewayVars, secretVars, bounds>>

PurgeOrphans(k) ==
  /\ At(k, Either, "clean") /\ flow[k].todo = {}
  /\ IF flow[k].job = "reconcile"
     THEN PurgeWaypoints(k, flow[k].snap.gen) /\ Goto(k, "gateway")
     ELSE UNCHANGED gateways /\ Goto(k, "probe")
  /\ UNCHANGED <<namespace, workload, webhook, object, due, gatewayVars, secretVars, bounds, trouble>>

----------------------------------------------------------------------------
(* envoyGatewayResources. The finalizer's part is skipped for a package    *)
(* whose spec has no UDP entries. Mutant: it leaves the package in the map. *)
SetListenersAlways(k) ==
  /\ At(k, Either, "gateway")
  /\ UpdateDefaultListenerMap(k, SnapSpec(k).ports)
  /\ gatewayMutex' = Acquire(gatewayMutex, k)
  /\ Goto(k, "build")
  /\ UNCHANGED <<mesh, object, due, gateway, secretVars, bounds, trouble>>

SetListeners(k) ==
  /\ At(k, Either, "gateway")
  /\ UpdateDefaultListenerMap(k, IF flow[k].job = "reconcile" THEN SnapSpec(k).ports ELSE {})
  /\ gatewayMutex' = Acquire(gatewayMutex, k)
  /\ Goto(k, "build")
  /\ UNCHANGED <<mesh, object, due, gateway, secretVars, bounds, trouble>>

BuildGateway(k) ==
  /\ At(k, Either, "build") /\ Holds(gatewayMutex, k)
  /\ flow' = [flow EXCEPT ![k].at = "write", ![k].content = DefaultListenerEntries]
  /\ UNCHANGED <<mesh, object, due, gatewayVars, secretVars, bounds, trouble>>

WriteGateway(k) ==
  /\ At(k, Either, "write")
  /\ gateway' = flow[k].content
  /\ gatewayMutex' = Release(gatewayMutex, k)
  /\ Goto(k, IF flow[k].job = "reconcile" THEN "probe" ELSE "gone")
  /\ UNCHANGED <<mesh, object, due, listeners, secretVars, bounds, trouble>>

(* updateBlackboxConfig. The mutex serves its callers in their order; any  *)
(* order will do here. Mutant: without the mutex.                          *)
ReadSecretUnlocked(k) ==
  /\ At(k, Either, "probe")
  /\ secretMutex' = Acquire(secretMutex, k)
  /\ flow' = [flow EXCEPT ![k].at = "save", ![k].content = secret]
  /\ UNCHANGED <<mesh, object, due, gatewayVars, secret, bounds, trouble>>

ReadSecret(k) ==
  /\ At(k, Either, "probe") /\ secretMutex = <<>>
  /\ secretMutex' = Acquire(secretMutex, k)
  /\ flow' = [flow EXCEPT ![k].at = "save", ![k].content = secret]
  /\ UNCHANGED <<mesh, object, due, gatewayVars, secret, bounds, trouble>>

AfterSecret(k) ==
  IF flow[k].job = "reconcile" THEN "ready" ELSE IF SnapSpec(k).ports # {} THEN "gateway" ELSE "gone"

WriteSecret(k) ==
  /\ At(k, Either, "save")
  /\ secret' = UpdatedModules(flow[k].content, k, IF flow[k].job = "reconcile" THEN SnapSpec(k).probes ELSE {})
  /\ secretMutex' = Release(secretMutex, k)
  /\ Goto(k, AfterSecret(k))
  /\ UNCHANGED <<mesh, object, due, gatewayVars, bounds, trouble>>

(* updateStatus keeps the clients that the snapshot lists, when there are  *)
(* any.                                                                    *)
SetReady(k) ==
  /\ At(k, Reconcile, "ready")
  /\ LET sso == {SnapSpec(k).sso[i] : i \in DOMAIN SnapSpec(k).sso}
         listed == flow[k].snap.clients
     IN  /\ object' = [object EXCEPT ![k].phase = "Ready", ![k].mode = SnapSpec(k).mode,
                                     ![k].clients = IF listed # {} THEN listed ELSE sso]
  /\ flow' = [flow EXCEPT ![k] = Idle]
  /\ UNCHANGED <<mesh, due, gatewayVars, secretVars, bounds, trouble>>

(* Owner references take the waypoints along.                              *)
Gone(k) ==
  /\ At(k, Finalize, "gone")
  /\ object' = [object EXCEPT ![k].exists = FALSE]
  /\ gateways' = [gateways EXCEPT ![k] = [c \in Client |-> 0]]
  /\ flow' = [flow EXCEPT ![k] = Idle]
  /\ UNCHANGED <<namespace, workload, webhook, due, gatewayVars, secretVars, bounds, trouble>>

----------------------------------------------------------------------------
(* A request fails. A mutex is released in any case. The reconciliation is *)
(* tried again or given up; the finalizer repeats the block it is in or    *)
(* gives up for good. A label that cannot be patched is left as it is.     *)
Waits == {"get", "kill", "label", "gateway", "write", "probe", "save"}
Interrupted(k) == (IF flow[k].at = "kill" /\ flow[k].todo # {} THEN {"interrupted"} ELSE {})
                  \cup (IF namespace[k].original = None THEN {"early"} ELSE {})

Block(f) == CASE f.at = "kill" /\ f.todo # {} -> "get"
              [] f.at = "write" -> "gateway"
              [] f.at = "save" -> "probe"
              [] OTHER -> f.at

GiveUp(k, phase) ==
  /\ object' = [object EXCEPT ![k].phase = phase]
  /\ flow' = [flow EXCEPT ![k] = Idle]
  /\ due' = IF phase = "Retrying" THEN due \cup {k} ELSE due

Fail(k) ==
  /\ faults < MaxFaults
  /\ flow[k].at \in Waits
  /\ gatewayMutex' = IF flow[k].at = "write" THEN Release(gatewayMutex, k) ELSE gatewayMutex
  /\ secretMutex' = IF flow[k].at = "save" THEN Release(secretMutex, k) ELSE secretMutex
  /\ IF flow[k].job = "reconcile" THEN \E phase \in {"Retrying", "Failed"} : GiveUp(k, phase)
     ELSE \/ GiveUp(k, "RemovalFailed")
          \/ flow' = [flow EXCEPT ![k] = [@ EXCEPT !.at = Block(flow[k]), !.todo = {}]] /\ UNCHANGED <<object, due>>
  /\ Troubled(k, {"request"} \cup Interrupted(k)) /\ faults' = faults + 1
  /\ UNCHANGED <<mesh, listeners, gateway, secret, before, changes>>

FailPatch(k, w) ==
  /\ faults < MaxFaults
  /\ flow[k].at \in {"label", "clean"} /\ w \in flow[k].todo
  /\ flow' = [flow EXCEPT ![k].todo = @ \ {w}]
  /\ Troubled(k, {"patch"}) /\ faults' = faults + 1
  /\ UNCHANGED <<mesh, object, due, gatewayVars, secretVars, before, changes>>

Restart ==
  /\ faults < MaxFaults
  /\ ForgetWrites
  /\ flow' = [k \in Package |-> Idle]
  /\ due' = {k \in Package : object[k].exists}
  /\ trouble' = [k \in Package |-> trouble[k] \cup {"restart"} \cup Interrupted(k)]
  /\ faults' = faults + 1
  /\ UNCHANGED <<mesh, object, gateway, secret, before, changes>>

----------------------------------------------------------------------------
Step(k) ==
  \/ StartReconcile(k) \/ StartFinalize(k) \/ ApplyNamespace(k)
  \/ SetupAmbientWaypoint(k) \/ PurgeClients(k) \/ PurgeOrphans(k)
  \/ SetListeners(k) \/ BuildGateway(k) \/ WriteGateway(k)
  \/ ReadSecret(k) \/ WriteSecret(k) \/ SetReady(k) \/ Gone(k)
  \/ \E w \in WorkloadsOf(k) : KillPod(k, w) \/ LabelResource(k, w) \/ UnlabelResource(k, w)

Next ==
  \/ \E k \in Package :
       \/ Step(k) \/ Fail(k) \/ Delete(k) \/ Learn(k)
       \/ \E spec \in Specs[k] : Edit(k, spec)
       \/ \E w \in WorkloadsOf(k) : FailPatch(k, w)
  \/ \E p \in Pod : Replace(p)
  \/ Restart

Spec == Init /\ [][Next]_vars

(* Requests are answered and locks handed on.                              *)
FairSpec == Spec /\ \A k \in Package : WF_vars(Step(k))

----------------------------------------------------------------------------
NamespaceState == [label : IstioState, original : IstioState \cup {None}, pkg : BOOLEAN]
WorkloadState == [leaving : BOOLEAN, sidecar : BOOLEAN, waypoint : Client \cup {None}]
Phase == {"Pending", "Ready", "Retrying", "Failed", "Removing", "RemovalFailed"}
ObjectState == [exists : BOOLEAN, deleted : BOOLEAN, gen : Nat \ {0}, spec : PackageSpec,
                phase : Phase, clients : SUBSET SsoClient, mode : Mode]
Stage == {"idle", "get", "kill", "label", "clean", "gateway", "build", "write", "probe", "save", "ready", "gone"}
Content == (SUBSET (Package \X Port)) \cup (SUBSET (Package \X Probe))
Flow == [job : {"none", "reconcile", "finalize"}, at : Stage, snap : ObjectState \cup {None},
         next : Nat, todo : SUBSET Workload, content : Content]

(* What the steps of a package may rely on: a job is idle or has a         *)
(* snapshot of an object that still exists, and works on its own           *)
(* workloads, clients and entries.                                         *)
FlowOK(k) ==
  /\ flow[k].job = "none" => flow[k] = Idle
  /\ flow[k].job # "none" => flow[k].snap \in ObjectState /\ flow[k].at # "idle" /\ object[k].exists
  /\ flow[k].job = "reconcile" => flow[k].at # "gone"
  /\ flow[k].job = "finalize" => flow[k].at \notin {"label", "ready"} /\ object[k].deleted
  /\ ~object[k].exists => object[k].deleted
  /\ flow[k].todo # {} => flow[k].at \in {"kill", "label", "clean"} /\ flow[k].todo \subseteq WorkloadsOf(k)
  /\ flow[k].at \in {"get", "kill"} => flow[k].next = 0
  /\ flow[k].at = "label" => /\ SnapSpec(k).mode = "ambient" /\ flow[k].next \in 1..Len(SnapSpec(k).sso)
                             /\ flow[k].todo \subseteq SnapSpec(k).sso[flow[k].next].selects
  /\ flow[k].at = "write" => flow[k].content \subseteq Package \X Port
  /\ flow[k].at = "save" => flow[k].content \subseteq Package \X Probe

TypeOK ==
  /\ namespace \in [Package -> NamespaceState] /\ workload \in [Workload -> WorkloadState]
  /\ gateways \in [Package -> [Client -> Nat]] /\ webhook \in [Package -> PackageSpec \cup {None}]
  /\ object \in [Package -> ObjectState] /\ due \subseteq Package /\ flow \in [Package -> Flow]
  /\ listeners \in [Package -> SUBSET Port] /\ gateway \subseteq Package \X Port /\ secret \subseteq Package \X Probe
  /\ gatewayMutex \in Seq(Package) /\ secretMutex \in Seq(Package)
  /\ before \in [Package -> IstioState] /\ changes \in [Package -> Nat] /\ faults \in Nat
  /\ trouble \in [Package -> SUBSET {"lag", "patch", "status", "request", "restart", "interrupted", "early"}]
  /\ \A k \in Package : FlowOK(k)

Settled(k) == object[k].exists /\ object[k].phase = "Ready" /\ k \notin due /\ flow[k] = Idle

(* The namespace of a reconciled package is in the mode it asks for, and   *)
(* every pod in it runs with or without a sidecar accordingly, unless the  *)
(* operator was interrupted between the label and the last pod: the next   *)
(* attempt finds the label in place and restarts nothing.                  *)
MeshFollows ==
  \A k \in Package : Settled(k) /\ "interrupted" \notin trouble[k] =>
    LET mode == object[k].spec.mode
    IN  /\ namespace[k].label = mode
        /\ \A p \in Pod \cap WorkloadsOf(k) : ~workload[p].leaving =>
             workload[p].sidecar = (mode = "sidecar")

(* The workloads of a reconciled package go through the waypoint of the    *)
(* client that selects them, which exists, and through no other: however   *)
(* selectors and modes were edited and pods replaced meanwhile. Not        *)
(* covered: admission pods that did not know the package yet, a label that *)
(* could not be patched, and what a status that lists the wrong clients    *)
(* hides (lifecycle of updateStatus).                                      *)
LabelsExact ==
  \A k \in Package : Settled(k) /\ ~object[k].deleted /\ trouble[k] \cap {"lag", "patch", "status"} = {} =>
    \A w \in WorkloadsOf(k) : ~workload[w].leaving =>
      LET client == MatchingClient(object[k].spec, w)
      IN  /\ workload[w].waypoint = client
          /\ client # None => gateways[k][client] > 0

(* A reconciled package has its listeners and its modules, and no others,  *)
(* at all times: while others write the same objects, fail, or start from  *)
(* an empty map after a restart.                                           *)
ReadyIsServed ==
  \A k \in Package : Settled(k) =>
    /\ {e \in gateway : e[1] = k} = Entries(k, object[k].spec.ports)
    /\ {m \in secret : m[1] = k} = Entries(k, object[k].spec.probes)

(* A package that is gone leaves nothing behind: the namespace is as it    *)
(* was, no workload goes through a waypoint that went with the package, no *)
(* listener and no module stays.                                           *)
NothingRemains ==
  \A k \in Package : ~object[k].exists =>
    /\ namespace[k].original = None /\ ~namespace[k].pkg
    /\ "early" \notin trouble[k] => namespace[k].label = before[k]
    /\ trouble[k] \cap {"lag", "patch", "status"} = {} =>
         \A w \in WorkloadsOf(k) : ~workload[w].leaving => workload[w].waypoint = None
    /\ "request" \notin trouble[k] => {e \in gateway : e[1] = k} = {}
    /\ {m \in secret : m[1] = k} = {}

(* The finalizer "ensures that Istio Injection is restored to the original *)
(* state".                                                                 *)
StateRestored == \A k \in Package : ~object[k].exists => namespace[k].label = before[k]

(* A request that fails holds nobody up for ever: every package is         *)
(* reconciled, given up or gone in the end.                                *)
EventuallySettled ==
  \A k \in Package : <>[](Settled(k) \/ ~object[k].exists \/ object[k].phase \in {"Failed", "RemovalFailed"})
=============================================================================
