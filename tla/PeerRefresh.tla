----------------------------- MODULE PeerRefresh -----------------------------
(***************************************************************************)
(* Policies whose peers follow the cluster: the addresses of the nodes     *)
(* (network/generators/kubeNodes.ts) and of the API server (kubeAPI.ts).   *)
(* Every change of a node, of the API server's Service or of its           *)
(* EndpointSlice starts a handler that brings the cache up to date and     *)
(* then lists and rewrites the generated policies, while the package that  *)
(* owns them is being reconciled. Handlers of one object run one after     *)
(* another, those of different objects overlap at every await.             *)
(*                                                                         *)
(* The two sources of addresses have no state in common; a behaviour is    *)
(* about one of them, chosen at the start, and the policies with its peers. *)
(***************************************************************************)
EXTENDS Naturals, Sequences, FiniteSets

CONSTANTS Node, IP, None, Anywhere,
          InitialNodes, InitialService, InitialSlice,
          StaticApiCIDR,  \* UDSConfig.kubeApiCIDR, or None
          MaxChanges      \* bound: changes of nodes, Service and EndpointSlice, new
                          \* generations, failing requests and restarts together

(* An address is not None, nor is a policy; a node is not one of the API     *)
(* server's objects.                                                         *)
ASSUME PeersAssumption ==
  /\ InitialNodes \in [Node -> IP] /\ InitialService \in IP /\ InitialSlice \in SUBSET IP
  /\ None \notin IP /\ None # Anywhere
  /\ None \notin [gen : Nat, peers : SUBSET (IP \cup {Anywhere, StaticApiCIDR})]
  /\ Node \cap {"service", "slice"} = {}
  /\ MaxChanges \in Nat

Source == {"nodes", "api"}
Kind == {"np", "ap"}
ApiHandler == {"service", "slice"}
Handler == Node \cup ApiHandler

VARIABLES source,     \* whose addresses the policies have
          nodes,      \* node -> its internal address, None without the node
          service, slice,  \* addresses of the API server's objects
          queue,      \* handler -> snapshots of its object still to handle
          nodeSet, nodeNameToIP, apiServerPeers, crdSeen,  \* the operator's memory
          task,       \* handler -> what it is doing
          policy,     \* kind -> the generated policy, None without it
          pkg,        \* the reconciliation of the package
          crd,        \* the AuthorizationPolicy CRD is installed
          changes,    \* how many of MaxChanges happened
          failed,          \* history: a request failed
          overwritten,     \* history: a refresh wrote over a newer generation
          overlapped       \* history: handlers of the API server overlapped, or the
                           \* package applied addresses older than the cache

cluster == <<source, nodes, service, slice>>
memory == <<nodeSet, nodeNameToIP, apiServerPeers, crdSeen>>
history == <<failed, overwritten, overlapped>>
peerVars == <<source, nodes, service, slice, queue, nodeSet, nodeNameToIP, apiServerPeers, crdSeen,
              task, policy, pkg, crd, changes, failed, overwritten, overlapped>>

(* What the lookup of the API server's endpoints answers.                  *)
Endpoints == IF StaticApiCIDR # None THEN {StaticApiCIDR} ELSE slice

(* The stages at which a policy of a kind is applied and its orphans purged. *)
ApplyStage == [np |-> "np apply", ap |-> "ap apply"]
PurgeStage == [np |-> "np purge", ap |-> "ap purge"]

Idle == [at |-> "idle", peers |-> {}, copy |-> None]
NoPackage == [at |-> "idle", gen |-> 0, peers |-> {}]

PeersInit ==
  /\ source \in Source
  /\ nodes = InitialNodes /\ service = InitialService /\ slice = InitialSlice
  /\ queue = [h \in Handler |-> <<>>]
  /\ nodeSet = {nodes[n] : n \in Node} /\ nodeNameToIP = nodes
  /\ apiServerPeers = Endpoints \cup {service} /\ crdSeen = FALSE
  /\ task = [h \in Handler |-> Idle]
  /\ policy = [k \in Kind |-> None]
  /\ pkg = NoPackage /\ crd = FALSE
  /\ changes = 0 /\ failed = FALSE
  /\ overwritten = FALSE /\ overlapped = FALSE

Present(f) == {f[n] : n \in Node} \ {None}

----------------------------------------------------------------------------
(* The cluster.                                                            *)
ChangeNode(n, ip) ==
  /\ source = "nodes" /\ changes < MaxChanges /\ nodes[n] # ip
  /\ nodes' = [nodes EXCEPT ![n] = ip]
  /\ queue' = [queue EXCEPT ![n] =
       Append(@, IF ip = None THEN [deleted |-> TRUE, ip |-> nodes[n]] ELSE [deleted |-> FALSE, ip |-> ip])]
  /\ changes' = changes + 1
  /\ UNCHANGED <<source, service, slice, memory, task, policy, pkg, crd, history>>

(* The kubelet reports its node's status every few minutes.                *)
Heartbeat(n) ==
  /\ source = "nodes" /\ nodes[n] # None /\ queue[n] = <<>> /\ task[n] = Idle
  /\ queue' = [queue EXCEPT ![n] = <<[deleted |-> FALSE, ip |-> nodes[n]]>>]
  /\ UNCHANGED <<cluster, memory, task, policy, pkg, crd, changes, history>>

ChangeService(ip) ==
  /\ source = "api" /\ changes < MaxChanges /\ service # ip
  /\ service' = ip
  /\ queue' = [queue EXCEPT !["service"] = Append(@, {ip})]
  /\ changes' = changes + 1
  /\ UNCHANGED <<source, nodes, slice, memory, task, policy, pkg, crd, history>>

(* The slice is watched whatever the configuration says of the CIDR: the   *)
(* watches are registered before it is loaded.                             *)
ChangeSlice(ips) ==
  /\ source = "api" /\ changes < MaxChanges /\ slice # ips
  /\ slice' = ips
  /\ queue' = [queue EXCEPT !["slice"] = Append(@, ips)]
  /\ changes' = changes + 1
  /\ UNCHANGED <<source, nodes, service, memory, task, policy, pkg, crd, history>>

InstallCRD == ~crd /\ crd' = TRUE
              /\ UNCHANGED <<cluster, queue, memory, task, policy, pkg, changes, history>>

----------------------------------------------------------------------------
(* Handlers.                                                               *)
KubeAPI == IF apiServerPeers = {} THEN {Anywhere} ELSE apiServerPeers
KubeNodes == IF nodeSet = {} THEN {Anywhere} ELSE nodeSet
GeneratedPeers == IF source = "nodes" THEN KubeNodes ELSE KubeAPI

KeepOldAddress(n, ip) == nodeSet \cup {ip}

(* The set after a node is seen with an address: its previous one goes.    *)
WithAddress(n, ip) ==
  (nodeSet \cup {ip}) \ (IF nodeNameToIP[n] \in {None, ip} THEN {} ELSE {nodeNameToIP[n]})

Goto(h, at) == [task EXCEPT ![h].at = at]

StartNode(n) ==
  /\ queue[n] # <<>> /\ task[n] = Idle
  /\ LET e == Head(queue[n])
     IN  /\ nodeSet' = IF e.deleted THEN nodeSet \ {e.ip} ELSE WithAddress(n, e.ip)
         /\ nodeNameToIP' = [nodeNameToIP EXCEPT ![n] = IF e.deleted THEN None ELSE e.ip]
  /\ task' = [task EXCEPT ![n] = [at |-> "np list", peers |-> nodeSet', copy |-> None]]
  /\ queue' = [queue EXCEPT ![n] = Tail(@)]
  /\ UNCHANGED <<cluster, apiServerPeers, crdSeen, policy, pkg, crd, changes, history>>

(* The handler of the Service asks for the slice and the other way round.  *)
StartApi(h) ==
  /\ queue[h] # <<>> /\ task[h] = Idle
  /\ task' = [task EXCEPT ![h] = [at |-> "fetch", peers |-> Head(queue[h]), copy |-> None]]
  /\ queue' = [queue EXCEPT ![h] = Tail(@)]
  /\ overlapped' = (overlapped \/ \E g \in ApiHandler : task[g] # Idle)
  /\ UNCHANGED <<cluster, memory, policy, pkg, crd, changes, failed, overwritten>>

(* The request is answered; the answer may be used after another change.   *)
Fetch(h) ==
  /\ task[h].at = "fetch"
  /\ task' = [task EXCEPT ![h] =
       [task[h] EXCEPT !.at = "update",
                       !.peers = @ \cup (IF h = "slice" THEN {service} ELSE Endpoints)]]
  /\ UNCHANGED <<cluster, queue, memory, policy, pkg, crd, changes, history>>

UpdateWithoutCache(h) ==
  /\ task[h].at = "update"
  /\ task' = Goto(h, "np list")
  /\ UNCHANGED <<cluster, queue, memory, policy, pkg, crd, changes, history>>

(* updateAPIServerCIDR: the cache first, then the policies.                *)
UpdateAPIServerCIDR(h) ==
  /\ task[h].at = "update"
  /\ apiServerPeers' = task[h].peers
  /\ task' = Goto(h, "np list")
  /\ UNCHANGED <<cluster, queue, nodeSet, nodeNameToIP, crdSeen, policy, pkg, crd, changes, history>>

(* A refresh lists the policies of its source and keeps what it read.      *)
Listed(h, k, next) ==
  LET p == policy[k]
      stale == p # None /\ p.peers # task[h].peers
  IN  [task EXCEPT ![h] = IF stale THEN [@ EXCEPT !.at = ApplyStage[k], !.copy = p] ELSE next]

(* The peers of the authorization policies are read when their turn comes. *)
TurnToAp(h) == [at |-> "ap", peers |-> IF h \in Node THEN nodeSet ELSE task[h].peers, copy |-> None]

ListNetworkPolicies(h) ==
  /\ task[h].at = "np list"
  /\ task' = Listed(h, "np", TurnToAp(h))
  /\ UNCHANGED <<cluster, queue, memory, policy, pkg, crd, changes, history>>

(* The listed object is applied whole, with the new peers.                 *)
Applied(h, k) ==
  /\ policy' = [policy EXCEPT ![k] = [task[h].copy EXCEPT !.peers = task[h].peers]]
  /\ overwritten' = (overwritten \/ policy[k] = None
                       \/ policy[k].gen # task[h].copy.gen)
  /\ UNCHANGED <<failed, overlapped>>

ApplyNetworkPolicy(h) ==
  /\ task[h].at = "np apply"
  /\ Applied(h, "np")
  /\ task' = [task EXCEPT ![h] = TurnToAp(h)]
  /\ UNCHANGED <<cluster, queue, memory, pkg, crd, changes>>

(* A refused apply ends the handler; one of an authorization policy is     *)
(* logged, which ends it as well.                                          *)
FailRequest(h) ==
  /\ \/ task[h].at \in {"fetch", "np list", "np apply", "ap list", "ap apply"}
     \/ task[h].at = "ap" /\ ~crdSeen
  /\ changes < MaxChanges
  /\ task' = [task EXCEPT ![h] = Idle]
  /\ failed' = TRUE /\ changes' = changes + 1
  /\ UNCHANGED <<cluster, queue, memory, policy, pkg, crd, overwritten, overlapped>>

(* Without the CRD the authorization policies are skipped.                 *)
LookForCRD(h) ==
  /\ task[h].at = "ap"
  /\ crdSeen' = (crdSeen \/ crd)
  /\ task' = IF crdSeen' THEN Goto(h, "ap list") ELSE [task EXCEPT ![h] = Idle]
  /\ UNCHANGED <<cluster, queue, nodeSet, nodeNameToIP, apiServerPeers, policy, pkg, crd, changes, history>>

ListAuthorizationPolicies(h) ==
  /\ task[h].at = "ap list"
  /\ task' = Listed(h, "ap", Idle)
  /\ UNCHANGED <<cluster, queue, memory, policy, pkg, crd, changes, history>>

ApplyAuthorizationPolicy(h) ==
  /\ task[h].at = "ap apply"
  /\ Applied(h, "ap")
  /\ task' = [task EXCEPT ![h] = Idle]
  /\ UNCHANGED <<cluster, queue, memory, pkg, crd, changes>>

(* Start: both caches are filled and the policies refreshed before the     *)
(* watches start, which then hand over every object.                       *)
Refreshed(k, peers) ==
  IF policy[k] = None \/ (k = "ap" /\ ~crd) THEN policy[k] ELSE [policy[k] EXCEPT !.peers = peers]

Restart ==
  /\ changes < MaxChanges
  /\ nodeSet' = Present(nodes) /\ nodeNameToIP' = nodes
  /\ apiServerPeers' = {service} \cup Endpoints
  /\ crdSeen' = crd
  /\ policy' = [k \in Kind |-> Refreshed(k, IF source = "nodes" THEN nodeSet' ELSE apiServerPeers')]
  /\ queue' = [h \in Handler |->
       CASE ~(h \in Node <=> source = "nodes") -> <<>>
         [] h = "service" /\ source = "api" -> <<{service}>>
         [] h = "slice" /\ source = "api" -> <<slice>>
         [] OTHER -> IF nodes[h] = None THEN <<>> ELSE <<[deleted |-> FALSE, ip |-> nodes[h]]>>]
  /\ task' = [h \in Handler |-> Idle]
  /\ pkg' = [pkg EXCEPT !.at = IF @ = "idle" THEN "idle" ELSE "lost"]
  /\ changes' = changes + 1
  /\ UNCHANGED <<cluster, crd, history>>

----------------------------------------------------------------------------
(* The package that owns the policies: it generates them from the caches,  *)
(* applies them and purges those of other generations.                     *)
ReconcilePackage ==
  /\ \/ pkg.at = "idle" /\ changes < MaxChanges
        /\ pkg' = [at |-> "np apply", gen |-> pkg.gen + 1, peers |-> GeneratedPeers]
        /\ changes' = changes + 1
     \/ pkg.at = "lost"
        /\ pkg' = [at |-> "np apply", gen |-> pkg.gen, peers |-> GeneratedPeers]
        /\ UNCHANGED changes
  /\ UNCHANGED <<cluster, queue, memory, task, policy, crd, history>>

ApplyOrSkip ==
  /\ \E k \in Kind :
       /\ pkg.at = ApplyStage[k]
       /\ policy' = IF k = "ap" /\ ~crd THEN policy
                    ELSE [policy EXCEPT ![k] = [gen |-> pkg.gen, peers |-> pkg.peers]]
       /\ pkg' = [pkg EXCEPT !.at = PurgeStage[k]]
  /\ UNCHANGED <<cluster, queue, memory, task, crd, changes, history>>

ApplyGenerated ==
  /\ \E k \in Kind :
       /\ pkg.at = ApplyStage[k] /\ (k = "ap" => crd)
       /\ policy' = [policy EXCEPT ![k] = [gen |-> pkg.gen, peers |-> pkg.peers]]
       /\ pkg' = [pkg EXCEPT !.at = PurgeStage[k]]
  /\ overlapped' = (overlapped \/ pkg.peers # GeneratedPeers)
  /\ UNCHANGED <<cluster, queue, memory, task, crd, changes, failed, overwritten>>

PurgeGenerated ==
  /\ \E k \in Kind :
       /\ pkg.at = PurgeStage[k]
       /\ policy' = [policy EXCEPT ![k] = IF @ # None /\ @.gen # pkg.gen THEN None ELSE @]
       /\ pkg' = IF k = "np" THEN [pkg EXCEPT !.at = "ap apply", !.peers = GeneratedPeers]
                 ELSE [NoPackage EXCEPT !.gen = pkg.gen]
  /\ UNCHANGED <<cluster, queue, memory, task, crd, changes, history>>

----------------------------------------------------------------------------
Refresh(h) ==
  \/ ListNetworkPolicies(h) \/ ApplyNetworkPolicy(h) \/ LookForCRD(h)
  \/ ListAuthorizationPolicies(h) \/ ApplyAuthorizationPolicy(h)

HandleApi(h) == StartApi(h) \/ Fetch(h) \/ UpdateAPIServerCIDR(h)

PeersNext ==
  \/ \E n \in Node : Heartbeat(n) \/ StartNode(n) \/ \E ip \in IP \cup {None} : ChangeNode(n, ip)
  \/ \E ip \in IP : ChangeService(ip)
  \/ \E ips \in (SUBSET IP) \ {{}} : ChangeSlice(ips)
  \/ \E h \in ApiHandler : HandleApi(h)
  \/ \E h \in Handler : Refresh(h) \/ FailRequest(h)
  \/ InstallCRD \/ Restart
  \/ ReconcilePackage \/ ApplyGenerated \/ PurgeGenerated

PeersSpec == PeersInit /\ [][PeersNext]_peerVars

(* Promises settle, queues drain, kubelets keep reporting.                 *)
PeersFairness ==
  /\ \A n \in Node : WF_peerVars(Heartbeat(n)) /\ WF_peerVars(StartNode(n))
  /\ \A h \in ApiHandler : WF_peerVars(HandleApi(h))
  /\ \A h \in Handler : WF_peerVars(Refresh(h))
  /\ WF_peerVars(InstallCRD)
  /\ WF_peerVars(ReconcilePackage /\ pkg.at = "lost")
  /\ WF_peerVars(ApplyGenerated) /\ WF_peerVars(PurgeGenerated)

FairPeersSpec == PeersSpec /\ PeersFairness

----------------------------------------------------------------------------
At == {"idle", "fetch", "update", "np list", "np apply", "ap", "ap list", "ap apply"}

PkgAt == {"idle", "lost", "np apply", "np purge", "ap apply", "ap purge"}
Address == IP \cup {Anywhere} \cup ({StaticApiCIDR} \ {None})
Generated == [gen : Nat, peers : SUBSET Address]
NodeEvent == [deleted : BOOLEAN, ip : IP]

(* A handler holds a listed policy exactly while it is about to apply it,   *)
(* and the API server never is without an address.                          *)
PeersTypeOK ==
  /\ source \in Source /\ crdSeen \in BOOLEAN /\ crd \in BOOLEAN /\ changes \in Nat
  /\ failed \in BOOLEAN /\ overwritten \in BOOLEAN /\ overlapped \in BOOLEAN
  /\ nodes \in [Node -> IP \cup {None}] /\ service \in IP /\ slice \in SUBSET IP
  /\ DOMAIN queue = Handler
  /\ \A n \in Node : queue[n] \in Seq(NodeEvent)
  /\ queue["service"] \in Seq((SUBSET IP) \ {{}}) /\ queue["slice"] \in Seq(SUBSET IP)
  /\ nodeSet \in SUBSET IP /\ nodeNameToIP \in [Node -> IP \cup {None}]
  /\ apiServerPeers \in (SUBSET Address) \ {{}}
  /\ task \in [Handler -> [at : At, peers : SUBSET Address, copy : Generated \cup {None}]]
  /\ \A h \in Handler :
       /\ task[h].at = "idle" => task[h] = Idle
       /\ task[h].at = "update" \/ (task[h].at = "fetch" /\ h = "service") => task[h].peers # {}
       /\ (task[h].copy # None) <=> (task[h].at \in {"np apply", "ap apply"})
       /\ task[h].at \in {"fetch", "update"} => h \notin Node
  /\ policy \in [Kind -> Generated \cup {None}]
  /\ \A k \in Kind : policy[k] = None \/ policy[k].gen \in 1..pkg.gen
  /\ pkg \in [at : PkgAt, gen : Nat, peers : SUBSET Address]

(* The addresses of the nodes reach the policies in the end and stay,      *)
(* whatever handlers overlapped, failed or wrote older lists last: the     *)
(* next status report of a node puts it right, provided the kubelets keep  *)
(* reporting and some node is there to do so.                              *)
Follows(k) == policy[k] = None \/ policy[k].peers = Present(nodes)
NodesReachPolicies == <>[](source = "nodes" /\ Present(nodes) # {} => Follows("np") /\ Follows("ap"))

Quiet == (\A h \in Handler : task[h] = Idle /\ queue[h] = <<>>) /\ pkg.at = "idle"

(* When all is quiet every policy of the API server has the addresses it   *)
(* has now, unless handlers of its two objects overlapped, the package     *)
(* applied what it had generated before a change, or a request failed:     *)
(* nothing comes back to repair those.                                     *)
ApiPoliciesCurrent ==
  source = "api" /\ Quiet /\ ~overlapped /\ ~failed /\ StaticApiCIDR = None =>
    /\ apiServerPeers = slice \cup {service}
    /\ policy["np"] # None => policy["np"].peers = apiServerPeers

(* A reconciled package has all of its policies, unless a refresh wrote a  *)
(* listed copy of an earlier generation over one: the purge takes such a   *)
(* copy for an orphan.                                                     *)
PoliciesInPlace ==
  pkg.at = "idle" /\ pkg.gen > 0 /\ ~overwritten =>
    \A k \in Kind : policy[k] # None /\ policy[k].gen = pkg.gen

(* A CIDR of the configuration is what the policies allow: "Skip if a CIDR *)
(* is defined in the UDS Config", the comment of the slice's watch says.   *)
(* Does not hold and is in no run: see the README's divergences.            *)
StaticCIDRKept ==
  source = "api" /\ StaticApiCIDR # None /\ policy["np"] # None =>
    StaticApiCIDR \in policy["np"].peers

(* The same without the exception: "Ensure network policies are in place". *)
(* Does not hold and is in no run: see the README's divergences.            *)
PoliciesAlwaysInPlace ==
  pkg.at = "idle" /\ pkg.gen > 0 =>
    \A k \in Kind : policy[k] # None /\ policy[k].gen = pkg.gen
=============================================================================
