--------------------------- MODULE PackageNetwork ---------------------------
(***************************************************************************)
(* One package through admission and through the steps of its              *)
(* reconciliation that write network resources, for successive generations *)
(* of its spec. Each step applies what it generates, one object at a time, *)
(* and then deletes what carries the label of another generation; a step   *)
(* may fail half way, after which the package is reconciled again.         *)
(***************************************************************************)
EXTENDS NetworkRules

CONSTANTS Revision,  \* the specs users submit
          Workload,  \* label sets of the package's pods
          MaxGen,    \* bound: generations of the spec
          MaxFaults  \* bound: steps that fail

ASSUME RevisionAssumption == Revision \subseteq Package /\ None \notin Package \cup LabelSets

(* Waypoints are not among the package's pods.                             *)
ASSUME WorkloadAssumption ==
  /\ Workload \subseteq LabelSets
  /\ \A w \in Workload : \A i \in DOMAIN w : w[i][1] # "istio.io/gateway-name"

(* What the prover does not know of strings: literals and joined strings   *)
(* are strings, and the gateway is not Prometheus.                         *)
ASSUME StringAssumption ==
  /\ {"app", "istio.io/gateway-name", "monitoring", "prometheus", "UDP"} \subseteq STRING
  /\ \A d \in Revision : \A i \in DOMAIN d.expose :
       {GatewayNamespace(GatewayOf(d.expose[i])), GatewayAccount(GatewayOf(d.expose[i]))} \subseteq STRING
  /\ \A d \in Revision : \A i \in DOMAIN d.sso : GetWaypointName(d.sso[i].clientId) \in STRING
  /\ GatewayAccount("tenant") # "kube-prometheus-stack-prometheus"

VARIABLES spec,      \* the package as the API server holds it, or None
          pkg,       \* the object the reconciler works on
          step,      \* the next step, "waiting" for a retry, or "idle"
          gen, faults,
          recorded,  \* clients the status lists: the ones of the last Ready
          dropped,   \* history: clients of generations replaced before Ready
          live       \* step -> the objects it keeps in the cluster

networkVars == <<spec, pkg, step, gen, faults, recorded, dropped, live>>

Steps == <<"networkPolicies", "authorizationPolicies", "ssoPolicies", "virtualServices",
           "serviceEntries", "monitors">>

NextStep(s) == LET i == CHOOSE j \in DOMAIN Steps : Steps[j] = s
               IN  IF i = Len(Steps) THEN "idle" ELSE Steps[i + 1]

(* No other package wants the client ids or UDP ports of this one.         *)
NoOwner == [id \in {} |-> {}]

AuthserviceIds(p) == {c.clientId : c \in {d \in ToSet(p.sso) : Protects(d)}}

NetworkInit ==
  /\ spec = None /\ pkg = None /\ step = "idle" /\ gen = 0 /\ faults = 0
  /\ recorded = {} /\ dropped = {}
  /\ live = [s \in ToSet(Steps) |-> {}]

(* The webhook approves a spec.                                            *)
Submit(d) ==
  /\ step \in {"idle", "waiting"} /\ gen < MaxGen
  /\ Validator(d, None, NoOwner, NoOwner)
  /\ spec' = d
  /\ pkg' = Migrate(d)
  /\ step' = Steps[1]
  /\ gen' = gen + 1
  /\ dropped' = IF step = "waiting" THEN dropped \cup AuthserviceIds(pkg) ELSE dropped
  /\ UNCHANGED <<faults, recorded, live>>

Generated(s) ==
  CASE s = "networkPolicies" -> NetworkPolicies(pkg)
    [] s = "authorizationPolicies" -> AuthorizationPolicies(pkg)
    [] s = "ssoPolicies" ->
         FlattenSeq(Each(LAMBDA c : IF Protects(c) THEN SsoPolicies(pkg, c) ELSE <<>>, pkg.sso))
    [] s = "virtualServices" -> VirtualServices(pkg)
    [] s = "serviceEntries" -> SetToSeq(ServiceEntries(pkg))
    [] s = "monitors" -> SetToSeq(Monitors(pkg))

NameOf(obj) == IF "kind" \in DOMAIN obj THEN <<obj.kind, obj.name>> ELSE obj.name

(* Objects applied, in order, over what is there: the last of a name wins. *)
Applied(objs, present) ==
  LET names == {NameOf(objs[i]) : i \in DOMAIN objs}
      last == {i \in DOMAIN objs : \A j \in (i + 1)..Len(objs) : NameOf(objs[j]) # NameOf(objs[i])}
  IN  {[gen |-> gen, obj |-> objs[i]] : i \in last}
      \cup {o \in present : NameOf(o.obj) \notin names}

PurgeNothing(objs) == objs

PurgeOrphans(objs) == {o \in objs : o.gen = gen}

CleanupMismatchedMeshMode(objs) == {o \in objs : o.obj.mode = ModeOf(pkg)}

(* The policies of the clients the status lists and the package no longer  *)
(* has are deleted by name.                                                *)
DeleteRemovedClients(objs) ==
  {o \in objs : o.obj.client \notin recorded \ AuthserviceIds(pkg)}

(* updatePolicy purges after each client it adds or removes, and only then; *)
(* a purge that fails is logged.                                            *)
SsoPurges == IF AuthserviceIds(pkg) \cup recorded = {} THEN {FALSE} ELSE BOOLEAN

(* What a step may leave when all its applies succeed.                     *)
Outcomes(s, applied) ==
  CASE s = "authorizationPolicies" -> {CleanupMismatchedMeshMode(PurgeOrphans(applied))}
    [] s = "ssoPolicies" ->
         {DeleteRemovedClients(IF purged THEN PurgeOrphans(applied) ELSE applied) : purged \in SsoPurges}
    [] OTHER -> {PurgeOrphans(applied)}

Reconcile ==
  /\ step \in ToSet(Steps)
  /\ \E objs \in Outcomes(step, Applied(Generated(step), live[step])) : live' = [live EXCEPT ![step] = objs]
  /\ pkg' = IF step = "networkPolicies" THEN RewrittenPackage(pkg) ELSE pkg
  /\ step' = NextStep(step)
  /\ recorded' = IF step' = "idle" THEN AuthserviceIds(pkg) ELSE recorded
  /\ UNCHANGED <<spec, gen, faults, dropped>>

(* An apply or a purge is refused, after n applies that were not.          *)
Fail(n) ==
  /\ step \in ToSet(Steps) /\ faults < MaxFaults
  /\ n \in 0..Len(Generated(step))
  /\ live' = [live EXCEPT ![step] = Applied(SubSeq(Generated(step), 1, n), live[step])]
  /\ step' = "waiting"
  /\ faults' = faults + 1
  /\ UNCHANGED <<spec, pkg, gen, recorded, dropped>>

(* The next event carries the object as it was written.                    *)
Retry ==
  /\ step = "waiting"
  /\ pkg' = Migrate(spec)
  /\ step' = Steps[1]
  /\ UNCHANGED <<spec, gen, faults, recorded, dropped, live>>

NetworkNext ==
  \/ \E d \in Revision : Submit(d)
  \/ Reconcile
  \/ \E n \in {0, 1, 3} : Fail(n)
  \/ Retry

NetworkSpec == NetworkInit /\ [][NetworkNext]_networkVars

Done == step = "idle" /\ spec # None
Objects(s) == {o.obj : o \in live[s]}
Asked == Migrate(spec)

----------------------------------------------------------------------------
(* The spec the reconciler works on keeps the shape of a package.          *)
NetworkTypeOK ==
  /\ spec # None =>
       /\ {pkg, Asked} \subseteq Package
       /\ \A i \in DOMAIN pkg.allow : pkg.allow[i].podLabels = None
       /\ \A i \in DOMAIN pkg.sso : pkg.sso[i].secretName \in {None, ""}
  /\ step \in ToSet(Steps) \cup {"idle", "waiting"}
  /\ gen \in 0..MaxGen /\ faults \in 0..MaxFaults
  /\ \A s \in ToSet(Steps) : \A o \in live[s] : o.gen \in 1..gen

(* How Kubernetes and Istio evaluate the policies. A pod has a namespace,  *)
(* labels and a service account; an empty list of peers matches everyone.  *)
Pod(ns, labels, sa) == [ns |-> ns, labels |-> labels, sa |-> sa]

PeerMatches(peer, pod) ==
  /\ peer.cidr = None
  /\ peer.ns = "*" \/ pod.ns = OrElse(peer.ns, spec.namespace)
  /\ Subset(peer.labels, pod.labels)

NetworkAdmits(direction, pod, other, port) ==
  \E np \in Objects("networkPolicies") :
    /\ np.direction = direction
    /\ Subset(np.selector, pod.labels)
    /\ np.peers = {} \/ \E p \in np.peers : PeerMatches(p, other)
    /\ np.ports = {} \/ port \in np.ports

SourceMatches(src, pod) ==
  \/ src = Principal(pod.ns, pod.sa)
  \/ src = <<"namespace", pod.ns>>

Matches(ap, from, port) ==
  /\ ap.sources = {} \/ \E s \in ap.sources : SourceMatches(s, from)
  /\ ap.ports = {} \/ port \in ap.ports

IsWaypoint(pod) == \E i \in DOMAIN pod.labels : pod.labels[i][1] = "istio.io/gateway-name"

(* A policy without labels is about the workloads of the namespace, not     *)
(* about its waypoints: those are under the policies that name them.        *)
MeshAdmits(pod, from, port) ==
  LET on == {ap \in Objects("authorizationPolicies") :
               /\ Subset(Labels(ap.selector), pod.labels)
               /\ IsWaypoint(pod) => Labels(ap.selector) # <<>>}
      allow == {ap \in on : ap.action = "ALLOW"}
  IN  /\ \A ap \in on \ allow : \E s \in ap.sources : SourceMatches(s, from)
      /\ allow = {} \/ \E ap \in allow : Matches(ap, from, port)

App(labels) == Pod(spec.namespace, labels, "app")
Waypoint(client) == Pod(spec.namespace, WaypointSelector(client), GetWaypointName(client))
Behind(labels) == FindMatchingSsoClient(Asked, labels)

(* In ambient mode traffic between pods of the mesh uses the tunnel's port. *)
Wire(port) == IF ModeOf(Asked) = "ambient" THEN Hbone ELSE <<port, "TCP">>

Reaches(from, to, port) == NetworkAdmits("Ingress", to, from, Wire(port)) /\ MeshAdmits(to, from, port)

(* The traffic of a client gets to a pod, through the waypoint in front of  *)
(* it if there is one.                                                      *)
Served(from, labels, servicePort, port) ==
  LET client == Behind(labels)
  IN  IF client = None THEN Reaches(from, App(labels), port)
      ELSE /\ Reaches(from, Waypoint(client), servicePort)
           /\ NetworkAdmits("Egress", Waypoint(client), App(labels), Wire(port))
           /\ Reaches(Waypoint(client), App(labels), port)

Gateway(gw) == Pod(GatewayNamespace(gw), <<<<"app", GatewayAccount(gw)>>>>, GatewayAccount(gw))
PrometheusPod == Pod("monitoring", Prometheus, "kube-prometheus-stack-prometheus")

SingleClient(w) ==
  LET cs == AuthserviceClients(Asked)
      on == {i \in DOMAIN cs : Subset(cs[i].enableAuthserviceSelector, w)}
  IN  \A i, j \in on : i = j

(* A rule whose labels name no client opens the pods it selects to its own *)
(* remote, and so closes them to a waypoint in front of them.              *)
OpensPod(selector, w) == FindMatchingSsoClient(Asked, selector) = None /\ Subset(Labels(selector), w)

Unhindered(w) ==
  /\ \A a \in ToSet(Asked.allow) :
       a.direction = "Ingress" /\ a.remoteProtocol # "UDP" => ~OpensPod(a.selector, w)
  /\ \A e \in ToSet(Asked.expose) : ~OpensPod(e.selector, w)
  /\ \A m \in ToSet(Asked.monitor) : ~OpensPod(OrElse(m.podSelector, m.selector), w)

(* The workloads of an entry for which the package speaks clearly: at most  *)
(* one client protects them, it is the one the entry's labels name, and no  *)
(* rule opens them beside its waypoint.                                     *)
Clear(w, selector) ==
  /\ SingleClient(w)
  /\ Behind(w) = FindMatchingSsoClient(Asked, selector)
  /\ Behind(w) = None \/ Unhindered(w)

SelectedBy(selector) == {w \in Workload : Subset(Labels(selector), w) /\ Clear(w, selector)}

ExposesServed ==
  \A e \in ToSet(HTTPExposes(Asked)) :
    e.service # None /\ e.port # None =>
      \A w \in SelectedBy(e.selector) :
        Served(Gateway(GatewayOf(e)), w, e.port, OrElse(e.targetPort, e.port))

MonitorsServed ==
  \A m \in ToSet(Asked.monitor) :
    LET pods == OrElse(m.podSelector, m.selector)
    IN  FindMatchingSsoClient(Asked, m.selector) = FindMatchingSsoClient(Asked, pods) =>
          \A w \in SelectedBy(pods) : Served(PrometheusPod, w, m.targetPort, m.targetPort)

NamedRemote(a) == Pod(a.remoteNamespace, Labels(a.remoteSelector), OrElse(a.remoteServiceAccount, "any"))

AllowsServed ==
  \A a \in ToSet(Asked.allow) :
    a.direction = "Ingress" /\ a.remoteProtocol # "UDP" /\ a.selector # None
      /\ Truthy(a.remoteNamespace) /\ a.port # None =>
      \A w \in SelectedBy(a.selector) : Served(NamedRemote(a), w, a.port, a.port)

(* Once a package is reconciled, whatever it exposes, lets in or has       *)
(* scraped gets through every policy in its way: the network policies of   *)
(* the waypoint in front of the pod and of the pod, and the authorization  *)
(* policies of both, which different files generate from the same entry    *)
(* while the first rewrites the entry for the second.                      *)
EverythingServed == Done => ExposesServed /\ MonitorsServed /\ AllowsServed

(* A request of a pod on a port and path, without a token: an operation    *)
(* that names neither ports nor paths is about every request.              *)
Covers(op, port, path) ==
  /\ (op.ports = {} \/ port \in op.ports) /\ port \notin op.notPorts
  /\ (op.paths = {} \/ path \in op.paths) /\ path \notin op.notPaths

RuleApplies(r, from, port, path) ==
  /\ ~\E p \in r.notPrincipals : SourceMatches(p, from)
  /\ r.to = {} \/ \E op \in r.to : Covers(op, port, path)

Caught(kind, target, from, port, path) ==
  \E p \in Objects("ssoPolicies") :
    /\ p.kind = kind /\ Subset(p.target, target.labels)
    /\ \E r \in p.rules : RuleApplies(r, from, port, path)

Refused(target, from, port, path) == Caught("jwt-authz", target, from, port, path)

SentToLogin(target, from, port, path) == Caught("authservice", target, from, port, path)

(* What Prometheus may fetch without a token: what a monitor says of pods  *)
(* that the client protects, and next to a sidecar its statistics. It is   *)
(* the same for all workloads of a client, which share its policies.       *)
Scrapes(m, c) == Subset(c.enableAuthserviceSelector, OrElse(m.podSelector, m.selector))

Exempted(client, from, port, path) ==
  /\ from = PrometheusPod
  /\ \/ ModeOf(Asked) = "sidecar" /\ port = "15020" /\ path = "/stats/prometheus"
     \/ \E m \in ToSet(Asked.monitor), c \in ToSet(Asked.sso) :
          /\ m.targetPort = port /\ path = (IF Truthy(m.path) THEN m.path ELSE "/metrics")
          /\ Protects(c) /\ c.clientId = client /\ Scrapes(m, c)

Visitors == {Gateway("tenant"), PrometheusPod, Pod("peer", <<<<"app", "peer">>>>, "any")}
                \cup {App(w) : w \in Workload}

(* Nobody without a token gets past the SSO of a protected workload, on    *)
(* any port or path, but Prometheus where a monitor says it scrapes; in    *)
(* ambient mode not by calling the pod around its waypoint either. What is *)
(* refused but not exempt is sent to the login, so a user can get a token. *)
NoEntryWithoutToken ==
  Done =>
    \A w \in Workload, from \in Visitors, port \in {"80", "8080", "9090", "15020"},
       path \in {"/", "/metrics", "/stats/prometheus"} :
      LET client == FindMatchingClient(Asked, w)
          target == IF ModeOf(Asked) = "ambient" THEN Waypoint(client) ELSE App(w)
      IN  client # None =>
            /\ Refused(target, from, port, path) \/ Exempted(client, from, port, path)
            /\ ModeOf(Asked) = "ambient" => ~MeshAdmits(App(w), from, port)
            /\ \/ SentToLogin(target, from, port, path)
               \/ Exempted(client, PrometheusPod, port, path)

(* After a reconciliation nothing of an earlier generation is left,        *)
(* whatever attempts broke off half way and whether the mesh mode changed. *)
(* The exception are the SSO policies of clients whose generation was      *)
(* replaced before it was Ready: no status lists them, and the step purges *)
(* only on behalf of a client.                                             *)
NothingLeftBehind ==
  Done => \A s \in ToSet(Steps) : \A o \in live[s] :
    o.gen = gen \/ (s = "ssoPolicies" /\ o.obj.client \in dropped)

(* The SSO policies in the cluster are those of the clients the package    *)
(* has: a workload whose SSO was taken out of the package is reachable.    *)
(* Does not hold and is in no run: see the README's divergences.            *)
OnlyPresentClientsGated ==
  Done => \A p \in Objects("ssoPolicies") : p.client \in AuthserviceIds(Asked)

(* A protected workload lets its waypoint in, whatever other rules there   *)
(* are: a rule for all pods of the namespace makes a policy that lets only *)
(* its own remote in to every pod, also to the ones behind a waypoint.     *)
(* Does not hold and is in no run: see the README's divergences.            *)
WaypointsLetIn ==
  Done => \A w \in Workload : \A port \in {"8080"} :
    Behind(w) # None /\ SingleClient(w) => MeshAdmits(App(w), Waypoint(Behind(w)), port)

(* A policy is never written over by another of the same attempt: names    *)
(* tell the generated policies of a package apart, as the comments of the  *)
(* name generators promise.                                                *)
(* Does not hold and is in no run: see the README's divergences.            *)
NamesTellPoliciesApart ==
  Done => ToSet(NetworkPolicies(Asked)) \subseteq Objects("networkPolicies")
=============================================================================
