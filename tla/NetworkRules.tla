---------------------------- MODULE NetworkRules ----------------------------
(***************************************************************************)
(* What the reconciler generates from a migrated package: network policies *)
(* (controllers/network), authorization policies (the same directory, and  *)
(* keycloak/authservice/authorization-policy.ts), virtual services and     *)
(* service entries of the ingress (controllers/istio) and monitors         *)
(* (controllers/monitoring), as functions of the package.                  *)
(***************************************************************************)
EXTENDS PackageRules

CONSTANTS KubeApiPeers, KubeNodePeers   \* CIDRs that kubeAPI() and kubeNodes() answer with

Labels(pairs) == OrElse(pairs, <<>>)
Subset(selector, labels) == ToSet(selector) \subseteq ToSet(labels)

(* SelectSeq, in a form proofs can expand.                                 *)
Kept(s, Test(_)) == FlattenSeq([i \in 1..Len(s) |-> IF Test(s[i]) THEN <<s[i]>> ELSE <<>>])

----------------------------------------------------------------------------
(* Waypoints.                                                              *)
Protects(c) == c.enableAuthserviceSelector # None

AuthserviceClients(pkg) == Kept(pkg.sso, Protects)

ShouldUseAmbientWaypoint(pkg) == ModeOf(pkg) = "ambient" /\ AuthserviceClients(pkg) # <<>>

GetWaypointName(id) == IF EndsWith(id, "-waypoint") THEN id ELSE id \o "-waypoint"

WaypointSelector(id) == <<<<"istio.io/gateway-name", GetWaypointName(id)>>>>

GetPodSelector(pkg, selector, id) ==
  IF ShouldUseAmbientWaypoint(pkg) THEN WaypointSelector(id) ELSE selector

(* The first client whose labels are all among the given ones; one without *)
(* labels protects the whole namespace.                                    *)
FindMatchingClient(pkg, labels) ==
  LET cs == AuthserviceClients(pkg)
      matching == {i \in DOMAIN cs : Subset(cs[i].enableAuthserviceSelector, labels)}
  IN  IF matching = {} THEN None
      ELSE cs[CHOOSE i \in matching : \A j \in matching : i <= j].clientId

(* findMatchingSsoClient: only in ambient mode and for a given selector.    *)
FindMatchingSsoClient(pkg, selector) ==
  IF selector = None \/ ModeOf(pkg) # "ambient" THEN None ELSE FindMatchingClient(pkg, selector)

----------------------------------------------------------------------------
(* Network policies.                                                       *)
CidrPeer(cidr, except) == [cidr |-> cidr, except |-> except, ns |-> None, labels |-> <<>>]
PodPeer(ns, labels) == [cidr |-> None, except |-> None, ns |-> ns, labels |-> labels]

MetaIp == "169.254.169.254/32"

EgressPeer(mode) ==
  IF mode = "ambient"
  THEN PodPeer("istio-egress-ambient", <<<<"gateway.networking.k8s.io/gateway-name", "egress-waypoint">>>>)
  ELSE PodPeer("istio-egress-gateway", <<<<"app", "egressgateway">>>>)

(* A peer's namespace is None for the policy's own and "*" for every one.   *)
GetPeers(a, mode) ==
  CASE a.remoteGenerated = "KubeAPI" -> {CidrPeer(c, None) : c \in KubeApiPeers}
    [] a.remoteGenerated = "KubeNodes" -> {CidrPeer(c, None) : c \in KubeNodePeers}
    [] a.remoteGenerated = "CloudMetadata" -> {CidrPeer(MetaIp, None)}
    [] a.remoteGenerated = "IntraNamespace" -> {PodPeer(None, <<>>)}
    [] a.remoteGenerated = "Anywhere" -> {CidrPeer("0.0.0.0/0", MetaIp), PodPeer("*", <<>>)}
    [] a.remoteGenerated = None /\ InCluster(a) ->
         {PodPeer(IF a.remoteNamespace \in {"", "*"} THEN "*" ELSE a.remoteNamespace,
                  Labels(a.remoteSelector))}
    [] a.remoteGenerated = None /\ ~InCluster(a) /\ a.remoteCidr # None ->
         {CidrPeer(a.remoteCidr, None)}
    [] a.remoteGenerated = None /\ ~InCluster(a) /\ a.remoteCidr = None /\ Truthy(a.remoteHost) ->
         {EgressPeer(mode)}
    [] OTHER -> {}

L4Protocol(a) == IF a.remoteProtocol = "UDP" THEN "UDP" ELSE "TCP"

PortsNamed(a) == ToSet(a.ports) \cup ({a.port} \ {None})

Generate(a, mode) ==
  [name |-> GenerateName(a), direction |-> a.direction, selector |-> Labels(a.selector),
   generated |-> a.remoteGenerated, peers |-> GetPeers(a, mode),
   ports |-> {<<p, L4Protocol(a)>> : p \in PortsNamed(a)}]

(* An allow rule the operator writes itself.                               *)
Rule(direction, selector, ns, labels, port, description) ==
  [direction |-> direction, description |-> description, selector |-> selector,
   podLabels |-> None, port |-> port, ports |-> <<>>, remoteGenerated |-> None,
   remoteNamespace |-> ns, remoteSelector |-> labels, remotePodLabels |-> None,
   remoteCidr |-> None, remoteHost |-> None, remoteProtocol |-> None,
   remoteServiceAccount |-> None, serviceAccount |-> None]

Prometheus == <<<<"app", "prometheus">>>>

AllowEgressDNS ==
  [Rule("Egress", None, "kube-system", <<<<"k8s-app", "kube-dns">>>>, "53", "DNS lookup via CoreDNS")
     EXCEPT !.remoteProtocol = "UDP"]

AllowEgressIstiod(selector, description) ==
  Rule("Egress", selector, "istio-system", <<<<"istio", "pilot">>>>, "15012", description)

AllowIngressSidecarMonitoring ==
  Rule("Ingress", None, "monitoring", Prometheus, "15020", "Sidecar monitoring")

AllowAmbientHealthprobes ==
  [Rule("Ingress", None, None, None, None, "Ambient Healthprobes")
     EXCEPT !.remoteCidr = "169.254.7.127/32"]

DefaultRules(mode) ==
  <<AllowEgressDNS>> \o
  (IF mode = "sidecar"
   THEN <<AllowEgressIstiod(None, "Istiod communication"), AllowIngressSidecarMonitoring>>
   ELSE <<AllowAmbientHealthprobes>>)

KeepSelector(pkg, a) == a

(* The selector of an ingress rule for a protected workload is replaced in *)
(* the package itself, so later steps see the waypoint's.                  *)
RewriteSelector(pkg, a) ==
  LET client == FindMatchingClient(pkg, Labels(a.selector))
  IN  IF a.direction = "Ingress" /\ a.selector # None /\ client # None
      THEN [a EXCEPT !.selector = GetPodSelector(pkg, a.selector, client)]
      ELSE a

RewrittenPackage(pkg) ==
  [pkg EXCEPT !.allow = [i \in DOMAIN @ |-> RewriteSelector(pkg, @[i])]]

GatewayNamespace(gw) == "istio-" \o gw \o "-gateway"
GatewayAccount(gw) == gw \o "-ingressgateway"

TargetOf(pkg, matched, selector) ==
  LET client == FindMatchingClient(pkg, matched)
  IN  IF client = None THEN selector ELSE GetPodSelector(pkg, selector, client)

ExposeRule(pkg, e) ==
  LET gw == GatewayOf(e)
      port == OrElse(e.targetPort, e.port)
  IN  Rule("Ingress", TargetOf(pkg, Labels(e.selector), Labels(e.selector)), GatewayNamespace(gw),
           <<<<"app", GatewayAccount(gw)>>>>, port,
           Str(port) \o "-" \o Joined(Values(Labels(e.selector))) \o " Istio " \o gw \o " gateway")

UDPExposeRule(e) ==
  LET gw == IF Truthy(e.gateway) THEN e.gateway ELSE "envoy-default-gateway"
      port == OrElse(e.targetPort, e.port)
  IN  [Rule("Ingress", Labels(e.selector), gw,
            <<<<"gateway.envoyproxy.io/owning-gateway-name", gw>>,
              <<"gateway.envoyproxy.io/owning-gateway-namespace", gw>>>>, port,
            port \o "-" \o Joined(Values(Labels(e.selector))) \o " Envoy Gateway " \o gw)
         EXCEPT !.remoteProtocol = "UDP"]

(* What a workload behind authservice needs, and in ambient mode the       *)
(* waypoint in front of it.                                                *)
SsoRules(pkg, c) ==
  LET target == GetPodSelector(pkg, c.enableAuthserviceSelector, c.clientId)
      waypoint == WaypointSelector(c.clientId)
      name == GetWaypointName(c.clientId)
  IN  <<Rule("Egress", target, "authservice", <<<<"app.kubernetes.io/name", "authservice">>>>,
             "10003", c.clientId \o " authservice egress"),
        Rule("Egress", target, "keycloak", <<<<"app.kubernetes.io/name", "keycloak">>>>,
             "8080", c.clientId \o " keycloak JWKS egress")>>
      \o (IF ~ShouldUseAmbientWaypoint(pkg) THEN <<>>
          ELSE <<AllowEgressIstiod(target, "Istiod communication for " \o c.clientId),
                 Rule("Egress", waypoint, None, c.enableAuthserviceSelector, None,
                      "Allow traffic from " \o name \o " to app"),
                 Rule("Ingress", c.enableAuthserviceSelector, None, waypoint, None,
                      "Allow traffic from " \o name \o " to app pods"),
                 Rule("Ingress", waypoint, "monitoring", Prometheus, "15020",
                      "Allow health checks from monitoring to " \o name)>>)

MonitorRule(pkg, m) ==
  Rule("Ingress", TargetOf(pkg, m.selector, OrElse(m.podSelector, m.selector)), "monitoring",
       Prometheus, m.targetPort, m.targetPort \o "-" \o Joined(Values(m.selector)) \o " Metrics")

(* Every rule in the order in which its policy is applied.                 *)
AllRules(pkg) ==
  DefaultRules(ModeOf(pkg))
  \o RewrittenPackage(pkg).allow
  \o Each(LAMBDA e : ExposeRule(pkg, e),
          Kept(pkg.expose, LAMBDA e : ~IsUDP(e) /\ ~(e.advancedHTTP # None /\ e.advancedHTTP.directResponse)))
  \o Each(UDPExposeRule, Kept(pkg.expose, IsUDP))
  \o FlattenSeq(Each(LAMBDA c : SsoRules(pkg, c), AuthserviceClients(pkg)))
  \o Each(LAMBDA m : MonitorRule(pkg, m), pkg.monitor)

OutOfMesh == {"KubeNodes", "KubeAPI", "CloudMetadata"}

Hbone == <<"15008", "TCP">>

(* Port lists that are not UDP only also open the port of the tunnel,       *)
(* except towards destinations that are known to be out of the mesh.        *)
WithHbone(np) ==
  IF (\E p \in np.ports : p[2] # "UDP") /\ ~(np.direction = "Egress" /\ np.generated \in OutOfMesh)
  THEN [np EXCEPT !.ports = @ \cup {Hbone}] ELSE np

DefaultDenyAll(pkg) ==
  [name |-> SanitizeResourceName(<<"deny", pkg.name, "default">>), direction |-> "Both",
   selector |-> <<>>, generated |-> None, peers |-> {}, ports |-> {}]

NetworkPolicies(pkg) ==
  <<DefaultDenyAll(pkg)>>
  \o Each(LAMBDA a : WithHbone([Generate(a, ModeOf(pkg)) EXCEPT !.name = PolicyName(pkg.name, a)]),
          AllRules(pkg))

----------------------------------------------------------------------------
(* Authorization policies of the network. A source is a principal, a       *)
(* namespace or a CIDR; without sources anyone matches.                    *)
Principal(ns, sa) == <<"principal", ns, sa>>
PrometheusPrincipal == Principal("monitoring", "kube-prometheus-stack-prometheus")

AllowSources(a, ns) ==
  CASE Truthy(a.remoteServiceAccount) ->
         {Principal(IF Truthy(a.remoteNamespace) THEN a.remoteNamespace ELSE ns, a.remoteServiceAccount)}
    [] ~Truthy(a.remoteServiceAccount) /\ Truthy(a.remoteCidr) -> {<<"cidr", a.remoteCidr>>}
    [] ~Truthy(a.remoteServiceAccount) /\ ~Truthy(a.remoteCidr) /\ a.remoteGenerated # None ->
         CASE a.remoteGenerated = "CloudMetadata" -> {<<"cidr", MetaIp>>}
           [] a.remoteGenerated = "KubeAPI" -> {<<"cidr", c>> : c \in KubeApiPeers}
           [] a.remoteGenerated = "KubeNodes" -> {<<"cidr", c>> : c \in KubeNodePeers}
           [] a.remoteGenerated = "IntraNamespace" -> {<<"namespace", ns>>}
           [] OTHER -> {}
    [] OTHER -> IF a.remoteNamespace \in {None, "", "*"} THEN {} ELSE {<<"namespace", a.remoteNamespace>>}

BuildAuthPolicy(pkg, name, selector, sources, ports) ==
  [name |-> SanitizeResourceName(name), action |-> "ALLOW", selector |-> selector,
   sources |-> sources, ports |-> ports, mode |-> ModeOf(pkg)]

GenerateAllowName(a) ==
  <<"ingress">> \o
  (IF Truthy(a.description) THEN <<a.description>>
   ELSE Values(OrElse(a.selector, <<<<"default", "all pods">>>>))
        \o (IF a.remoteGenerated # None THEN <<a.remoteGenerated>>
            ELSE <<IF Truthy(a.remoteNamespace) THEN a.remoteNamespace ELSE "default">>
                 \o Values(OrElse(a.remoteSelector, <<<<"default", "all pods">>>>))))

AllowAuthPolicy(pkg, a) ==
  LET client == FindMatchingSsoClient(pkg, a.selector)
      sources == AllowSources(a, pkg.namespace)
  IN  IF client = None
      THEN BuildAuthPolicy(pkg, <<"protect", pkg.name>> \o GenerateAllowName(a), a.selector, sources, PortsNamed(a))
      ELSE BuildAuthPolicy(pkg, <<"protect", pkg.name, "allow">> \o GenerateAllowName(a) \o <<GetWaypointName(client)>>,
                           WaypointSelector(client), sources, PortsNamed(a))

GenerateExposeName(e) ==
  <<"ingress", Str(OrElse(e.targetPort, e.port))>>
  \o (IF e.selector = None THEN <<"all">> ELSE Values(e.selector))
  \o <<"istio", IF Truthy(e.gateway) THEN e.gateway ELSE "tenant", "gateway">>

(* One policy, or none for a protected workload without a port.            *)
ExposeAuthPolicies(pkg, e) ==
  LET client == FindMatchingSsoClient(pkg, e.selector)
      gw == GatewayOf(e)
      sources == {Principal(GatewayNamespace(gw), GatewayAccount(gw))}
      labels == FlattenSeq(Labels(e.selector))
  IN  IF client = None
      THEN <<BuildAuthPolicy(pkg, <<"protect", pkg.name>> \o GenerateExposeName(e), e.selector, sources,
                             {OrElse(e.targetPort, e.port)} \ {None})>>
      ELSE IF e.port = None THEN <<>>
      ELSE <<BuildAuthPolicy(pkg, <<"protect", pkg.name, "ingress", e.port>>
                                  \o (IF labels = <<>> THEN <<"all">> ELSE labels)
                                  \o <<GetWaypointName(client)>>,
                             WaypointSelector(client), sources, {e.port})>>

MonitorBaseName(m) ==
  LET sel == OrElse(m.podSelector, m.selector)
      app == Kept(sel, LAMBDA p : p[1] = "app")
      named == Kept(sel, LAMBDA p : p[1] = "app.kubernetes.io/name")
  IN  IF app # <<>> THEN Values(app)
      ELSE IF named # <<>> THEN Values(named) \o <<"workload">>
      ELSE IF sel = <<>> THEN <<"workload">> ELSE Values(sel)

MonitorAuthPolicy(pkg, m) ==
  LET sel == OrElse(m.podSelector, m.selector)
      client == FindMatchingSsoClient(pkg, sel)
      name == <<"monitor", m.targetPort>> \o MonitorBaseName(m)
  IN  IF client = None
      THEN BuildAuthPolicy(pkg, <<"protect", pkg.name>> \o name, sel, {PrometheusPrincipal}, {m.targetPort})
      ELSE BuildAuthPolicy(pkg, <<"protect", pkg.name, "monitor">> \o name \o <<GetWaypointName(client)>>,
                           WaypointSelector(client), {PrometheusPrincipal}, {m.targetPort})

(* Everyone but the waypoint is denied; "sources" are the ones let through. *)
DenyAllExceptWaypoint(pkg, c) ==
  [name |-> SanitizeResourceName(<<"deny-all-except-waypoint", GetWaypointName(c.clientId)>>),
   action |-> "DENY", selector |-> c.enableAuthserviceSelector,
   sources |-> {Principal(pkg.namespace, GetWaypointName(c.clientId))}, ports |-> {}, mode |-> "ambient"]

SidecarMetrics(pkg) ==
  BuildAuthPolicy(pkg, <<"protect", pkg.name, "ingress", "15020", "sidecar-metric-scraping">>, <<>>,
                  {PrometheusPrincipal}, {"15020"})

(* generateAuthorizationPolicies, for the package as networkPolicies left it. *)
AuthorizationPolicies(pkg) ==
  Each(LAMBDA a : AllowAuthPolicy(pkg, a),
       Kept(pkg.allow, LAMBDA a : a.direction # "Egress" /\ a.remoteProtocol # "UDP"))
  \o FlattenSeq(Each(LAMBDA e : ExposeAuthPolicies(pkg, e), pkg.expose))
  \o Each(LAMBDA m : MonitorAuthPolicy(pkg, m), pkg.monitor)
  \o (IF ShouldUseAmbientWaypoint(pkg)
      THEN Each(LAMBDA c : DenyAllExceptWaypoint(pkg, c), AuthserviceClients(pkg)) ELSE <<>>)
  \o (IF ModeOf(pkg) = "sidecar" THEN <<SidecarMetrics(pkg)>> ELSE <<>>)

----------------------------------------------------------------------------
(* The policies that send a protected workload's traffic to authservice    *)
(* and deny what has no token of the realm.                                *)
ComputeMonitorExemptions(pkg, selector) ==
  {<<m.targetPort, IF Truthy(m.path) THEN m.path ELSE "/metrics">> :
     m \in {n \in ToSet(pkg.monitor) : Subset(selector, OrElse(n.podSelector, n.selector))}}
  \cup (IF ModeOf(pkg) = "ambient" THEN {} ELSE {<<"15020", "/stats/prometheus">>})

ExemptPorts(exemptions) == {x[1] : x \in exemptions}
PathsOn(exemptions, port) == {x[2] : x \in {y \in exemptions : y[1] = port}}

Operation(ports, notPorts, paths, notPaths) ==
  [ports |-> ports, notPorts |-> notPorts, paths |-> paths, notPaths |-> notPaths]

BuildMetricsOperations(exemptions) ==
  {Operation({p}, {}, PathsOn(exemptions, p), {}) : p \in ExemptPorts(exemptions)}

NonMetricsPortsOnly(exemptions) ==
  IF exemptions = {} THEN {} ELSE {Operation({}, ExemptPorts(exemptions), {}, {})}

BuildNonMetricsOperations(exemptions) ==
  {Operation({p}, {}, {}, PathsOn(exemptions, p)) : p \in ExemptPorts(exemptions)}
  \cup (IF exemptions = {} THEN {} ELSE {Operation({}, ExemptPorts(exemptions), {}, {})})

(* A rule: who it is about ("notPrincipals", "notJwt", "noHeader") and what; *)
(* no operations at all means every request.                                *)
AuthserviceRules(exemptions) ==
  {[notPrincipals |-> {}, when |-> "noHeader", to |-> BuildNonMetricsOperations(exemptions)]}

JwtAuthZRules(exemptions) ==
  IF exemptions = {}
  THEN {[notPrincipals |-> {}, when |-> "notJwt", to |-> {}]}
  ELSE {[notPrincipals |-> {PrometheusPrincipal}, when |-> "notJwt", to |-> BuildMetricsOperations(exemptions)],
        [notPrincipals |-> {}, when |-> "notJwt", to |-> BuildNonMetricsOperations(exemptions)]}

SetPolicyTarget(pkg, c) ==
  IF ModeOf(pkg) = "ambient" THEN WaypointSelector(c.clientId) ELSE c.enableAuthserviceSelector

(* The three policies of a client in the order in which they are applied.  *)
SsoPolicies(pkg, c) ==
  LET exemptions == ComputeMonitorExemptions(pkg, c.enableAuthserviceSelector)
      Policy(kind, rules) ==
        [kind |-> kind, client |-> c.clientId, name |-> SanitizeResourceName(<<c.clientId, kind>>),
         target |-> SetPolicyTarget(pkg, c), rules |-> rules]
  IN  <<Policy("authservice", AuthserviceRules(exemptions)),
        Policy("jwt-authn", {}),
        Policy("jwt-authz", JwtAuthZRules(exemptions))>>

----------------------------------------------------------------------------
(* Ingress of HTTP entries and monitors.                                   *)
IngressVirtualService(pkg, e) ==
  [name |-> GenerateVSName(pkg.name, e), host |-> GetFqdn(e), gateway |-> GatewayOf(e),
   route |-> IF e.advancedHTTP # None /\ e.advancedHTTP.directResponse THEN None
             ELSE <<Str(e.service), Str(e.port)>>,
   tls |-> Includes(GatewayOf(e), "passthrough")]

GenerateSEName(pkgName, e) ==
  SanitizeResourceName(<<pkgName, GatewayOf(e), IF e.host = "." THEN "root-domain" ELSE Str(e.host)>>)

IngressServiceEntry(pkg, e) ==
  [name |-> GenerateSEName(pkg.name, e), host |-> GetFqdn(e), gateway |-> GatewayOf(e)]

HTTPExposes(pkg) == Kept(pkg.expose, LAMBDA e : ~IsUDP(e))

VirtualServices(pkg) == Each(LAMBDA e : IngressVirtualService(pkg, e), HTTPExposes(pkg))

(* A name that was made already is skipped.                                *)
ServiceEntries(pkg) ==
  LET all == Each(LAMBDA e : IngressServiceEntry(pkg, e), HTTPExposes(pkg))
  IN  {all[i] : i \in {j \in DOMAIN all : \A k \in 1..(j - 1) : all[k].name # all[j].name}}

MonitorPayload(pkg, m) ==
  [kind |-> IF m.kind = "PodMonitor" THEN "PodMonitor" ELSE "ServiceMonitor",
   name |-> GenerateMonitorName(pkg.name, m), port |-> m.portName,
   selector |-> IF m.kind = "PodMonitor" THEN OrElse(m.podSelector, m.selector) ELSE m.selector]

Monitors(pkg) == {MonitorPayload(pkg, m) : m \in ToSet(pkg.monitor)}
=============================================================================
