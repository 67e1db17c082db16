---------------------------- MODULE PackageRules ----------------------------
(***************************************************************************)
(* What a UDS Package may say and what the webhook makes of it: the shapes *)
(* of its entries (crd/sources/package), the migration of deprecated       *)
(* fields (crd/migrate.ts), the names of generated resources, and the      *)
(* validating webhook (crd/validators/package-validator.ts).               *)
(*                                                                         *)
(* An absent field is None. A set of labels is a sequence of <<key, value>> *)
(* pairs, because names are built from the values in their order. Strings  *)
(* that become part of a name are opaque; Tokens gives the runs of letters *)
(* and of digits they consist of, in lower case, with "-" for every run of *)
(* other characters.                                                       *)
(***************************************************************************)
EXTENDS Naturals, Sequences, SequencesExt

CONSTANTS None,
          Tokens(_),     \* the runs a string consists of
          Digits,        \* the runs that are digits
          NameLimit,     \* the number of runs a resource name has room for
          TenantDomain, AdminDomain,
          AllowPublicClients

ASSUME NoneAssumption == None \notin STRING

Mode == {"sidecar", "ambient"}
Direction == {"Ingress", "Egress"}
RemoteGenerated == {"Anywhere", "CloudMetadata", "IntraNamespace", "KubeAPI", "KubeNodes"}
RemoteProtocol == {"HTTP", "TCP", "TLS", "UDP"}
StandardGateways == {"tenant", "admin", "passthrough"}
InvalidNamespaces == {"kube-system", "kube-public", "_unknown_", "pepr-system"}

Truthy(s) == s \notin {None, ""}
OrElse(a, b) == IF a # None THEN a ELSE b
Str(s) == OrElse(s, "undefined")

LabelSets == Seq(STRING \X STRING)
Optional(S) == S \cup {None}

Includes(s, t) == \E i \in 0..(Len(s) - Len(t)) : SubSeq(s, i + 1, i + Len(t)) = t
EndsWith(s, t) == Len(t) <= Len(s) /\ SubSeq(s, Len(s) - Len(t) + 1, Len(s)) = t

Values(labels) == [i \in 1..Len(labels) |-> labels[i][2]]

Allow ==
  [direction: Direction, description: Optional(STRING),
   selector: Optional(LabelSets), podLabels: Optional(LabelSets),
   port: Optional(STRING), ports: Seq(STRING),
   remoteGenerated: Optional(RemoteGenerated), remoteNamespace: Optional(STRING),
   remoteSelector: Optional(LabelSets), remotePodLabels: Optional(LabelSets),
   remoteCidr: Optional(STRING), remoteHost: Optional(STRING),
   remoteProtocol: Optional(RemoteProtocol),
   remoteServiceAccount: Optional(STRING), serviceAccount: Optional(STRING)]

AdvancedHTTP == [match: Optional(Seq(STRING)), directResponse: BOOLEAN]

(* An entry names a service with the labels of its pods, or answers itself. *)
ExposeSchema(e) ==
  \/ e.host # None /\ e.service # None /\ e.port # None
       /\ (e.podLabels # None \/ e.selector # None)
  \/ e.host # None /\ e.advancedHTTP # None
  \/ e.protocol # None /\ e.service # None /\ e.selector # None /\ e.port # None

Expose ==
  {e \in [protocol: Optional({"HTTP", "UDP"}), description: Optional(STRING),
          host: Optional(STRING), gateway: Optional(STRING), domain: Optional(STRING),
          service: Optional(STRING), port: Optional(STRING), targetPort: Optional(STRING),
          selector: Optional(LabelSets), podLabels: Optional(LabelSets),
          match: Optional(Seq(STRING)), advancedHTTP: Optional(AdvancedHTTP),
          uptime: Seq(STRING)] : ExposeSchema(e)}

SecretConfig == [name: Optional(STRING), labels: Optional(LabelSets),
                 annotations: Optional(LabelSets), template: Optional(LabelSets)]

Sso ==
  [clientId: STRING, standardFlowEnabled: BOOLEAN, publicClient: BOOLEAN,
   serviceAccountsEnabled: BOOLEAN, protocol: {"openid-connect", "saml"},
   redirectUris: Seq(STRING), attributes: Seq(STRING \X STRING), secret: Optional(STRING),
   enableAuthserviceSelector: Optional(LabelSets), secretConfig: Optional(SecretConfig),
   secretName: Optional(STRING), secretLabels: Optional(LabelSets),
   secretAnnotations: Optional(LabelSets), secretTemplate: Optional(LabelSets)]

Monitor ==
  [kind: Optional({"PodMonitor", "ServiceMonitor"}), description: Optional(STRING),
   selector: LabelSets, podSelector: Optional(LabelSets), portName: STRING,
   targetPort: STRING, path: Optional(STRING)]

Package ==
  [namespace: STRING, name: STRING, deleting: BOOLEAN, mode: Optional(Mode),
   expose: Seq(Expose), allow: Seq(Allow), sso: Seq(Sso), monitor: Seq(Monitor)]

ModeOf(pkg) == OrElse(pkg.mode, "ambient")

----------------------------------------------------------------------------
(* Migration of deprecated fields.                                         *)
MigrateExpose(e) ==
  IF e.match = None THEN e
  ELSE [e EXCEPT !.match = None,
                 !.advancedHTTP = [match |-> e.match,
                                   directResponse |-> @ # None /\ @.directResponse]]

MigrateAllow(a) ==
  [a EXCEPT !.selector = OrElse(a.podLabels, @), !.podLabels = None,
            !.remoteSelector = OrElse(a.remotePodLabels, @), !.remotePodLabels = None]

NoSecretConfig == [name |-> None, labels |-> None, annotations |-> None, template |-> None]

(* Deprecated secret fields fill the gaps of secretConfig.                 *)
MigrateSecret(s) ==
  IF ~Truthy(s.secretName) /\ s.secretLabels = None /\ s.secretAnnotations = None
       /\ s.secretTemplate = None
  THEN s
  ELSE LET cfg == OrElse(s.secretConfig, NoSecretConfig)
       IN  [s EXCEPT !.secretConfig =
                 [name |-> IF Truthy(s.secretName) /\ ~Truthy(cfg.name) THEN s.secretName ELSE cfg.name,
                  labels |-> OrElse(cfg.labels, s.secretLabels),
                  annotations |-> OrElse(cfg.annotations, s.secretAnnotations),
                  template |-> OrElse(cfg.template, s.secretTemplate)],
              !.secretName = IF Truthy(@) THEN None ELSE @,
              !.secretLabels = None, !.secretAnnotations = None, !.secretTemplate = None]

Each(f(_), s) == [i \in 1..Len(s) |-> f(s[i])]

Migrate(pkg) ==
  [pkg EXCEPT !.expose = Each(MigrateExpose, @), !.allow = Each(MigrateAllow, @),
              !.sso = Each(MigrateSecret, @)]

----------------------------------------------------------------------------
(* Names of generated resources.                                           *)
Joined(strings) ==
  IF strings = <<>> THEN ""
  ELSE FlattenSeq([i \in 1..(2 * Len(strings) - 1) |->
                     IF i % 2 = 1 THEN strings[(i + 1) \div 2] ELSE "-"])

Dashed(strings) ==
  FlattenSeq([i \in 1..(2 * Len(strings) - 1) |->
                IF i % 2 = 1 THEN Tokens(strings[(i + 1) \div 2]) ELSE <<"-">>])

Trimmed(name) ==
  LET letters == {i \in DOMAIN name : name[i] \notin Digits \cup {"-"}}
  IN  IF letters = {} THEN <<>>
      ELSE SubSeq(name, CHOOSE i \in letters : \A j \in letters : i <= j,
                        CHOOSE i \in letters : \A j \in letters : j <= i)

(* A single dash for every run of other characters, cut to the limit,      *)
(* without what precedes the first and follows the last letter.            *)
SanitizeResourceName(strings) ==
  LET raw == Dashed(strings)
      single == SelectSeq([i \in DOMAIN raw |-> <<i, raw[i]>>],
                          LAMBDA p : p[2] # "-" \/ p[1] = 1 \/ raw[p[1] - 1] # "-")
      kept == [i \in 1..Len(single) |-> single[i][2]]
  IN  Trimmed(SubSeq(kept, 1, IF Len(kept) < NameLimit THEN Len(kept) ELSE NameLimit))

IsResourceName(s) == SanitizeResourceName(<<s>>) = Tokens(s)

GatewayOf(e) == OrElse(e.gateway, "tenant")

GenerateVSName(pkgName, e) ==
  LET matches == IF e.advancedHTTP = None THEN <<>> ELSE OrElse(e.advancedHTTP.match, <<>>)
      host == IF e.host = "." THEN "root-domain" ELSE Str(e.host)
  IN  SanitizeResourceName(
        <<pkgName, GatewayOf(e)>>
        \o (IF Truthy(e.description) THEN <<e.description>>
            ELSE <<host, Str(e.port), Str(e.service)>> \o matches))

GenerateName(a) ==
  <<a.direction>> \o
  (IF Truthy(a.description) THEN <<a.description>>
   ELSE Values(OrElse(a.selector, <<<<"", "all pods">>>>))
        \o (IF a.remoteGenerated # None THEN <<a.remoteGenerated>>
            ELSE (IF Truthy(a.remoteNamespace) THEN <<a.remoteNamespace>> ELSE <<>>)
                 \o Values(OrElse(a.remoteSelector, <<<<"", "all pods">>>>)))
        \o <<IF a.remoteProtocol = "UDP" THEN "UDP" ELSE "TCP">>)

PolicyName(pkgName, a) == SanitizeResourceName(<<"allow", pkgName>> \o GenerateName(a))

UDPRouteName(pkgName, e) ==
  SanitizeResourceName(<<pkgName, "udp", OrElse(e.description, e.port)>>)

GenerateMonitorName(pkgName, m) ==
  SanitizeResourceName(<<pkgName>> \o (IF Truthy(m.description) THEN <<m.description>>
                                       ELSE Values(m.selector) \o <<m.portName>>))

UDPGatewayPortKey(gateway, port) ==
  <<IF Truthy(gateway) THEN gateway ELSE "envoy-default-gateway", port>>

GetFqdn(e) ==
  LET domain == IF Truthy(e.domain) THEN e.domain
                ELSE IF Includes(GatewayOf(e), "admin") THEN AdminDomain ELSE TenantDomain
  IN  IF e.host = "." THEN <<domain>> ELSE <<Str(e.host), domain>>

----------------------------------------------------------------------------
(* The validating webhook. Each predicate says that the code does not deny. *)
Distinct(names) == \A i, j \in DOMAIN names : names[i] = names[j] => i = j

GatewayAllowed(e) ==
  Truthy(e.gateway) /\ e.gateway \notin StandardGateways => IsResourceName(e.gateway)

UDPExposeAllowed(raw, e) ==
  e.host = None /\ e.domain = None /\ raw.match = None /\ e.advancedHTTP = None
  /\ e.uptime = <<>> /\ e.podLabels = None

HTTPExposeAllowed(e) ==
  /\ Truthy(e.host)
  /\ ~(e.gateway \in StandardGateways /\ Truthy(e.domain))
  /\ Includes(GatewayOf(e), "passthrough") => e.advancedHTTP = None
  /\ e.advancedHTTP # None /\ e.advancedHTTP.directResponse =>
       ~Truthy(e.service) /\ e.selector = None /\ e.port = None /\ e.targetPort = None
  /\ \A i \in DOMAIN e.uptime : SubSeq(e.uptime[i], 1, 1) = "/"

IsUDP(e) == e.protocol = "UDP"

(* The store knows packages with this client id or UDP port, none of them  *)
(* in the package's own namespace.                                         *)
TakenElsewhere(owners, id, namespace) ==
  id \in DOMAIN owners /\ owners[id] # {} /\ namespace \notin owners[id]

ExposeAllowed(raw, pkg, portOwners) ==
  LET udp == {i \in DOMAIN pkg.expose : IsUDP(pkg.expose[i])}
      http == DOMAIN pkg.expose \ udp
      probed == {i \in http : pkg.expose[i].uptime # <<>>}
      keys == [i \in udp |-> UDPGatewayPortKey(pkg.expose[i].gateway, pkg.expose[i].port)]
  IN  /\ \A i \in DOMAIN pkg.expose : GatewayAllowed(pkg.expose[i])
      /\ \A i \in udp : UDPExposeAllowed(raw.expose[i], pkg.expose[i])
      /\ \A i \in http : HTTPExposeAllowed(pkg.expose[i])
      /\ Distinct([i \in udp |-> UDPRouteName(pkg.name, pkg.expose[i])])
      /\ Distinct(keys)
      /\ \A i \in udp : ~TakenElsewhere(portOwners, keys[i], pkg.namespace)
      /\ Distinct([i \in http |-> GenerateVSName(pkg.name, pkg.expose[i])])
      /\ Distinct([i \in probed |-> GetFqdn(pkg.expose[i])])

L7(a) == a.remoteProtocol \in {"TLS", "HTTP"}
InCluster(a) == a.remoteNamespace # None \/ a.remoteSelector # None

RemoteAllowed(a) ==
  /\ a.remoteGenerated # None \/ InCluster(a) \/ Truthy(a.remoteCidr) \/ Truthy(a.remoteHost)
  /\ a.remoteGenerated # None =>
       ~InCluster(a) /\ ~Truthy(a.remoteCidr) /\ ~Truthy(a.remoteHost) /\ ~L7(a)
  /\ InCluster(a) => ~Truthy(a.remoteCidr) /\ ~Truthy(a.remoteHost) /\ ~L7(a)
  /\ Truthy(a.remoteCidr) => ~Truthy(a.remoteHost) /\ ~L7(a)

AllowRuleAllowed(a, mode) ==
  /\ RemoteAllowed(a)
  /\ ~(a.remoteProtocol = "UDP" /\ a.remoteGenerated \in {"KubeAPI", "KubeNodes", "CloudMetadata"})
  /\ a.remoteProtocol \in {"TCP", "UDP"} => ~Truthy(a.remoteHost)
  /\ Truthy(a.remoteHost) \/ L7(a) => a.direction # "Ingress"
  /\ Truthy(a.remoteHost) => ~Includes(a.remoteHost, "*")
  /\ Truthy(a.serviceAccount) =>
       /\ mode = "ambient"
       /\ \/ Truthy(a.remoteHost)
          \/ a.remoteGenerated = "Anywhere" /\ a.direction = "Egress"

AllowsAllowed(pkg) ==
  /\ \A i \in DOMAIN pkg.allow : AllowRuleAllowed(pkg.allow[i], ModeOf(pkg))
  /\ Distinct([i \in DOMAIN pkg.allow |-> PolicyName(pkg.name, pkg.allow[i])])

(* Those of the accepted attributes that other rules look at or that stand  *)
(* for the rest.                                                            *)
AllowedAttributes ==
  {"access.token.lifespan", "oauth2.device.authorization.grant.enabled",
   "pkce.code.challenge.method", "saml.client.signature"}

HasAttribute(c, k, v) == \E i \in DOMAIN c.attributes : c.attributes[i] = <<k, v>>

DeviceFlowOnly(c) ==
  ~c.standardFlowEnabled /\ HasAttribute(c, "oauth2.device.authorization.grant.enabled", "true")

WithoutSecretOrService(c) ==
  /\ ~c.serviceAccountsEnabled /\ c.secret = None /\ c.enableAuthserviceSelector = None
  /\ c.secretConfig # None => c.secretConfig.name = None /\ c.secretConfig.template = None
  /\ c.protocol # "saml"

PublicClientAllowed(c) ==
  /\ WithoutSecretOrService(c)
  /\ \/ DeviceFlowOnly(c)
     \/ AllowPublicClients /\ HasAttribute(c, "pkce.code.challenge.method", "S256")

(* A redirect URI is "/" for one whose path is the root and "bad" for one  *)
(* that is not a URL.                                                      *)
AuthserviceClientAllowed(c) ==
  /\ ~Includes(c.clientId, ":")
  /\ \A i \in DOMAIN c.redirectUris : c.redirectUris[i] \notin {"bad", "/"}

SsoClientAllowed(c) ==
  /\ c.secretConfig # None /\ Truthy(c.secretConfig.name) => IsResourceName(c.secretConfig.name)
  /\ c.standardFlowEnabled => c.redirectUris # <<>>
  /\ c.publicClient => PublicClientAllowed(c)
  /\ ~(~c.publicClient /\ c.serviceAccountsEnabled /\ c.standardFlowEnabled)
  /\ \A i \in DOMAIN c.attributes : c.attributes[i][1] \in AllowedAttributes
  /\ c.enableAuthserviceSelector # None => AuthserviceClientAllowed(c)

SsoAllowed(pkg, clientOwners) ==
  /\ Distinct([i \in DOMAIN pkg.sso |-> pkg.sso[i].clientId])
  /\ \A i \in DOMAIN pkg.sso : ~TakenElsewhere(clientOwners, pkg.sso[i].clientId, pkg.namespace)
  /\ \A i \in DOMAIN pkg.sso : SsoClientAllowed(pkg.sso[i])

MonitorsAllowed(pkg) ==
  LET pods == {i \in DOMAIN pkg.monitor : pkg.monitor[i].kind = "PodMonitor"}
  IN  \A kind \in {pods, DOMAIN pkg.monitor \ pods} :
        Distinct([i \in kind |-> GenerateMonitorName(pkg.name, pkg.monitor[i])])

NamespaceAllowedToAll(pkg, existing) == pkg.namespace \notin InvalidNamespaces

NamespaceAllowed(pkg, existing) ==
  /\ pkg.namespace \notin InvalidNamespaces
  /\ existing # None /\ ~pkg.deleting => existing = pkg.name

(* validator: existing is the first package the store knows in the         *)
(* namespace, the owners are its answers on client ids and UDP ports.      *)
Validator(raw, existing, clientOwners, portOwners) ==
  LET pkg == Migrate(raw)
  IN  /\ NamespaceAllowed(pkg, existing)
      /\ ExposeAllowed(raw, pkg, portOwners)
      /\ AllowsAllowed(pkg)
      /\ SsoAllowed(pkg, clientOwners)
      /\ MonitorsAllowed(pkg)
=============================================================================
