---------------------------- MODULE PolicyRules ----------------------------
(***************************************************************************)
(* The admission rules of src/src/pepr/policies: what the mutating webhook *)
(* does to a pod and what the validating webhook refuses, as functions of  *)
(* the object and of the set of policies it is exempt from.                *)
(*                                                                         *)
(* A field that the code compares with undefined has the value "unset";    *)
(* user and group ids are reduced to the classes the rules tell apart:     *)
(* "root" (0), "istio" (1337) and "user" (any other).                      *)
(***************************************************************************)
EXTENDS Naturals, Sequences, SequencesExt

ServicePolicies == {"RestrictExternalNames", "DisallowNodePortServices"}

PodPolicies ==
  {"DisallowHostNamespaces", "DisallowPrivileged", "DisallowSELinuxOptions",
   "DropAllCapabilities", "RequireNonRootUser", "RestrictCapabilities",
   "RestrictHostPathWrite", "RestrictHostPorts", "RestrictIstioAmbientOverrides",
   "RestrictIstioSidecarOverrides", "RestrictIstioTrafficOverrides",
   "RestrictIstioUser", "RestrictProcMount", "RestrictSELinuxType",
   "RestrictSeccomp", "RestrictVolumeTypes"}

Policy == ServicePolicies \cup PodPolicies

(* The policies whose Mutate callback changes the pod besides marking it.  *)
MutatingPolicies == {"DisallowPrivileged", "RequireNonRootUser", "DropAllCapabilities"}

(* A container; ctx fields are meaningful when sc (it has a securityContext). *)
(* init: it is one of the initContainers. looks: what its name, args and      *)
(* ports say it is; a waypoint is a proxy with the argument "waypoint".       *)
EmptyContainer ==
  [sc |-> FALSE, allowPrivilegeEscalation |-> "unset", privileged |-> "unset",
   add |-> {}, drop |-> {}, runAsUser |-> "unset", runAsGroup |-> "unset",
   runAsNonRoot |-> "unset", procMount |-> "unset", seccomp |-> "unset",
   seOptions |-> FALSE, seType |-> "unset", hostPort |-> FALSE, mounts |-> {},
   init |-> FALSE, looks |-> "app", image |-> [registry |-> "docker.io", repository |-> "app"]]

EmptyPod ==
  [kind |-> "pod", namespace |-> "app", name |-> "web",
   containers |-> [c \in {"first", "second"} |-> EmptyContainer],
   runAsUser |-> "unset", runAsGroup |-> "unset", fsGroup |-> "unset",
   runAsNonRoot |-> "unset", supplementalGroups |-> {}, seccomp |-> "unset",
   seOptions |-> FALSE, seType |-> "unset", hostNamespaces |-> FALSE, volumes |-> {},
   userLabel |-> "none", groupLabel |-> "none", fsGroupLabel |-> "none",
   annotations |-> {}, injectAnnotation |-> "none", injectLabel |-> "none",
   exempted |-> {}, mutated |-> <<>>]

EmptyService == [kind |-> "service", namespace |-> "app", name |-> "web", type |-> "ClusterIP"]

Flag == {"unset", "true", "false"}
Id == {"unset", "root", "istio", "user"}
Label == Id \cup {"none", "junk"}
Capability == {"ALL", "CAP_SYS_ADMIN", "NET_ADMIN", "NET_BIND_SERVICE", "MKNOD", "other"}

Container ==
  [sc : BOOLEAN, allowPrivilegeEscalation : Flag, privileged : Flag,
   add : SUBSET Capability, drop : SUBSET Capability, runAsUser : Id, runAsGroup : Id,
   runAsNonRoot : Flag, procMount : STRING, seccomp : STRING, seOptions : BOOLEAN,
   seType : STRING, hostPort : BOOLEAN, mounts : SUBSET [volume : STRING, readOnly : BOOLEAN],
   init : BOOLEAN, looks : STRING, image : [registry : STRING, repository : STRING]]

(* Pods whose containers have the given names.                             *)
Pod(names) ==
  [kind : {"pod"}, namespace : STRING, name : STRING, containers : [names -> Container],
   runAsUser : Id, runAsGroup : Id, fsGroup : Id, runAsNonRoot : Flag,
   supplementalGroups : SUBSET Id, seccomp : STRING, seOptions : BOOLEAN, seType : STRING,
   hostNamespaces : BOOLEAN, volumes : SUBSET STRING,
   userLabel : Label, groupLabel : Label, fsGroupLabel : Label, annotations : SUBSET STRING,
   injectAnnotation : STRING, injectLabel : STRING,
   exempted : SUBSET Policy, mutated : Seq(Policy)]

Service == [kind : {"service"}, namespace : STRING, name : STRING, type : STRING]

(* A container without a securityContext has none of its fields.           *)
MeaningfulFields(c) ==
  c.sc = FALSE =>
    /\ c.allowPrivilegeEscalation = "unset" /\ c.privileged = "unset"
    /\ c.add = {} /\ c.drop = {} /\ c.runAsUser = "unset" /\ c.runAsGroup = "unset"
    /\ c.runAsNonRoot = "unset" /\ c.procMount = "unset" /\ c.seccomp = "unset"
    /\ c.seOptions = FALSE /\ c.seType = "unset"

----------------------------------------------------------------------------
(* Images. The registry is the part before the first slash when it looks   *)
(* like one; an image without it is from docker.io, and an image that is   *)
(* nothing but a registry cannot be parsed.                                *)
ParseImageRef(image) ==
  CASE image.registry = "" -> [ok |-> TRUE, registry |-> "docker.io", repository |-> image.repository]
    [] image.registry # "" /\ image.repository = "" -> [ok |-> FALSE, registry |-> "", repository |-> ""]
    [] OTHER -> [ok |-> TRUE, registry |-> image.registry, repository |-> image.repository]

IstioImageFlavors ==
  {[registry |-> "docker.io", repository |-> "istio/proxyv2"],
   [registry |-> "registry1.dso.mil", repository |-> "ironbank/tetrate/istio/proxyv2"],
   [registry |-> "cgr.dev", repository |-> "defenseunicorns.com/istio-proxy-fips"]}

ValidateIstioImage(image) ==
  LET parsed == ParseImageRef(image)
  IN  /\ parsed.ok
      /\ \E f \in IstioImageFlavors :
           /\ f.repository = parsed.repository
           /\ parsed.registry \in {f.registry, "zarf"}

IsIstioProxyContainer(c) ==
  c.looks \in {"istio-proxy", "waypoint"} /\ ValidateIstioImage(c.image)

IsIstioInitContainer(pod, c) ==
  /\ "sidecar.istio.io/status" \in pod.annotations
  /\ \E n \in DOMAIN pod.containers :
       pod.containers[n].init /\ IsIstioProxyContainer(pod.containers[n])
  /\ c.looks = "istio-init"
  /\ ValidateIstioImage(c.image)

Containers(pod) == {pod.containers[n] : n \in DOMAIN pod.containers}

(* Only the containers that have a securityContext are looked at.          *)
SecurityContextContainers(pod, excludeIstioInit) ==
  {c \in Containers(pod) : c.sc /\ ~(excludeIstioInit /\ IsIstioInitContainer(pod, c))}

----------------------------------------------------------------------------
(* The mutating webhook.                                                   *)
SetPrivilegeEscalationIfContext(c) ==
  IF c.sc /\ c.allowPrivilegeEscalation = "unset" /\ c.privileged # "true"
  THEN [c EXCEPT !.allowPrivilegeEscalation = "false"] ELSE c

SetPrivilegeEscalation(c) ==
  [c EXCEPT !.sc = TRUE,
            !.allowPrivilegeEscalation =
              IF @ = "unset" /\ c.privileged # "true" /\ "CAP_SYS_ADMIN" \notin c.add
              THEN "false" ELSE @]

(* parseInt of a label; what is not a number becomes NaN, which reaches    *)
(* the API server as null.                                                 *)
ParsedLabel(label) == IF label = "junk" THEN "unset" ELSE label

FromLabel(label, value) == IF label = "none" THEN value ELSE ParsedLabel(label)

SetNonRootUserSettings(pod) ==
  [pod EXCEPT !.runAsUser = IF pod.userLabel = "none" /\ @ = "unset" THEN "user"
                            ELSE FromLabel(pod.userLabel, @),
              !.runAsGroup = IF pod.groupLabel = "none" /\ @ = "unset" THEN "user"
                             ELSE FromLabel(pod.groupLabel, @),
              !.fsGroup = FromLabel(pod.fsGroupLabel, @),
              !.runAsNonRoot = IF @ = "unset" THEN "true" ELSE @]

DropAll(c) == [c EXCEPT !.sc = TRUE, !.drop = {"ALL"}]

OnContainers(pod, Op(_)) ==
  [pod EXCEPT !.containers = [n \in DOMAIN pod.containers |-> Op(pod.containers[n])]]

AnnotatedTwice(pod, policy) == [pod EXCEPT !.mutated = Append(@, policy)]

Annotated(pod, policy) ==
  [pod EXCEPT !.mutated = IF policy \in ToSet(@) THEN @ ELSE Append(@, policy)]

MutatePrivileged(pod) ==
  LET escalation == OnContainers(pod, SetPrivilegeEscalation)
      wasMutated == \E n \in DOMAIN pod.containers :
                      escalation.containers[n].allowPrivilegeEscalation
                        # pod.containers[n].allowPrivilegeEscalation
  IN  IF "DisallowPrivileged" \in pod.exempted THEN pod
      ELSE IF wasMutated THEN Annotated(escalation, "DisallowPrivileged") ELSE escalation

MutateNonRoot(pod) ==
  IF "RequireNonRootUser" \in pod.exempted THEN pod
  ELSE Annotated(SetNonRootUserSettings(pod), "RequireNonRootUser")

MutateDropAll(pod) ==
  IF "DropAllCapabilities" \in pod.exempted THEN pod
  ELSE Annotated(OnContainers(pod, DropAll), "DropAllCapabilities")

(* Every policy marks its exemption; marks from earlier calls stay.        *)
MarkExemptions(pod, exempt) == [pod EXCEPT !.exempted = @ \cup exempt]

(* The Mutate callbacks of one request, in the order they are registered.  *)
MutatePod(pod, exempt) ==
  MutateDropAll(MutateNonRoot(MutatePrivileged(MarkExemptions(pod, exempt))))

----------------------------------------------------------------------------
(* The validating webhook: the predicate each policy checks.               *)
IsRootUnlessStated(ctx) == ctx.runAsNonRoot # "true" \/ ctx.runAsUser = "root"

IsRootSecurityContext(ctx) == ctx.runAsNonRoot = "false" \/ ctx.runAsUser = "root"

NonRoot(pod) ==
  /\ ~IsRootSecurityContext(pod)
  /\ "root" \notin pod.supplementalGroups
  /\ \A c \in SecurityContextContainers(pod, TRUE) : ~IsRootSecurityContext(c)

PrivilegeViolations(containers) ==
  {c \in containers : c.allowPrivilegeEscalation # "false" \/ c.privileged = "true"}

NoPrivilegeEscalation(pod) ==
  PrivilegeViolations(SecurityContextContainers(pod, FALSE)) = {}

ProcMountAllowed(pod) ==
  \A c \in SecurityContextContainers(pod, FALSE) : c.procMount \in {"unset", "Default"}

SeccompTypes == {"unset", "RuntimeDefault", "Localhost"}

SeccompAllowed(pod) ==
  \A ctx \in {pod} \cup SecurityContextContainers(pod, FALSE) : ctx.seccomp \in SeccompTypes

SELinuxOptionsAllowed(pod) ==
  \A ctx \in {pod} \cup SecurityContextContainers(pod, FALSE) : ~ctx.seOptions

SELinuxTypes == {"unset", "container_t", "container_init_t", "container_kvm_t"}

SELinuxTypeAllowed(pod) ==
  \A ctx \in {pod} \cup SecurityContextContainers(pod, FALSE) : ctx.seType \in SELinuxTypes

WithoutDropAll(containers) == {c \in containers : "ALL" \notin c.drop}

AllDropped(pod) == WithoutDropAll(SecurityContextContainers(pod, FALSE)) = {}

CapabilitiesAllowed(pod) ==
  \A c \in SecurityContextContainers(pod, TRUE) : c.add \subseteq {"NET_BIND_SERVICE"}

(* A volume is its type; the types the list does not name are "other".     *)
VolumeTypesAllowed(pod) ==
  pod.volumes \cap {"hostPath", "other"} = {}

(* A mount is the volume it mounts and whether it is read-only.            *)
HostPathsReadOnly(pod) ==
  "hostPath" \in pod.volumes =>
    \A c \in Containers(pod) : \A m \in c.mounts : m.volume = "hostPath" => m.readOnly

NoHostNamespaces(pod) == ~pod.hostNamespaces

HostPortsAllowed(pod) == \A c \in Containers(pod) : ~c.hostPort

SidecarOverrides(pod) == pod.annotations \cap {"proxy.istio.io/config", "sidecar.istio.io/proxyImage"}

IsIstioWaypointPod(pod) ==
  \E c \in Containers(pod) : IsIstioProxyContainer(c) /\ c.looks = "waypoint"

TrafficOverrides(pod) ==
  \/ "traffic.sidecar.istio.io/excludeInboundPorts" \in pod.annotations
  \/ pod.namespace # "istio-system" /\ pod.injectAnnotation = "false"
  \/ pod.namespace # "istio-system" /\ pod.injectLabel = "false" /\ ~IsIstioWaypointPod(pod)

AmbientOverrides(pod) == "ambient.istio.io/bypass-inbound-capture" \in pod.annotations

IsPodUsingIstioUserID(pod) ==
  \/ "istio" \in {pod.runAsUser, pod.runAsGroup, pod.fsGroup}
  \/ "istio" \in pod.supplementalGroups

ContainerUsingIstioUserID(pod) ==
  \E c \in Containers(pod) :
    ~IsIstioProxyContainer(c) /\ "istio" \in {c.runAsUser, c.runAsGroup}

NoIstioUser(pod) == ~IsPodUsingIstioUserID(pod) /\ ~ContainerUsingIstioUserID(pod)

NotExternalName(svc) == svc.type # "ExternalName"

NotNodePort(svc) == svc.type # "NodePort"

Passes(policy, obj) ==
  CASE policy = "DisallowPrivileged" -> NoPrivilegeEscalation(obj)
    [] policy = "RequireNonRootUser" -> NonRoot(obj)
    [] policy = "RestrictProcMount" -> ProcMountAllowed(obj)
    [] policy = "RestrictSeccomp" -> SeccompAllowed(obj)
    [] policy = "DisallowSELinuxOptions" -> SELinuxOptionsAllowed(obj)
    [] policy = "RestrictSELinuxType" -> SELinuxTypeAllowed(obj)
    [] policy = "DropAllCapabilities" -> AllDropped(obj)
    [] policy = "RestrictCapabilities" -> CapabilitiesAllowed(obj)
    [] policy = "RestrictVolumeTypes" -> VolumeTypesAllowed(obj)
    [] policy = "RestrictHostPathWrite" -> HostPathsReadOnly(obj)
    [] policy = "DisallowHostNamespaces" -> NoHostNamespaces(obj)
    [] policy = "RestrictHostPorts" -> HostPortsAllowed(obj)
    [] policy = "RestrictIstioSidecarOverrides" -> SidecarOverrides(obj) = {}
    [] policy = "RestrictIstioTrafficOverrides" -> ~TrafficOverrides(obj)
    [] policy = "RestrictIstioAmbientOverrides" -> ~AmbientOverrides(obj)
    [] policy = "RestrictIstioUser" -> NoIstioUser(obj)
    [] policy = "RestrictExternalNames" -> NotExternalName(obj)
    [] policy = "DisallowNodePortServices" -> NotNodePort(obj)

PoliciesOf(obj) == IF obj.kind = "pod" THEN PodPolicies ELSE ServicePolicies

(* The request is denied when one of its policies denies it.               *)
Approved(obj, exempt) == \A p \in PoliciesOf(obj) \ exempt : Passes(p, obj)
=============================================================================
