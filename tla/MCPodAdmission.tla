--------------------------- MODULE MCPodAdmission ---------------------------
(* Instances of PodAdmission: pods that deviate from a harmless one in one  *)
(* field, or in two of the fields that the mutations and the exclusions     *)
(* combine, and exemptions for the policies that mutate.                    *)
EXTENDS PodAdmission

Bad == [registry |-> "evil.example", repository |-> "istio/proxyv2"]
Proxy == [registry |-> "", repository |-> "istio/proxyv2"]
Fips == [registry |-> "zarf", repository |-> "defenseunicorns.com/istio-proxy-fips"]

(* Changes of one field of the first container's securityContext.          *)
ContextChanges ==
  {<<"allowPrivilegeEscalation", "true">>, <<"allowPrivilegeEscalation", "false">>,
   <<"privileged", "true">>, <<"add", {"CAP_SYS_ADMIN"}>>, <<"add", {"NET_BIND_SERVICE"}>>,
   <<"drop", {"MKNOD"}>>, <<"runAsUser", "root">>, <<"runAsUser", "istio">>,
   <<"runAsNonRoot", "false">>, <<"procMount", "Unmasked">>, <<"seccomp", "Unconfined">>,
   <<"seOptions", TRUE>>, <<"seType", "spc_t">>, <<"runAsGroup", "istio">>, <<"sc", TRUE>>}

OtherContainerChanges ==
  {<<"hostPort", TRUE>>, <<"mounts", {[volume |-> "hostPath", readOnly |-> FALSE]}>>}

PodChanges ==
  {<<"runAsUser", "root">>, <<"runAsUser", "istio">>, <<"runAsNonRoot", "false">>,
   <<"supplementalGroups", {"root"}>>, <<"fsGroup", "istio">>, <<"seccomp", "Unconfined">>,
   <<"seOptions", TRUE>>, <<"seType", "spc_t">>, <<"hostNamespaces", TRUE>>,
   <<"volumes", {"hostPath"}>>, <<"volumes", {"emptyDir"}>>, <<"userLabel", "root">>,
   <<"userLabel", "junk">>, <<"userLabel", "user">>, <<"groupLabel", "istio">>,
   <<"fsGroupLabel", "istio">>, <<"annotations", {"proxy.istio.io/config"}>>,
   <<"annotations", {"traffic.sidecar.istio.io/excludeInboundPorts"}>>,
   <<"annotations", {"ambient.istio.io/bypass-inbound-capture"}>>,
   <<"injectAnnotation", "false">>, <<"injectLabel", "false">>, <<"namespace", "istio-system">>,
   <<"exempted", {"DisallowPrivileged"}>>}

InContext(pod, ch) == [pod EXCEPT !.containers["first"][ch[1]] = ch[2], !.containers["first"].sc = TRUE]
InContainer(pod, ch) == [pod EXCEPT !.containers["first"][ch[1]] = ch[2]]
InPod(pod, ch) == [pod EXCEPT ![ch[1]] = ch[2]]

(* The changes whose effects meet in one policy, or in the order of mutation *)
(* and validation.                                                          *)
Meeting == {InPod(EmptyPod, ch) : ch \in
  {<<"runAsUser", "root">>, <<"runAsNonRoot", "false">>, <<"userLabel", "root">>,
   <<"userLabel", "junk">>, <<"exempted", {"DisallowPrivileged"}>>}}

MeetingContext ==
  {<<"allowPrivilegeEscalation", "true">>, <<"add", {"CAP_SYS_ADMIN"}>>, <<"sc", TRUE>>,
   <<"runAsUser", "user">>, <<"runAsNonRoot", "true">>}

OnePodChange == {InPod(EmptyPod, ch) : ch \in PodChanges}

(* A pod into which Istio injected its containers: istio-init runs as root *)
(* and adds capabilities.                                                  *)
Injected(initImage) ==
  [EmptyPod EXCEPT !.annotations = {"sidecar.istio.io/status"},
     !.containers["first"] =
        [@ EXCEPT !.sc = TRUE, !.init = TRUE, !.looks = "istio-proxy", !.image = Proxy,
                  !.runAsUser = "istio", !.allowPrivilegeEscalation = "false"],
     !.containers["second"] =
        [@ EXCEPT !.sc = TRUE, !.init = TRUE, !.looks = "istio-init", !.image = initImage,
                  !.runAsUser = "root", !.runAsNonRoot = "false", !.add = {"NET_ADMIN"},
                  !.allowPrivilegeEscalation = "false"]]

Waypoint(image) ==
  [EmptyPod EXCEPT !.injectLabel = "false",
     !.containers["first"] = [@ EXCEPT !.looks = "waypoint", !.image = image]]

Pods ==
  {EmptyPod}
  \cup OnePodChange
  \cup {InContainer(p, ch) : p \in {EmptyPod, InPod(EmptyPod, <<"volumes", {"hostPath"}>>)},
                             ch \in OtherContainerChanges}
  \cup {InContext(EmptyPod, ch) : ch \in ContextChanges}
  \cup {InContext(p, ch) : p \in Meeting, ch \in MeetingContext}
  \cup {Injected(i) : i \in {Proxy, Bad}} \cup {Waypoint(i) : i \in {Fips, Bad}}

Services == {[EmptyService EXCEPT !.type = t] : t \in {"ClusterIP", "ExternalName", "NodePort"}}

MCObject == Pods \cup Services

Element(kind, ns, name, policies) ==
  [matcher |-> [kind |-> kind, namespace |-> ns, name |-> name], policies |-> policies]

MCDraft ==
  {[namespace |-> "uds-policy-exemptions", elements |-> {e}] :
     e \in {Element("pod", "app", "^.*$", {"DisallowPrivileged", "DropAllCapabilities"}),
            Element("pod", "app", "web", {"RequireNonRootUser"}),
            Element("pod", "app", "/slashes/", {"DisallowPrivileged"})}}
  \cup {[namespace |-> "app", elements |-> {Element("pod", "app", "^.*$", PodPolicies)}],
        [namespace |-> "uds-policy-exemptions",
         elements |-> {Element("pod", "app", "other", {"DisallowPrivileged"}),
                        Element("pod", "app", "^.*$", {"DropAllCapabilities"})}],
        [namespace |-> "uds-policy-exemptions",
         elements |-> {Element("service", "app", "web", {"RestrictExternalNames"}),
                        Element("pod", "app", "web", {"DisallowNodePortServices"})}]}
=============================================================================
