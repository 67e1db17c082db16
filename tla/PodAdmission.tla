---------------------------- MODULE PodAdmission ----------------------------
(***************************************************************************)
(* One object on its way through the webhooks: the mutating call and the   *)
(* validating call may be answered by different replicas, whose stores of  *)
(* exemptions change in between.                                           *)
(***************************************************************************)
EXTENDS ExemptionStore

CONSTANTS Object,      \* pods and services users submit
          NoRequest

IsObject(obj) ==
  IF obj.kind = "pod" THEN obj \in Pod(DOMAIN obj.containers) ELSE obj \in Service

ASSUME ObjectAssumption ==
  \A obj \in Object :
    IsObject(obj) /\ (obj.kind = "pod" => \A c \in Containers(obj) : MeaningfulFields(c))

VARIABLES request      \* [phase, submitted, object, exemptAtMutate, exemptAtValidate]

vars == <<cluster, policyExemptionMap, policyOwnerMap, request>>

Init == StoreInit /\ request = NoRequest

(* A user creates an object.                                               *)
Submit(obj) ==
  /\ request = NoRequest
  /\ request' = [phase |-> "submitted", submitted |-> obj, object |-> obj,
                 exemptAtMutate |-> {}, exemptAtValidate |-> {}]
  /\ UNCHANGED storeVars

(* The mutating webhook of replica r: every policy marks the exemption,    *)
(* three of them change pods.                                              *)
Mutate(r) ==
  /\ request # NoRequest
  /\ request.phase = "submitted"
  /\ LET exempt == ExemptFrom(r, request.object)
     IN  request' = [request EXCEPT
           !.phase = "mutated",
           !.object = IF @.kind = "pod" THEN MutatePod(@, exempt) ELSE @,
           !.exemptAtMutate = exempt]
  /\ UNCHANGED storeVars

(* The validating webhook of replica r.                                    *)
Validate(r) ==
  /\ request # NoRequest
  /\ request.phase = "mutated"
  /\ LET obj == request.object
         exempt == ExemptFrom(r, obj)
     IN  request' = [request EXCEPT
           !.phase = IF Approved(obj, exempt) THEN "admitted" ELSE "denied",
           !.exemptAtValidate = exempt]
  /\ UNCHANGED storeVars

(* The answer has been read; the next object may come.                     *)
Answered ==
  /\ request # NoRequest
  /\ request.phase \in {"admitted", "denied"}
  /\ request' = NoRequest
  /\ UNCHANGED storeVars

Next ==
  \/ StoreNext /\ UNCHANGED request
  \/ \E obj \in Object : Submit(obj)
  \/ \E r \in Replica : Mutate(r) \/ Validate(r)
  \/ Answered

Spec == Init /\ [][Next]_vars

(* A watch event is delivered in the end.                                  *)
FairSpec ==
  Spec /\ \A r \in Replica, o \in Owner :
            WF_vars(policyOwnerMap[r][o] # cluster[o] /\ ProcessExemption(r, o) /\ UNCHANGED request)

----------------------------------------------------------------------------
(* References for the properties: what makes an object safe, stated about  *)
(* the values that hold for a container in the end (its own, else the      *)
(* pod's) and about every container, with or without a securityContext.    *)
EffectiveUser(pod, c) == IF c.runAsUser # "unset" THEN c.runAsUser ELSE pod.runAsUser
EffectiveNonRoot(pod, c) == IF c.runAsNonRoot # "unset" THEN c.runAsNonRoot ELSE pod.runAsNonRoot

Hardened(policy, pod) ==
  \A n \in DOMAIN pod.containers :
    LET c == pod.containers[n]
    IN  CASE policy = "DisallowPrivileged" ->
               c.allowPrivilegeEscalation = "false" /\ c.privileged # "true"
          [] policy = "RequireNonRootUser" ->
               \/ c.looks = "istio-init"
               \/ /\ EffectiveUser(pod, c) # "root"
                  /\ EffectiveUser(pod, c) # "unset" \/ EffectiveNonRoot(pod, c) = "true"
          [] policy = "DropAllCapabilities" -> "ALL" \in c.drop
          [] OTHER -> TRUE

(* What a submitted pod asks for that a policy exists to refuse.           *)
AsksFor(policy, obj) ==
  IF policy \notin MutatingPolicies THEN ~Passes(policy, obj)
  ELSE \/ policy = "DisallowPrivileged" /\ \E c \in Containers(obj) :
            \/ c.allowPrivilegeEscalation = "true" \/ c.privileged = "true"
            \/ c.allowPrivilegeEscalation = "unset" /\ "CAP_SYS_ADMIN" \in c.add
       \/ policy = "RequireNonRootUser" /\
            \/ "root" \in obj.supplementalGroups \cup {obj.userLabel}
            \/ obj.runAsUser = "root" /\ obj.userLabel = "none"
            \/ obj.runAsNonRoot = "false"
            \/ \E c \in Containers(obj) : c.runAsUser = "root" \/ c.runAsNonRoot = "false"

Admitted == request # NoRequest /\ request.phase = "admitted"
Denied == request # NoRequest /\ request.phase = "denied"

(* The types of the stores and of the request under way.                   *)
TypeOK ==
  /\ StoreTypeOK
  /\ request = NoRequest \/
       /\ DOMAIN request = {"phase", "submitted", "object", "exemptAtMutate", "exemptAtValidate"}
       /\ request.phase \in {"submitted", "mutated", "admitted", "denied"}
       /\ request.submitted \in Object /\ IsObject(request.object)
       /\ {request.exemptAtMutate, request.exemptAtValidate} \subseteq SUBSET Policy

(* security.ts mutates a pod on one replica and validates it on another,   *)
(* and the validators skip containers without a securityContext: still a   *)
(* pod is admitted only if, for each of the three mutating policies, every *)
(* container ends up hardened, or an exemption was in force at one of the  *)
(* two calls (or left its mark on the object before).                      *)
HardenedUnlessExempt ==
  Admitted /\ request.object.kind = "pod" =>
    \A p \in MutatingPolicies :
      p \in request.object.exempted \cup request.exemptAtValidate \/ Hardened(p, request.object)

(* An object is denied only if it asks for something that a policy refuses *)
(* and that it is not exempt from, or because the two replicas disagreed   *)
(* about its exemptions, or because it carried a mark it no longer has a   *)
(* right to: the defaults the mutation sets are never themselves refused.  *)
DenialsAreJustified ==
  Denied =>
    \/ request.exemptAtMutate # request.exemptAtValidate
    \/ request.object.kind = "pod" /\ request.submitted.exempted # {}
    \/ \E p \in PoliciesOf(request.object) \ request.exemptAtValidate :
         \/ AsksFor(p, request.submitted)
         \/ p = "RestrictIstioUser" /\ "istio" \in {request.submitted.userLabel,
                 request.submitted.groupLabel, request.submitted.fsGroupLabel}

(* The API server may call the mutating webhook again for an update: what  *)
(* has been mutated is not changed by the same replica again.              *)
MutationIsStable ==
  request # NoRequest /\ request.phase = "mutated" /\ request.object.kind = "pod" =>
    MutatePod(request.object, request.exemptAtMutate) = request.object

(* ExemptionStore.add and remove keep two maps: what a store answers is    *)
(* exactly what the exemptions last seen say, after any sequence of edits, *)
(* deletions, merged events, relists and restarts.                         *)
Answers ==
  [r \in Replica |-> [p \in Policy |-> {m.matcher : m \in policyExemptionMap[r][p]}]]

View == INSTANCE ExemptionView WITH seen <- policyOwnerMap, answers <- Answers

StoreImplementsView == View!Spec

(* Every replica keeps catching up with the exemptions of the cluster: no  *)
(* store stays behind for ever, whatever is edited and restarted meanwhile. *)
StoresCatchUp ==
  \A r \in Replica, o \in Owner : []<>(policyOwnerMap[r][o] = cluster[o])
=============================================================================
