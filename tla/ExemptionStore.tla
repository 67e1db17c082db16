--------------------------- MODULE ExemptionStore ---------------------------
(***************************************************************************)
(* The exemptions of the cluster and the store each admission replica      *)
(* builds from its own watch of them (controllers/exemptions), with the    *)
(* validating webhook that guards what reaches the cluster.  The elements  *)
(* of an exemption and the matchers of a policy are sets: nothing depends  *)
(* on their order, and equal ones come and go together.                    *)
(***************************************************************************)
EXTENDS PolicyRules

CONSTANTS Replica,       \* the admission pods
          Owner,         \* uids of exemptions
          Draft,         \* exemptions users submit: [namespace, elements]
          AllowAllNs,    \* UDSConfig.allowAllNSExemptions
          NoExemption

Matcher == [kind : {"pod", "service"}, namespace : STRING, name : STRING]

ASSUME DraftAssumption ==
  \A d \in Draft : /\ d.namespace \in STRING
                  /\ d.elements \subseteq [matcher : Matcher, policies : SUBSET Policy]
                  /\ d.elements # NoExemption

VARIABLES cluster,             \* owner -> elements of the exemption, or NoExemption
          policyExemptionMap,  \* replica -> policy -> matchers with their owner
          policyOwnerMap       \* replica -> owner -> elements last added, or NoExemption

storeVars == <<cluster, policyExemptionMap, policyOwnerMap>>

Exempting == {NoExemption} \cup {d.elements : d \in Draft}
Stored == [matcher : Matcher, owner : Owner]

StoreTypeOK ==
  /\ cluster \in [Owner -> Exempting]
  /\ policyExemptionMap \in [Replica -> [Policy -> SUBSET Stored]]
  /\ policyOwnerMap \in [Replica -> [Owner -> Exempting]]

StoreInit ==
  /\ cluster = [o \in Owner |-> NoExemption]
  /\ policyExemptionMap = [r \in Replica |-> [p \in Policy |-> {}]]
  /\ policyOwnerMap = [r \in Replica |-> [o \in Owner |-> NoExemption]]

----------------------------------------------------------------------------
ElementsOf(spec) == IF spec = NoExemption THEN {} ELSE spec

KindToPolicy(kind) == IF kind = "pod" THEN PodPolicies ELSE ServicePolicies

(* A matcher name is one of: a pattern, a pattern between slashes, and     *)
(* something that is not a regular expression.                             *)
ExemptValidator(draft) ==
  /\ AllowAllNs \/ draft.namespace = "uds-policy-exemptions"
  /\ \A e \in draft.elements :
       /\ e.policies \subseteq KindToPolicy(e.matcher.kind)
       /\ e.matcher.name \notin {"/slashes/", "not a regexp"}

ApplyExemption(o, draft) ==
  /\ ExemptValidator(draft)
  /\ cluster' = [cluster EXCEPT ![o] = draft.elements]
  /\ UNCHANGED <<policyExemptionMap, policyOwnerMap>>

DeleteExemption(o) ==
  /\ cluster[o] # NoExemption
  /\ cluster' = [cluster EXCEPT ![o] = NoExemption]
  /\ UNCHANGED <<policyExemptionMap, policyOwnerMap>>

----------------------------------------------------------------------------
RemovedByPresentPolicies(map, prev, o) ==
  [p \in Policy |->
    IF \E e \in ElementsOf(cluster[o]) : p \in e.policies
    THEN {m \in map[p] : m.owner # o}
    ELSE map[p]]

(* remove: drop the owner's matchers from the lists of the policies that   *)
(* its previous exemption named.                                           *)
Removed(map, prev, o) ==
  [p \in Policy |->
    IF \E e \in ElementsOf(prev) : p \in e.policies
    THEN {m \in map[p] : m.owner # o}
    ELSE map[p]]

StoredMatchers(spec, p, o) ==
  {[matcher |-> e.matcher, owner |-> o] : e \in {f \in spec : p \in f.policies}}

(* add: remove what the owner had, then add a matcher per policy.          *)
Added(map, prev, o, spec) ==
  [p \in Policy |-> Removed(map, prev, o)[p] \cup StoredMatchers(spec, p, o)]

ProcessAddedOnly(r, o) ==
  /\ cluster[o] # NoExemption
  /\ policyExemptionMap' =
       [policyExemptionMap EXCEPT ![r] = Added(@, policyOwnerMap[r][o], o, cluster[o])]
  /\ policyOwnerMap' = [policyOwnerMap EXCEPT ![r][o] = cluster[o]]
  /\ UNCHANGED cluster

(* The watch of replica r hands over the present state of one exemption:   *)
(* Added or Modified when it exists, Deleted when it is gone. Events that  *)
(* a reconnecting watch merged are one such step, a relist is a step in    *)
(* which nothing has changed.                                              *)
ProcessExemption(r, o) ==
  LET prev == policyOwnerMap[r][o]
      present == cluster[o]
  IN  /\ present # NoExemption \/ prev # NoExemption
      /\ policyExemptionMap' =
           [policyExemptionMap EXCEPT ![r] =
              IF present = NoExemption THEN Removed(@, prev, o)
              ELSE Added(@, prev, o, present)]
      /\ policyOwnerMap' = [policyOwnerMap EXCEPT ![r][o] = present]
      /\ UNCHANGED cluster

(* A replica starts again with an empty store, before its watch has listed. *)
StartExemptionWatch(r) ==
  /\ policyExemptionMap' = [policyExemptionMap EXCEPT ![r] = [p \in Policy |-> {}]]
  /\ policyOwnerMap' = [policyOwnerMap EXCEPT ![r] = [o \in Owner |-> NoExemption]]
  /\ UNCHANGED cluster

StoreNext ==
  \/ \E o \in Owner, d \in Draft : ApplyExemption(o, d)
  \/ \E o \in Owner : DeleteExemption(o)
  \/ \E r \in Replica, o \in Owner : ProcessExemption(r, o)
  \/ \E r \in Replica : StartExemptionWatch(r)

----------------------------------------------------------------------------
(* isExempt: the namespace is compared, the name is matched as a pattern;  *)
(* the kind of the matcher is not looked at.                               *)
Matches(m, obj) ==
  m.namespace = obj.namespace /\ (m.name = "^.*$" \/ m.name = obj.name)

IsExempt(r, obj, policy) ==
  \E m \in policyExemptionMap[r][policy] : Matches(m.matcher, obj)

ExemptFrom(r, obj) == {p \in PoliciesOf(obj) : IsExempt(r, obj, p)}
=============================================================================
