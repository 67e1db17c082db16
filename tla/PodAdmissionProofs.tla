------------------------- MODULE PodAdmissionProofs -------------------------
(***************************************************************************)
(* Proofs about PodAdmission for any replicas, exemptions and objects: the *)
(* stores implement ExemptionView, whatever sequence of edits, deliveries  *)
(* and restarts they see; an admitted pod is hardened or exempt, a denial  *)
(* has a reason, and mutating twice is mutating once.                      *)
(***************************************************************************)
EXTENDS PodAdmission, TLAPS

-----------------------------------------------------------------------------
(* The stores of exemptions.                                               *)

(* What a store holds of one owner for one policy are the matchers that    *)
(* the exemption last added names; it is what lets remove() look only at   *)
(* the policies of that exemption.                                         *)
Owned(map, p, o) == {m \in map[p] : m.owner = o}

StoreInv ==
  \A r \in Replica, p \in Policy, o \in Owner :
    Owned(policyExemptionMap[r], p, o) = StoredMatchers(ElementsOf(policyOwnerMap[r][o]), p, o)

LEMMA ElementsTyped ==
  ASSUME NEW spec \in Exempting
  PROVE  \A e \in ElementsOf(spec) : e.matcher \in Matcher /\ e.policies \in SUBSET Policy
BY DraftAssumption DEF Exempting, ElementsOf

LEMMA StoredTyped ==
  ASSUME NEW spec \in Exempting, NEW p, NEW o \in Owner
  PROVE  StoredMatchers(ElementsOf(spec), p, o) \in SUBSET Stored
BY ElementsTyped DEF StoredMatchers, Stored

(* remove() leaves nothing of the owner and everything of the others.      *)
LEMMA RemovesOwner ==
  ASSUME NEW map \in [Policy -> SUBSET Stored], NEW prev \in Exempting, NEW o \in Owner,
         \A p \in Policy : Owned(map, p, o) = StoredMatchers(ElementsOf(prev), p, o)
  PROVE  /\ Removed(map, prev, o) \in [Policy -> SUBSET Stored]
         /\ \A p \in Policy : Removed(map, prev, o)[p] = {m \in map[p] : m.owner # o}
<1>1. ASSUME NEW p \in Policy
      PROVE  Removed(map, prev, o)[p] = {m \in map[p] : m.owner # o}
  <2>1. CASE \E e \in ElementsOf(prev) : p \in e.policies
    BY <2>1 DEF Removed
  <2>2. CASE ~ \E e \in ElementsOf(prev) : p \in e.policies
    <3>1. Owned(map, p, o) = {}
      BY <2>2 DEF StoredMatchers
    <3>2. \A m \in map[p] : m.owner # o
      BY <3>1 DEF Owned
    <3>3. Removed(map, prev, o)[p] = map[p]
      BY <2>2 DEF Removed
    <3>4. QED
      BY <3>2, <3>3
  <2>3. QED
    BY <2>1, <2>2
<1>2. Removed(map, prev, o) \in [Policy -> SUBSET Stored]
  BY DEF Removed
<1>3. QED
  BY <1>1, <1>2

(* What the store of a replica is after an event.                          *)
Handled(map, prev, o, present) ==
  IF present = NoExemption THEN Removed(map, prev, o) ELSE Added(map, prev, o, present)

LEMMA HandlesEvent ==
  ASSUME NEW map \in [Policy -> SUBSET Stored], NEW prev \in Exempting, NEW o \in Owner,
         NEW present \in Exempting,
         \A p \in Policy : Owned(map, p, o) = StoredMatchers(ElementsOf(prev), p, o)
  PROVE  /\ Handled(map, prev, o, present) \in [Policy -> SUBSET Stored]
         /\ \A p \in Policy : Handled(map, prev, o, present)[p] =
               {m \in map[p] : m.owner # o} \cup StoredMatchers(ElementsOf(present), p, o)
<1>1. CASE present = NoExemption
  <2>1. ASSUME NEW p \in Policy
        PROVE  StoredMatchers(ElementsOf(present), p, o) = {}
    BY <1>1 DEF StoredMatchers, ElementsOf
  <2>2. Handled(map, prev, o, present) = Removed(map, prev, o)
    BY <1>1 DEF Handled
  <2>3. QED
    BY <2>1, <2>2, RemovesOwner
<1>2. CASE present # NoExemption
  <2>1. ElementsOf(present) = present
    BY <1>2 DEF ElementsOf
  <2>2. Handled(map, prev, o, present) =
          [p \in Policy |-> Removed(map, prev, o)[p] \cup StoredMatchers(ElementsOf(present), p, o)]
    BY <1>2, <2>1 DEF Handled, Added
  <2>3. \A p \in Policy : StoredMatchers(ElementsOf(present), p, o) \in SUBSET Stored
    BY StoredTyped
  <2>4. QED
    BY <2>2, <2>3, RemovesOwner
<1>3. QED
  BY <1>1, <1>2

LEMMA StepStore ==
  StoreTypeOK /\ StoreInv /\ StoreNext => (StoreTypeOK /\ StoreInv)'
<1> SUFFICES ASSUME StoreTypeOK, StoreInv, StoreNext
             PROVE  (StoreTypeOK /\ StoreInv)'
  OBVIOUS
<1>1. /\ cluster \in [Owner -> Exempting]
      /\ policyExemptionMap \in [Replica -> [Policy -> SUBSET Stored]]
      /\ policyOwnerMap \in [Replica -> [Owner -> Exempting]]
      /\ NoExemption \in Exempting /\ \A d \in Draft : d.elements \in Exempting
  BY DEF StoreTypeOK, Exempting
<1>2. ASSUME cluster' \in [Owner -> Exempting], UNCHANGED <<policyExemptionMap, policyOwnerMap>>
      PROVE  (StoreTypeOK /\ StoreInv)'
  BY <1>1, <1>2 DEF StoreTypeOK, StoreInv
<1>3. ASSUME NEW o \in Owner, NEW d \in Draft, ApplyExemption(o, d)
      PROVE  (StoreTypeOK /\ StoreInv)'
  BY <1>1, <1>2, <1>3 DEF ApplyExemption
<1>4. ASSUME NEW o \in Owner, DeleteExemption(o)
      PROVE  (StoreTypeOK /\ StoreInv)'
  BY <1>1, <1>2, <1>4 DEF DeleteExemption
<1>5. ASSUME NEW r \in Replica, NEW o \in Owner, ProcessExemption(r, o)
      PROVE  (StoreTypeOK /\ StoreInv)'
  <2> DEFINE map == policyExemptionMap[r]
             prev == policyOwnerMap[r][o]
             present == cluster[o]
             new == Handled(map, prev, o, present)
  <2>1. /\ map \in [Policy -> SUBSET Stored] /\ prev \in Exempting /\ present \in Exempting
        /\ \A p \in Policy : Owned(map, p, o) = StoredMatchers(ElementsOf(prev), p, o)
    BY <1>1 DEF StoreInv
  <2>2. /\ policyExemptionMap' = [policyExemptionMap EXCEPT ![r] = new]
        /\ policyOwnerMap' = [policyOwnerMap EXCEPT ![r][o] = present] /\ cluster' = cluster
    BY <1>5 DEF ProcessExemption, Handled
  <2>3. /\ new \in [Policy -> SUBSET Stored]
        /\ \A p \in Policy : new[p] =
              {m \in map[p] : m.owner # o} \cup StoredMatchers(ElementsOf(present), p, o)
    <3> HIDE DEF map, prev, present
    <3>1. QED
      BY <2>1, HandlesEvent
  <2>4. StoreTypeOK'
    <3> HIDE DEF new, present
    <3>1. QED
      BY <1>1, <2>1, <2>2, <2>3 DEF StoreTypeOK
  <2>5. ASSUME NEW s \in Replica, NEW p \in Policy, NEW q \in Owner
        PROVE  Owned(policyExemptionMap'[s], p, q)
                 = StoredMatchers(ElementsOf(policyOwnerMap'[s][q]), p, q)
    <3>1. CASE s # r
      <4>1. policyExemptionMap'[s] = policyExemptionMap[s] /\ policyOwnerMap'[s][q] = policyOwnerMap[s][q]
        BY <1>1, <2>2, <3>1
      <4>2. QED
        BY <4>1 DEF StoreInv
    <3>2. CASE s = r /\ q = o
      <4>1. policyExemptionMap'[r][p] = new[p] /\ policyOwnerMap'[r][o] = present
        BY <1>1, <2>2
      <4>2. \A m \in StoredMatchers(ElementsOf(present), p, o) : m.owner = o
        BY DEF StoredMatchers
      <4>3. {m \in new[p] : m.owner = o} = StoredMatchers(ElementsOf(present), p, o)
        BY <2>3, <4>2
      <4>4. QED
        BY <3>2, <4>1, <4>3 DEF Owned
    <3>3. CASE s = r /\ q # o
      <4>1. policyExemptionMap'[r][p] = new[p] /\ policyOwnerMap'[r][q] = policyOwnerMap[r][q]
        BY <1>1, <2>2, <3>3
      <4>2. \A m \in StoredMatchers(ElementsOf(present), p, o) : m.owner = o
        BY DEF StoredMatchers
      <4>3. {m \in new[p] : m.owner = q} = {m \in map[p] : m.owner = q}
        BY <2>3, <3>3, <4>2
      <4>4. QED
        BY <3>3, <4>1, <4>3 DEF Owned, StoreInv
    <3>4. QED
      BY <3>1, <3>2, <3>3
  <2>6. QED
    BY <2>4, <2>5 DEF StoreInv
<1>6. ASSUME NEW r \in Replica, StartExemptionWatch(r)
      PROVE  (StoreTypeOK /\ StoreInv)'
  <2>1. /\ policyExemptionMap' = [policyExemptionMap EXCEPT ![r] = [p \in Policy |-> {}]]
        /\ policyOwnerMap' = [policyOwnerMap EXCEPT ![r] = [o \in Owner |-> NoExemption]]
        /\ cluster' = cluster
    BY <1>6 DEF StartExemptionWatch
  <2>2. StoreTypeOK'
    BY <1>1, <2>1 DEF StoreTypeOK
  <2>3. ASSUME NEW s \in Replica, NEW p \in Policy, NEW q \in Owner
        PROVE  Owned(policyExemptionMap'[s], p, q)
                 = StoredMatchers(ElementsOf(policyOwnerMap'[s][q]), p, q)
    <3>1. CASE s = r
      <4>1. policyExemptionMap'[s][p] = {} /\ policyOwnerMap'[s][q] = NoExemption
        BY <1>1, <2>1, <3>1
      <4>2. QED
        BY <4>1 DEF Owned, StoredMatchers, ElementsOf
    <3>2. CASE s # r
      BY <1>1, <2>1, <3>2 DEF StoreInv
    <3>3. QED
      BY <3>1, <3>2
  <2>4. QED
    BY <2>2, <2>3 DEF StoreInv
<1>7. QED
  BY <1>3, <1>4, <1>5, <1>6 DEF StoreNext

LEMMA InitStore == Init => StoreTypeOK /\ StoreInv
<1> SUFFICES ASSUME Init
             PROVE  StoreTypeOK /\ StoreInv
  OBVIOUS
<1>1. StoreTypeOK
  BY DEF Init, StoreInit, StoreTypeOK, Exempting
<1>2. ASSUME NEW r \in Replica, NEW p \in Policy, NEW o \in Owner
      PROVE  Owned(policyExemptionMap[r], p, o) = StoredMatchers(ElementsOf(policyOwnerMap[r][o]), p, o)
  <2>1. policyExemptionMap[r][p] = {} /\ policyOwnerMap[r][o] = NoExemption
    BY DEF Init, StoreInit
  <2>2. QED
    BY <2>1 DEF Owned, StoredMatchers, ElementsOf
<1>3. QED
  BY <1>1, <1>2 DEF StoreInv

LEMMA NextStore == StoreTypeOK /\ StoreInv /\ [Next]_vars => (StoreTypeOK /\ StoreInv)'
<1>1. ASSUME StoreTypeOK, StoreInv, UNCHANGED storeVars
      PROVE  (StoreTypeOK /\ StoreInv)'
  BY <1>1 DEF StoreTypeOK, StoreInv, storeVars
<1>2. QED
  BY <1>1, StepStore DEF Next, vars, storeVars, Submit, Mutate, Validate, Answered

-----------------------------------------------------------------------------
(* A store answers as the exemptions it has seen say.                      *)

LEMMA AnswersAgree ==
  ASSUME StoreTypeOK, StoreInv
  PROVE  Answers = [r \in Replica |-> View!AnswersFor(policyOwnerMap[r])]
<1> SUFFICES ASSUME NEW r \in Replica, NEW p \in Policy
             PROVE  {m.matcher : m \in policyExemptionMap[r][p]}
                      = UNION {View!Matching(policyOwnerMap[r][o], p) : o \in Owner}
  BY DEF Answers, View!AnswersFor
<1> DEFINE stored == policyExemptionMap[r][p]
           named(o) == View!Matching(policyOwnerMap[r][o], p)
<1>1. \A o \in Owner : {m.matcher : m \in Owned(policyExemptionMap[r], p, o)} = named(o)
  <2> SUFFICES ASSUME NEW o \in Owner
               PROVE  {m.matcher : m \in Owned(policyExemptionMap[r], p, o)} = named(o)
    OBVIOUS
  <2>1. Owned(policyExemptionMap[r], p, o) = StoredMatchers(ElementsOf(policyOwnerMap[r][o]), p, o)
    BY DEF StoreInv
  <2>2. {m.matcher : m \in StoredMatchers(ElementsOf(policyOwnerMap[r][o]), p, o)}
           = {e.matcher : e \in {f \in ElementsOf(policyOwnerMap[r][o]) : p \in f.policies}}
    <3> DEFINE S == {f \in ElementsOf(policyOwnerMap[r][o]) : p \in f.policies}
               T == StoredMatchers(ElementsOf(policyOwnerMap[r][o]), p, o)
    <3>1. T = {[matcher |-> e.matcher, owner |-> o] : e \in S}
      BY DEF StoredMatchers
    <3> HIDE DEF S, T
    <3>2. \A m \in T : \E e \in S : m.matcher = e.matcher
      BY <3>1
    <3>3. \A e \in S : \E m \in T : m.matcher = e.matcher
      <4> SUFFICES ASSUME NEW e \in S
                   PROVE  \E m \in T : m.matcher = e.matcher
        OBVIOUS
      <4>1. [matcher |-> e.matcher, owner |-> o] \in T
        BY <3>1
      <4>2. QED
        BY <4>1
    <3>4. {m.matcher : m \in T} = {e.matcher : e \in S}
      BY <3>2, <3>3
    <3>5. QED
      BY <3>4 DEF S, T
  <2>3. {e.matcher : e \in {f \in ElementsOf(policyOwnerMap[r][o]) : p \in f.policies}} = named(o)
    BY DEF ElementsOf, View!Matching
  <2>4. QED
    BY <2>1, <2>2, <2>3
<1>2. \A m \in stored : m.owner \in Owner
  BY DEF StoreTypeOK, Stored
<1>3. ASSUME NEW m \in stored
      PROVE  \E o \in Owner : m.matcher \in named(o)
  BY <1>1, <1>2 DEF Owned
<1>4. ASSUME NEW o \in Owner, NEW x \in named(o)
      PROVE  \E m \in stored : m.matcher = x
  BY <1>1 DEF Owned
<1> HIDE DEF stored, named
<1>5. {m.matcher : m \in stored} = UNION {named(o) : o \in Owner}
  BY <1>3, <1>4
<1>6. QED
  BY <1>5 DEF stored, named

(* Every event a store handles is a step in which it learns what there is, *)
(* and every restart one in which it forgets.                              *)
LEMMA StepsLearn ==
  ASSUME StoreTypeOK, StoreInv, (StoreTypeOK /\ StoreInv)', StoreNext
  PROVE  View!Next \/ UNCHANGED <<policyOwnerMap, Answers>>
<1>1. /\ Answers = [r \in Replica |-> View!AnswersFor(policyOwnerMap[r])]
      /\ Answers' = [r \in Replica |-> View!AnswersFor(policyOwnerMap'[r])]
      /\ policyOwnerMap \in [Replica -> [Owner -> Exempting]]
  <2>1. Answers = [r \in Replica |-> View!AnswersFor(policyOwnerMap[r])]
    BY AnswersAgree
  <2>2. (StoreTypeOK /\ StoreInv => Answers = [r \in Replica |-> View!AnswersFor(policyOwnerMap[r])])'
    BY AnswersAgree, PTL
  <2>3. QED
    BY <2>1, <2>2 DEF StoreTypeOK
<1>2. ASSUME NEW r \in Replica, NEW view, policyOwnerMap' = [policyOwnerMap EXCEPT ![r] = view]
      PROVE  View!Next
  <2>1. view = policyOwnerMap'[r]
    BY <1>1, <1>2
  <2>2. Answers' = [Answers EXCEPT ![r] = View!AnswersFor(policyOwnerMap'[r])]
    BY <1>1, <1>2
  <2>3. View!Learn(r, policyOwnerMap'[r])
    BY <1>2, <2>1, <2>2 DEF View!Learn
  <2>4. QED
    BY <2>3 DEF View!Next
<1>3. ASSUME NEW r \in Replica, NEW o \in Owner, ProcessExemption(r, o)
      PROVE  View!Next
  <2>1. policyOwnerMap' = [policyOwnerMap EXCEPT ![r] = [@ EXCEPT ![o] = cluster[o]]]
    BY <1>3 DEF ProcessExemption
  <2>2. QED
    BY <1>2, <2>1
<1>4. ASSUME NEW r \in Replica, StartExemptionWatch(r)
      PROVE  View!Next
  BY <1>2, <1>4 DEF StartExemptionWatch
<1>5. ASSUME UNCHANGED <<policyExemptionMap, policyOwnerMap>>
      PROVE  UNCHANGED <<policyOwnerMap, Answers>>
  BY <1>5 DEF Answers
<1>6. QED
  BY <1>3, <1>4, <1>5 DEF StoreNext, ApplyExemption, DeleteExemption

(* The store of every replica implements ExemptionView                     *)
(* (StoreImplementsView): its two maps answer exactly what the exemptions  *)
(* it has last seen say.                                                   *)
THEOREM StoresImplementView == Spec => StoreImplementsView
<1>1. Init => View!Init
  <2> SUFFICES ASSUME Init
               PROVE  View!Init
    OBVIOUS
  <2>1. policyOwnerMap = [r \in Replica |-> View!Nothing]
    BY DEF Init, StoreInit, View!Nothing
  <2>2. Answers = [r \in Replica |-> View!AnswersFor(policyOwnerMap[r])]
    BY InitStore, AnswersAgree
  <2>3. QED
    BY <2>1, <2>2 DEF View!Init
<1>2. StoreTypeOK /\ StoreInv /\ (StoreTypeOK /\ StoreInv)' /\ [Next]_vars
        => [View!Next]_<<policyOwnerMap, Answers>>
  <2>1. ASSUME UNCHANGED storeVars
        PROVE  UNCHANGED <<policyOwnerMap, Answers>>
    BY <2>1 DEF storeVars, Answers
  <2>2. QED
    BY <2>1, StepsLearn DEF Next, vars, storeVars, Submit, Mutate, Validate, Answered
<1>3. QED
  BY <1>1, <1>2, InitStore, NextStore, PTL DEF Spec, StoreImplementsView, View!Spec

-----------------------------------------------------------------------------
(* What the mutations change in a pod and what they leave alone.           *)

(* The fields of a pod no mutation touches, and those of a container.      *)
SamePod(a, b) ==
  /\ a.kind = b.kind /\ a.namespace = b.namespace /\ a.name = b.name
  /\ a.supplementalGroups = b.supplementalGroups /\ a.seccomp = b.seccomp
  /\ a.seOptions = b.seOptions /\ a.seType = b.seType /\ a.hostNamespaces = b.hostNamespaces
  /\ a.volumes = b.volumes /\ a.userLabel = b.userLabel /\ a.groupLabel = b.groupLabel
  /\ a.fsGroupLabel = b.fsGroupLabel /\ a.annotations = b.annotations
  /\ a.injectAnnotation = b.injectAnnotation /\ a.injectLabel = b.injectLabel

SameIds(a, b) ==
  /\ a.runAsUser = b.runAsUser /\ a.runAsGroup = b.runAsGroup /\ a.fsGroup = b.fsGroup
  /\ a.runAsNonRoot = b.runAsNonRoot

SameContainer(c, d) ==
  /\ c.privileged = d.privileged /\ c.add = d.add /\ c.runAsUser = d.runAsUser
  /\ c.runAsGroup = d.runAsGroup /\ c.runAsNonRoot = d.runAsNonRoot /\ c.procMount = d.procMount
  /\ c.seccomp = d.seccomp /\ c.seOptions = d.seOptions /\ c.seType = d.seType
  /\ c.hostPort = d.hostPort /\ c.mounts = d.mounts /\ c.init = d.init
  /\ c.looks = d.looks /\ c.image = d.image

(* The value DisallowPrivileged leaves.                                    *)
Escalation(c) ==
  IF c.allowPrivilegeEscalation = "unset" /\ c.privileged # "true" /\ "CAP_SYS_ADMIN" \notin c.add
  THEN "false" ELSE c.allowPrivilegeEscalation

LEMMA Escalates ==
  ASSUME NEW c \in Container
  PROVE  /\ SetPrivilegeEscalation(c) \in Container /\ SameContainer(SetPrivilegeEscalation(c), c)
         /\ SetPrivilegeEscalation(c).sc = TRUE /\ SetPrivilegeEscalation(c).drop = c.drop
         /\ SetPrivilegeEscalation(c).allowPrivilegeEscalation = Escalation(c)
BY DEF SetPrivilegeEscalation, Escalation, SameContainer, Container, Flag

LEMMA EscalatesOnce ==
  ASSUME NEW c \in Container, c.sc = TRUE, Escalation(c) = c.allowPrivilegeEscalation
  PROVE  SetPrivilegeEscalation(c) = c
<1> DEFINE v == Escalation(c)
<1>1. SetPrivilegeEscalation(c) = [c EXCEPT !.sc = TRUE, !.allowPrivilegeEscalation = v]
  BY DEF SetPrivilegeEscalation, Escalation
<1>2. v = c.allowPrivilegeEscalation
  OBVIOUS
<1> HIDE DEF v
<1>3. QED
  BY <1>1, <1>2 DEF Container

LEMMA Drops ==
  ASSUME NEW c \in Container
  PROVE  /\ DropAll(c) \in Container /\ SameContainer(DropAll(c), c)
         /\ DropAll(c).sc = TRUE /\ DropAll(c).drop = {"ALL"}
         /\ DropAll(c).allowPrivilegeEscalation = c.allowPrivilegeEscalation
<1> DEFINE all == {"ALL"}
<1>1. all \in SUBSET Capability
  BY DEF Capability
<1>2. DropAll(c) = [c EXCEPT !.sc = TRUE, !.drop = all]
  BY Zenon DEF DropAll
<1>3. all = {"ALL"}
  OBVIOUS
<1> HIDE DEF all
<1>4. QED
  BY <1>1, <1>2, <1>3 DEF SameContainer, Container

LEMMA DropsOnce ==
  ASSUME NEW c \in Container, c.sc = TRUE, c.drop = {"ALL"}
  PROVE  DropAll(c) = c
BY DEF DropAll, Container

(* Only the containers change.                                             *)
LEMMA ReplacesContainers ==
  ASSUME NEW names, NEW pod \in Pod(names), NEW f \in [names -> Container]
  PROVE  /\ [pod EXCEPT !.containers = f] \in Pod(names)
         /\ SamePod([pod EXCEPT !.containers = f], pod) /\ SameIds([pod EXCEPT !.containers = f], pod)
         /\ [pod EXCEPT !.containers = f].containers = f
         /\ [pod EXCEPT !.containers = f].exempted = pod.exempted
         /\ [pod EXCEPT !.containers = f].mutated = pod.mutated
         /\ f = pod.containers => [pod EXCEPT !.containers = f] = pod
BY DEF Pod, SamePod, SameIds

(* Only the list of mutations changes.                                     *)
LEMMA Annotates ==
  ASSUME NEW names, NEW pod \in Pod(names), NEW policy \in Policy
  PROVE  /\ Annotated(pod, policy) \in Pod(names)
         /\ SamePod(Annotated(pod, policy), pod) /\ SameIds(Annotated(pod, policy), pod)
         /\ Annotated(pod, policy).containers = pod.containers
         /\ Annotated(pod, policy).exempted = pod.exempted
         /\ ToSet(Annotated(pod, policy).mutated) = ToSet(pod.mutated) \cup {policy}
         /\ policy \in ToSet(pod.mutated) => Annotated(pod, policy) = pod
<1> DEFINE list == IF policy \in ToSet(pod.mutated) THEN pod.mutated ELSE Append(pod.mutated, policy)
<1>1. pod.mutated \in Seq(Policy)
  BY DEF Pod
<1>2. list \in Seq(Policy)
  <2> DEFINE longer == Append(pod.mutated, policy)
  <2>1. longer \in Seq(Policy)
    BY <1>1
  <2>2. list \in {pod.mutated, longer}
    OBVIOUS
  <2> HIDE DEF longer, list
  <2>3. QED
    BY <1>1, <2>1, <2>2
<1>3. ToSet(Append(pod.mutated, policy)) = ToSet(pod.mutated) \cup {policy}
  BY <1>1 DEF ToSet
<1>4. ToSet(list) = ToSet(pod.mutated) \cup {policy}
  BY <1>3
<1>5. policy \in ToSet(pod.mutated) => list = pod.mutated
  OBVIOUS
<1>6. Annotated(pod, policy) = [pod EXCEPT !.mutated = list]
  BY DEF Annotated
<1> HIDE DEF list
<1>7. /\ Annotated(pod, policy) \in Pod(names) /\ SamePod(Annotated(pod, policy), pod)
      /\ SameIds(Annotated(pod, policy), pod)
      /\ Annotated(pod, policy).containers = pod.containers
      /\ Annotated(pod, policy).exempted = pod.exempted
      /\ Annotated(pod, policy).mutated = list
  <2> DEFINE new == [pod EXCEPT !.mutated = list]
  <2>1. new \in Pod(names)
    BY <1>2 DEF Pod
  <2>2. SamePod(new, pod)
    BY DEF Pod, SamePod
  <2>3. SameIds(new, pod)
    BY DEF Pod, SameIds
  <2>4. new.containers = pod.containers /\ new.exempted = pod.exempted /\ new.mutated = list
    BY DEF Pod
  <2> HIDE DEF new
  <2>5. Annotated(pod, policy) = new
    BY <1>6, Zenon DEF new
  <2>6. QED
    BY <2>1, <2>2, <2>3, <2>4, <2>5, Zenon
<1>8. list = pod.mutated => Annotated(pod, policy) = pod
  BY <1>6 DEF Pod
<1>9. QED
  BY <1>4, <1>5, <1>7, <1>8

LEMMA Marks ==
  ASSUME NEW names, NEW pod \in Pod(names), NEW exempt \in SUBSET Policy
  PROVE  /\ MarkExemptions(pod, exempt) \in Pod(names)
         /\ SamePod(MarkExemptions(pod, exempt), pod) /\ SameIds(MarkExemptions(pod, exempt), pod)
         /\ MarkExemptions(pod, exempt).containers = pod.containers
         /\ MarkExemptions(pod, exempt).mutated = pod.mutated
         /\ MarkExemptions(pod, exempt).exempted = pod.exempted \cup exempt
         /\ exempt \subseteq pod.exempted => MarkExemptions(pod, exempt) = pod
<1> DEFINE marks == pod.exempted \cup exempt
<1>1. marks \in SUBSET Policy /\ (exempt \subseteq pod.exempted => marks = pod.exempted)
  BY DEF Pod
<1>2. MarkExemptions(pod, exempt) = [pod EXCEPT !.exempted = marks]
  BY DEF MarkExemptions
<1>3. marks = pod.exempted \cup exempt
  OBVIOUS
<1> HIDE DEF marks
<1>4. QED
  BY <1>1, <1>2, <1>3 DEF Pod, SamePod, SameIds

LEMMA ChangesPrivileged ==
  ASSUME NEW names, NEW pod \in Pod(names)
  PROVE  /\ MutatePrivileged(pod) \in Pod(names)
         /\ SamePod(MutatePrivileged(pod), pod) /\ SameIds(MutatePrivileged(pod), pod)
         /\ MutatePrivileged(pod).exempted = pod.exempted
         /\ "DisallowPrivileged" \in pod.exempted => MutatePrivileged(pod) = pod
         /\ "DisallowPrivileged" \notin pod.exempted =>
               \A n \in names : MutatePrivileged(pod).containers[n]
                                   = SetPrivilegeEscalation(pod.containers[n])
<1> DEFINE f == [n \in names |-> SetPrivilegeEscalation(pod.containers[n])]
           escalation == [pod EXCEPT !.containers = f]
<1>1. DOMAIN pod.containers = names /\ \A n \in names : pod.containers[n] \in Container
  BY DEF Pod
<1>2. f \in [names -> Container]
  BY <1>1, Escalates
<1>3. OnContainers(pod, SetPrivilegeEscalation) = escalation
  BY <1>1 DEF OnContainers
<1>4. "DisallowPrivileged" \in Policy
  BY DEF Policy, PodPolicies
<1>5. "DisallowPrivileged" \in pod.exempted => MutatePrivileged(pod) = pod
  BY Zenon DEF MutatePrivileged
<1>6. CASE "DisallowPrivileged" \in pod.exempted
  BY <1>5, <1>6 DEF SamePod, SameIds
<1>7. CASE "DisallowPrivileged" \notin pod.exempted
  <2>1. MutatePrivileged(pod) \in {Annotated(escalation, "DisallowPrivileged"), escalation}
    BY <1>3, <1>7 DEF MutatePrivileged
  <2>2. /\ escalation \in Pod(names) /\ SamePod(escalation, pod) /\ SameIds(escalation, pod)
        /\ escalation.containers = f /\ escalation.exempted = pod.exempted
    <3> HIDE DEF f
    <3>1. QED
      BY <1>2, ReplacesContainers
  <2>3. \A n \in names : f[n] = SetPrivilegeEscalation(pod.containers[n])
    OBVIOUS
  <2> HIDE DEF f, escalation
  <2>4. /\ Annotated(escalation, "DisallowPrivileged") \in Pod(names)
        /\ SamePod(Annotated(escalation, "DisallowPrivileged"), escalation)
        /\ SameIds(Annotated(escalation, "DisallowPrivileged"), escalation)
        /\ Annotated(escalation, "DisallowPrivileged").containers = f
        /\ Annotated(escalation, "DisallowPrivileged").exempted = pod.exempted
    BY <1>4, <2>2, Annotates
  <2>5. QED
    BY <1>7, <2>1, <2>2, <2>3, <2>4 DEF SamePod, SameIds
<1>8. QED
  BY <1>6, <1>7

(* The ids RequireNonRootUser leaves.                                      *)
UserSet(pod) == IF pod.userLabel = "none" /\ pod.runAsUser = "unset" THEN "user"
                ELSE FromLabel(pod.userLabel, pod.runAsUser)
GroupSet(pod) == IF pod.groupLabel = "none" /\ pod.runAsGroup = "unset" THEN "user"
                 ELSE FromLabel(pod.groupLabel, pod.runAsGroup)
NonRootSet(pod) == IF pod.runAsNonRoot = "unset" THEN "true" ELSE pod.runAsNonRoot

LEMMA IdsTyped ==
  ASSUME NEW names, NEW pod \in Pod(names)
  PROVE  /\ UserSet(pod) \in Id /\ GroupSet(pod) \in Id
         /\ FromLabel(pod.fsGroupLabel, pod.fsGroup) \in Id /\ NonRootSet(pod) \in Flag
BY DEF Pod, UserSet, GroupSet, NonRootSet, FromLabel, ParsedLabel, Id, Label, Flag

LEMMA SetsIds ==
  ASSUME NEW names, NEW pod \in Pod(names)
  PROVE  /\ SetNonRootUserSettings(pod) \in Pod(names)
         /\ SamePod(SetNonRootUserSettings(pod), pod)
         /\ SetNonRootUserSettings(pod).containers = pod.containers
         /\ SetNonRootUserSettings(pod).exempted = pod.exempted
         /\ SetNonRootUserSettings(pod).mutated = pod.mutated
         /\ SetNonRootUserSettings(pod).runAsUser = UserSet(pod)
         /\ SetNonRootUserSettings(pod).runAsGroup = GroupSet(pod)
         /\ SetNonRootUserSettings(pod).fsGroup = FromLabel(pod.fsGroupLabel, pod.fsGroup)
         /\ SetNonRootUserSettings(pod).runAsNonRoot = NonRootSet(pod)
<1> DEFINE u == UserSet(pod)
           g == GroupSet(pod)
           f == FromLabel(pod.fsGroupLabel, pod.fsGroup)
           n == NonRootSet(pod)
<1>1. u \in Id /\ g \in Id /\ f \in Id /\ n \in Flag
  BY IdsTyped
<1>2. SetNonRootUserSettings(pod) =
        [pod EXCEPT !.runAsUser = u, !.runAsGroup = g, !.fsGroup = f, !.runAsNonRoot = n]
  BY Zenon DEF SetNonRootUserSettings, UserSet, GroupSet, NonRootSet
<1> HIDE DEF u, g, f, n
<1> DEFINE new == [pod EXCEPT !.runAsUser = u, !.runAsGroup = g, !.fsGroup = f, !.runAsNonRoot = n]
<1>3. new \in Pod(names)
  BY <1>1 DEF Pod
<1>4. SamePod(new, pod)
  BY DEF Pod, SamePod
<1>5. new.containers = pod.containers /\ new.exempted = pod.exempted /\ new.mutated = pod.mutated
  BY DEF Pod
<1>6. new.runAsUser = u /\ new.runAsGroup = g /\ new.fsGroup = f /\ new.runAsNonRoot = n
  BY DEF Pod
<1>7. SetNonRootUserSettings(pod) = new
  BY <1>2, Zenon
<1> HIDE DEF new
<1>8. QED
  BY <1>3, <1>4, <1>5, <1>6, <1>7, Zenon DEF u, g, f, n

LEMMA SetsIdsOnce ==
  ASSUME NEW names, NEW pod \in Pod(names),
         pod.runAsUser = UserSet(pod), pod.runAsGroup = GroupSet(pod),
         pod.fsGroup = FromLabel(pod.fsGroupLabel, pod.fsGroup), pod.runAsNonRoot = NonRootSet(pod)
  PROVE  SetNonRootUserSettings(pod) = pod
<1> DEFINE u == UserSet(pod)
           g == GroupSet(pod)
           f == FromLabel(pod.fsGroupLabel, pod.fsGroup)
           n == NonRootSet(pod)
<1>1. pod.runAsUser = u /\ pod.runAsGroup = g /\ pod.fsGroup = f /\ pod.runAsNonRoot = n
  OBVIOUS
<1>2. SetNonRootUserSettings(pod) =
        [pod EXCEPT !.runAsUser = u, !.runAsGroup = g, !.fsGroup = f, !.runAsNonRoot = n]
  BY Zenon DEF SetNonRootUserSettings, UserSet, GroupSet, NonRootSet
<1> HIDE DEF u, g, f, n
<1>3. QED
  BY <1>1, <1>2 DEF Pod

LEMMA ChangesIds ==
  ASSUME NEW names, NEW pod \in Pod(names)
  PROVE  /\ MutateNonRoot(pod) \in Pod(names) /\ SamePod(MutateNonRoot(pod), pod)
         /\ MutateNonRoot(pod).containers = pod.containers
         /\ MutateNonRoot(pod).exempted = pod.exempted
         /\ "RequireNonRootUser" \in pod.exempted => MutateNonRoot(pod) = pod
         /\ "RequireNonRootUser" \notin pod.exempted =>
               /\ MutateNonRoot(pod).runAsUser = UserSet(pod)
               /\ MutateNonRoot(pod).runAsGroup = GroupSet(pod)
               /\ MutateNonRoot(pod).fsGroup = FromLabel(pod.fsGroupLabel, pod.fsGroup)
               /\ MutateNonRoot(pod).runAsNonRoot = NonRootSet(pod)
               /\ "RequireNonRootUser" \in ToSet(MutateNonRoot(pod).mutated)
<1>1. CASE "RequireNonRootUser" \in pod.exempted
  BY <1>1 DEF MutateNonRoot, SamePod
<1>2. CASE "RequireNonRootUser" \notin pod.exempted
  <2> DEFINE x == SetNonRootUserSettings(pod)
             y == Annotated(x, "RequireNonRootUser")
  <2>1. MutateNonRoot(pod) = y
    BY <1>2 DEF MutateNonRoot
  <2>2. "RequireNonRootUser" \in Policy
    BY DEF Policy, PodPolicies
  <2>3. /\ x \in Pod(names) /\ SamePod(x, pod)
        /\ x.containers = pod.containers /\ x.exempted = pod.exempted
        /\ x.runAsUser = UserSet(pod) /\ x.runAsGroup = GroupSet(pod)
        /\ x.fsGroup = FromLabel(pod.fsGroupLabel, pod.fsGroup) /\ x.runAsNonRoot = NonRootSet(pod)
    BY SetsIds
  <2> HIDE DEF x
  <2>4. /\ y \in Pod(names) /\ SamePod(y, x) /\ SameIds(y, x)
        /\ y.containers = x.containers /\ y.exempted = x.exempted
        /\ "RequireNonRootUser" \in ToSet(y.mutated)
    BY <2>2, <2>3, Annotates
  <2> HIDE DEF y
  <2>5. QED
    BY <1>2, <2>1, <2>3, <2>4 DEF SamePod, SameIds
<1>3. QED
  BY <1>1, <1>2

LEMMA ChangesDrop ==
  ASSUME NEW names, NEW pod \in Pod(names)
  PROVE  /\ MutateDropAll(pod) \in Pod(names)
         /\ SamePod(MutateDropAll(pod), pod) /\ SameIds(MutateDropAll(pod), pod)
         /\ MutateDropAll(pod).exempted = pod.exempted
         /\ ToSet(pod.mutated) \subseteq ToSet(MutateDropAll(pod).mutated)
         /\ "DropAllCapabilities" \in pod.exempted => MutateDropAll(pod) = pod
         /\ "DropAllCapabilities" \notin pod.exempted =>
               /\ \A n \in names : MutateDropAll(pod).containers[n] = DropAll(pod.containers[n])
               /\ "DropAllCapabilities" \in ToSet(MutateDropAll(pod).mutated)
<1>1. CASE "DropAllCapabilities" \in pod.exempted
  BY <1>1 DEF MutateDropAll, SamePod, SameIds
<1>2. CASE "DropAllCapabilities" \notin pod.exempted
  <2> DEFINE f == [n \in names |-> DropAll(pod.containers[n])]
             x == [pod EXCEPT !.containers = f]
             y == Annotated(x, "DropAllCapabilities")
  <2>1. DOMAIN pod.containers = names /\ \A n \in names : pod.containers[n] \in Container
    BY DEF Pod
  <2>2. f \in [names -> Container] /\ \A n \in names : f[n] = DropAll(pod.containers[n])
    BY <2>1, Drops
  <2>3. MutateDropAll(pod) = y
    BY <1>2, <2>1 DEF MutateDropAll, OnContainers
  <2>4. "DropAllCapabilities" \in Policy
    BY DEF Policy, PodPolicies
  <2>5. /\ x \in Pod(names) /\ SamePod(x, pod) /\ SameIds(x, pod)
        /\ x.containers = f /\ x.exempted = pod.exempted /\ x.mutated = pod.mutated
    <3> HIDE DEF f
    <3>1. QED
      BY <2>2, ReplacesContainers
  <2> HIDE DEF f, x
  <2>6. /\ y \in Pod(names) /\ SamePod(y, x) /\ SameIds(y, x)
        /\ y.containers = x.containers /\ y.exempted = x.exempted
        /\ ToSet(y.mutated) = ToSet(x.mutated) \cup {"DropAllCapabilities"}
    BY <2>4, <2>5, Annotates
  <2> HIDE DEF y
  <2>7. QED
    BY <1>2, <2>2, <2>3, <2>5, <2>6 DEF SamePod, SameIds
<1>3. QED
  BY <1>1, <1>2

-----------------------------------------------------------------------------
(* What the mutating webhook makes of a pod.                               *)

(* A container after the mutation, given the exemptions of its pod.        *)
MutatedContainer(c, d, exempted) ==
  /\ SameContainer(d, c)
  /\ d.allowPrivilegeEscalation = IF "DisallowPrivileged" \in exempted
                                  THEN c.allowPrivilegeEscalation ELSE Escalation(c)
  /\ d.drop = IF "DropAllCapabilities" \in exempted THEN c.drop ELSE {"ALL"}
  /\ d.sc = IF {"DisallowPrivileged", "DropAllCapabilities"} \subseteq exempted THEN c.sc ELSE TRUE

LEMMA Mutates ==
  ASSUME NEW names, NEW pod \in Pod(names), NEW exempt \in SUBSET Policy,
         NEW new, new = MutatePod(pod, exempt)
  PROVE  /\ new \in Pod(names) /\ SamePod(new, pod) /\ new.exempted = pod.exempted \cup exempt
         /\ \A n \in names : MutatedContainer(pod.containers[n], new.containers[n], new.exempted)
         /\ "RequireNonRootUser" \in new.exempted => SameIds(new, pod)
         /\ "RequireNonRootUser" \notin new.exempted =>
               /\ new.runAsUser = UserSet(pod) /\ new.runAsGroup = GroupSet(pod)
               /\ new.fsGroup = FromLabel(pod.fsGroupLabel, pod.fsGroup)
               /\ new.runAsNonRoot = NonRootSet(pod)
               /\ "RequireNonRootUser" \in ToSet(new.mutated)
         /\ "DropAllCapabilities" \notin new.exempted => "DropAllCapabilities" \in ToSet(new.mutated)
<1> DEFINE a == MarkExemptions(pod, exempt)
           b == MutatePrivileged(a)
           c == MutateNonRoot(b)
           d == MutateDropAll(c)
<1>1. new = d
  BY DEF MutatePod
<1>2. /\ a \in Pod(names) /\ SamePod(a, pod) /\ SameIds(a, pod) /\ a.containers = pod.containers
      /\ a.exempted = pod.exempted \cup exempt
  BY Marks
<1> HIDE DEF a
<1>3. /\ b \in Pod(names) /\ SamePod(b, a) /\ SameIds(b, a) /\ b.exempted = a.exempted
      /\ "DisallowPrivileged" \in a.exempted => b = a
      /\ "DisallowPrivileged" \notin a.exempted =>
            \A n \in names : b.containers[n] = SetPrivilegeEscalation(a.containers[n])
  BY <1>2, ChangesPrivileged
<1> HIDE DEF b
<1>4. /\ c \in Pod(names) /\ SamePod(c, b) /\ c.containers = b.containers /\ c.exempted = b.exempted
      /\ "RequireNonRootUser" \in b.exempted => c = b
      /\ "RequireNonRootUser" \notin b.exempted =>
            /\ c.runAsUser = UserSet(b) /\ c.runAsGroup = GroupSet(b)
            /\ c.fsGroup = FromLabel(b.fsGroupLabel, b.fsGroup) /\ c.runAsNonRoot = NonRootSet(b)
            /\ "RequireNonRootUser" \in ToSet(c.mutated)
  BY <1>3, ChangesIds
<1> HIDE DEF c
<1>5. /\ d \in Pod(names) /\ SamePod(d, c) /\ SameIds(d, c) /\ d.exempted = c.exempted
      /\ ToSet(c.mutated) \subseteq ToSet(d.mutated)
      /\ "DropAllCapabilities" \in c.exempted => d = c
      /\ "DropAllCapabilities" \notin c.exempted =>
            /\ \A n \in names : d.containers[n] = DropAll(c.containers[n])
            /\ "DropAllCapabilities" \in ToSet(d.mutated)
  BY <1>4, ChangesDrop
<1> HIDE DEF d
<1>6. SamePod(new, pod) /\ new.exempted = pod.exempted \cup exempt
  BY <1>1, <1>2, <1>3, <1>4, <1>5 DEF SamePod
<1>7. \A n \in names : MutatedContainer(pod.containers[n], new.containers[n], new.exempted)
  <2> SUFFICES ASSUME NEW n \in names
               PROVE  MutatedContainer(pod.containers[n], new.containers[n], new.exempted)
    OBVIOUS
  <2>1. pod.containers[n] \in Container /\ b.containers[n] \in Container
    BY <1>3 DEF Pod
  <2>2. /\ SameContainer(b.containers[n], pod.containers[n])
        /\ b.containers[n].drop = pod.containers[n].drop
        /\ "DisallowPrivileged" \in new.exempted =>
              /\ b.containers[n].allowPrivilegeEscalation = pod.containers[n].allowPrivilegeEscalation
              /\ b.containers[n].sc = pod.containers[n].sc
        /\ "DisallowPrivileged" \notin new.exempted =>
              /\ b.containers[n].allowPrivilegeEscalation = Escalation(pod.containers[n])
              /\ b.containers[n].sc = TRUE
    <3>1. new.exempted = a.exempted
      BY <1>1, <1>3, <1>4, <1>5
    <3>2. CASE "DisallowPrivileged" \in new.exempted
      BY <1>2, <1>3, <3>1, <3>2 DEF SameContainer
    <3>3. CASE "DisallowPrivileged" \notin new.exempted
      <4>1. b.containers[n] = SetPrivilegeEscalation(pod.containers[n])
        BY <1>2, <1>3, <3>1, <3>3
      <4>2. QED
        BY <2>1, <3>3, <4>1, Escalates
    <3>4. QED
      BY <3>2, <3>3
  <2>3. /\ SameContainer(new.containers[n], b.containers[n])
        /\ new.containers[n].allowPrivilegeEscalation = b.containers[n].allowPrivilegeEscalation
        /\ "DropAllCapabilities" \in new.exempted =>
              new.containers[n].drop = b.containers[n].drop /\ new.containers[n].sc = b.containers[n].sc
        /\ "DropAllCapabilities" \notin new.exempted =>
              new.containers[n].drop = {"ALL"} /\ new.containers[n].sc = TRUE
    <3>1. new.exempted = c.exempted
      BY <1>1, <1>5
    <3>2. CASE "DropAllCapabilities" \in new.exempted
      BY <1>1, <1>4, <1>5, <3>1, <3>2 DEF SameContainer
    <3>3. CASE "DropAllCapabilities" \notin new.exempted
      <4>1. new.containers[n] = DropAll(b.containers[n])
        BY <1>1, <1>4, <1>5, <3>1, <3>3
      <4>2. QED
        BY <2>1, <3>3, <4>1, Drops
    <3>4. QED
      BY <3>2, <3>3
  <2>4. SameContainer(new.containers[n], pod.containers[n])
    BY <2>2, <2>3 DEF SameContainer
  <2>5. QED
    BY <2>2, <2>3, <2>4 DEF MutatedContainer
<1>8. "RequireNonRootUser" \in new.exempted => SameIds(new, pod)
  BY <1>1, <1>2, <1>3, <1>4, <1>5 DEF SameIds
<1>9. "RequireNonRootUser" \notin new.exempted =>
         /\ new.runAsUser = UserSet(pod) /\ new.runAsGroup = GroupSet(pod)
         /\ new.fsGroup = FromLabel(pod.fsGroupLabel, pod.fsGroup)
         /\ new.runAsNonRoot = NonRootSet(pod)
         /\ "RequireNonRootUser" \in ToSet(new.mutated)
  <2> SUFFICES ASSUME "RequireNonRootUser" \notin new.exempted
               PROVE  /\ new.runAsUser = UserSet(pod) /\ new.runAsGroup = GroupSet(pod)
                      /\ new.fsGroup = FromLabel(pod.fsGroupLabel, pod.fsGroup)
                      /\ new.runAsNonRoot = NonRootSet(pod)
                      /\ "RequireNonRootUser" \in ToSet(new.mutated)
    OBVIOUS
  <2>1. /\ b.runAsUser = pod.runAsUser /\ b.userLabel = pod.userLabel
        /\ b.runAsGroup = pod.runAsGroup /\ b.groupLabel = pod.groupLabel
        /\ b.fsGroup = pod.fsGroup /\ b.fsGroupLabel = pod.fsGroupLabel
        /\ b.runAsNonRoot = pod.runAsNonRoot
    BY <1>2, <1>3 DEF SamePod, SameIds
  <2>2. UserSet(b) = UserSet(pod) /\ GroupSet(b) = GroupSet(pod) /\ NonRootSet(b) = NonRootSet(pod)
    BY <2>1 DEF UserSet, GroupSet, NonRootSet
  <2>3. QED
    BY <1>1, <1>4, <1>5, <2>1, <2>2 DEF SameIds
<1>10. QED
  BY <1>1, <1>4, <1>5, <1>6, <1>7, <1>8, <1>9

(* What has been mutated is mutated no further.                            *)
LEMMA MutatesOnce ==
  ASSUME NEW names, NEW pod \in Pod(names), NEW exempt \in SUBSET Policy,
         NEW new, new = MutatePod(pod, exempt)
  PROVE  MutatePod(new, exempt) = new
<1>1. /\ new \in Pod(names) /\ SamePod(new, pod) /\ new.exempted = pod.exempted \cup exempt
      /\ \A n \in names : MutatedContainer(pod.containers[n], new.containers[n], new.exempted)
      /\ "RequireNonRootUser" \notin new.exempted =>
            /\ new.runAsUser = UserSet(pod) /\ new.runAsGroup = GroupSet(pod)
            /\ new.fsGroup = FromLabel(pod.fsGroupLabel, pod.fsGroup)
            /\ new.runAsNonRoot = NonRootSet(pod)
            /\ "RequireNonRootUser" \in ToSet(new.mutated)
      /\ "DropAllCapabilities" \notin new.exempted => "DropAllCapabilities" \in ToSet(new.mutated)
  BY Mutates
<1>2. /\ DOMAIN new.containers = names /\ new.containers = [n \in names |-> new.containers[n]]
      /\ \A n \in names : new.containers[n] \in Container /\ pod.containers[n] \in Container
  BY <1>1 DEF Pod
<1>3. MarkExemptions(new, exempt) = new
  BY <1>1, Marks
<1>4. MutatePrivileged(new) = new
  <2>1. CASE "DisallowPrivileged" \in new.exempted
    BY <1>1, <2>1, ChangesPrivileged
  <2>2. CASE "DisallowPrivileged" \notin new.exempted
    <3>1. ASSUME NEW n \in names
          PROVE  SetPrivilegeEscalation(new.containers[n]) = new.containers[n]
      <4>1. /\ new.containers[n].sc = TRUE
            /\ new.containers[n].allowPrivilegeEscalation = Escalation(pod.containers[n])
            /\ new.containers[n].privileged = pod.containers[n].privileged
            /\ new.containers[n].add = pod.containers[n].add
        BY <1>1, <2>2 DEF MutatedContainer, SameContainer
      <4>2. Escalation(new.containers[n]) = new.containers[n].allowPrivilegeEscalation
        BY <4>1 DEF Escalation
      <4>3. QED
        BY <1>2, <4>1, <4>2, EscalatesOnce
    <3>2. [n \in names |-> SetPrivilegeEscalation(new.containers[n])] = new.containers
      BY <1>2, <3>1
    <3>3. new.containers \in [names -> Container]
      BY <1>1 DEF Pod
    <3>4. OnContainers(new, SetPrivilegeEscalation) = new
      <4>1. OnContainers(new, SetPrivilegeEscalation) =
              [new EXCEPT !.containers = [n \in names |-> SetPrivilegeEscalation(new.containers[n])]]
        BY <1>2 DEF OnContainers
      <4>2. [new EXCEPT !.containers = new.containers] = new
        BY <1>1 DEF Pod
      <4>3. QED
        BY <3>2, <4>1, <4>2
    <3>5. QED
      BY <2>2, <3>4 DEF MutatePrivileged
  <2>3. QED
    BY <2>1, <2>2
<1>5. MutateNonRoot(new) = new
  <2>1. CASE "RequireNonRootUser" \in new.exempted
    BY <1>1, <2>1, ChangesIds
  <2>2. CASE "RequireNonRootUser" \notin new.exempted
    <3>1. /\ new.userLabel = pod.userLabel /\ new.groupLabel = pod.groupLabel
          /\ new.fsGroupLabel = pod.fsGroupLabel
      BY <1>1 DEF SamePod
    <3>2. /\ pod.userLabel \in Label /\ pod.groupLabel \in Label /\ pod.fsGroupLabel \in Label
      BY DEF Pod
    <3>3. /\ new.runAsUser = UserSet(new) /\ new.runAsGroup = GroupSet(new)
          /\ new.fsGroup = FromLabel(new.fsGroupLabel, new.fsGroup)
          /\ new.runAsNonRoot = NonRootSet(new)
      BY <1>1, <2>2, <3>1, <3>2 DEF UserSet, GroupSet, NonRootSet, FromLabel, ParsedLabel
    <3>4. SetNonRootUserSettings(new) = new
      BY <1>1, <3>3, SetsIdsOnce
    <3>5. "RequireNonRootUser" \in Policy
      BY DEF Policy, PodPolicies
    <3>6. Annotated(new, "RequireNonRootUser") = new
      BY <1>1, <2>2, <3>5, Annotates
    <3>7. QED
      BY <2>2, <3>4, <3>6 DEF MutateNonRoot
  <2>3. QED
    BY <2>1, <2>2
<1>6. MutateDropAll(new) = new
  <2>1. CASE "DropAllCapabilities" \in new.exempted
    BY <1>1, <2>1, ChangesDrop
  <2>2. CASE "DropAllCapabilities" \notin new.exempted
    <3>1. ASSUME NEW n \in names
          PROVE  DropAll(new.containers[n]) = new.containers[n]
      <4>1. new.containers[n].sc = TRUE /\ new.containers[n].drop = {"ALL"}
        BY <1>1, <2>2 DEF MutatedContainer
      <4>2. QED
        BY <1>2, <4>1, DropsOnce
    <3>2. [n \in names |-> DropAll(new.containers[n])] = new.containers
      BY <1>2, <3>1
    <3>3. new.containers \in [names -> Container]
      BY <1>1 DEF Pod
    <3>4. OnContainers(new, DropAll) = new
      <4>1. OnContainers(new, DropAll) =
              [new EXCEPT !.containers = [n \in names |-> DropAll(new.containers[n])]]
        BY <1>2 DEF OnContainers
      <4>2. [new EXCEPT !.containers = new.containers] = new
        BY <1>1 DEF Pod
      <4>3. QED
        BY <3>2, <4>1, <4>2
    <3>5. "DropAllCapabilities" \in Policy
      BY DEF Policy, PodPolicies
    <3>6. Annotated(new, "DropAllCapabilities") = new
      BY <1>1, <2>2, <3>5, Annotates
    <3>7. QED
      BY <2>2, <3>4, <3>6 DEF MutateDropAll
  <2>3. QED
    BY <2>1, <2>2
<1>7. QED
  BY <1>3, <1>4, <1>5, <1>6 DEF MutatePod

-----------------------------------------------------------------------------
(* The request under way.                                                  *)

Objects == Object \cup {MutatePod(obj, exempt) : obj \in Object, exempt \in SUBSET Policy}
Requests == [phase : {"submitted", "mutated", "admitted", "denied"}, submitted : Object,
             object : Objects, exemptAtMutate : SUBSET Policy, exemptAtValidate : SUBSET Policy]

Mutated(obj, exempt) == IF obj.kind = "pod" THEN MutatePod(obj, exempt) ELSE obj

RequestInv ==
  request # NoRequest =>
    /\ request \in Requests
    /\ request.phase = "submitted" => request.object = request.submitted
    /\ request.phase # "submitted" => request.object = Mutated(request.submitted, request.exemptAtMutate)
    /\ request.phase = "admitted" => Approved(request.object, request.exemptAtValidate)
    /\ request.phase = "denied" => ~Approved(request.object, request.exemptAtValidate)

LEMMA ExemptTyped == \A r, obj : ExemptFrom(r, obj) \in SUBSET Policy
BY DEF ExemptFrom, PoliciesOf, Policy

LEMMA StepRequest == RequestInv /\ [Next]_vars => RequestInv'
<1> SUFFICES ASSUME RequestInv, [Next]_vars
             PROVE  RequestInv'
  OBVIOUS
<1>1. ASSUME UNCHANGED request
      PROVE  RequestInv'
  BY <1>1 DEF RequestInv
<1>2. ASSUME NEW obj \in Object, Submit(obj)
      PROVE  RequestInv'
  BY <1>2 DEF Submit, RequestInv, Requests, Objects
<1>3. ASSUME NEW r \in Replica, Mutate(r)
      PROVE  RequestInv'
  <2> DEFINE exempt == ExemptFrom(r, request.object)
             new == Mutated(request.submitted, exempt)
  <2>1. /\ request # NoRequest /\ request \in Requests /\ request.phase = "submitted"
        /\ request.object = request.submitted
    BY <1>3 DEF Mutate, RequestInv
  <2>2. request.submitted \in Object /\ exempt \in SUBSET Policy
    BY <2>1, ExemptTyped DEF Requests
  <2>3. new \in Objects
    BY <2>2 DEF Mutated, Objects
  <2>4. request' = [request EXCEPT !.phase = "mutated", !.object = new, !.exemptAtMutate = exempt]
    BY <1>3, <2>1 DEF Mutate, Mutated
  <2> HIDE DEF exempt
  <2>5. /\ request' \in Requests /\ request'.phase = "mutated" /\ request'.object = new
        /\ request'.submitted = request.submitted /\ request'.exemptAtMutate = exempt
    <3> HIDE DEF new
    <3>1. QED
      BY <2>1, <2>2, <2>3, <2>4 DEF Requests
  <2>6. QED
    BY <2>5 DEF RequestInv
<1>4. ASSUME NEW r \in Replica, Validate(r)
      PROVE  RequestInv'
  <2> DEFINE exempt == ExemptFrom(r, request.object)
             verdict == IF Approved(request.object, exempt) THEN "admitted" ELSE "denied"
  <2>1. /\ request # NoRequest /\ request \in Requests /\ request.phase = "mutated"
        /\ request.object = Mutated(request.submitted, request.exemptAtMutate)
    BY <1>4 DEF Validate, RequestInv
  <2>2. exempt \in SUBSET Policy
    BY ExemptTyped
  <2>3. request' = [request EXCEPT !.phase = verdict, !.exemptAtValidate = exempt]
    BY <1>4 DEF Validate
  <2>4. /\ verdict \in {"admitted", "denied"}
        /\ verdict = "admitted" => Approved(request.object, exempt)
        /\ verdict = "denied" => ~Approved(request.object, exempt)
    OBVIOUS
  <2> HIDE DEF exempt, verdict
  <2>5. /\ request' \in Requests /\ request'.phase = verdict /\ request'.object = request.object
        /\ request'.submitted = request.submitted /\ request'.exemptAtMutate = request.exemptAtMutate
        /\ request'.exemptAtValidate = exempt
    BY <2>1, <2>2, <2>3, <2>4 DEF Requests
  <2>6. QED
    BY <2>1, <2>4, <2>5 DEF RequestInv
<1>5. CASE Answered
  BY <1>5 DEF Answered, RequestInv
<1>6. QED
  BY <1>1, <1>2, <1>3, <1>4, <1>5 DEF Next, vars

LEMMA AlwaysRequest == Spec => []RequestInv
<1>1. Init => RequestInv
  BY DEF Init, RequestInv
<1>2. QED
  BY <1>1, StepRequest, PTL DEF Spec

(* A submitted pod, and what the mutation made of it.                      *)
LEMMA PodsTyped ==
  ASSUME NEW obj \in Object, obj.kind = "pod"
  PROVE  /\ obj \in Pod(DOMAIN obj.containers)
         /\ \A n \in DOMAIN obj.containers : MeaningfulFields(obj.containers[n])
BY ObjectAssumption DEF IsObject, Containers

LEMMA MutatedKind ==
  ASSUME NEW obj \in Object, NEW exempt \in SUBSET Policy
  PROVE  Mutated(obj, exempt).kind = obj.kind
<1>1. CASE obj.kind = "pod"
  <2>1. SamePod(MutatePod(obj, exempt), obj)
    BY <1>1, PodsTyped, Mutates
  <2>2. QED
    BY <1>1, <2>1 DEF Mutated, SamePod
<1>2. CASE obj.kind # "pod"
  BY <1>2 DEF Mutated
<1>3. QED
  BY <1>1, <1>2

(* The mutating webhook may be called again (MutationIsStable): no pod,    *)
(* whatever its fields, containers and exemptions, is changed a second     *)
(* time.                                                                   *)
THEOREM MutationStaysStable == Spec => []MutationIsStable
<1>1. RequestInv => MutationIsStable
  <2> SUFFICES ASSUME RequestInv, request # NoRequest, request.phase = "mutated",
                      request.object.kind = "pod"
               PROVE  MutatePod(request.object, request.exemptAtMutate) = request.object
    BY DEF MutationIsStable
  <2>1. /\ request.submitted \in Object /\ request.exemptAtMutate \in SUBSET Policy
        /\ request.object = Mutated(request.submitted, request.exemptAtMutate)
    BY DEF RequestInv, Requests
  <2>2. request.submitted.kind = "pod"
    BY <2>1, MutatedKind
  <2>3. request.object = MutatePod(request.submitted, request.exemptAtMutate)
    BY <2>1, <2>2 DEF Mutated
  <2>4. QED
    BY <2>1, <2>2, <2>3, PodsTyped, MutatesOnce
<1>2. QED
  BY <1>1, AlwaysRequest, PTL

-----------------------------------------------------------------------------
(* What the validators of the three mutating policies add to the mutation. *)

LEMMA HardensPrivileged ==
  ASSUME NEW names, NEW pod \in Pod(names), NEW exempt \in SUBSET Policy,
         NEW new, new = MutatePod(pod, exempt),
         "DisallowPrivileged" \notin new.exempted, NoPrivilegeEscalation(new)
  PROVE  Hardened("DisallowPrivileged", new)
<1>1. /\ new \in Pod(names)
      /\ \A n \in names : MutatedContainer(pod.containers[n], new.containers[n], new.exempted)
  BY Mutates
<1>2. DOMAIN new.containers = names
  BY <1>1 DEF Pod
<1>3. ASSUME NEW n \in names
      PROVE  /\ new.containers[n].allowPrivilegeEscalation = "false"
             /\ new.containers[n].privileged # "true"
  <2>1. new.containers[n].sc
    BY <1>1 DEF MutatedContainer
  <2>2. new.containers[n] \in SecurityContextContainers(new, FALSE)
    BY <1>2, <2>1 DEF SecurityContextContainers, Containers
  <2>3. QED
    BY <2>2 DEF NoPrivilegeEscalation, PrivilegeViolations
<1>4. QED
  BY <1>2, <1>3 DEF Hardened

LEMMA HardensDrop ==
  ASSUME NEW names, NEW pod \in Pod(names), NEW exempt \in SUBSET Policy,
         NEW new, new = MutatePod(pod, exempt), "DropAllCapabilities" \notin new.exempted
  PROVE  Hardened("DropAllCapabilities", new)
<1>1. /\ new \in Pod(names)
      /\ \A n \in names : MutatedContainer(pod.containers[n], new.containers[n], new.exempted)
  BY Mutates
<1>2. DOMAIN new.containers = names
  BY <1>1 DEF Pod
<1>3. ASSUME NEW n \in names
      PROVE  "ALL" \in new.containers[n].drop
  BY <1>1 DEF MutatedContainer
<1>4. QED
  BY <1>2, <1>3 DEF Hardened

(* A container the validator skips either has no securityContext, so that  *)
(* the settings of the pod hold for it, or is the init container of Istio. *)
LEMMA HardensNonRoot ==
  ASSUME NEW names, NEW pod \in Pod(names), NEW exempt \in SUBSET Policy,
         \A n \in names : MeaningfulFields(pod.containers[n]),
         NEW new, new = MutatePod(pod, exempt),
         "RequireNonRootUser" \notin new.exempted, NonRoot(new)
  PROVE  Hardened("RequireNonRootUser", new)
<1>1. /\ new \in Pod(names)
      /\ \A n \in names : MutatedContainer(pod.containers[n], new.containers[n], new.exempted)
      /\ new.runAsNonRoot = NonRootSet(pod)
  BY Mutates
<1>2. /\ DOMAIN new.containers = names /\ pod.runAsNonRoot \in Flag
      /\ \A n \in names : new.containers[n] \in Container /\ pod.containers[n] \in Container
  BY <1>1 DEF Pod
<1>3. new.runAsUser # "root" /\ new.runAsNonRoot = "true"
  BY <1>1, <1>2 DEF NonRoot, IsRootSecurityContext, NonRootSet, Flag
<1>4. ASSUME NEW n \in names
      PROVE  \/ new.containers[n].looks = "istio-init"
             \/ /\ EffectiveUser(new, new.containers[n]) # "root"
                /\ \/ EffectiveUser(new, new.containers[n]) # "unset"
                   \/ EffectiveNonRoot(new, new.containers[n]) = "true"
  <2> DEFINE c == new.containers[n]
  <2>1. c \in Container
    BY <1>2
  <2>2. CASE c \in SecurityContextContainers(new, TRUE)
    <3>1. c.runAsUser # "root" /\ c.runAsNonRoot # "false"
      BY <2>2 DEF NonRoot, IsRootSecurityContext
    <3>2. c.runAsNonRoot \in Flag
      BY <2>1 DEF Container
    <3>3. QED
      BY <1>3, <3>1, <3>2 DEF EffectiveUser, EffectiveNonRoot, Flag
  <2>3. CASE c.sc = FALSE
    <3>1. pod.containers[n].sc = FALSE
      BY <1>1, <1>2, <2>3 DEF MutatedContainer, Container
    <3>2. pod.containers[n].runAsUser = "unset" /\ pod.containers[n].runAsNonRoot = "unset"
      BY <3>1 DEF MeaningfulFields
    <3>3. c.runAsUser = "unset" /\ c.runAsNonRoot = "unset"
      BY <1>1, <3>2 DEF MutatedContainer, SameContainer
    <3>4. QED
      BY <1>3, <3>3 DEF EffectiveUser, EffectiveNonRoot
  <2>4. CASE IsIstioInitContainer(new, c)
    BY <2>4 DEF IsIstioInitContainer
  <2>5. c.sc \in BOOLEAN /\ c \in Containers(new)
    BY <1>2, <2>1 DEF Container, Containers
  <2>6. QED
    BY <2>2, <2>3, <2>4, <2>5 DEF SecurityContextContainers
<1>5. QED
  BY <1>2, <1>4 DEF Hardened

(* Admission hardens pods (HardenedUnlessExempt): whatever the fields of a *)
(* pod, whichever replicas mutate and validate it and however their stores *)
(* differ, it is admitted only with every container hardened for each      *)
(* mutating policy it is not exempt from.                                  *)
THEOREM AdmittedIsHardened == Spec => []HardenedUnlessExempt
<1>1. RequestInv => HardenedUnlessExempt
  <2> SUFFICES ASSUME RequestInv, Admitted, request.object.kind = "pod",
                      NEW p \in MutatingPolicies,
                      p \notin request.object.exempted, p \notin request.exemptAtValidate
               PROVE  Hardened(p, request.object)
    BY DEF HardenedUnlessExempt
  <2> DEFINE pod == request.submitted
             exempt == request.exemptAtMutate
             new == request.object
  <2>1. /\ pod \in Object /\ exempt \in SUBSET Policy /\ new = Mutated(pod, exempt)
        /\ Approved(new, request.exemptAtValidate)
    BY DEF RequestInv, Requests, Admitted
  <2>2. pod.kind = "pod" /\ new = MutatePod(pod, exempt)
    BY <2>1, MutatedKind DEF Mutated
  <2>3. /\ pod \in Pod(DOMAIN pod.containers)
        /\ \A n \in DOMAIN pod.containers : MeaningfulFields(pod.containers[n])
    BY <2>1, <2>2, PodsTyped
  <2>4. p \in PodPolicies
    BY DEF MutatingPolicies, PodPolicies
  <2>5. Passes(p, new)
    BY <2>1, <2>4 DEF Approved, PoliciesOf
  <2> HIDE DEF pod, exempt, new
  <2>6. CASE p = "DisallowPrivileged"
    <3>1. NoPrivilegeEscalation(new)
      BY <2>5, <2>6 DEF Passes
    <3>2. "DisallowPrivileged" \notin new.exempted
      BY <2>6 DEF new
    <3>3. Hardened("DisallowPrivileged", new)
      BY <2>1, <2>2, <2>3, <3>1, <3>2, HardensPrivileged
    <3>4. QED
      BY <2>6, <3>3 DEF new
  <2>7. CASE p = "RequireNonRootUser"
    <3>1. NonRoot(new)
      BY <2>5, <2>7 DEF Passes
    <3>2. "RequireNonRootUser" \notin new.exempted
      BY <2>7 DEF new
    <3>3. Hardened("RequireNonRootUser", new)
      BY <2>1, <2>2, <2>3, <3>1, <3>2, HardensNonRoot
    <3>4. QED
      BY <2>7, <3>3 DEF new
  <2>8. CASE p = "DropAllCapabilities"
    <3>1. "DropAllCapabilities" \notin new.exempted
      BY <2>8 DEF new
    <3>2. Hardened("DropAllCapabilities", new)
      BY <2>1, <2>2, <2>3, <3>1, HardensDrop
    <3>3. QED
      BY <2>8, <3>2 DEF new
  <2>9. QED
    BY <2>6, <2>7, <2>8 DEF MutatingPolicies
<1>2. QED
  BY <1>1, AlwaysRequest, PTL

-----------------------------------------------------------------------------
(* What passes the validators before the mutation passes them after it.    *)

LEMMA SameImages ==
  ASSUME NEW c, NEW d, SameContainer(d, c)
  PROVE  IsIstioProxyContainer(d) = IsIstioProxyContainer(c)
BY DEF SameContainer, IsIstioProxyContainer

LEMMA SameInitContainers ==
  ASSUME NEW names, NEW pod \in Pod(names), NEW new \in Pod(names), SamePod(new, pod),
         \A n \in names : SameContainer(new.containers[n], pod.containers[n])
  PROVE  \A n \in names : IsIstioInitContainer(new, new.containers[n])
                             = IsIstioInitContainer(pod, pod.containers[n])
<1>1. DOMAIN new.containers = names /\ DOMAIN pod.containers = names
  BY DEF Pod
<1>2. new.annotations = pod.annotations
  BY DEF SamePod
<1>3. ASSUME NEW n \in names
      PROVE  /\ IsIstioProxyContainer(new.containers[n]) = IsIstioProxyContainer(pod.containers[n])
             /\ new.containers[n].init = pod.containers[n].init
             /\ new.containers[n].looks = pod.containers[n].looks
             /\ new.containers[n].image = pod.containers[n].image
  <2>1. SameContainer(new.containers[n], pod.containers[n])
    OBVIOUS
  <2>2. QED
    BY <2>1, SameImages DEF SameContainer
<1>4. QED
  BY <1>1, <1>2, <1>3, Zenon DEF IsIstioInitContainer

(* A security context the mutation adds is empty but for what it sets.     *)
LEMMA KeepsContexts ==
  ASSUME NEW c \in Container, MeaningfulFields(c), NEW d, NEW exempted,
         MutatedContainer(c, d, exempted)
  PROVE  \/ c.sc = TRUE
         \/ /\ d.add = {} /\ d.runAsUser = "unset" /\ d.runAsGroup = "unset"
            /\ d.runAsNonRoot = "unset" /\ d.procMount = "unset" /\ d.seccomp = "unset"
            /\ d.seOptions = FALSE /\ d.seType = "unset"
BY DEF MutatedContainer, MeaningfulFields, SameContainer, Container

LEMMA KeepsPassing ==
  ASSUME NEW names, NEW pod \in Pod(names), NEW exempt \in SUBSET Policy,
         \A n \in names : MeaningfulFields(pod.containers[n]),
         NEW new, new = MutatePod(pod, exempt),
         NEW p \in PodPolicies \ MutatingPolicies, p # "RestrictIstioUser", Passes(p, pod)
  PROVE  Passes(p, new)
<1>1. /\ new \in Pod(names) /\ SamePod(new, pod)
      /\ \A n \in names : MutatedContainer(pod.containers[n], new.containers[n], new.exempted)
  BY Mutates
<1>2. /\ DOMAIN new.containers = names /\ DOMAIN pod.containers = names
      /\ \A n \in names : new.containers[n] \in Container /\ pod.containers[n] \in Container
  BY <1>1 DEF Pod
<1>3. \A n \in names : SameContainer(new.containers[n], pod.containers[n])
  BY <1>1 DEF MutatedContainer
<1>4. \A n \in names : IsIstioInitContainer(new, new.containers[n])
                          = IsIstioInitContainer(pod, pod.containers[n])
  BY <1>1, <1>3, SameInitContainers
<1>5. ASSUME NEW exclude \in BOOLEAN, NEW d \in SecurityContextContainers(new, exclude)
      PROVE  \E c \in Containers(pod) :
               /\ SameContainer(d, c)
               /\ \/ c \in SecurityContextContainers(pod, exclude)
                  \/ /\ d.add = {} /\ d.procMount = "unset" /\ d.seccomp = "unset"
                     /\ d.seOptions = FALSE /\ d.seType = "unset"
  <2>1. PICK n \in names : d = new.containers[n]
    BY <1>2 DEF SecurityContextContainers, Containers
  <2>2. ~(exclude /\ IsIstioInitContainer(pod, pod.containers[n]))
    BY <1>4, <2>1 DEF SecurityContextContainers
  <2>3. pod.containers[n] \in Containers(pod)
    BY <1>2 DEF Containers
  <2>4. \/ pod.containers[n].sc = TRUE
        \/ /\ d.add = {} /\ d.procMount = "unset" /\ d.seccomp = "unset"
           /\ d.seOptions = FALSE /\ d.seType = "unset"
    BY <1>1, <1>2, <2>1, KeepsContexts
  <2>5. CASE pod.containers[n].sc = TRUE
    <3>1. pod.containers[n] \in SecurityContextContainers(pod, exclude)
      BY <2>2, <2>3, <2>5 DEF SecurityContextContainers
    <3>2. QED
      BY <1>3, <2>1, <2>3, <3>1
  <2>6. QED
    BY <1>3, <2>1, <2>3, <2>4, <2>5
<1>6. ASSUME NEW d \in Containers(new)
      PROVE  \E c \in Containers(pod) : SameContainer(d, c)
  BY <1>2, <1>3 DEF Containers
<1>7. ASSUME IsIstioWaypointPod(pod)
      PROVE  IsIstioWaypointPod(new)
  <2>1. PICK n \in names : IsIstioProxyContainer(pod.containers[n])
                             /\ pod.containers[n].looks = "waypoint"
    BY <1>2, <1>7 DEF IsIstioWaypointPod, Containers
  <2>2. SameContainer(new.containers[n], pod.containers[n])
    BY <1>3
  <2>3. IsIstioProxyContainer(new.containers[n]) /\ new.containers[n].looks = "waypoint"
    BY <2>1, <2>2, SameImages DEF SameContainer
  <2>4. QED
    BY <1>2, <2>3 DEF IsIstioWaypointPod, Containers
<1>10. CASE p = "RestrictProcMount"
  <2>1. ProcMountAllowed(pod)
    BY <1>10 DEF Passes
  <2>2. ASSUME NEW d \in SecurityContextContainers(new, FALSE)
        PROVE  d.procMount \in {"unset", "Default"}
    <3>1. PICK c \in Containers(pod) :
            /\ SameContainer(d, c)
            /\ c \in SecurityContextContainers(pod, FALSE) \/ d.procMount = "unset"
      BY <1>5, Zenon
    <3>2. d.procMount = c.procMount
      BY <3>1 DEF SameContainer
    <3>3. CASE c \in SecurityContextContainers(pod, FALSE)
      BY <2>1, <3>2, <3>3 DEF ProcMountAllowed
    <3>4. QED
      BY <3>1, <3>3
  <2>3. QED
    BY <1>10, <2>2 DEF Passes, ProcMountAllowed
<1>11. CASE p = "RestrictSeccomp"
  <2>1. SeccompAllowed(pod)
    BY <1>11 DEF Passes
  <2>2. new.seccomp \in SeccompTypes
    BY <1>1, <2>1 DEF SeccompAllowed, SamePod
  <2>3. ASSUME NEW d \in SecurityContextContainers(new, FALSE)
        PROVE  d.seccomp \in SeccompTypes
    <3>1. PICK c \in Containers(pod) :
            /\ SameContainer(d, c)
            /\ c \in SecurityContextContainers(pod, FALSE) \/ d.seccomp = "unset"
      BY <1>5, Zenon
    <3>2. d.seccomp = c.seccomp
      BY <3>1 DEF SameContainer
    <3>3. CASE c \in SecurityContextContainers(pod, FALSE)
      BY <2>1, <3>2, <3>3 DEF SeccompAllowed
    <3>4. CASE d.seccomp = "unset"
      BY <3>4 DEF SeccompTypes
    <3>5. QED
      BY <3>1, <3>3, <3>4
  <2>4. QED
    BY <1>11, <2>2, <2>3 DEF Passes, SeccompAllowed
<1>12. CASE p = "DisallowSELinuxOptions"
  <2>1. SELinuxOptionsAllowed(pod)
    BY <1>12 DEF Passes
  <2>2. ~new.seOptions
    BY <1>1, <2>1 DEF SELinuxOptionsAllowed, SamePod
  <2>3. ASSUME NEW d \in SecurityContextContainers(new, FALSE)
        PROVE  ~d.seOptions
    <3>1. PICK c \in Containers(pod) :
            /\ SameContainer(d, c)
            /\ c \in SecurityContextContainers(pod, FALSE) \/ d.seOptions = FALSE
      BY <1>5, Zenon
    <3>2. d.seOptions = c.seOptions
      BY <3>1 DEF SameContainer
    <3>3. CASE c \in SecurityContextContainers(pod, FALSE)
      BY <2>1, <3>2, <3>3 DEF SELinuxOptionsAllowed
    <3>4. QED
      BY <3>1, <3>3
  <2>4. QED
    BY <1>12, <2>2, <2>3 DEF Passes, SELinuxOptionsAllowed
<1>13. CASE p = "RestrictSELinuxType"
  <2>1. SELinuxTypeAllowed(pod)
    BY <1>13 DEF Passes
  <2>2. new.seType \in SELinuxTypes
    BY <1>1, <2>1 DEF SELinuxTypeAllowed, SamePod
  <2>3. ASSUME NEW d \in SecurityContextContainers(new, FALSE)
        PROVE  d.seType \in SELinuxTypes
    <3>1. PICK c \in Containers(pod) :
            /\ SameContainer(d, c)
            /\ c \in SecurityContextContainers(pod, FALSE) \/ d.seType = "unset"
      BY <1>5, Zenon
    <3>2. d.seType = c.seType
      BY <3>1 DEF SameContainer
    <3>3. CASE c \in SecurityContextContainers(pod, FALSE)
      BY <2>1, <3>2, <3>3 DEF SELinuxTypeAllowed
    <3>4. CASE d.seType = "unset"
      BY <3>4 DEF SELinuxTypes
    <3>5. QED
      BY <3>1, <3>3, <3>4
  <2>4. QED
    BY <1>13, <2>2, <2>3 DEF Passes, SELinuxTypeAllowed
<1>14. CASE p = "RestrictCapabilities"
  <2>1. CapabilitiesAllowed(pod)
    BY <1>14 DEF Passes
  <2>2. ASSUME NEW d \in SecurityContextContainers(new, TRUE)
        PROVE  d.add \subseteq {"NET_BIND_SERVICE"}
    <3>1. PICK c \in Containers(pod) :
            /\ SameContainer(d, c)
            /\ c \in SecurityContextContainers(pod, TRUE) \/ d.add = {}
      BY <1>5, Zenon
    <3>2. d.add = c.add
      BY <3>1 DEF SameContainer
    <3>3. CASE c \in SecurityContextContainers(pod, TRUE)
      BY <2>1, <3>2, <3>3 DEF CapabilitiesAllowed
    <3>4. QED
      BY <3>1, <3>3
  <2>3. QED
    BY <1>14, <2>2 DEF Passes, CapabilitiesAllowed
<1>15. CASE p = "RestrictVolumeTypes"
  BY <1>1, <1>15 DEF Passes, VolumeTypesAllowed, SamePod
<1>16. CASE p = "RestrictHostPathWrite"
  BY <1>1, <1>6, <1>16 DEF Passes, HostPathsReadOnly, SamePod, SameContainer
<1>17. CASE p = "DisallowHostNamespaces"
  BY <1>1, <1>17 DEF Passes, NoHostNamespaces, SamePod
<1>18. CASE p = "RestrictHostPorts"
  BY <1>6, <1>18 DEF Passes, HostPortsAllowed, SameContainer
<1>19. CASE p = "RestrictIstioSidecarOverrides"
  BY <1>1, <1>19 DEF Passes, SidecarOverrides, SamePod
<1>20. CASE p = "RestrictIstioTrafficOverrides"
  BY <1>1, <1>7, <1>20 DEF Passes, TrafficOverrides, SamePod
<1>21. CASE p = "RestrictIstioAmbientOverrides"
  BY <1>1, <1>21 DEF Passes, AmbientOverrides, SamePod
<1>22. QED
  BY <1>10, <1>11, <1>12, <1>13, <1>14, <1>15, <1>16, <1>17, <1>18, <1>19, <1>20, <1>21
     DEF PodPolicies, MutatingPolicies

(* The ids the mutation sets are the submitted ones, those of the labels   *)
(* or the default.                                                         *)
LEMMA KeepsIstioUser ==
  ASSUME NEW names, NEW pod \in Pod(names), NEW exempt \in SUBSET Policy,
         NEW new, new = MutatePod(pod, exempt), NoIstioUser(pod),
         "istio" \notin {pod.userLabel, pod.groupLabel, pod.fsGroupLabel}
  PROVE  NoIstioUser(new)
<1>1. /\ new \in Pod(names) /\ SamePod(new, pod)
      /\ \A n \in names : MutatedContainer(pod.containers[n], new.containers[n], new.exempted)
      /\ "RequireNonRootUser" \in new.exempted => SameIds(new, pod)
      /\ "RequireNonRootUser" \notin new.exempted =>
            /\ new.runAsUser = UserSet(pod) /\ new.runAsGroup = GroupSet(pod)
            /\ new.fsGroup = FromLabel(pod.fsGroupLabel, pod.fsGroup)
  BY Mutates
<1>2. DOMAIN new.containers = names /\ DOMAIN pod.containers = names
  BY <1>1 DEF Pod
<1>3. /\ pod.runAsUser # "istio" /\ pod.runAsGroup # "istio" /\ pod.fsGroup # "istio"
      /\ "istio" \notin pod.supplementalGroups
  BY DEF NoIstioUser, IsPodUsingIstioUserID
<1>4. new.runAsUser # "istio" /\ new.runAsGroup # "istio" /\ new.fsGroup # "istio"
  BY <1>1, <1>3 DEF SameIds, UserSet, GroupSet, FromLabel, ParsedLabel
<1>5. ~IsPodUsingIstioUserID(new)
  BY <1>1, <1>3, <1>4 DEF IsPodUsingIstioUserID, SamePod
<1>6. ASSUME NEW n \in names
      PROVE  \/ IsIstioProxyContainer(new.containers[n])
             \/ new.containers[n].runAsUser # "istio" /\ new.containers[n].runAsGroup # "istio"
  <2>1. SameContainer(new.containers[n], pod.containers[n])
    BY <1>1 DEF MutatedContainer
  <2>2. IsIstioProxyContainer(new.containers[n]) = IsIstioProxyContainer(pod.containers[n])
    BY <2>1, SameImages
  <2>3. \/ IsIstioProxyContainer(pod.containers[n])
        \/ pod.containers[n].runAsUser # "istio" /\ pod.containers[n].runAsGroup # "istio"
    BY <1>2 DEF NoIstioUser, ContainerUsingIstioUserID, Containers
  <2>4. QED
    BY <2>1, <2>2, <2>3 DEF SameContainer
<1>7. QED
  BY <1>2, <1>5, <1>6 DEF NoIstioUser, ContainerUsingIstioUserID, Containers

(* A pod that asks for nothing a mutating policy refuses passes it once it *)
(* has been mutated.                                                       *)
LEMMA MutationPasses ==
  ASSUME NEW names, NEW pod \in Pod(names), NEW exempt \in SUBSET Policy,
         NEW new, new = MutatePod(pod, exempt),
         NEW p \in MutatingPolicies, p \notin new.exempted, ~AsksFor(p, pod)
  PROVE  Passes(p, new)
<1>1. /\ new \in Pod(names) /\ SamePod(new, pod)
      /\ \A n \in names : MutatedContainer(pod.containers[n], new.containers[n], new.exempted)
      /\ "RequireNonRootUser" \notin new.exempted =>
            new.runAsUser = UserSet(pod) /\ new.runAsNonRoot = NonRootSet(pod)
  BY Mutates
<1>2. /\ DOMAIN new.containers = names /\ DOMAIN pod.containers = names
      /\ \A n \in names : pod.containers[n] \in Container
  BY <1>1 DEF Pod
<1>3. \A n \in names : pod.containers[n] \in Containers(pod)
  BY <1>2 DEF Containers
<1>4. CASE p = "DisallowPrivileged"
  <2>1. ASSUME NEW n \in names
        PROVE  /\ new.containers[n].allowPrivilegeEscalation = "false"
               /\ new.containers[n].privileged # "true"
    <3> DEFINE c == pod.containers[n]
    <3>1. /\ c.allowPrivilegeEscalation # "true" /\ c.privileged # "true"
          /\ ~(c.allowPrivilegeEscalation = "unset" /\ "CAP_SYS_ADMIN" \in c.add)
      BY <1>3, <1>4 DEF AsksFor, MutatingPolicies
    <3>2. c.allowPrivilegeEscalation \in Flag
      BY <1>2 DEF Container
    <3>3. Escalation(c) = "false"
      BY <3>1, <3>2 DEF Escalation, Flag
    <3>4. MutatedContainer(c, new.containers[n], new.exempted)
      BY <1>1
    <3>5. QED
      BY <1>4, <3>1, <3>3, <3>4 DEF MutatedContainer, SameContainer
  <2>2. NoPrivilegeEscalation(new)
    BY <1>2, <2>1
       DEF NoPrivilegeEscalation, PrivilegeViolations, SecurityContextContainers, Containers
  <2>3. QED
    BY <1>4, <2>2 DEF Passes
<1>5. CASE p = "RequireNonRootUser"
  <2>1. /\ "root" \notin pod.supplementalGroups /\ pod.userLabel # "root"
        /\ ~(pod.runAsUser = "root" /\ pod.userLabel = "none") /\ pod.runAsNonRoot # "false"
        /\ \A c \in Containers(pod) : c.runAsUser # "root" /\ c.runAsNonRoot # "false"
    BY <1>5 DEF AsksFor, MutatingPolicies
  <2>2. new.runAsUser # "root" /\ new.runAsNonRoot # "false"
    BY <1>1, <1>5, <2>1 DEF UserSet, NonRootSet, FromLabel, ParsedLabel
  <2>3. "root" \notin new.supplementalGroups
    BY <1>1, <2>1 DEF SamePod
  <2>4. ASSUME NEW n \in names
        PROVE  new.containers[n].runAsUser # "root" /\ new.containers[n].runAsNonRoot # "false"
    <3>1. SameContainer(new.containers[n], pod.containers[n])
      BY <1>1 DEF MutatedContainer
    <3>2. QED
      BY <1>3, <2>1, <3>1 DEF SameContainer
  <2>5. NonRoot(new)
    BY <1>2, <2>2, <2>3, <2>4
       DEF NonRoot, IsRootSecurityContext, SecurityContextContainers, Containers
  <2>6. QED
    BY <1>5, <2>5 DEF Passes
<1>6. CASE p = "DropAllCapabilities"
  <2>1. ASSUME NEW n \in names
        PROVE  "ALL" \in new.containers[n].drop
    BY <1>1, <1>6 DEF MutatedContainer
  <2>2. AllDropped(new)
    BY <1>2, <2>1 DEF AllDropped, WithoutDropAll, SecurityContextContainers, Containers
  <2>3. QED
    BY <1>6, <2>2 DEF Passes
<1>7. QED
  BY <1>4, <1>5, <1>6 DEF MutatingPolicies

(* Denials have a reason (DenialsAreJustified): whatever the fields of an  *)
(* object, one that asks for nothing its policies refuse, that no label    *)
(* moves to the user of Istio and whose exemptions both replicas agree on  *)
(* is not denied.                                                          *)
THEOREM DeniedWithReason == Spec => []DenialsAreJustified
<1>1. RequestInv => DenialsAreJustified
  <2> DEFINE obj == request.submitted
             new == request.object
             exempt == request.exemptAtValidate
  <2> SUFFICES ASSUME RequestInv, Denied,
                      request.exemptAtMutate = exempt,
                      new.kind = "pod" => obj.exempted = {},
                      \A p \in PoliciesOf(new) \ exempt :
                        /\ ~AsksFor(p, obj)
                        /\ p = "RestrictIstioUser" =>
                             "istio" \notin {obj.userLabel, obj.groupLabel, obj.fsGroupLabel}
               PROVE  Approved(new, exempt)
    BY DEF DenialsAreJustified, Denied, RequestInv
  <2>1. /\ obj \in Object /\ exempt \in SUBSET Policy /\ new = Mutated(obj, exempt)
    BY DEF RequestInv, Requests, Denied
  <2>2. obj.kind = new.kind
    BY <2>1, MutatedKind
  <2> HIDE DEF obj, new, exempt
  <2>3. CASE obj.kind # "pod"
    <3>1. new = obj
      BY <2>1, <2>3 DEF Mutated
    <3>2. PoliciesOf(new) \cap MutatingPolicies = {}
      BY <2>2, <2>3 DEF PoliciesOf, ServicePolicies, MutatingPolicies
    <3>3. QED
      BY <3>1, <3>2 DEF Approved, AsksFor
  <2>4. CASE obj.kind = "pod"
    <3>1. new = MutatePod(obj, exempt)
      BY <2>1, <2>4 DEF Mutated
    <3>2. /\ obj \in Pod(DOMAIN obj.containers)
          /\ \A n \in DOMAIN obj.containers : MeaningfulFields(obj.containers[n])
      BY <2>1, <2>4, PodsTyped
    <3>3. new.exempted = exempt
      <4>1. new.exempted = obj.exempted \cup exempt
        BY <2>1, <3>1, <3>2, Mutates
      <4>2. QED
        BY <2>2, <2>4, <4>1
    <3>4. PoliciesOf(new) = PodPolicies
      BY <2>2, <2>4 DEF PoliciesOf
    <3>5. ASSUME NEW p \in PodPolicies, p \notin exempt
          PROVE  Passes(p, new)
      <4>1. /\ ~AsksFor(p, obj)
            /\ p = "RestrictIstioUser" =>
                 "istio" \notin {obj.userLabel, obj.groupLabel, obj.fsGroupLabel}
        BY <3>4, <3>5
      <4>2. CASE p \in MutatingPolicies
        BY <2>1, <3>1, <3>2, <3>3, <3>5, <4>1, <4>2, MutationPasses
      <4>3. CASE p = "RestrictIstioUser"
        <5>1. NoIstioUser(obj)
          BY <4>1, <4>3 DEF AsksFor, MutatingPolicies, Passes
        <5>2. NoIstioUser(new)
          BY <2>1, <3>1, <3>2, <4>1, <4>3, <5>1, KeepsIstioUser
        <5>3. QED
          BY <4>3, <5>2 DEF Passes
      <4>4. CASE p \notin MutatingPolicies /\ p # "RestrictIstioUser"
        <5>1. Passes(p, obj)
          BY <4>1, <4>4 DEF AsksFor
        <5>2. QED
          BY <2>1, <3>1, <3>2, <3>5, <4>4, <5>1, KeepsPassing
      <4>5. QED
        BY <4>2, <4>3, <4>4
    <3>6. QED
      BY <3>4, <3>5 DEF Approved
  <2>5. QED
    BY <2>3, <2>4
<1>2. QED
  BY <1>1, AlwaysRequest, PTL

(* Types: the stores hold matchers of the drafts of their owners, and what *)
(* the mutation makes of an object is still one.                           *)
THEOREM TypeCorrect == Spec => []TypeOK
<1>1. ASSUME NEW obj \in Object, NEW exempt \in SUBSET Policy
      PROVE  IsObject(Mutated(obj, exempt))
  <2>1. CASE obj.kind = "pod"
    <3> DEFINE new == MutatePod(obj, exempt)
    <3>1. obj \in Pod(DOMAIN obj.containers)
      BY <2>1, PodsTyped
    <3>2. new \in Pod(DOMAIN obj.containers)
      BY <3>1, Mutates
    <3>3. Mutated(obj, exempt) = new
      BY <2>1 DEF Mutated
    <3> HIDE DEF new
    <3>4. new.kind = "pod" /\ DOMAIN new.containers = DOMAIN obj.containers
      BY <3>2 DEF Pod
    <3>5. QED
      BY <3>2, <3>3, <3>4 DEF IsObject
  <2>2. CASE obj.kind # "pod"
    BY <2>2, ObjectAssumption DEF Mutated
  <2>3. QED
    BY <2>1, <2>2
<1>2. RequestInv /\ StoreTypeOK => TypeOK
  <2> SUFFICES ASSUME RequestInv, StoreTypeOK, request # NoRequest
               PROVE  /\ DOMAIN request = {"phase", "submitted", "object", "exemptAtMutate",
                                           "exemptAtValidate"}
                      /\ request.phase \in {"submitted", "mutated", "admitted", "denied"}
                      /\ request.submitted \in Object /\ IsObject(request.object)
                      /\ {request.exemptAtMutate, request.exemptAtValidate} \subseteq SUBSET Policy
    BY DEF TypeOK
  <2>1. request \in Requests
    BY DEF RequestInv
  <2>2. IsObject(request.object)
    <3>1. CASE request.phase = "submitted"
      BY <2>1, <3>1, ObjectAssumption DEF RequestInv, Requests
    <3>2. CASE request.phase # "submitted"
      BY <1>1, <2>1, <3>2 DEF RequestInv, Requests
    <3>3. QED
      BY <3>1, <3>2
  <2>3. QED
    BY <2>1, <2>2 DEF Requests
<1>3. QED
  BY <1>2, AlwaysRequest, InitStore, NextStore, PTL DEF Spec


=============================================================================
