------------------------ MODULE PackageResourcesProofs ------------------------
(***************************************************************************)
(* Proofs about PackageResources for any packages, workloads, specs and    *)
(* bounds.                                                                 *)
(***************************************************************************)
EXTENDS PackageResources, FiniteSetTheorems, TLAPS

-----------------------------------------------------------------------------
(* Type correctness.                                                       *)

(* An edited flow.                                                         *)
LEMMA FlowEdited ==
  ASSUME NEW f \in Flow, NEW at \in Stage, NEW todo \in SUBSET Workload, NEW content \in Content, NEW n \in Nat
  PROVE  /\ [f EXCEPT !.at = at] \in Flow /\ [f EXCEPT !.todo = todo] \in Flow
         /\ [f EXCEPT !.at = at, !.todo = todo] \in Flow
         /\ [f EXCEPT !.at = at, !.content = content] \in Flow
         /\ [f EXCEPT !.next = n, !.at = at, !.todo = todo] \in Flow
  BY DEF Flow

(* A flow that begins.                                                     *)
LEMMA FlowBegins ==
  ASSUME NEW job \in {"reconcile", "finalize"}, NEW snap \in ObjectState
  PROVE  /\ Idle \in Flow /\ [Idle EXCEPT !.job = job, !.at = "get", !.snap = snap] \in Flow
         /\ Idle.job = "none" /\ Idle.at = "idle" /\ Idle.todo = {} /\ Idle.next = 0
  BY DEF Idle, Flow, Stage, Content

(* The flow of one package.                                                *)
LEMMA FlowStep ==
  ASSUME TypeOK, NEW k \in Package, NEW new \in Flow, flow' = [flow EXCEPT ![k] = new], FlowOK(k)',
         \A q \in Package : q # k => object'[q] = object[q]
  PROVE  flow' \in [Package -> Flow] /\ \A q \in Package : FlowOK(q)'
<1>1. flow' \in [Package -> Flow]
  BY DEF TypeOK
<1>2. ASSUME NEW q \in Package, q # k PROVE FlowOK(q)'
  <2>1. flow'[q] = flow[q] /\ object'[q] = object[q] /\ FlowOK(q)
    BY <1>2 DEF TypeOK
  <2>2. QED
    BY <2>1 DEF FlowOK, SnapSpec, WorkloadsOf
<1>3. QED
  BY <1>1, <1>2

(* The workloads of a package are workloads.                               *)
LEMMA Workloads == \A k : WorkloadsOf(k) \subseteq Workload
  BY DEF WorkloadsOf

(* An object that is edited.                                               *)
LEMMA ObjectEdited ==
  ASSUME NEW o \in ObjectState, NEW spec \in PackageSpec, NEW phase \in Phase, NEW mode \in Mode,
         NEW clients \in SUBSET SsoClient
  PROVE  /\ [o EXCEPT !.spec = spec, !.gen = @ + 1] \in ObjectState
         /\ [o EXCEPT !.deleted = TRUE, !.gen = @ + 1] \in ObjectState
         /\ [o EXCEPT !.phase = phase] \in ObjectState
         /\ [o EXCEPT !.exists = FALSE] \in ObjectState
         /\ [o EXCEPT !.phase = phase, !.mode = mode, !.clients = clients] \in ObjectState
<1>1. o.gen + 1 \in Nat \ {0}
  BY DEF ObjectState
<1> DEFINE next == o.gen + 1
<1>2. [o EXCEPT !.spec = spec, !.gen = next] \in ObjectState
  <2>1. next \in Nat \ {0}
    BY <1>1
  <2> HIDE DEF next
  <2>2. QED
    BY <2>1 DEF ObjectState
<1>3. [o EXCEPT !.deleted = TRUE, !.gen = next] \in ObjectState
  <2>1. next \in Nat \ {0}
    BY <1>1
  <2> HIDE DEF next
  <2>2. QED
    BY <2>1 DEF ObjectState
<1>4. [o EXCEPT !.phase = phase] \in ObjectState /\ [o EXCEPT !.exists = FALSE] \in ObjectState
  BY DEF ObjectState
<1>5. [o EXCEPT !.phase = phase, !.mode = mode, !.clients = clients] \in ObjectState
  BY DEF ObjectState
<1>6. QED
  BY <1>2, <1>3, <1>4, <1>5

(* A set of numbers has a least one: as many numbers as are below or equal *)
(* to all of them lie between 0 and it.                                    *)
LEMMA Least ==
  ASSUME NEW S \in SUBSET Nat, S # {}
  PROVE  \E m \in S : \A n \in S : m <= n
<1>1. PICK n \in S : TRUE
  OBVIOUS
<1> DEFINE below == {m \in Nat : \A k \in S : m <= k}
           c == Cardinality(below)
<1>2. below \subseteq 0..n
  BY <1>1
<1>3. IsFiniteSet(below) /\ c \in Nat
  <2>1. IsFiniteSet(0..n)
    BY <1>1, FS_Interval
  <2>2. QED
    BY <1>2, <2>1, FS_Subset, FS_CardinalityType
<1>4. 0 \in below /\ \A m \in below : \A i \in 0..m : i \in below
  <2>1. ASSUME NEW m \in below, NEW i \in 0..m PROVE i \in below
    <3>1. \A k \in S : i <= m /\ m <= k /\ k \in Nat /\ i \in Nat /\ m \in Nat
      OBVIOUS
    <3>2. QED
      BY <3>1
  <2>2. QED
    BY <2>1
<1>5. \A i \in Nat : IsFiniteSet(0..i) /\ Cardinality(0..i) = i + 1
  BY FS_Interval
<1> HIDE DEF below, c
<1>6. c \notin below
  <2>1. SUFFICES ASSUME c \in below PROVE FALSE
    OBVIOUS
  <2>2. 0..c \subseteq below
    BY <1>4, <2>1
  <2>3. Cardinality(0..c) <= c
    BY <1>3, <2>2, FS_Subset DEF c
  <2>4. QED
    BY <1>3, <1>5, <2>3
<1>7. c # 0
  BY <1>3, <1>4, FS_EmptySet DEF c
<1>8. c - 1 \in below
  <2>1. SUFFICES ASSUME c - 1 \notin below PROVE FALSE
    OBVIOUS
  <2>2. below \subseteq 0..(c - 2) /\ c - 2 \in Nat
    <3>1. ASSUME NEW m \in below PROVE m \in Nat /\ ~(c - 1 <= m)
      <4>1. m \in Nat
        BY <1>2, <1>1
      <4>2. c - 1 <= m => c - 1 \in 0..m
        BY <1>3, <1>7, <4>1
      <4>3. QED
        BY <1>4, <2>1, <4>1, <4>2
    <3>2. 0 <= c - 2
      BY <1>3, <1>4, <1>7, <3>1
    <3>3. QED
      BY <1>3, <3>1, <3>2
  <2>3. c <= Cardinality(0..(c - 2)) /\ Cardinality(0..(c - 2)) = c - 1
    <3>1. IsFiniteSet(0..(c - 2)) /\ Cardinality(0..(c - 2)) = c - 2 + 1
      BY <1>5, <2>2
    <3>2. c <= Cardinality(0..(c - 2))
      BY <2>2, <3>1, FS_Subset DEF c
    <3>3. QED
      BY <1>3, <3>1, <3>2
  <2>4. QED
    BY <1>3, <2>3
<1>9. PICK k \in S : ~(c <= k)
  BY <1>3, <1>6 DEF below
<1>10. c - 1 <= k /\ \A m \in S : c - 1 <= m
  BY <1>8 DEF below
<1>11. k = c - 1
  BY <1>3, <1>9, <1>10
<1>12. QED
  BY <1>10, <1>11

(* The waypoint that the webhooks choose.                                  *)
LEMMA LedTo ==
  ASSUME NEW spec \in PackageSpec \cup {None}, NEW w
  PROVE  /\ MatchingClient(spec, w) \in Client \cup {None}
         /\ MatchingClient(spec, w) # None =>
              /\ spec # None /\ spec.mode = "ambient"
              /\ \E i \in DOMAIN spec.sso : w \in spec.sso[i].selects /\ MatchingClient(spec, w) = spec.sso[i].client
         /\ spec # None /\ spec.mode = "ambient" /\ MatchingClient(spec, w) = None =>
              \A i \in DOMAIN spec.sso : w \notin spec.sso[i].selects
<1>1. CASE spec = None \/ spec.mode # "ambient"
  BY <1>1 DEF MatchingClient
<1>2. CASE spec # None /\ spec.mode = "ambient"
  <2> DEFINE matching == {i \in DOMAIN spec.sso : w \in spec.sso[i].selects}
             first == CHOOSE i \in matching : \A j \in matching : i <= j
  <2>1. spec.sso \in Seq(SsoClient)
    BY <1>2 DEF PackageSpec
  <2>2. MatchingClient(spec, w) = IF matching = {} THEN None ELSE spec.sso[first].client
    BY <1>2 DEF MatchingClient
  <2>3. ASSUME matching # {} PROVE first \in matching
    <3>1. matching \subseteq Nat
      BY <2>1
    <3> HIDE DEF matching
    <3>2. \E i \in matching : \A j \in matching : i <= j
      BY <2>3, <3>1, Least
    <3>3. QED
      BY <3>2
  <2>4. \A i \in matching : i \in DOMAIN spec.sso /\ w \in spec.sso[i].selects /\ spec.sso[i].client \in Client
    <3>1. \A i \in DOMAIN spec.sso : spec.sso[i] \in SsoClient
      BY <2>1
    <3>2. \A i \in matching : i \in DOMAIN spec.sso /\ w \in spec.sso[i].selects
      OBVIOUS
    <3>3. \A c \in SsoClient : c.client \in Client
      BY DEF SsoClient
    <3>4. QED
      BY <3>1, <3>2, <3>3
  <2>5. CASE matching = {}
    BY <1>2, <2>2, <2>5
  <2>6. CASE matching # {}
    <3>1. first \in matching
      BY <2>3, <2>6
    <3> HIDE DEF first
    <3>2. MatchingClient(spec, w) = spec.sso[first].client /\ spec.sso[first].client \in Client
      BY <2>2, <2>4, <2>6, <3>1
    <3>3. MatchingClient(spec, w) # None
      BY <3>2, NoneAssumption
    <3>4. QED
      BY <1>2, <2>4, <3>1, <3>2, <3>3
  <2>7. QED
    BY <2>5, <2>6
<1>3. QED
  BY <1>1, <1>2

(* What a patch and the webhooks make of a workload.                       *)
LEMMA WorkloadTyped ==
  ASSUME TypeOK, NEW w \in Workload, NEW label \in Client \cup {None}
  PROVE  /\ Labelled(w, label) \in Client \cup {None} /\ In[w] \in Package
         /\ PatchLabel(w, label) => workload' \in [Workload -> WorkloadState]
         /\ w \in Pod => NewPod(w) \in WorkloadState
<1>1. In[w] \in Package /\ webhook[In[w]] \in PackageSpec \cup {None}
  BY WorkloadAssumption DEF TypeOK, Workload
<1>2. Labelled(w, label) \in Client \cup {None} /\ Labelled(w, None) \in Client \cup {None}
  BY <1>1, LedTo DEF Labelled
<1>3. [workload[w] EXCEPT !.waypoint = Labelled(w, label)] \in WorkloadState
  <2>1. workload[w] \in WorkloadState
    BY DEF TypeOK
  <2>2. PICK state \in WorkloadState : state = workload[w]
    BY <2>1
  <2>3. PICK l \in Client \cup {None} : l = Labelled(w, label)
    BY <1>2
  <2>4. [state EXCEPT !.waypoint = l] \in WorkloadState
    BY DEF WorkloadState
  <2>5. QED
    BY <2>2, <2>3, <2>4
<1>4. PatchLabel(w, label) => workload' \in [Workload -> WorkloadState]
  <2>1. PatchLabel(w, label) => workload' = [workload EXCEPT ![w] = [workload[w] EXCEPT !.waypoint = Labelled(w, label)]]
    BY DEF PatchLabel, TypeOK
  <2>2. QED
    BY <1>3, <2>1 DEF TypeOK
<1>5. NewPod(w) \in WorkloadState
  BY <1>2 DEF NewPod, WorkloadState
<1>6. QED
  BY <1>1, <1>2, <1>4, <1>5

(* The initial states.                                                     *)
LEMMA InitTyped == Init => TypeOK
<1> SUFFICES ASSUME Init PROVE TypeOK
  OBVIOUS
<1>1. before \in [Package -> IstioState]
  BY SpecsAssumption DEF Init
<1>2. namespace \in [Package -> NamespaceState]
  BY <1>1 DEF Init, NamespaceState
<1>3. workload \in [Workload -> WorkloadState]
  BY DEF Init, WorkloadState
<1>4. gateways \in [Package -> [Client -> Nat]] /\ webhook \in [Package -> PackageSpec \cup {None}]
  BY DEF Init
<1>5. object \in [Package -> ObjectState] /\ \A k \in Package : object[k].exists
  <2>1. \A k \in Package : InitialSpec[k] \in PackageSpec
    BY SpecsAssumption
  <2>2. \A spec \in PackageSpec : [exists |-> TRUE, deleted |-> FALSE, gen |-> 1, spec |-> spec, phase |-> "Pending",
                                   clients |-> {}, mode |-> "ambient"] \in ObjectState
    BY DEF ObjectState, Phase, Mode
  <2>3. QED
    BY <2>1, <2>2 DEF Init
<1>6. flow \in [Package -> Flow] /\ \A k \in Package : flow[k] = Idle
  BY FlowBegins DEF Init, Idle, Flow, Stage, Content
<1>7. \A k \in Package : FlowOK(k)
  BY <1>5, <1>6 DEF FlowOK, Idle
<1>8. /\ listeners \in [Package -> SUBSET Port] /\ gateway \subseteq Package \X Port /\ secret \subseteq Package \X Probe
      /\ gatewayMutex \in Seq(Package) /\ secretMutex \in Seq(Package) /\ changes \in [Package -> Nat] /\ faults \in Nat
      /\ due \subseteq Package
      /\ trouble \in [Package -> SUBSET {"lag", "patch", "status", "request", "restart", "interrupted", "early"}]
  BY DEF Init
<1>9. QED
  BY <1>1, <1>2, <1>3, <1>4, <1>5, <1>6, <1>7, <1>8 DEF TypeOK

(* What a job works on.                                                    *)
LEMMA Snapped ==
  ASSUME TypeOK, NEW k \in Package
  PROVE  /\ flow[k] \in Flow /\ FlowOK(k) /\ object[k] \in ObjectState /\ object[k].spec \in PackageSpec
         /\ flow[k].job # "none" =>
              /\ flow[k].snap \in ObjectState /\ SnapSpec(k) \in PackageSpec /\ SnapSpec(k).mode \in Mode
              /\ SnapSpec(k).sso \in Seq(SsoClient) /\ SnapSpec(k).ports \subseteq Port
              /\ SnapSpec(k).probes \subseteq Probe /\ flow[k].snap.gen \in Nat \ {0}
         /\ flow[k].at # "idle" => flow[k].job # "none"
<1>1. \A o \in ObjectState : o.spec \in PackageSpec /\ o.gen \in Nat \ {0}
  BY DEF ObjectState
<1>2. \A spec \in PackageSpec : /\ spec.mode \in Mode /\ spec.sso \in Seq(SsoClient)
                                /\ spec.ports \subseteq Port /\ spec.probes \subseteq Probe
  BY DEF PackageSpec
<1>3. flow[k] \in Flow /\ FlowOK(k) /\ object[k] \in ObjectState
  BY DEF TypeOK
<1>4. flow[k].job # "none" => flow[k].snap \in ObjectState
  BY <1>3 DEF FlowOK
<1>5. flow[k].at # "idle" => flow[k].job # "none"
  BY <1>3 DEF FlowOK, Idle
<1>6. QED
  BY <1>1, <1>2, <1>3, <1>4, <1>5 DEF SnapSpec

(* The objects and flows of the others.                                    *)
LEMMA ObjectStep ==
  ASSUME TypeOK, NEW k \in Package, NEW o \in ObjectState, object' = [object EXCEPT ![k] = o],
         o.exists = object[k].exists, object[k].deleted => o.deleted, flow' = flow
  PROVE  object' \in [Package -> ObjectState] /\ \A q \in Package : FlowOK(q)'
<1>1. object' \in [Package -> ObjectState]
  BY DEF TypeOK
<1>2. ASSUME NEW q \in Package PROVE FlowOK(q)'
  <2>1. /\ flow'[q] = flow[q] /\ FlowOK(q) /\ object'[q].exists = object[q].exists
        /\ object[q].deleted => object'[q].deleted
    BY DEF TypeOK
  <2>2. QED
    BY <2>1 DEF FlowOK, SnapSpec, WorkloadsOf
<1>3. QED
  BY <1>1, <1>2

Troubles == {"lag", "patch", "status", "request", "restart", "interrupted", "early"}

(* What goes wrong is noted.                                               *)
LEMMA TroubleTyped ==
  ASSUME TypeOK, NEW k \in Package, NEW what \in SUBSET Troubles, Troubled(k, what)
  PROVE  trouble' \in [Package -> SUBSET Troubles]
  BY DEF TypeOK, Troubled, Troubles

LEMMA TroublesKnown ==
  \A k : Lag(k) \in SUBSET Troubles /\ {"request"} \cup Interrupted(k) \in SUBSET Troubles
         /\ {"restart"} \cup Interrupted(k) \in SUBSET Troubles
  BY DEF Lag, Interrupted, Troubles

(* Mutexes hold packages.                                                  *)
LEMMA MutexTyped ==
  ASSUME NEW mutex \in Seq(Package), NEW k \in Package
  PROVE  Acquire(mutex, k) \in Seq(Package) /\ Release(mutex, k) \in Seq(Package)
<1>1. mutex # <<>> => Tail(mutex) \in Seq(Package)
  OBVIOUS
<1>2. QED
  BY <1>1 DEF Acquire, Release, Holds

(* Users, the cluster, and the start of a job.                             *)
LEMMA TypeOutside ==
  ASSUME TypeOK, NEW k \in Package
  PROVE  /\ \A spec \in PackageSpec : Edit(k, spec) => TypeOK'
         /\ (Delete(k) \/ Learn(k) \/ StartReconcile(k) \/ StartFinalize(k)) => TypeOK'
<1>1. flow[k] \in Flow /\ FlowOK(k) /\ object[k] \in ObjectState
  BY Snapped
<1>2. ASSUME NEW spec \in PackageSpec, Edit(k, spec) PROVE TypeOK'
  <2> DEFINE o == [object[k] EXCEPT !.spec = spec, !.gen = @ + 1]
  <2>1. object' = [object EXCEPT ![k] = o]
    BY <1>2 DEF Edit, TypeOK
  <2>2. o \in ObjectState
    <3>1. "Pending" \in Phase /\ {} \in SUBSET SsoClient /\ "ambient" \in Mode
      BY DEF Phase, Mode
    <3>2. QED
      BY <1>1, <3>1, ObjectEdited
  <2>3. o.exists = object[k].exists /\ o.deleted = object[k].deleted
    BY <1>1 DEF ObjectState
  <2> HIDE DEF o
  <2>4. object' \in [Package -> ObjectState] /\ \A q \in Package : FlowOK(q)'
    BY <1>2, <2>1, <2>2, <2>3, ObjectStep DEF Edit
  <2>5. changes' \in [Package -> Nat] /\ due' \subseteq Package
    BY <1>2 DEF Edit, TypeOK
  <2>6. QED
    BY <1>2, <2>4, <2>5 DEF Edit, TypeOK, mesh, gatewayVars, secretVars
<1>3. ASSUME Delete(k) PROVE TypeOK'
  <2> DEFINE o == [object[k] EXCEPT !.deleted = TRUE, !.gen = @ + 1]
  <2>1. object' = [object EXCEPT ![k] = o]
    BY <1>3 DEF Delete, TypeOK
  <2>2. o \in ObjectState
    <3>1. "Pending" \in Phase /\ {} \in SUBSET SsoClient /\ "ambient" \in Mode /\ object[k].spec \in PackageSpec
      BY Snapped DEF Phase, Mode
    <3>2. QED
      BY <1>1, <3>1, ObjectEdited
  <2>3. o.exists = object[k].exists /\ o.deleted
    BY <1>1 DEF ObjectState
  <2> HIDE DEF o
  <2>4. object' \in [Package -> ObjectState] /\ \A q \in Package : FlowOK(q)'
    BY <1>3, <2>1, <2>2, <2>3, ObjectStep DEF Delete
  <2>5. changes' \in [Package -> Nat]
    BY <1>3 DEF Delete, TypeOK
  <2>6. QED
    BY <1>3, <2>4, <2>5 DEF Delete, TypeOK, mesh, gatewayVars, secretVars
<1>4. ASSUME Learn(k) PROVE TypeOK'
  <2>1. LatestSpec(k) \in PackageSpec \cup {None}
    BY Snapped DEF LatestSpec
  <2>2. webhook' \in [Package -> PackageSpec \cup {None}]
    BY <1>4, <2>1 DEF Learn, TypeOK
  <2>3. \A q \in Package : FlowOK(q)'
    BY <1>4 DEF Learn, TypeOK, FlowOK, SnapSpec, WorkloadsOf
  <2>4. QED
    BY <1>4, <2>2, <2>3 DEF Learn, TypeOK, gatewayVars, secretVars, bounds
<1>5. ASSUME StartReconcile(k) \/ StartFinalize(k) PROVE TypeOK'
  <2>1. PICK phase \in Phase, job \in {"reconcile", "finalize"} :
             /\ object' = [object EXCEPT ![k] = [object[k] EXCEPT !.phase = phase]]
             /\ flow' = [flow EXCEPT ![k] = [Idle EXCEPT !.job = job, !.at = "get", !.snap = object[k]]]
             /\ object[k].exists /\ (job = "finalize" => object[k].deleted)
    <3>1. "Pending" \in Phase /\ "Removing" \in Phase
      BY DEF Phase
    <3>2. CASE StartReconcile(k)
      BY <3>1, <3>2 DEF StartReconcile, TypeOK
    <3>3. CASE StartFinalize(k)
      BY <3>1, <3>3 DEF StartFinalize, TypeOK
    <3>4. QED
      BY <1>5, <3>2, <3>3
  <2> DEFINE o == [object[k] EXCEPT !.phase = phase]
             new == [Idle EXCEPT !.job = job, !.at = "get", !.snap = object[k]]
  <2>2. o \in ObjectState /\ o.exists = object[k].exists /\ o.deleted = object[k].deleted
    BY <1>1 DEF ObjectState
  <2>3. /\ new \in Flow /\ new.job = job /\ new.at = "get" /\ new.snap = object[k] /\ new.todo = {} /\ new.next = 0
    BY <1>1, FlowBegins DEF Idle
  <2> HIDE DEF o, new
  <2>4. object' \in [Package -> ObjectState] /\ object'[k] = o /\ flow'[k] = new
        /\ \A q \in Package : q # k => object'[q] = object[q]
    BY <2>1, <2>2 DEF TypeOK, o, new
  <2>5. FlowOK(k)'
    BY <1>1, <2>1, <2>2, <2>3, <2>4 DEF FlowOK
  <2>6. flow' \in [Package -> Flow] /\ \A q \in Package : FlowOK(q)'
    BY <2>1, <2>3, <2>4, <2>5, FlowStep DEF new
  <2>7. /\ due' \subseteq Package
        /\ UNCHANGED <<mesh, gatewayVars, secretVars, bounds, trouble>>
    BY <1>5 DEF StartReconcile, StartFinalize, TypeOK
  <2>8. QED
    BY <2>4, <2>6, <2>7 DEF TypeOK, mesh, gatewayVars, secretVars, bounds
<1>6. QED
  BY <1>2, <1>3, <1>4, <1>5

(* A flow that takes workloads off its list.                               *)
LEMMA TodoStep ==
  ASSUME TypeOK, NEW k \in Package, NEW w, flow' = [flow EXCEPT ![k].todo = @ \ {w}], object' = object
  PROVE  flow' \in [Package -> Flow] /\ \A q \in Package : FlowOK(q)'
<1> DEFINE f == flow[k]
           new == [f EXCEPT !.todo = f.todo \ {w}]
<1>1. f \in Flow /\ f.todo \in SUBSET Workload /\ f.todo \ {w} \in SUBSET Workload
  BY Snapped DEF Flow
<1>2. new \in Flow
  <2>1. f.at \in Stage /\ f.content \in Content /\ f.next \in Nat
    BY <1>1 DEF Flow
  <2> HIDE DEF f
  <2>2. QED
    BY <1>1, <2>1, FlowEdited
<1>3. flow' = [flow EXCEPT ![k] = new]
  BY DEF TypeOK
<1>4. /\ new.job = f.job /\ new.at = f.at /\ new.snap = f.snap /\ new.next = f.next /\ new.content = f.content
      /\ new.todo = f.todo \ {w}
  BY <1>1 DEF Flow
<1>5. f.todo = {} => new = f
  BY <1>1 DEF Flow
<1> HIDE DEF new
<1>6. FlowOK(k)'
  <2>1. flow'[k] = new /\ object'[k] = object[k] /\ FlowOK(k)
    BY <1>3 DEF TypeOK
  <2>2. flow[k].job = "none" => new = Idle
    BY <1>5, <2>1 DEF FlowOK, Idle
  <2>3. QED
    BY <1>4, <2>1, <2>2 DEF FlowOK, SnapSpec, WorkloadsOf
<1>7. QED
  BY <1>2, <1>3, <1>6, FlowStep

(* The steps that write workloads.                                         *)
LEMMA TypeWorkloads ==
  ASSUME TypeOK, NEW k \in Package, NEW w \in WorkloadsOf(k)
  PROVE  /\ (KillPod(k, w) \/ LabelResource(k, w) \/ UnlabelResource(k, w) \/ FailPatch(k, w)) => TypeOK'
         /\ w \in Pod /\ Replace(w) => TypeOK'
<1>1. w \in Workload /\ In[w] = k
  BY DEF WorkloadsOf
<1>2. ASSUME KillPod(k, w) PROVE TypeOK'
  <2>1. workload' \in [Workload -> WorkloadState]
    BY <1>1, <1>2 DEF KillPod, TypeOK, WorkloadState
  <2>2. flow' \in [Package -> Flow] /\ \A q \in Package : FlowOK(q)'
    BY <1>2, TodoStep DEF KillPod
  <2>3. QED
    BY <1>2, <2>1, <2>2 DEF KillPod, TypeOK, gatewayVars, secretVars, bounds
<1>3. ASSUME LabelResource(k, w) PROVE TypeOK'
  <2>1. SnapSpec(k).sso[flow[k].next].client \in Client
    <3>1. flow[k].next \in 1..Len(SnapSpec(k).sso) /\ flow[k].job # "none"
      BY <1>3, Snapped DEF LabelResource, At, FlowOK, Reconcile
    <3>2. SnapSpec(k).sso[flow[k].next] \in SsoClient
      BY <3>1, Snapped
    <3>3. QED
      BY <3>2 DEF SsoClient
  <2>2. workload' \in [Workload -> WorkloadState]
    BY <1>1, <1>3, <2>1, WorkloadTyped DEF LabelResource
  <2>3. flow' \in [Package -> Flow] /\ \A q \in Package : FlowOK(q)'
    BY <1>3, TodoStep DEF LabelResource
  <2>4. trouble' \in [Package -> SUBSET Troubles]
    BY <1>3, TroubleTyped, TroublesKnown DEF LabelResource
  <2>5. QED
    BY <1>3, <2>2, <2>3, <2>4 DEF LabelResource, TypeOK, gatewayVars, secretVars, bounds, Troubles
<1>4. ASSUME UnlabelResource(k, w) PROVE TypeOK'
  <2>1. workload' \in [Workload -> WorkloadState]
    BY <1>1, <1>4, WorkloadTyped DEF UnlabelResource
  <2>2. flow' \in [Package -> Flow] /\ \A q \in Package : FlowOK(q)'
    BY <1>4, TodoStep DEF UnlabelResource
  <2>3. trouble' \in [Package -> SUBSET Troubles]
    BY <1>4, TroubleTyped, TroublesKnown DEF UnlabelResource
  <2>4. QED
    BY <1>4, <2>1, <2>2, <2>3 DEF UnlabelResource, TypeOK, gatewayVars, secretVars, bounds, Troubles
<1>5. ASSUME FailPatch(k, w) PROVE TypeOK'
  <2>1. flow' \in [Package -> Flow] /\ \A q \in Package : FlowOK(q)'
    BY <1>5, TodoStep DEF FailPatch
  <2>2. trouble' \in [Package -> SUBSET Troubles]
    <3>1. {"patch"} \in SUBSET Troubles
      BY DEF Troubles
    <3>2. QED
      BY <1>5, <3>1, TroubleTyped DEF FailPatch
  <2>3. faults' \in Nat
    BY <1>5 DEF FailPatch, TypeOK
  <2>4. QED
    BY <1>5, <2>1, <2>2, <2>3 DEF FailPatch, TypeOK, mesh, gatewayVars, secretVars, Troubles
<1>6. ASSUME w \in Pod, Replace(w) PROVE TypeOK'
  <2>1. workload' \in [Workload -> WorkloadState]
    <3>1. NewPod(w) \in WorkloadState
      <4>1. None \in Client \cup {None}
        OBVIOUS
      <4>2. QED
        BY <1>1, <1>6, <4>1, WorkloadTyped
    <3>2. QED
      BY <1>1, <1>6, <3>1 DEF Replace, TypeOK
  <2>2. flow' \in [Package -> Flow] /\ \A q \in Package : FlowOK(q)'
    BY <1>1, <1>6, TodoStep DEF Replace
  <2>3. trouble' \in [Package -> SUBSET Troubles]
    BY <1>1, <1>6, TroubleTyped, TroublesKnown DEF Replace
  <2>4. QED
    BY <1>6, <2>1, <2>2, <2>3 DEF Replace, TypeOK, gatewayVars, secretVars, bounds, Troubles
<1>7. QED
  BY <1>2, <1>3, <1>4, <1>5, <1>6

(* A flow that goes on.                                                    *)
LEMMA FlowMoves ==
  ASSUME TypeOK, NEW k \in Package, object' = object, flow[k].job # "none",
         NEW new \in Flow, flow' = [flow EXCEPT ![k] = new], new.job = flow[k].job, new.snap = flow[k].snap,
         new.at # "idle", new.job = "reconcile" => new.at # "gone",
         new.job = "finalize" => new.at \notin {"label", "ready"},
         new.todo # {} => new.at \in {"kill", "label", "clean"} /\ new.todo \subseteq WorkloadsOf(k),
         new.at \in {"get", "kill"} => new.next = 0,
         new.at = "label" => /\ SnapSpec(k).mode = "ambient" /\ new.next \in 1..Len(SnapSpec(k).sso)
                             /\ new.todo \subseteq SnapSpec(k).sso[new.next].selects,
         new.at = "write" => new.content \subseteq Package \X Port,
         new.at = "save" => new.content \subseteq Package \X Probe
  PROVE  flow' \in [Package -> Flow] /\ \A q \in Package : FlowOK(q)'
<1>1. FlowOK(k)
  BY Snapped
<1>2. flow'[k] = new /\ object'[k] = object[k]
  BY DEF TypeOK
<1>3. FlowOK(k)'
  BY <1>1, <1>2 DEF FlowOK, SnapSpec, WorkloadsOf
<1>4. QED
  BY <1>3, FlowStep

(* A flow that goes on to another stage, and its workloads.                *)
LEMMA FlowTurns ==
  ASSUME TypeOK, NEW k \in Package, object' = object, flow[k].job # "none",
         NEW at \in Stage \ {"idle", "get", "label", "write", "save", "ready", "gone"},
         NEW todo \in SUBSET Workload, todo \subseteq WorkloadsOf(k),
         flow' = [flow EXCEPT ![k].at = at, ![k].todo = todo],
         todo # {} => at \in {"kill", "clean"}, at = "kill" => flow[k].next = 0
  PROVE  flow' \in [Package -> Flow] /\ \A q \in Package : FlowOK(q)'
<1> DEFINE new == [flow[k] EXCEPT !.at = at, !.todo = todo]
<1>1. flow[k] \in Flow
  BY Snapped
<1>2. flow' = [flow EXCEPT ![k] = new]
  BY DEF TypeOK
<1>3. /\ new \in Flow /\ new.job = flow[k].job /\ new.snap = flow[k].snap /\ new.at = at /\ new.todo = todo
      /\ new.next = flow[k].next
  BY <1>1 DEF Flow
<1> HIDE DEF new
<1>4. QED
  BY <1>2, <1>3, FlowMoves

LEMMA FlowGoes ==
  ASSUME TypeOK, NEW k \in Package, object' = object, flow[k].job # "none", flow[k].todo = {},
         NEW at \in Stage \ {"idle", "get", "kill", "label", "write", "save"}, Goto(k, at),
         flow[k].job = "reconcile" => at # "gone", flow[k].job = "finalize" => at # "ready"
  PROVE  flow' \in [Package -> Flow] /\ \A q \in Package : FlowOK(q)'
<1> DEFINE new == [flow[k] EXCEPT !.at = at]
<1>1. flow[k] \in Flow
  BY Snapped
<1>2. flow' = [flow EXCEPT ![k] = new]
  BY DEF TypeOK, Goto
<1>3. /\ new \in Flow /\ new.job = flow[k].job /\ new.snap = flow[k].snap /\ new.at = at /\ new.todo = {}
  BY <1>1 DEF Flow
<1> HIDE DEF new
<1>4. QED
  BY <1>2, <1>3, FlowMoves

(* A flow that takes up a content to write.                                *)
LEMMA FlowTakes ==
  ASSUME TypeOK, NEW k \in Package, object' = object, flow[k].job # "none", flow[k].todo = {},
         NEW at \in {"write", "save"}, NEW content,
         flow' = [flow EXCEPT ![k].at = at, ![k].content = content],
         at = "write" => content \subseteq Package \X Port, at = "save" => content \subseteq Package \X Probe
  PROVE  flow' \in [Package -> Flow] /\ \A q \in Package : FlowOK(q)'
<1> DEFINE new == [flow[k] EXCEPT !.at = at, !.content = content]
<1>1. flow[k] \in Flow
  BY Snapped
<1>2. flow' = [flow EXCEPT ![k] = new]
  BY DEF TypeOK
<1>3. content \in Content /\ at \in Stage
  <2>1. at = "write" \/ at = "save"
    OBVIOUS
  <2>2. CASE at = "write"
    BY <2>2 DEF Content, Stage
  <2>3. CASE at = "save"
    <3>1. content \in SUBSET (Package \X Probe)
      BY <2>3
    <3>2. content \in Content
      BY <3>1, Zenon DEF Content
    <3>3. QED
      BY <2>3, <3>2 DEF Stage
  <2>4. QED
    BY <2>1, <2>2, <2>3
<1>4. /\ new \in Flow /\ new.job = flow[k].job /\ new.snap = flow[k].snap /\ new.at = at /\ new.todo = {}
      /\ new.content = content
  BY <1>1, <1>3 DEF Flow
<1> HIDE DEF new
<1>5. QED
  BY <1>2, <1>4, FlowMoves

(* The steps of the namespace and the waypoints.                           *)
LEMMA TypeMesh ==
  ASSUME TypeOK, NEW k \in Package
  PROVE  (ApplyNamespace(k) \/ SetupAmbientWaypoint(k) \/ PurgeClients(k) \/ PurgeOrphans(k)) => TypeOK'
<1>1. flow[k] \in Flow /\ FlowOK(k)
  BY Snapped
<1> DEFINE f == flow[k]
<1>2. ASSUME ApplyNamespace(k) PROVE TypeOK'
  <2>1. f.job \in {"reconcile", "finalize"}
    BY <1>2 DEF ApplyNamespace, At, Either, Reconcile, Finalize
  <2>2. Target(k) \in NamespaceState
    <3>1. namespace[k].label \in IstioState /\ namespace[k].original \in IstioState \cup {None}
      BY DEF TypeOK, NamespaceState
    <3>2. f.job = "reconcile" => SnapSpec(k).mode \in IstioState
      BY Snapped DEF Mode, IstioState
    <3>3. "none" \in IstioState
      BY DEF IstioState
    <3>4. QED
      BY <3>1, <3>2, <3>3 DEF Target, Annotated, Restored, NamespaceState
  <2>3. namespace' \in [Package -> NamespaceState]
    BY <1>2, <2>2 DEF ApplyNamespace, TypeOK
  <2>4. PICK todo : /\ todo \in SUBSET Workload /\ todo \subseteq WorkloadsOf(k)
                    /\ flow' = [flow EXCEPT ![k].at = "kill", ![k].todo = todo]
    BY <1>2 DEF ApplyNamespace, PodsToKill, WorkloadsOf
  <2>5. f.next = 0
    BY <1>1, <1>2 DEF FlowOK, ApplyNamespace, At
  <2>6. flow' \in [Package -> Flow] /\ \A q \in Package : FlowOK(q)'
    <3>1. "kill" \in Stage
      BY DEF Stage
    <3>2. object' = object
      BY <1>2 DEF ApplyNamespace
    <3>3. QED
      BY <2>1, <2>4, <2>5, <3>1, <3>2, FlowTurns
  <2>7. QED
    BY <1>2, <2>3, <2>6 DEF ApplyNamespace, TypeOK, gatewayVars, secretVars, bounds
<1>3. ASSUME SetupAmbientWaypoint(k) PROVE TypeOK'
  <2> DEFINE n == f.next + 1
             client == SnapSpec(k).sso[n]
  <2>1. f.job = "reconcile" /\ SnapSpec(k).mode = "ambient" /\ n \in 1..Len(SnapSpec(k).sso)
    BY <1>1, <1>3, Snapped DEF SetupAmbientWaypoint, ClientsLeft, Flow
  <2>2. client \in SsoClient /\ client.client \in Client /\ client.selects \in SUBSET Workload
    <3>1. client \in SsoClient
      BY <2>1, Snapped
    <3>2. QED
      BY <3>1 DEF SsoClient
  <2>3. flow' = [flow EXCEPT ![k].next = n, ![k].at = "label", ![k].todo = client.selects \cap WorkloadsOf(k)]
    BY <1>3 DEF SetupAmbientWaypoint
  <2> DEFINE todo == client.selects \cap WorkloadsOf(k)
  <2>4. todo \subseteq WorkloadsOf(k) /\ todo \in SUBSET Workload /\ n \in Nat /\ todo \subseteq SnapSpec(k).sso[n].selects
    BY <2>1, <2>2
  <2> DEFINE new == [f EXCEPT !.next = n, !.at = "label", !.todo = todo]
  <2>5. flow' = [flow EXCEPT ![k] = new]
    BY <2>3 DEF TypeOK
  <2>6. gateways' \in [Package -> [Client -> Nat]]
    <3>1. f.snap.gen \in Nat /\ CreateWaypoint(k, client.client, f.snap.gen)
      BY <1>3, <2>1, Snapped DEF SetupAmbientWaypoint
    <3>2. QED
      BY <2>2, <3>1 DEF CreateWaypoint, TypeOK
  <2>7. object' = object /\ "label" \in Stage
    BY <1>3 DEF SetupAmbientWaypoint, Stage
  <2>8. flow' \in [Package -> Flow] /\ \A q \in Package : FlowOK(q)'
    <3> HIDE DEF n, todo
    <3>1. /\ new \in Flow /\ new.job = f.job /\ new.snap = f.snap /\ new.at = "label" /\ new.todo = todo
          /\ new.next = n
      BY <1>1, <2>4, <2>7 DEF Flow
    <3> HIDE DEF new
    <3>2. QED
      BY <2>1, <2>4, <2>5, <2>7, <3>1, FlowMoves
  <2>9. QED
    BY <1>3, <2>6, <2>8 DEF SetupAmbientWaypoint, TypeOK, gatewayVars, secretVars, bounds
<1>4. ASSUME PurgeClients(k) PROVE TypeOK'
  <2>1. f.job # "none"
    BY <1>4, Snapped DEF PurgeClients
  <2>2. PICK clean : flow' = [flow EXCEPT ![k].at = "clean", ![k].todo = HasLabelOf(k, clean)]
    BY <1>4 DEF PurgeClients
  <2>3. HasLabelOf(k, clean) \subseteq WorkloadsOf(k) /\ HasLabelOf(k, clean) \in SUBSET Workload
    BY DEF HasLabelOf, WorkloadsOf
  <2>4. flow' \in [Package -> Flow] /\ \A q \in Package : FlowOK(q)'
    <3>1. "clean" \in Stage
      BY DEF Stage
    <3>2. object' = object
      BY <1>4 DEF PurgeClients
    <3>3. QED
      BY <2>1, <2>2, <2>3, <3>1, <3>2, FlowTurns
  <2>5. trouble' \in [Package -> SUBSET Troubles]
    <3>1. PICK what : what \in SUBSET Troubles /\ Troubled(k, what)
      BY <1>4 DEF PurgeClients, Troubles
    <3>2. QED
      BY <3>1, TroubleTyped
  <2>6. QED
    BY <1>4, <2>4, <2>5 DEF PurgeClients, TypeOK, mesh, gatewayVars, secretVars, bounds, Troubles
<1>5. ASSUME PurgeOrphans(k) PROVE TypeOK'
  <2>1. f.job # "none" /\ f.todo = {}
    BY <1>5, Snapped DEF PurgeOrphans, At
  <2>2. PICK at \in {"gateway", "probe"} : Goto(k, at)
    BY <1>5 DEF PurgeOrphans
  <2>3. flow' \in [Package -> Flow] /\ \A q \in Package : FlowOK(q)'
    <3>1. {"gateway", "probe"} \subseteq Stage \ {"idle", "get", "kill", "label", "write", "save", "ready", "gone"}
      BY DEF Stage
    <3>2. object' = object
      BY <1>5 DEF PurgeOrphans
    <3>3. QED
      BY <2>1, <2>2, <3>1, <3>2, FlowGoes
  <2>4. gateways' \in [Package -> [Client -> Nat]]
    <3>1. f.job = "reconcile" => f.snap.gen \in Nat
      BY Snapped
    <3>2. ASSUME NEW gen \in Nat, PurgeWaypoints(k, gen) PROVE gateways' \in [Package -> [Client -> Nat]]
      BY <3>2 DEF PurgeWaypoints, TypeOK
    <3>3. gateways' = gateways \/ (f.job = "reconcile" /\ PurgeWaypoints(k, f.snap.gen))
      BY <1>5 DEF PurgeOrphans
    <3>4. QED
      BY <3>1, <3>2, <3>3 DEF TypeOK
  <2>5. QED
    BY <1>5, <2>3, <2>4 DEF PurgeOrphans, TypeOK, gatewayVars, secretVars, bounds
<1>6. QED
  BY <1>2, <1>3, <1>4, <1>5

(* The steps of the gateway and the secret.                                *)
LEMMA TypeShared ==
  ASSUME TypeOK, NEW k \in Package
  PROVE  /\ (SetListeners(k) \/ BuildGateway(k) \/ WriteGateway(k)) => TypeOK'
         /\ (ReadSecret(k) \/ WriteSecret(k)) => TypeOK'
<1>1. flow[k] \in Flow /\ FlowOK(k)
  BY Snapped
<1> DEFINE f == flow[k]
<1>2. ASSUME SetListeners(k) PROVE TypeOK'
  <2>1. f.job # "none" /\ f.todo = {}
    BY <1>1, <1>2 DEF SetListeners, At, Either, Reconcile, Finalize, FlowOK
  <2>2. flow' \in [Package -> Flow] /\ \A q \in Package : FlowOK(q)'
    <3>1. "build" \in Stage
      BY DEF Stage
    <3>2. object' = object /\ Goto(k, "build")
      BY <1>2 DEF SetListeners
    <3>3. QED
      BY <2>1, <3>1, <3>2, FlowGoes
  <2>3. listeners' \in [Package -> SUBSET Port]
    BY <1>2, <2>1, Snapped DEF SetListeners, UpdateDefaultListenerMap, TypeOK
  <2>4. gatewayMutex' \in Seq(Package)
    BY <1>2, MutexTyped DEF SetListeners, TypeOK
  <2>5. QED
    BY <1>2, <2>2, <2>3, <2>4 DEF SetListeners, TypeOK, mesh, secretVars, bounds
<1>3. ASSUME BuildGateway(k) PROVE TypeOK'
  <2>1. f.job # "none" /\ f.todo = {} /\ f.next \in Nat
    BY <1>1, <1>3 DEF BuildGateway, At, Either, Reconcile, Finalize, FlowOK, Flow
  <2>2. PICK content : content = DefaultListenerEntries
    OBVIOUS
  <2>3. content \subseteq Package \X Port
    BY <2>2 DEF DefaultListenerEntries, Entries, TypeOK
  <2>4. object' = object /\ flow' = [flow EXCEPT ![k].at = "write", ![k].content = content]
    BY <1>3, <2>2 DEF BuildGateway
  <2>5. flow' \in [Package -> Flow] /\ \A q \in Package : FlowOK(q)'
    BY <2>1, <2>3, <2>4, FlowTakes
  <2>6. QED
    BY <1>3, <2>5 DEF BuildGateway, TypeOK, mesh, gatewayVars, secretVars, bounds
<1>4. ASSUME WriteGateway(k) PROVE TypeOK'
  <2>1. f.job \in {"reconcile", "finalize"} /\ f.todo = {} /\ f.content \subseteq Package \X Port
    BY <1>1, <1>4 DEF WriteGateway, At, Either, Reconcile, Finalize, FlowOK
  <2>2. flow' \in [Package -> Flow] /\ \A q \in Package : FlowOK(q)'
    <3>1. "probe" \in Stage /\ "gone" \in Stage
      BY DEF Stage
    <3>2. object' = object /\ Goto(k, IF f.job = "reconcile" THEN "probe" ELSE "gone")
      BY <1>4 DEF WriteGateway
    <3>3. QED
      BY <2>1, <3>1, <3>2, FlowGoes
  <2>3. gatewayMutex' \in Seq(Package)
    BY <1>4, MutexTyped DEF WriteGateway, TypeOK
  <2>4. QED
    BY <1>4, <2>1, <2>2, <2>3 DEF WriteGateway, TypeOK, mesh, secretVars, bounds
<1>5. ASSUME ReadSecret(k) PROVE TypeOK'
  <2>1. f.job # "none" /\ f.todo = {} /\ f.next \in Nat
    BY <1>1, <1>5 DEF ReadSecret, At, Either, Reconcile, Finalize, FlowOK, Flow
  <2>2. PICK content : content = secret /\ content \subseteq Package \X Probe
    BY DEF TypeOK
  <2>3. object' = object /\ flow' = [flow EXCEPT ![k].at = "save", ![k].content = content]
    BY <1>5, <2>2 DEF ReadSecret
  <2>5. flow' \in [Package -> Flow] /\ \A q \in Package : FlowOK(q)'
    BY <2>1, <2>2, <2>3, FlowTakes
  <2>6. secretMutex' \in Seq(Package)
    BY <1>5, MutexTyped DEF ReadSecret, TypeOK
  <2>7. QED
    BY <1>5, <2>5, <2>6 DEF ReadSecret, TypeOK, mesh, gatewayVars, bounds
<1>6. ASSUME WriteSecret(k) PROVE TypeOK'
  <2>1. f.job \in {"reconcile", "finalize"} /\ f.todo = {} /\ f.content \subseteq Package \X Probe
    BY <1>1, <1>6 DEF WriteSecret, At, Either, Reconcile, Finalize, FlowOK
  <2>2. flow' \in [Package -> Flow] /\ \A q \in Package : FlowOK(q)'
    <3>1. {"ready", "gateway", "gone"} \subseteq Stage
      BY DEF Stage
    <3>2. object' = object /\ Goto(k, AfterSecret(k))
      BY <1>6 DEF WriteSecret
    <3>3. /\ AfterSecret(k) \in {"ready", "gateway", "gone"}
          /\ f.job = "reconcile" <=> AfterSecret(k) = "ready"
      BY <2>1 DEF AfterSecret
    <3>4. QED
      BY <2>1, <3>1, <3>2, <3>3, FlowGoes
  <2>3. secretMutex' \in Seq(Package)
    BY <1>6, MutexTyped DEF WriteSecret, TypeOK
  <2>4. secret' \subseteq Package \X Probe
    <3>1. PICK probes : /\ secret' = UpdatedModules(f.content, k, probes)
                        /\ probes \subseteq Probe
      BY <1>6, <2>1, Snapped DEF WriteSecret
    <3>2. QED
      BY <2>1, <3>1 DEF UpdatedModules, Entries
  <2>5. QED
    BY <1>6, <2>2, <2>3, <2>4 DEF WriteSecret, TypeOK, mesh, gatewayVars, bounds
<1>7. QED
  BY <1>2, <1>3, <1>4, <1>5, <1>6

(* The ends of a job, and faults.                                          *)
LEMMA TypeEnds ==
  ASSUME TypeOK, NEW k \in Package
  PROVE  /\ (SetReady(k) \/ Gone(k) \/ Fail(k)) => TypeOK'
         /\ Restart => TypeOK'
<1>1. flow[k] \in Flow /\ FlowOK(k) /\ object[k] \in ObjectState
  BY Snapped
<1> DEFINE f == flow[k]
<1>2. ASSUME NEW o \in ObjectState, object' = [object EXCEPT ![k] = o], flow' = [flow EXCEPT ![k] = Idle],
             ~o.exists => o.deleted
      PROVE  /\ object' \in [Package -> ObjectState] /\ flow' \in [Package -> Flow]
             /\ \A q \in Package : FlowOK(q)'
  <2>1. flow'[k] = Idle /\ object'[k] = o /\ \A q \in Package : q # k => object'[q] = object[q]
    BY <1>2 DEF TypeOK
  <2>2. FlowOK(k)'
    BY <1>2, <2>1, FlowBegins DEF FlowOK
  <2>3. Idle \in Flow
    BY <1>1, FlowBegins
  <2>4. QED
    BY <1>2, <2>1, <2>2, <2>3, FlowStep DEF TypeOK
<1>3. ASSUME SetReady(k) PROVE TypeOK'
  <2>1. f.job = "reconcile"
    BY <1>3 DEF SetReady, At, Reconcile
  <2>2. PICK clients : /\ clients \in SUBSET SsoClient
                       /\ object' = [object EXCEPT ![k].phase = "Ready", ![k].mode = SnapSpec(k).mode, ![k].clients = clients]
    <3>1. {SnapSpec(k).sso[i] : i \in DOMAIN SnapSpec(k).sso} \in SUBSET SsoClient
      BY <2>1, Snapped
    <3>2. flow[k].snap.clients \in SUBSET SsoClient
      BY <2>1, Snapped DEF ObjectState
    <3>3. QED
      BY <1>3, <3>1, <3>2 DEF SetReady
  <2> DEFINE mode == SnapSpec(k).mode
             o == [object[k] EXCEPT !.phase = "Ready", !.mode = mode, !.clients = clients]
  <2>3. "Ready" \in Phase /\ mode \in Mode
    BY <2>1, Snapped DEF Phase
  <2>4. object' = [object EXCEPT ![k] = o] /\ flow' = [flow EXCEPT ![k] = Idle]
    BY <1>3, <2>2 DEF SetReady, TypeOK
  <2> HIDE DEF mode
  <2>5. o \in ObjectState /\ o.exists = object[k].exists /\ o.deleted = object[k].deleted
    BY <1>1, <2>2, <2>3 DEF ObjectState
  <2>6. object[k].exists
    BY <1>1, <2>1 DEF FlowOK
  <2> HIDE DEF o
  <2>7. object' \in [Package -> ObjectState] /\ flow' \in [Package -> Flow] /\ \A q \in Package : FlowOK(q)'
    BY <1>2, <2>4, <2>5, <2>6
  <2>8. QED
    BY <1>3, <2>7 DEF SetReady, TypeOK, mesh, gatewayVars, secretVars, bounds
<1>4. ASSUME Gone(k) PROVE TypeOK'
  <2> DEFINE o == [object[k] EXCEPT !.exists = FALSE]
  <2>1. object' = [object EXCEPT ![k] = o] /\ flow' = [flow EXCEPT ![k] = Idle] /\ f.job = "finalize"
    BY <1>4 DEF Gone, TypeOK, At, Finalize
  <2>2. o \in ObjectState /\ o.deleted
    <3>1. object[k].deleted
      BY <1>1, <2>1 DEF FlowOK
    <3>2. QED
      BY <1>1, <3>1 DEF ObjectState
  <2> HIDE DEF o
  <2>3. object' \in [Package -> ObjectState] /\ flow' \in [Package -> Flow] /\ \A q \in Package : FlowOK(q)'
    BY <1>2, <2>1, <2>2
  <2>4. gateways' \in [Package -> [Client -> Nat]]
    BY <1>4 DEF Gone, TypeOK
  <2>5. QED
    BY <1>4, <2>3, <2>4 DEF Gone, TypeOK, gatewayVars, secretVars, bounds
<1>5. ASSUME Fail(k) PROVE TypeOK'
  <2>1. f.at \in Waits /\ f.job # "none"
    BY <1>5, Snapped DEF Fail, Waits
  <2>2. /\ object' \in [Package -> ObjectState] /\ flow' \in [Package -> Flow] /\ due' \subseteq Package
        /\ \A q \in Package : FlowOK(q)'
    <3>1. ASSUME NEW phase \in Phase, GiveUp(k, phase)
          PROVE  /\ object' \in [Package -> ObjectState] /\ flow' \in [Package -> Flow] /\ due' \subseteq Package
                 /\ \A q \in Package : FlowOK(q)'
      <4> DEFINE o == [object[k] EXCEPT !.phase = phase]
      <4>1. object' = [object EXCEPT ![k] = o] /\ flow' = [flow EXCEPT ![k] = Idle] /\ due' \subseteq Package
        BY <3>1 DEF GiveUp, TypeOK
      <4>2. o \in ObjectState /\ o.exists = object[k].exists /\ o.deleted = object[k].deleted
        BY <1>1 DEF ObjectState
      <4>3. object[k].exists
        BY <1>1, <2>1 DEF FlowOK
      <4> HIDE DEF o
      <4>4. QED
        BY <1>2, <4>1, <4>2, <4>3
    <3>2. {"Retrying", "Failed", "RemovalFailed"} \subseteq Phase
      BY DEF Phase
    <3>3. ASSUME f.job # "reconcile", flow' = [flow EXCEPT ![k] = [@ EXCEPT !.at = Block(f), !.todo = {}]],
                 UNCHANGED <<object, due>>
          PROVE  /\ object' \in [Package -> ObjectState] /\ flow' \in [Package -> Flow] /\ due' \subseteq Package
                 /\ \A q \in Package : FlowOK(q)'
      <4>1. f.job = "finalize" /\ f.at \notin {"label", "ready"}
        BY <1>1, <2>1, <3>3 DEF Flow, FlowOK
      <4>2. PICK at : at = Block(f)
        OBVIOUS
      <4>3. at \in {"get", "kill", "gateway", "probe"} /\ (at \in {"get", "kill"} => f.at \in {"get", "kill"})
        BY <2>1, <4>1, <4>2 DEF Block, Waits
      <4> DEFINE new == [f EXCEPT !.at = at, !.todo = {}]
      <4>4. flow' = [flow EXCEPT ![k] = new]
        BY <3>3, <4>2 DEF TypeOK
      <4>5. at \in Stage
        BY <4>3 DEF Stage
      <4>6. /\ new \in Flow /\ new.job = f.job /\ new.snap = f.snap /\ new.at = at /\ new.todo = {}
            /\ new.next = f.next
        BY <1>1, <4>5 DEF Flow
      <4>7. at \in {"get", "kill"} => f.next = 0
        BY <1>1, <4>3 DEF FlowOK
      <4> HIDE DEF new
      <4>8. flow' \in [Package -> Flow] /\ \A q \in Package : FlowOK(q)'
        BY <2>1, <3>3, <4>1, <4>3, <4>4, <4>6, <4>7, FlowMoves
      <4>9. QED
        BY <3>3, <4>8 DEF TypeOK
    <3>4. QED
      BY <1>5, <3>1, <3>2, <3>3 DEF Fail
  <2>3. trouble' \in [Package -> SUBSET Troubles]
    BY <1>5, TroubleTyped, TroublesKnown DEF Fail
  <2>4. gatewayMutex' \in Seq(Package) /\ secretMutex' \in Seq(Package)
    BY <1>5, MutexTyped DEF Fail, TypeOK
  <2>5. faults' \in Nat
    BY <1>5 DEF Fail, TypeOK
  <2>6. UNCHANGED <<mesh, listeners, gateway, secret, before, changes>>
    BY <1>5 DEF Fail
  <2>7. QED
    BY <2>2, <2>3, <2>4, <2>5, <2>6, Zenon DEF TypeOK, mesh, Troubles
<1>6. ASSUME Restart PROVE TypeOK'
  <2>1. flow' \in [Package -> Flow] /\ \A q \in Package : flow'[q] = Idle
    BY <1>1, <1>6, FlowBegins DEF Restart
  <2>2. \A q \in Package : FlowOK(q)'
    <3>1. Idle.job = "none" /\ Idle.at = "idle" /\ Idle.todo = {} /\ Idle.next = 0 /\ Idle.snap = None
      BY DEF Idle
    <3>2. object' = object /\ \A q \in Package : ~object[q].exists => object[q].deleted
      BY <1>6 DEF Restart, FlowOK, TypeOK
    <3>3. QED
      BY <2>1, <3>1, <3>2 DEF FlowOK
  <2>3. trouble' \in [Package -> SUBSET Troubles]
    <3>1. \A q \in Package : trouble[q] \in SUBSET Troubles
      BY DEF TypeOK, Troubles
    <3>2. QED
      BY <1>6, <3>1, TroublesKnown DEF Restart
  <2>4. /\ listeners' \in [Package -> SUBSET Port] /\ gatewayMutex' \in Seq(Package) /\ secretMutex' \in Seq(Package)
        /\ due' \subseteq Package /\ faults' \in Nat
    BY <1>6 DEF Restart, ForgetWrites, TypeOK
  <2>5. QED
    BY <1>6, <2>1, <2>2, <2>3, <2>4 DEF Restart, TypeOK, mesh, Troubles
<1>7. QED
  BY <1>3, <1>4, <1>5, <1>6

(* Every step keeps the types.                                             *)
LEMMA TypeStep == TypeOK /\ [Next]_vars => TypeOK'
<1> SUFFICES ASSUME TypeOK, [Next]_vars PROVE TypeOK'
  OBVIOUS
<1>1. CASE UNCHANGED vars
  <2>1. /\ UNCHANGED <<namespace, workload, gateways, webhook, object, due, flow, listeners, gateway, secret>>
        /\ UNCHANGED <<gatewayMutex, secretMutex, before, changes, faults, trouble>>
    BY <1>1 DEF vars, mesh, gatewayVars, secretVars, bounds
  <2>2. \A q \in Package : FlowOK(q)'
    BY <2>1 DEF TypeOK, FlowOK, SnapSpec, WorkloadsOf
  <2>3. QED
    BY <2>1, <2>2 DEF TypeOK
<1>2. ASSUME NEW k \in Package, Step(k) PROVE TypeOK'
  BY <1>2, TypeOutside, TypeWorkloads, TypeMesh, TypeShared, TypeEnds DEF Step
<1>3. ASSUME NEW k \in Package, Fail(k) \/ Delete(k) \/ Learn(k) PROVE TypeOK'
  BY <1>3, TypeOutside, TypeEnds
<1>4. ASSUME NEW k \in Package, NEW spec \in Specs[k], Edit(k, spec) PROVE TypeOK'
  BY <1>4, TypeOutside, SpecsAssumption
<1>5. ASSUME NEW k \in Package, NEW w \in WorkloadsOf(k), FailPatch(k, w) PROVE TypeOK'
  BY <1>5, TypeWorkloads
<1>6. ASSUME NEW p \in Pod, Replace(p) PROVE TypeOK'
  BY <1>6, TypeWorkloads, WorkloadAssumption DEF WorkloadsOf, Workload
<1>7. ASSUME Restart PROVE TypeOK'
  <2>1. CASE Package = {}
    BY <1>7, <2>1 DEF Restart, ForgetWrites, TypeOK, mesh
  <2>2. CASE Package # {}
    BY <1>7, <2>2, TypeEnds
  <2>3. QED
    BY <2>1, <2>2
<1>8. QED
  BY <1>1, <1>2, <1>3, <1>4, <1>5, <1>6, <1>7 DEF Next

(* The state of packages, namespaces and workloads, and what the jobs rely *)
(* on, have the types the code gives them.                                 *)
THEOREM TypeCorrect == Spec => []TypeOK
  BY InitTyped, TypeStep, PTL DEF Spec

-----------------------------------------------------------------------------
(* What the steps do.                                                      *)

(* A step of package k, or of what is in its namespace.                    *)
StepOf(k) ==
  \/ Step(k) \/ Fail(k) \/ Delete(k) \/ Learn(k)
  \/ \E spec \in Specs[k] : Edit(k, spec)
  \/ \E w \in WorkloadsOf(k) : FailPatch(k, w) \/ (w \in Pod /\ Replace(w))

LEMMA Steps ==
  TypeOK /\ [Next]_vars => UNCHANGED vars \/ Restart \/ \E k \in Package : StepOf(k)
<1> SUFFICES ASSUME TypeOK, Next PROVE Restart \/ \E k \in Package : StepOf(k)
  OBVIOUS
<1>1. ASSUME NEW p \in Pod, Replace(p) PROVE \E k \in Package : StepOf(k)
  <2>1. In[p] \in Package /\ p \in WorkloadsOf(In[p])
    BY WorkloadAssumption DEF WorkloadsOf, Workload
  <2>2. QED
    BY <1>1, <2>1 DEF StepOf
<1>2. QED
  BY <1>1 DEF Next, StepOf

(* Nothing of another package changes but what is shared.                  *)
Apart(q) ==
  /\ flow'[q] = flow[q] /\ object'[q] = object[q] /\ (q \in due' <=> q \in due) /\ trouble'[q] = trouble[q]
  /\ namespace'[q] = namespace[q] /\ gateways'[q] = gateways[q] /\ webhook'[q] = webhook[q]
  /\ listeners'[q] = listeners[q] /\ before'[q] = before[q]
  /\ \A w \in WorkloadsOf(q) : workload'[w] = workload[w]

LEMMA Elsewhere ==
  ASSUME TypeOK, NEW k \in Package, StepOf(k), NEW q \in Package, q # k
  PROVE  Apart(q)
<1> USE DEF TypeOK
<1>1. ASSUME NEW w \in WorkloadsOf(k) PROVE In[w] = k /\ \A v \in WorkloadsOf(q) : v # w
  BY DEF WorkloadsOf
<1>2. ASSUME NEW w \in WorkloadsOf(k), KillPod(k, w) \/ LabelResource(k, w) \/ UnlabelResource(k, w) PROVE Apart(q)
  BY <1>1, <1>2 DEF Apart, KillPod, LabelResource, UnlabelResource, PatchLabel, WorkloadsOf, Troubled, gatewayVars,
                    secretVars, bounds
<1>3. ASSUME NEW w \in WorkloadsOf(k), FailPatch(k, w) \/ (w \in Pod /\ Replace(w)) PROVE Apart(q)
  BY <1>1, <1>3 DEF Apart, FailPatch, Replace, WorkloadsOf, Troubled, gatewayVars, secretVars, bounds, mesh
<1>4. ASSUME StartReconcile(k) \/ StartFinalize(k) \/ ApplyNamespace(k) PROVE Apart(q)
  BY <1>4 DEF Apart, StartReconcile, StartFinalize, ApplyNamespace, gatewayVars, secretVars, bounds, mesh
<1>5. ASSUME SetupAmbientWaypoint(k) \/ PurgeClients(k) \/ PurgeOrphans(k) PROVE Apart(q)
  BY <1>5 DEF Apart, SetupAmbientWaypoint, PurgeClients, PurgeOrphans, gatewayVars, secretVars, bounds, mesh,
              CreateWaypoint, PurgeWaypoints, Goto, Troubled
<1>6. ASSUME SetListeners(k) \/ BuildGateway(k) \/ WriteGateway(k) \/ ReadSecret(k) \/ WriteSecret(k) PROVE Apart(q)
  BY <1>6 DEF Apart, SetListeners, BuildGateway, WriteGateway, ReadSecret, WriteSecret, gatewayVars, secretVars, bounds,
              mesh, UpdateDefaultListenerMap, Goto
<1>7. ASSUME SetReady(k) \/ Gone(k) PROVE Apart(q)
  BY <1>7 DEF Apart, SetReady, Gone, gatewayVars, secretVars, bounds, mesh
<1>8. ASSUME Fail(k) PROVE Apart(q)
  BY <1>8 DEF Apart, Fail, GiveUp, mesh, Troubled
<1>9. ASSUME Delete(k) \/ Learn(k) \/ \E spec \in Specs[k] : Edit(k, spec) PROVE Apart(q)
  BY <1>9 DEF Apart, Delete, Learn, Edit, gatewayVars, secretVars, bounds, mesh
<1>10. QED
  BY <1>2, <1>3, <1>4, <1>5, <1>6, <1>7, <1>8, <1>9 DEF StepOf, Step

(* The flow of a package goes on, or its object changes.                   *)
Goes(k, at, todo, next, content) ==
  /\ flow'[k].job = flow[k].job /\ flow'[k].snap = flow[k].snap
  /\ flow'[k].at = at /\ flow'[k].todo = todo /\ flow'[k].next = next /\ flow'[k].content = content

Begins(k, job) ==
  /\ flow'[k].job = job /\ flow'[k].snap = object[k]
  /\ flow'[k].at = "get" /\ flow'[k].todo = {} /\ flow'[k].next = 0

Becomes(k, exists, deleted, spec, phase) ==
  /\ object'[k].exists = exists /\ object'[k].deleted = deleted /\ object'[k].spec = spec
  /\ object'[k].phase = phase

LEMMA Effects ==
  ASSUME TypeOK, NEW k \in Package
  PROVE  LET f == flow[k]
             o == object[k]
         IN  /\ \A spec : Edit(k, spec) => flow' = flow /\ Becomes(k, o.exists, o.deleted, spec, o.phase)
             /\ Delete(k) => flow' = flow /\ Becomes(k, o.exists, TRUE, o.spec, o.phase)
             /\ StartReconcile(k) => Begins(k, "reconcile") /\ Becomes(k, o.exists, o.deleted, o.spec, "Pending")
             /\ StartFinalize(k) => Begins(k, "finalize") /\ Becomes(k, o.exists, o.deleted, o.spec, "Removing")
             /\ SetReady(k) => flow'[k] = Idle /\ Becomes(k, o.exists, o.deleted, o.spec, "Ready")
             /\ Gone(k) => flow'[k] = Idle /\ Becomes(k, FALSE, o.deleted, o.spec, o.phase)
             /\ \A phase : GiveUp(k, phase) => flow'[k] = Idle /\ Becomes(k, o.exists, o.deleted, o.spec, phase)
             /\ ApplyNamespace(k) => \E todo \in SUBSET WorkloadsOf(k) : Goes(k, "kill", todo, f.next, f.content)
             /\ \A w : (KillPod(k, w) \/ LabelResource(k, w) \/ UnlabelResource(k, w) \/ FailPatch(k, w)
                         \/ (In[w] = k /\ Replace(w))) =>
                  Goes(k, f.at, f.todo \ {w}, f.next, f.content)
             /\ PurgeClients(k) => \E todo \in SUBSET WorkloadsOf(k) : Goes(k, "clean", todo, f.next, f.content)
             /\ PurgeOrphans(k) => Goes(k, IF f.job = "reconcile" THEN "gateway" ELSE "probe", f.todo, f.next, f.content)
             /\ SetListeners(k) => Goes(k, "build", f.todo, f.next, f.content)
             /\ BuildGateway(k) => Goes(k, "write", f.todo, f.next, DefaultListenerEntries)
             /\ WriteGateway(k) => Goes(k, IF f.job = "reconcile" THEN "probe" ELSE "gone", f.todo, f.next, f.content)
             /\ ReadSecret(k) => Goes(k, "save", f.todo, f.next, secret)
             /\ WriteSecret(k) => Goes(k, AfterSecret(k), f.todo, f.next, f.content)
<1> USE Snapped DEF TypeOK, Flow, ObjectState
<1>1. ASSUME NEW spec, Edit(k, spec) PROVE flow' = flow /\ Becomes(k, object[k].exists, object[k].deleted, spec, object[k].phase)
  <2>1. PICK gen : gen = object[k].gen + 1
    OBVIOUS
  <2>2. flow' = flow /\ object' = [object EXCEPT ![k].spec = spec, ![k].gen = gen]
    BY <1>1, <2>1 DEF Edit
  <2>3. QED
    BY <2>2 DEF Becomes
<1>2. ASSUME Delete(k) PROVE flow' = flow /\ Becomes(k, object[k].exists, TRUE, object[k].spec, object[k].phase)
  <2>1. PICK gen : gen = object[k].gen + 1
    OBVIOUS
  <2>2. flow' = flow /\ object' = [object EXCEPT ![k].deleted = TRUE, ![k].gen = gen]
    BY <1>2, <2>1 DEF Delete
  <2>3. QED
    BY <2>2 DEF Becomes
<1>3. ASSUME StartReconcile(k)
      PROVE  Begins(k, "reconcile") /\ Becomes(k, object[k].exists, object[k].deleted, object[k].spec, "Pending")
  <2>1. flow' = [flow EXCEPT ![k] = [Idle EXCEPT !.job = "reconcile", !.at = "get", !.snap = object[k]]]
    BY <1>3 DEF StartReconcile
  <2>2. object' = [object EXCEPT ![k].phase = "Pending"]
    BY <1>3 DEF StartReconcile
  <2>3. Begins(k, "reconcile")
    BY <2>1 DEF Begins, Idle
  <2>4. Becomes(k, object[k].exists, object[k].deleted, object[k].spec, "Pending")
    BY <2>2 DEF Becomes
  <2>5. QED
    BY <2>3, <2>4
<1>4. ASSUME StartFinalize(k)
      PROVE  Begins(k, "finalize") /\ Becomes(k, object[k].exists, object[k].deleted, object[k].spec, "Removing")
  <2>1. flow' = [flow EXCEPT ![k] = [Idle EXCEPT !.job = "finalize", !.at = "get", !.snap = object[k]]]
    BY <1>4 DEF StartFinalize
  <2>2. object' = [object EXCEPT ![k].phase = "Removing"]
    BY <1>4 DEF StartFinalize
  <2>3. Begins(k, "finalize")
    BY <2>1 DEF Begins, Idle
  <2>4. Becomes(k, object[k].exists, object[k].deleted, object[k].spec, "Removing")
    BY <2>2 DEF Becomes
  <2>5. QED
    BY <2>3, <2>4
<1>5. ASSUME SetReady(k)
      PROVE  flow'[k] = Idle /\ Becomes(k, object[k].exists, object[k].deleted, object[k].spec, "Ready")
  BY <1>5 DEF SetReady, Becomes
<1>6. ASSUME Gone(k)
      PROVE  flow'[k] = Idle /\ Becomes(k, FALSE, object[k].deleted, object[k].spec, object[k].phase)
  BY <1>6 DEF Gone, Becomes
<1>7. ASSUME NEW phase, GiveUp(k, phase)
      PROVE  flow'[k] = Idle /\ Becomes(k, object[k].exists, object[k].deleted, object[k].spec, phase)
  BY <1>7 DEF GiveUp, Becomes
<1>8. ASSUME ApplyNamespace(k)
      PROVE  \E todo \in SUBSET WorkloadsOf(k) : Goes(k, "kill", todo, flow[k].next, flow[k].content)
  <2>1. PICK todo \in SUBSET WorkloadsOf(k) : flow' = [flow EXCEPT ![k].at = "kill", ![k].todo = todo]
    BY <1>8 DEF ApplyNamespace, PodsToKill, WorkloadsOf
  <2>2. QED
    BY <2>1 DEF Goes
<1>9. ASSUME NEW w, KillPod(k, w) \/ LabelResource(k, w) \/ UnlabelResource(k, w) \/ FailPatch(k, w)
                    \/ (In[w] = k /\ Replace(w))
      PROVE  Goes(k, flow[k].at, flow[k].todo \ {w}, flow[k].next, flow[k].content)
  <2>1. flow' = [flow EXCEPT ![k].todo = @ \ {w}]
    BY <1>9 DEF KillPod, LabelResource, UnlabelResource, FailPatch, Replace
  <2>2. QED
    BY <2>1 DEF Goes
<1>10. ASSUME PurgeClients(k)
       PROVE  \E todo \in SUBSET WorkloadsOf(k) : Goes(k, "clean", todo, flow[k].next, flow[k].content)
  <2>1. PICK todo \in SUBSET WorkloadsOf(k) : flow' = [flow EXCEPT ![k].at = "clean", ![k].todo = todo]
    BY <1>10 DEF PurgeClients, HasLabelOf, WorkloadsOf
  <2>2. QED
    BY <2>1 DEF Goes
<1>11. ASSUME PurgeOrphans(k)
       PROVE  Goes(k, IF flow[k].job = "reconcile" THEN "gateway" ELSE "probe", flow[k].todo, flow[k].next, flow[k].content)
  <2>1. PICK at : at = (IF flow[k].job = "reconcile" THEN "gateway" ELSE "probe") /\ flow' = [flow EXCEPT ![k].at = at]
    BY <1>11 DEF PurgeOrphans, Goto
  <2>2. Goes(k, at, flow[k].todo, flow[k].next, flow[k].content)
    BY <2>1 DEF Goes
  <2>3. QED
    BY <2>1, <2>2
<1>12. ASSUME SetListeners(k) PROVE Goes(k, "build", flow[k].todo, flow[k].next, flow[k].content)
  BY <1>12 DEF SetListeners, Goto, Goes
<1>13. ASSUME BuildGateway(k) PROVE Goes(k, "write", flow[k].todo, flow[k].next, DefaultListenerEntries)
  <2>1. PICK content : content = DefaultListenerEntries
    OBVIOUS
  <2>2. flow' = [flow EXCEPT ![k].at = "write", ![k].content = content]
    BY <1>13, <2>1 DEF BuildGateway
  <2>3. Goes(k, "write", flow[k].todo, flow[k].next, content)
    BY <2>2 DEF Goes
  <2>4. QED
    BY <2>1, <2>3
<1>14. ASSUME WriteGateway(k)
       PROVE  Goes(k, IF flow[k].job = "reconcile" THEN "probe" ELSE "gone", flow[k].todo, flow[k].next, flow[k].content)
  BY <1>14 DEF WriteGateway, Goto, Goes
<1>15. ASSUME ReadSecret(k) PROVE Goes(k, "save", flow[k].todo, flow[k].next, secret)
  BY <1>15 DEF ReadSecret, Goes
<1>16. ASSUME WriteSecret(k) PROVE Goes(k, AfterSecret(k), flow[k].todo, flow[k].next, flow[k].content)
  <2>1. PICK at : at = AfterSecret(k) /\ flow' = [flow EXCEPT ![k].at = at]
    BY <1>16 DEF WriteSecret, Goto
  <2>2. Goes(k, at, flow[k].todo, flow[k].next, flow[k].content)
    BY <2>1 DEF Goes
  <2>3. QED
    BY <2>1, <2>2
<1>17. QED
  BY <1>1, <1>2, <1>3, <1>4, <1>5, <1>6, <1>7, <1>8, <1>9, <1>10, <1>11, <1>12, <1>13, <1>14, <1>15, <1>16

-----------------------------------------------------------------------------
(* The secret of the blackbox exporter.                                    *)

EntriesOf(k, s) == {e \in s : e[1] = k}

(* The mutex keeps all others away from what its holder has read; and a    *)
(* job that has written the secret leaves the modules it is to leave.      *)
SecretOK(k) ==
  /\ flow[k].at = "save" => secretMutex = <<k>> /\ flow[k].content = secret
  /\ flow[k].job = "reconcile" /\ k \notin due => object[k].spec = SnapSpec(k)
  /\ flow[k].at = "ready" => EntriesOf(k, secret) = Entries(k, SnapSpec(k).probes)
  /\ Settled(k) => EntriesOf(k, secret) = Entries(k, object[k].spec.probes)
  /\ flow[k].job = "finalize" /\ flow[k].at \in {"gateway", "build", "write", "gone"} => EntriesOf(k, secret) = {}
  /\ ~object[k].exists => EntriesOf(k, secret) = {}

SecretInv == \A k \in Package : SecretOK(k)

(* A package becomes settled by SetReady alone, and is gone by Gone alone. *)
LEMMA Settling ==
  ASSUME TypeOK, NEW k \in Package, StepOf(k)
  PROVE  /\ Settled(k)' => SetReady(k) \/ (Settled(k) /\ object'[k].spec = object[k].spec)
         /\ ~object'[k].exists => Gone(k) \/ ~object[k].exists
         /\ object[k].exists /\ flow'[k].job = "reconcile" /\ k \notin due' =>
              \/ SnapSpec(k)' = object'[k].spec
              \/ flow[k].job = "reconcile" /\ k \notin due /\ flow'[k].snap = flow[k].snap /\ object'[k].spec = object[k].spec
<1>1. Idle.job = "none" /\ Idle.at = "idle"
  BY DEF Idle
<1>2. ASSUME NEW w \in WorkloadsOf(k), FailPatch(k, w) \/ (w \in Pod /\ Replace(w)) \/ KillPod(k, w)
                    \/ LabelResource(k, w) \/ UnlabelResource(k, w)
      PROVE  Goes(k, flow[k].at, flow[k].todo \ {w}, flow[k].next, flow[k].content) /\ object' = object /\ due' = due
             /\ (flow'[k] = Idle => flow[k] = Idle)
  <2>1. In[w] = k
    BY DEF WorkloadsOf
  <2>2. Goes(k, flow[k].at, flow[k].todo \ {w}, flow[k].next, flow[k].content)
    BY <1>2, <2>1, Effects
  <2>3. object' = object /\ due' = due
    BY <1>2 DEF FailPatch, Replace, KillPod, LabelResource, UnlabelResource
  <2>4. flow'[k] = Idle => flow[k] = Idle
    BY <1>1, <2>2, Snapped DEF Goes, FlowOK
  <2>5. QED
    BY <2>2, <2>3, <2>4
<1>3. ASSUME NEW w \in WorkloadsOf(k), FailPatch(k, w) \/ (w \in Pod /\ Replace(w)) \/ KillPod(k, w)
                    \/ LabelResource(k, w) \/ UnlabelResource(k, w)
      PROVE  /\ Settled(k)' => Settled(k) /\ object'[k].spec = object[k].spec
             /\ ~object'[k].exists => ~object[k].exists
             /\ flow'[k].job = "reconcile" /\ k \notin due' =>
                  flow[k].job = "reconcile" /\ k \notin due /\ flow'[k].snap = flow[k].snap /\ object'[k].spec = object[k].spec
  BY <1>2, <1>3 DEF Goes, Settled
<1>4. ASSUME Learn(k) \/ Delete(k) \/ (\E spec \in Specs[k] : Edit(k, spec))
      PROVE  /\ Settled(k)' => Settled(k) /\ object'[k].spec = object[k].spec
             /\ ~object'[k].exists => ~object[k].exists
             /\ flow'[k].job = "reconcile" /\ k \notin due' =>
                  flow[k].job = "reconcile" /\ k \notin due /\ flow'[k].snap = flow[k].snap /\ object'[k].spec = object[k].spec
  <2>1. CASE Learn(k)
    BY <2>1 DEF Learn, Settled
  <2>2. CASE Delete(k)
    <3>1. flow' = flow /\ Becomes(k, object[k].exists, TRUE, object[k].spec, object[k].phase) /\ due' = due
      BY <2>2, Effects DEF Delete
    <3>2. QED
      BY <3>1 DEF Becomes, Settled
  <2>3. ASSUME NEW spec \in Specs[k], Edit(k, spec)
        PROVE  k \in due' /\ object'[k].exists = object[k].exists
    <3>1. Becomes(k, object[k].exists, object[k].deleted, spec, object[k].phase) /\ due' = due \cup {k}
      BY <2>3, Effects DEF Edit
    <3>2. QED
      BY <3>1 DEF Becomes
  <2>4. CASE \E spec \in Specs[k] : Edit(k, spec)
    BY <2>3, <2>4 DEF Settled
  <2>5. QED
    BY <1>4, <2>1, <2>2, <2>4
<1>5. ASSUME ApplyNamespace(k) \/ SetupAmbientWaypoint(k) \/ PurgeClients(k) \/ PurgeOrphans(k) \/ SetListeners(k)
             \/ BuildGateway(k) \/ WriteGateway(k) \/ ReadSecret(k) \/ WriteSecret(k)
      PROVE  /\ ~Settled(k)' /\ object' = object /\ due' = due
             /\ flow'[k].job = flow[k].job /\ flow'[k].snap = flow[k].snap
  <2>1. object' = object /\ due' = due
    BY <1>5 DEF ApplyNamespace, SetupAmbientWaypoint, PurgeClients, PurgeOrphans, SetListeners, BuildGateway,
                WriteGateway, ReadSecret, WriteSecret
  <2>2. flow[k].job # "none"
    <3>1. flow[k].at # "idle"
      BY <1>5 DEF ApplyNamespace, SetupAmbientWaypoint, PurgeClients, PurgeOrphans, SetListeners, BuildGateway,
                  WriteGateway, ReadSecret, WriteSecret, At
    <3>2. QED
      BY <3>1, Snapped
  <2>3. flow'[k].job = flow[k].job /\ flow'[k].snap = flow[k].snap
    <3>1. CASE SetupAmbientWaypoint(k)
      BY <3>1, Snapped DEF SetupAmbientWaypoint, TypeOK, Flow
    <3>2. CASE ~SetupAmbientWaypoint(k)
      BY <1>5, <3>2, Effects DEF Goes
    <3>3. QED
      BY <3>1, <3>2
  <2>4. QED
    BY <1>1, <2>1, <2>2, <2>3 DEF Settled
<1>6. ASSUME StartReconcile(k) \/ StartFinalize(k)
      PROVE  ~Settled(k)' /\ object[k].exists /\ object'[k].exists /\ SnapSpec(k)' = object'[k].spec
  <2>1. PICK job \in {"reconcile", "finalize"} : Begins(k, job) /\ \E phase : Becomes(k, object[k].exists, object[k].deleted, object[k].spec, phase)
    BY <1>6, Effects
  <2>2. object[k].exists
    BY <1>6 DEF StartReconcile, StartFinalize
  <2>3. QED
    BY <1>1, <2>1, <2>2 DEF Begins, Becomes, SnapSpec, Settled
<1>7. ASSUME SetReady(k) PROVE object[k].exists => object'[k].exists /\ flow'[k].job = "none"
  BY <1>1, <1>7, Effects DEF Becomes
<1>8. ASSUME Gone(k) PROVE ~Settled(k)' /\ flow'[k].job = "none"
  BY <1>1, <1>8, Effects DEF Becomes, Settled
<1>9. ASSUME Fail(k)
      PROVE  /\ ~Settled(k)' /\ object'[k].exists = object[k].exists
             /\ flow'[k].job = "reconcile" /\ k \notin due' =>
                  flow[k].job = "reconcile" /\ k \notin due /\ flow'[k].snap = flow[k].snap /\ object'[k].spec = object[k].spec
  <2>1. ASSUME NEW phase \in {"Retrying", "Failed", "RemovalFailed"}, GiveUp(k, phase)
        PROVE  ~Settled(k)' /\ flow'[k].job = "none" /\ object'[k].exists = object[k].exists
    BY <1>1, <2>1, Effects DEF Becomes, Settled
  <2>2. ASSUME flow' = [flow EXCEPT ![k] = [@ EXCEPT !.at = Block(flow[k]), !.todo = {}]], UNCHANGED <<object, due>>
        PROVE  ~Settled(k)' /\ flow'[k].job = flow[k].job /\ flow'[k].snap = flow[k].snap
    <3>1. flow[k].job # "none"
      BY <1>9, Snapped DEF Fail, Waits
    <3>2. flow'[k].job = flow[k].job /\ flow'[k].snap = flow[k].snap
      BY <2>2, Snapped DEF TypeOK, Flow
    <3>3. QED
      BY <1>1, <3>1, <3>2 DEF Settled
  <2>3. QED
    BY <1>9, <2>1, <2>2 DEF Fail
<1>10. QED
  BY <1>3, <1>4, <1>5, <1>6, <1>7, <1>8, <1>9 DEF StepOf, Step

(* The steps, by what they do to the flow and to the shared objects.       *)
SharedSame == UNCHANGED <<listeners, gateway, gatewayMutex, secret, secretMutex>>

SameJob(k) == flow'[k].job = flow[k].job /\ flow'[k].snap = flow[k].snap

Quiet(k) ==
  /\ SameJob(k) /\ SharedSame
  /\ flow'[k].at = flow[k].at /\ flow'[k].next = flow[k].next /\ flow'[k].content = flow[k].content

Meshes(k) ==
  /\ SameJob(k) /\ SharedSame /\ flow[k].at \in {"get", "kill", "label", "clean"}
  /\ flow'[k].at \in {"kill", "label", "clean", "gateway", "probe"}
  /\ flow'[k].at = "gateway" => flow[k].job = "reconcile"
  /\ flow'[k].at = "probe" => flow[k].job = "finalize"
  /\ flow[k].at = "get" => ApplyNamespace(k)
  /\ ApplyNamespace(k) \/ SetupAmbientWaypoint(k) \/ PurgeClients(k) \/ PurgeOrphans(k)

Starts(k) == SharedSame /\ (StartReconcile(k) \/ StartFinalize(k)) /\ \E job \in {"reconcile", "finalize"} : Begins(k, job)

Ends(k) == SharedSame /\ (SetReady(k) \/ Gone(k)) /\ flow'[k] = Idle

FailsFor(k) ==
  /\ Fail(k) /\ flow[k].at \in Waits /\ UNCHANGED <<listeners, gateway, secret>>
  /\ gatewayMutex' = IF flow[k].at = "write" THEN Release(gatewayMutex, k) ELSE gatewayMutex
  /\ secretMutex' = IF flow[k].at = "save" THEN Release(secretMutex, k) ELSE secretMutex
  /\ \/ flow'[k] = Idle
     \/ flow[k].job = "finalize" /\ SameJob(k) /\ flow'[k].at = Block(flow[k]) /\ flow'[k].next = flow[k].next

LEMMA Shapes ==
  ASSUME TypeOK, NEW k \in Package, StepOf(k)
  PROVE  \/ Quiet(k) \/ Meshes(k) \/ Starts(k) \/ Ends(k) \/ FailsFor(k)
         \/ SetListeners(k) \/ BuildGateway(k) \/ WriteGateway(k) \/ ReadSecret(k) \/ WriteSecret(k)
<1>1. ASSUME NEW w \in WorkloadsOf(k), FailPatch(k, w) \/ (w \in Pod /\ Replace(w)) \/ KillPod(k, w)
                    \/ LabelResource(k, w) \/ UnlabelResource(k, w)
      PROVE  Quiet(k)
  <2>1. Goes(k, flow[k].at, flow[k].todo \ {w}, flow[k].next, flow[k].content)
    <3>1. In[w] = k
      BY DEF WorkloadsOf
    <3>2. QED
      BY <1>1, <3>1, Effects
  <2>2. SharedSame
    BY <1>1 DEF FailPatch, Replace, KillPod, LabelResource, UnlabelResource, SharedSame, gatewayVars, secretVars
  <2>3. QED
    BY <2>1, <2>2 DEF Goes, Quiet, SameJob
<1>2. ASSUME Learn(k) \/ Delete(k) \/ (\E spec \in Specs[k] : Edit(k, spec)) PROVE Quiet(k)
  BY <1>2 DEF Learn, Delete, Edit, Quiet, SameJob, SharedSame, gatewayVars, secretVars
<1>3. ASSUME ApplyNamespace(k) \/ SetupAmbientWaypoint(k) \/ PurgeClients(k) \/ PurgeOrphans(k) PROVE Meshes(k)
  <2>1. SharedSame
    BY <1>3 DEF ApplyNamespace, SetupAmbientWaypoint, PurgeClients, PurgeOrphans, SharedSame, gatewayVars, secretVars
  <2>2. flow[k].at \in {"get", "kill", "label", "clean"} /\ (flow[k].at = "get" => ApplyNamespace(k))
    BY <1>3 DEF ApplyNamespace, SetupAmbientWaypoint, PurgeClients, PurgeOrphans, At
  <2>3. CASE SetupAmbientWaypoint(k)
    <3>1. flow'[k].job = flow[k].job /\ flow'[k].snap = flow[k].snap /\ flow'[k].at = "label"
      BY <2>3, Snapped DEF SetupAmbientWaypoint, TypeOK, Flow
    <3>2. QED
      BY <1>3, <2>1, <2>2, <3>1 DEF Meshes, SameJob
  <2>4. CASE ApplyNamespace(k) \/ PurgeClients(k)
    BY <1>3, <2>1, <2>2, <2>4, Effects DEF Meshes, SameJob, Goes
  <2>5. CASE PurgeOrphans(k)
    <3>1. flow[k].job \in {"reconcile", "finalize"}
      BY <2>5 DEF PurgeOrphans, At, Either, Reconcile, Finalize
    <3>2. QED
      BY <1>3, <2>1, <2>2, <2>5, <3>1, Effects DEF Meshes, SameJob, Goes
  <2>6. QED
    BY <1>3, <2>3, <2>4, <2>5
<1>4. ASSUME StartReconcile(k) \/ StartFinalize(k) PROVE Starts(k)
  BY <1>4, Effects DEF Starts, StartReconcile, StartFinalize, SharedSame, gatewayVars, secretVars
<1>5. ASSUME SetReady(k) \/ Gone(k) PROVE Ends(k)
  BY <1>5, Effects DEF Ends, SetReady, Gone, SharedSame, gatewayVars, secretVars
<1>6. ASSUME Fail(k) PROVE FailsFor(k)
  <2>1. /\ flow[k].at \in Waits /\ UNCHANGED <<listeners, gateway, secret>>
        /\ gatewayMutex' = IF flow[k].at = "write" THEN Release(gatewayMutex, k) ELSE gatewayMutex
        /\ secretMutex' = IF flow[k].at = "save" THEN Release(secretMutex, k) ELSE secretMutex
    BY <1>6 DEF Fail
  <2>2. ASSUME NEW phase, GiveUp(k, phase) PROVE flow'[k] = Idle
    BY <2>2, Effects
  <2>3. ASSUME flow[k].job # "reconcile", flow' = [flow EXCEPT ![k] = [@ EXCEPT !.at = Block(flow[k]), !.todo = {}]]
        PROVE  flow[k].job = "finalize" /\ SameJob(k) /\ flow'[k].at = Block(flow[k]) /\ flow'[k].next = flow[k].next
    <3>1. flow[k].job = "finalize"
      BY <2>1, <2>3, Snapped DEF Flow, Waits
    <3>2. PICK at : at = Block(flow[k])
      OBVIOUS
    <3>3. flow' = [flow EXCEPT ![k] = [@ EXCEPT !.at = at, !.todo = {}]]
      BY <2>3, <3>2
    <3>4. flow'[k].job = flow[k].job /\ flow'[k].snap = flow[k].snap /\ flow'[k].at = at /\ flow'[k].next = flow[k].next
      BY <3>3, Snapped DEF TypeOK, Flow
    <3>5. QED
      BY <3>1, <3>2, <3>4 DEF SameJob
  <2>4. QED
    BY <1>6, <2>1, <2>2, <2>3 DEF Fail, FailsFor
<1>7. QED
  BY <1>1, <1>2, <1>3, <1>4, <1>5, <1>6 DEF StepOf, Step

LEMMA SecretStep == TypeOK /\ SecretInv /\ [Next]_vars => SecretInv'
<1> SUFFICES ASSUME TypeOK, SecretInv, [Next]_vars PROVE SecretInv'
  OBVIOUS
<1>1. Idle.job = "none" /\ Idle.at = "idle"
  BY DEF Idle
<1>2. CASE UNCHANGED vars
  <2>1. UNCHANGED <<flow, object, due, secret, secretMutex>>
    BY <1>2 DEF vars, secretVars
  <2>2. QED
    BY <2>1 DEF SecretInv, SecretOK, Settled, SnapSpec, EntriesOf
<1>3. CASE Restart
  <2>1. ASSUME NEW q \in Package PROVE SecretOK(q)'
    <3>1. /\ flow'[q] = Idle /\ object'[q] = object[q] /\ secret' = secret /\ (object[q].exists => q \in due')
      BY <1>3 DEF Restart
    <3>2. ~Settled(q)'
      BY <3>1 DEF Settled
    <3>3. SecretOK(q)
      BY DEF SecretInv
    <3>4. QED
      BY <1>1, <3>1, <3>2, <3>3 DEF SecretOK, EntriesOf
  <2>2. QED
    BY <2>1 DEF SecretInv
<1>4. ASSUME NEW k \in Package, StepOf(k) PROVE SecretInv'
  <2>1. SecretOK(k) /\ flow[k] \in Flow /\ FlowOK(k)
    BY Snapped DEF SecretInv
  <2>2. ASSUME NEW q \in Package, q # k,
               flow[q].at = "save" => secretMutex' = secretMutex /\ secret' = secret,
               EntriesOf(q, secret)' = EntriesOf(q, secret)
        PROVE  SecretOK(q)'
    <3>1. SecretOK(q) /\ Apart(q)
      BY <1>4, <2>2, Elsewhere DEF SecretInv
    <3>2. QED
      BY <2>2, <3>1 DEF SecretOK, Apart, Settled, SnapSpec, EntriesOf
  <2>3. \A q \in Package : q # k /\ flow[q].at = "save" => secretMutex # <<>> /\ secretMutex # <<k>>
    BY DEF SecretInv, SecretOK
  <2>4. ASSUME secret' = secret, secretMutex' = secretMutex, flow'[k].at = "save" => flow[k].at = "save"
                 /\ flow'[k].content = flow[k].content,
               flow'[k].at = "ready" => flow[k].at = "ready" /\ SnapSpec(k)' = SnapSpec(k),
               flow'[k].job = "finalize" /\ flow'[k].at \in {"gateway", "build", "write", "gone"} =>
                 flow[k].job = "finalize" /\ flow[k].at \in {"gateway", "build", "write", "gone"}
        PROVE  SecretInv'
    <3>1. ASSUME NEW q \in Package, q # k PROVE SecretOK(q)'
      BY <2>2, <2>4, <3>1 DEF EntriesOf
    <3>2. EntriesOf(k, secret)' = EntriesOf(k, secret)
      BY <2>4 DEF EntriesOf
    <3>3. Settled(k)' => EntriesOf(k, secret) = Entries(k, object'[k].spec.probes)
      <4>1. CASE ~SetReady(k)
        BY <1>4, <2>1, <4>1, Settling DEF SecretOK
      <4>2. CASE SetReady(k)
        <5>1. flow[k].at = "ready" /\ flow[k].job = "reconcile" /\ due' = due /\ object'[k].spec = object[k].spec
          BY <4>2, Effects DEF SetReady, At, Reconcile, Becomes
        <5>2. k \notin due => object[k].spec = SnapSpec(k)
          BY <2>1, <5>1 DEF SecretOK
        <5>3. QED
          BY <2>1, <5>1, <5>2 DEF SecretOK, Settled
      <4>3. QED
        BY <4>1, <4>2
    <3>4. ~object'[k].exists => EntriesOf(k, secret) = {}
      <4>1. Gone(k) => flow[k].job = "finalize" /\ flow[k].at = "gone"
        BY DEF Gone, At, Finalize
      <4>2. QED
        BY <1>4, <2>1, <4>1, Settling DEF SecretOK
    <3>5. flow'[k].job = "reconcile" /\ k \notin due' => object'[k].spec = SnapSpec(k)'
      <4>1. flow'[k].job = "reconcile" => object[k].exists
        <5>1. flow[k].job # "none" \/ StartReconcile(k) \/ StartFinalize(k) => object[k].exists
          BY <2>1 DEF FlowOK, StartReconcile, StartFinalize
        <5>2. flow'[k].job = "reconcile" => flow[k].job # "none" \/ StartReconcile(k) \/ StartFinalize(k)
          <6>1. SetListeners(k) \/ BuildGateway(k) \/ WriteGateway(k) \/ ReadSecret(k) \/ WriteSecret(k) => flow[k].job # "none"
            BY Snapped DEF SetListeners, BuildGateway, WriteGateway, ReadSecret, WriteSecret, At
          <6>2. QED
            BY <1>1, <1>4, <6>1, Shapes DEF Quiet, Meshes, Starts, Ends, FailsFor, SameJob
        <5>3. QED
          BY <5>1, <5>2
      <4>2. QED
        BY <1>4, <2>1, <4>1, Settling DEF SecretOK, SnapSpec
    <3>6. SecretOK(k)'
      BY <2>1, <2>4, <3>2, <3>3, <3>4, <3>5 DEF SecretOK
    <3>7. QED
      BY <3>1, <3>6 DEF SecretInv
  <2>5. CASE Quiet(k)
    BY <2>4, <2>5 DEF Quiet, SameJob, SharedSame, SnapSpec
  <2>6. CASE Meshes(k) \/ Starts(k) \/ Ends(k)
    BY <1>1, <2>1, <2>4, <2>6 DEF Meshes, Starts, Begins, Ends, SameJob, SharedSame, FlowOK
  <2>7. CASE SetListeners(k) \/ BuildGateway(k) \/ WriteGateway(k)
    <3>1. secret' = secret /\ secretMutex' = secretMutex
      BY <2>7 DEF SetListeners, BuildGateway, WriteGateway, secretVars
    <3>2. flow[k].at \in {"gateway", "build", "write"} /\ flow'[k].at \in {"build", "write", "probe", "gone"}
          /\ flow'[k].job = flow[k].job
      BY <2>7, Effects DEF Goes, SetListeners, BuildGateway, WriteGateway, At
    <3>3. QED
      BY <2>4, <3>1, <3>2
  <2>8. CASE ReadSecret(k)
    <3>1. /\ secretMutex = <<>> /\ secretMutex' = <<k>> /\ secret' = secret /\ object' = object /\ due' = due
          /\ flow[k].at = "probe"
      BY <2>8 DEF ReadSecret, Acquire, At
    <3>2. Goes(k, "save", flow[k].todo, flow[k].next, secret)
      BY <2>8, Effects
    <3>3. SecretOK(k)'
      BY <1>1, <2>1, <3>1, <3>2 DEF SecretOK, Goes, Settled, SnapSpec, EntriesOf
    <3>4. QED
      BY <2>2, <2>3, <3>1, <3>3 DEF SecretInv, EntriesOf
  <2>9. CASE WriteSecret(k)
    <3>1. flow[k].at = "save" /\ flow[k].job \in {"reconcile", "finalize"} /\ object' = object /\ due' = due
      BY <2>9 DEF WriteSecret, At, Either, Reconcile, Finalize
    <3>2. secretMutex = <<k>> /\ flow[k].content = secret
      BY <2>1, <3>1 DEF SecretOK
    <3>3. PICK probes : /\ secret' = {m \in secret : m[1] # k} \cup Entries(k, probes)
                        /\ probes = IF flow[k].job = "reconcile" THEN SnapSpec(k).probes ELSE {}
      BY <2>9, <3>2 DEF WriteSecret, UpdatedModules
    <3>4. EntriesOf(k, secret)' = Entries(k, probes)
      BY <3>3 DEF EntriesOf, Entries
    <3>5. \A q \in Package : q # k => EntriesOf(q, secret)' = EntriesOf(q, secret)
      BY <3>3 DEF EntriesOf, Entries
    <3>6. Goes(k, AfterSecret(k), flow[k].todo, flow[k].next, flow[k].content)
      BY <2>9, Effects
    <3>7. /\ flow[k].job = "reconcile" => AfterSecret(k) = "ready"
          /\ flow[k].job = "finalize" => AfterSecret(k) \in {"gateway", "gone"}
      BY DEF AfterSecret
    <3>8. probes = {} => Entries(k, probes) = {}
      BY DEF Entries
    <3>9. object[k].exists
      BY <2>1, <3>1 DEF FlowOK
    <3>10. SecretOK(k)'
      BY <1>1, <2>1, <3>1, <3>3, <3>4, <3>6, <3>7, <3>8, <3>9 DEF SecretOK, Goes, Settled, SnapSpec
    <3>11. QED
      BY <2>2, <2>3, <3>2, <3>5, <3>10 DEF SecretInv
  <2>10. CASE FailsFor(k)
    <3>1. secret' = secret /\ Fail(k)
      BY <2>10 DEF FailsFor
    <3>2. CASE flow[k].at # "save"
      <4>1. flow'[k] = Idle \/ (flow'[k].job = flow[k].job /\ flow'[k].at = Block(flow[k]))
        BY <2>10 DEF FailsFor, SameJob
      <4>2. flow[k].at \in Waits => Block(flow[k]) \in {"get", "kill", "label", "gateway", "probe"}
                /\ (Block(flow[k]) = "gateway" => flow[k].at \in {"gateway", "write"})
        BY <3>2 DEF Block, Waits
      <4>3. secretMutex' = secretMutex /\ flow[k].at \in Waits
        BY <2>10, <3>2 DEF FailsFor
      <4>4. QED
        BY <1>1, <2>4, <3>1, <4>1, <4>2, <4>3
    <3>3. CASE flow[k].at = "save"
      <4>1. Block(flow[k]) = "probe" /\ secretMutex = <<k>>
        BY <2>1, <3>3 DEF Block, SecretOK
      <4>2. flow'[k].at \in {"idle", "probe"}
        BY <1>1, <2>10, <4>1 DEF FailsFor
      <4>3. ASSUME NEW q \in Package, q # k PROVE SecretOK(q)'
        BY <2>2, <2>3, <3>1, <4>1, <4>3 DEF EntriesOf
      <4>4. ~Settled(k)' /\ object'[k].exists
        <5>1. object[k].exists /\ ~Gone(k) /\ ~SetReady(k) /\ ~Settled(k)
          BY <1>1, <2>1, <3>3 DEF FlowOK, Gone, SetReady, At, Settled
        <5>2. QED
          BY <1>4, <5>1, Settling
      <4>5. flow'[k].job = "reconcile" /\ k \notin due' => object'[k].spec = SnapSpec(k)'
        <5>1. object[k].exists
          BY <1>1, <2>1, <3>3 DEF FlowOK
        <5>2. QED
          BY <1>4, <2>1, <5>1, Settling DEF SecretOK, SnapSpec
      <4>6. SecretOK(k)'
        BY <4>2, <4>4, <4>5 DEF SecretOK
      <4>7. QED
        BY <4>3, <4>6 DEF SecretInv
    <3>4. QED
      BY <3>2, <3>3
  <2>11. QED
    BY <1>4, <2>5, <2>6, <2>7, <2>8, <2>9, <2>10, Shapes
<1>5. QED
  BY <1>2, <1>3, <1>4, Steps

-----------------------------------------------------------------------------
(* The gateway of UDP listeners.                                           *)

Served(k, ports) == listeners[k] = ports /\ EntriesOf(k, gateway) = Entries(k, ports)

(* Who writes the gateway holds the mutex, and writes what the map says of *)
(* all packages but those that changed it and wait for their turn.         *)
WriterOK(k) ==
  flow[k].at = "write" =>
    /\ Holds(gatewayMutex, k)
    /\ \A q \in Package : flow[q].at # "build" => EntriesOf(q, flow[k].content) = Entries(q, listeners[q])

(* A job has the ports it is to have in the map, and from the write on in  *)
(* the gateway. What is left after a request failed for good is not known. *)
ServedOK(k) ==
  /\ Settled(k) => Served(k, object[k].spec.ports)
  /\ flow[k].job = "reconcile" /\ flow[k].at \in {"build", "write"} => listeners[k] = SnapSpec(k).ports
  /\ flow[k].job = "reconcile" /\ flow[k].at \in {"probe", "save", "ready"} => Served(k, SnapSpec(k).ports)
  /\ object[k].phase = "Failed" => "request" \in trouble[k]
  /\ flow[k].job = "finalize" /\ flow[k].at \in {"get", "kill", "clean", "probe", "save", "gateway"} =>
       "request" \in trouble[k] \/ Served(k, SnapSpec(k).ports)
  /\ flow[k].job = "finalize" /\ flow[k].at \in {"build", "write"} => listeners[k] = {}
  /\ flow[k].job = "finalize" /\ flow[k].at = "gone" => "request" \in trouble[k] \/ Served(k, {})
  /\ ~object[k].exists => "request" \in trouble[k] \/ Served(k, {})

GatewayInv == \A k \in Package : WriterOK(k) /\ ServedOK(k)

(* What went wrong is not forgotten, and nothing fails but by a failure.   *)
LEMMA Troubling ==
  ASSUME TypeOK, NEW k \in Package, StepOf(k)
  PROVE  /\ trouble[k] \subseteq trouble'[k]
         /\ Fail(k) => "request" \in trouble'[k]
         /\ object'[k].phase = "Failed" => object[k].phase = "Failed" \/ Fail(k)
         /\ object'[k].phase = "Ready" => object[k].phase = "Ready" \/ SetReady(k)
         /\ object'[k].exists => object[k].exists
<1> USE DEF TypeOK
<1>1. ASSUME NEW what, Troubled(k, what) PROVE trouble[k] \subseteq trouble'[k] /\ what \subseteq trouble'[k]
  BY <1>1 DEF Troubled
<1>2. ASSUME NEW w \in WorkloadsOf(k), FailPatch(k, w) \/ (w \in Pod /\ Replace(w)) \/ KillPod(k, w)
                    \/ LabelResource(k, w) \/ UnlabelResource(k, w)
      PROVE  trouble[k] \subseteq trouble'[k] /\ object' = object
  <2>1. In[w] = k
    BY DEF WorkloadsOf
  <2>2. trouble' = trouble \/ \E what : Troubled(k, what)
    BY <1>2, <2>1 DEF FailPatch, Replace, KillPod, LabelResource, UnlabelResource
  <2>3. object' = object
    BY <1>2 DEF FailPatch, Replace, KillPod, LabelResource, UnlabelResource
  <2>4. QED
    BY <1>1, <2>2, <2>3
<1>3. ASSUME Learn(k) \/ Delete(k) \/ (\E spec \in Specs[k] : Edit(k, spec))
      PROVE  trouble' = trouble /\ object'[k].phase = object[k].phase /\ object'[k].exists = object[k].exists
  <2>1. Learn(k) => object' = object
    BY DEF Learn
  <2>2. QED
    BY <1>3, <2>1, Effects DEF Learn, Delete, Edit, Becomes
<1>4. ASSUME ApplyNamespace(k) \/ SetupAmbientWaypoint(k) \/ PurgeClients(k) \/ PurgeOrphans(k) \/ SetListeners(k)
             \/ BuildGateway(k) \/ WriteGateway(k) \/ ReadSecret(k) \/ WriteSecret(k)
      PROVE  trouble[k] \subseteq trouble'[k] /\ object' = object
  <2>1. trouble' = trouble \/ \E what : Troubled(k, what)
    BY <1>4 DEF ApplyNamespace, SetupAmbientWaypoint, PurgeClients, PurgeOrphans, SetListeners, BuildGateway,
                WriteGateway, ReadSecret, WriteSecret
  <2>2. object' = object
    BY <1>4 DEF ApplyNamespace, SetupAmbientWaypoint, PurgeClients, PurgeOrphans, SetListeners, BuildGateway,
                WriteGateway, ReadSecret, WriteSecret
  <2>3. QED
    BY <1>1, <2>1, <2>2
<1>5. ASSUME StartReconcile(k) \/ StartFinalize(k) \/ SetReady(k) \/ Gone(k)
      PROVE  /\ trouble' = trouble /\ (object'[k].phase = "Failed" => object[k].phase = "Failed")
             /\ object'[k].phase = "Ready" => object[k].phase = "Ready" \/ SetReady(k)
             /\ object'[k].exists => object[k].exists
  BY <1>5, Effects DEF StartReconcile, StartFinalize, SetReady, Gone, Becomes
<1>6. ASSUME Fail(k)
      PROVE  /\ trouble[k] \subseteq trouble'[k] /\ "request" \in trouble'[k]
             /\ object'[k].phase = "Ready" => object[k].phase = "Ready"
             /\ object'[k].exists => object[k].exists
  <2>1. Troubled(k, {"request"} \cup Interrupted(k))
    BY <1>6 DEF Fail
  <2>2. object' = object \/ \E phase \in {"Retrying", "Failed", "RemovalFailed"} : GiveUp(k, phase)
    BY <1>6 DEF Fail
  <2>3. \A phase \in {"Retrying", "Failed", "RemovalFailed"} : GiveUp(k, phase) =>
          object'[k].phase # "Ready" /\ object'[k].exists = object[k].exists
    BY Effects DEF Becomes
  <2>4. QED
    BY <1>1, <2>1, <2>2, <2>3
<1>7. QED
  BY <1>2, <1>3, <1>4, <1>5, <1>6 DEF StepOf, Step

LEMMA GatewayStep == TypeOK /\ SecretInv /\ GatewayInv /\ [Next]_vars => GatewayInv'
<1> SUFFICES ASSUME TypeOK, SecretInv, GatewayInv, [Next]_vars PROVE GatewayInv'
  OBVIOUS
<1>1. Idle.job = "none" /\ Idle.at = "idle"
  BY DEF Idle
<1>2. CASE UNCHANGED vars
  <2>1. UNCHANGED <<flow, object, due, trouble, listeners, gateway, gatewayMutex>>
    BY <1>2 DEF vars, gatewayVars
  <2>2. QED
    BY <2>1 DEF GatewayInv, WriterOK, ServedOK, Settled, SnapSpec, EntriesOf, Served, Holds
<1>3. CASE Restart
  <2>1. ASSUME NEW q \in Package PROVE WriterOK(q)' /\ ServedOK(q)'
    <3>1. /\ flow'[q] = Idle /\ object'[q] = object[q] /\ gateway' = gateway /\ listeners'[q] = {}
          /\ (object[q].exists => q \in due') /\ trouble[q] \subseteq trouble'[q]
      BY <1>3 DEF Restart, ForgetWrites, TypeOK
    <3>2. ~Settled(q)'
      BY <3>1 DEF Settled
    <3>3. ServedOK(q)
      BY DEF GatewayInv
    <3>4. QED
      BY <1>1, <3>1, <3>2, <3>3 DEF ServedOK, WriterOK, EntriesOf, Served
  <2>2. QED
    BY <2>1 DEF GatewayInv
<1>4. ASSUME NEW k \in Package, StepOf(k) PROVE GatewayInv'
  <2>1. WriterOK(k) /\ ServedOK(k) /\ SecretOK(k) /\ flow[k] \in Flow /\ FlowOK(k)
    BY Snapped DEF GatewayInv, SecretInv
  <2>2. /\ trouble[k] \subseteq trouble'[k] /\ (Fail(k) => "request" \in trouble'[k])
        /\ object'[k].phase = "Failed" => "request" \in trouble'[k]
    BY <1>4, <2>1, Troubling DEF ServedOK
  <2>3. \A q \in Package : flow[q].at = "write" => Holds(gatewayMutex, q) /\ (flow[k].at = "write" => q = k)
    BY <2>1 DEF GatewayInv, WriterOK, Holds
  (* The others are served as before if their entries stay. *)
  <2>4. ASSUME NEW q \in Package, q # k,
               flow[q].at # "build" => EntriesOf(q, gateway)' = EntriesOf(q, gateway)
                                       \/ EntriesOf(q, gateway)' = Entries(q, listeners[q])
        PROVE  ServedOK(q)'
    <3>1. ServedOK(q) /\ Apart(q)
      BY <1>4, <2>4, Elsewhere DEF GatewayInv
    <3>2. \A ports : flow[q].at # "build" /\ Served(q, ports) => Served(q, ports)'
      BY <2>4, <3>1 DEF Served, Apart
    <3>3. Settled(q)' <=> Settled(q)
      BY <3>1 DEF Apart, Settled
    <3>4. Settled(q) => flow[q].at # "build"
      BY <1>1 DEF Settled
    <3>5. ~object[q].exists => flow[q].at # "build"
      BY <1>1, Snapped DEF FlowOK
    <3>6. SnapSpec(q)' = SnapSpec(q)
      BY <3>1 DEF SnapSpec, Apart
    <3>7. QED
      BY <3>1, <3>2, <3>3, <3>4, <3>5, <3>6 DEF ServedOK, Apart
  (* The writers go on if nobody takes the map or the mutex. *)
  <2>5. ASSUME listeners' = listeners, gatewayMutex' = gatewayMutex,
               flow[k].at = "build" => flow'[k].at = "build",
               flow'[k].at = "write" => flow[k].at = "write" /\ flow'[k].content = flow[k].content
        PROVE  \A q \in Package : WriterOK(q)'
    <3>1. \A q \in Package : q # k => flow'[q] = flow[q]
      BY <1>4, Elsewhere DEF Apart
    <3>2. ASSUME NEW q \in Package, flow'[q].at = "write"
          PROVE  Holds(gatewayMutex, q)' /\ flow'[q].content = flow[q].content /\ flow[q].at = "write"
      BY <2>3, <2>5, <3>1, <3>2 DEF Holds
    <3>3. \A p \in Package : flow'[p].at # "build" => flow[p].at # "build"
      BY <2>5, <3>1
    <3>4. ASSUME NEW q \in Package, flow'[q].at = "write", NEW p \in Package, flow'[p].at # "build"
          PROVE  EntriesOf(p, flow'[q].content) = Entries(p, listeners'[p])
      <4>1. WriterOK(q) /\ flow[q].at = "write" /\ flow'[q].content = flow[q].content
        BY <3>2, <3>4 DEF GatewayInv
      <4>2. QED
        BY <2>5, <3>3, <3>4, <4>1 DEF WriterOK
    <3>5. QED
      BY <3>2, <3>4 DEF WriterOK, EntriesOf, Entries
  <2>6. ASSUME ServedOK(k)', UNCHANGED <<listeners, gateway, gatewayMutex>>,
               flow[k].at = "build" => flow'[k].at = "build",
               flow'[k].at = "write" => flow[k].at = "write" /\ flow'[k].content = flow[k].content
        PROVE  GatewayInv'
    <3>1. \A q \in Package : q # k => ServedOK(q)'
      BY <2>4, <2>6 DEF EntriesOf
    <3>2. QED
      BY <2>5, <2>6, <3>1 DEF GatewayInv
  <2>7. ASSUME UNCHANGED <<listeners, gateway>> PROVE \A ports : Served(k, ports) <=> Served(k, ports)'
    BY <2>7 DEF Served, EntriesOf
  <2>8. /\ Settled(k)' => SetReady(k) \/ (Settled(k) /\ object'[k].spec = object[k].spec)
        /\ ~object'[k].exists => Gone(k) \/ ~object[k].exists
    BY <1>4, Settling
  <2>9. CASE Quiet(k)
    <3>1. UNCHANGED <<listeners, gateway, gatewayMutex>> /\ SameJob(k) /\ flow'[k].at = flow[k].at
          /\ flow'[k].content = flow[k].content
      BY <2>9 DEF Quiet, SharedSame
    <3>2. SetReady(k) \/ Gone(k) => FALSE
      BY <1>1, <3>1, Effects DEF SetReady, Gone, At
    <3>3. SnapSpec(k)' = SnapSpec(k)
      BY <3>1 DEF SameJob, SnapSpec
    <3>4. ServedOK(k)'
      BY <2>1, <2>2, <2>7, <2>8, <3>1, <3>2, <3>3 DEF ServedOK, SameJob, Served
    <3>5. QED
      BY <2>6, <3>1, <3>4
  <2>10. CASE Meshes(k)
    <3>1. UNCHANGED <<listeners, gateway, gatewayMutex>> /\ SameJob(k) /\ flow[k].at \in {"get", "kill", "label", "clean"}
          /\ flow'[k].at \in {"kill", "label", "clean", "gateway", "probe"}
          /\ (flow'[k].at = "gateway" => flow[k].job = "reconcile") /\ (flow'[k].at = "probe" => flow[k].job = "finalize")
      BY <2>10 DEF Meshes, SharedSame
    <3>2. SetReady(k) \/ Gone(k) => FALSE
      BY <3>1 DEF SetReady, Gone, At
    <3>3. SnapSpec(k)' = SnapSpec(k)
      BY <3>1 DEF SameJob, SnapSpec
    <3>4. flow[k].job = "finalize" => flow[k].at # "label"
      BY <2>1 DEF FlowOK
    <3>5. ServedOK(k)'
      BY <2>1, <2>2, <2>7, <2>8, <3>1, <3>2, <3>3, <3>4 DEF ServedOK, SameJob
    <3>6. QED
      BY <2>6, <3>1, <3>5
  <2>11. CASE Starts(k)
    <3>1. UNCHANGED <<listeners, gateway, gatewayMutex>> /\ flow[k] = Idle
      BY <2>11 DEF Starts, SharedSame, StartReconcile, StartFinalize
    <3>2. PICK job \in {"reconcile", "finalize"} : Begins(k, job)
      BY <2>11 DEF Starts
    <3>3. ~Settled(k)' /\ object[k].exists
      BY <1>1, <2>11, <3>2 DEF Starts, Begins, Settled, StartReconcile, StartFinalize
    <3>4. job = "finalize" => StartFinalize(k)
      BY <2>11, <3>2, Effects DEF Starts, Begins
    <3>5. SnapSpec(k)' = object[k].spec /\ flow'[k].at = "get" /\ flow'[k].job = job
      BY <3>2 DEF Begins, SnapSpec
    <3>6. job = "finalize" => "request" \in trouble[k] \/ Served(k, object[k].spec.ports)
      BY <2>1, <3>1, <3>4 DEF StartFinalize, ServedOK, Settled
    <3>7. ~Gone(k)
      BY <1>1, <3>1 DEF Gone, At
    <3>8. ServedOK(k)'
      BY <2>2, <2>7, <2>8, <3>1, <3>3, <3>5, <3>6, <3>7 DEF ServedOK
    <3>9. QED
      BY <1>1, <2>6, <3>1, <3>5, <3>8
  <2>12. CASE Ends(k)
    <3>1. UNCHANGED <<listeners, gateway, gatewayMutex>> /\ flow'[k] = Idle /\ flow[k].at \in {"ready", "gone"}
      BY <2>12 DEF Ends, SharedSame, SetReady, Gone, At
    <3>2. Gone(k) => flow[k].job = "finalize" /\ flow[k].at = "gone" /\ ~Settled(k)'
      BY Effects DEF Gone, At, Finalize, Settled, Becomes
    <3>3. SetReady(k) => flow[k].job = "reconcile" /\ flow[k].at = "ready" /\ object'[k].spec = object[k].spec /\ due' = due
      BY Effects DEF SetReady, At, Reconcile, Becomes
    <3>4. ~Settled(k) /\ object[k].exists
      BY <1>1, <2>1, <3>1 DEF Settled, FlowOK
    <3>5. Settled(k)' => Served(k, object'[k].spec.ports)
      <4>1. Settled(k)' => k \notin due'
        BY DEF Settled
      <4>2. QED
        BY <2>1, <2>8, <3>3, <3>4, <4>1 DEF ServedOK, SecretOK
    <3>6. ~object'[k].exists => "request" \in trouble[k] \/ Served(k, {})
      BY <2>1, <2>8, <3>2, <3>4 DEF ServedOK
    <3>7. ServedOK(k)'
      BY <1>1, <2>2, <2>7, <3>1, <3>5, <3>6 DEF ServedOK
    <3>8. QED
      BY <1>1, <2>6, <3>1, <3>7
  <2>13. CASE FailsFor(k)
    <3>1. UNCHANGED <<listeners, gateway>> /\ Fail(k) /\ flow[k].at \in Waits
          /\ (flow'[k] = Idle \/ (flow[k].job = "finalize" /\ SameJob(k) /\ flow'[k].at = Block(flow[k])))
          /\ gatewayMutex' = IF flow[k].at = "write" THEN Release(gatewayMutex, k) ELSE gatewayMutex
      BY <2>13 DEF FailsFor
    <3>2. SetReady(k) \/ Gone(k) => FALSE
      BY <3>1 DEF SetReady, Gone, At, Waits
    <3>3. ~Settled(k) /\ object[k].exists
      BY <1>1, <2>1, <3>1 DEF Settled, FlowOK, Waits
    <3>4. Block(flow[k]) \in {"get", "kill", "label", "gateway", "probe"}
      BY <3>1 DEF Block, Waits
    <3>5. ServedOK(k)'
      BY <1>1, <2>2, <2>8, <3>1, <3>2, <3>3, <3>4 DEF ServedOK, SameJob
    <3>6. flow'[k].at \notin {"build", "write"} /\ flow[k].at # "build"
      BY <1>1, <3>1, <3>4 DEF Waits
    <3>7. CASE flow[k].at # "write"
      BY <2>6, <3>1, <3>5, <3>6, <3>7
    <3>8. CASE flow[k].at = "write"
      <4>1. \A q \in Package : q # k => ServedOK(q)'
        BY <2>4, <3>1 DEF EntriesOf
      <4>2. ASSUME NEW q \in Package PROVE flow'[q].at # "write"
        <5>1. q # k => flow'[q] = flow[q]
          BY <1>4, Elsewhere DEF Apart
        <5>2. QED
          BY <2>3, <3>6, <3>8, <5>1
      <4>3. QED
        BY <3>5, <4>1, <4>2 DEF GatewayInv, WriterOK
    <3>9. QED
      BY <3>7, <3>8
  <2>14. CASE ReadSecret(k) \/ WriteSecret(k)
    <3>1. UNCHANGED <<listeners, gateway, gatewayMutex>> /\ object' = object
      BY <2>14 DEF ReadSecret, WriteSecret, gatewayVars
    <3>2. flow[k].at \in {"probe", "save"} /\ flow[k].job \in {"reconcile", "finalize"}
      BY <2>14 DEF ReadSecret, WriteSecret, At, Either, Reconcile, Finalize
    <3>3. SameJob(k)
      BY <2>14, Effects DEF Goes, SameJob
    <3>4. /\ flow[k].job = "reconcile" => flow'[k].at \in {"save", "ready"}
          /\ flow[k].job = "finalize" => flow'[k].at \in {"save", "gateway"} \/ (flow'[k].at = "gone" /\ SnapSpec(k).ports = {})
      <4>1. flow'[k].at \in {"save", AfterSecret(k)}
        BY <2>14, Effects DEF Goes
      <4>2. QED
        BY <3>2, <4>1 DEF AfterSecret
    <3>5. SetReady(k) \/ Gone(k) => FALSE
      BY <3>2 DEF SetReady, Gone, At
    <3>6. SnapSpec(k)' = SnapSpec(k)
      BY <3>3 DEF SameJob, SnapSpec
    <3>7. ServedOK(k)'
      BY <2>1, <2>2, <2>7, <2>8, <3>1, <3>2, <3>3, <3>4, <3>5, <3>6 DEF ServedOK, SameJob
    <3>8. QED
      BY <2>6, <3>1, <3>2, <3>4, <3>7
  <2>15. CASE SetListeners(k)
    <3>1. /\ flow[k].at = "gateway" /\ flow[k].job \in {"reconcile", "finalize"}
          /\ gateway' = gateway /\ gatewayMutex' = Append(gatewayMutex, k) /\ object' = object
          /\ listeners'[k] = IF flow[k].job = "reconcile" THEN SnapSpec(k).ports ELSE {}
      BY <2>15 DEF SetListeners, At, Either, Reconcile, Finalize, Acquire, UpdateDefaultListenerMap, TypeOK
    <3>2. SameJob(k) /\ flow'[k].at = "build"
      BY <2>15, Effects DEF Goes, SameJob
    <3>3. \A q \in Package : q # k => flow'[q] = flow[q] /\ listeners'[q] = listeners[q]
      BY <1>4, Elsewhere DEF Apart
    <3>4. \A q \in Package : Holds(gatewayMutex, q) => Holds(gatewayMutex, q)'
      <4>1. gatewayMutex \in Seq(Package)
        BY DEF TypeOK
      <4>2. gatewayMutex # <<>> => Head(Append(gatewayMutex, k)) = Head(gatewayMutex) /\ Append(gatewayMutex, k) # <<>>
        BY <4>1
      <4>3. QED
        BY <3>1, <4>2 DEF Holds
    <3>5. \A q \in Package : WriterOK(q)'
      BY <2>1, <3>2, <3>3, <3>4 DEF GatewayInv, WriterOK, EntriesOf, Entries
    <3>6. \A q \in Package : q # k => ServedOK(q)'
      BY <2>4, <3>1 DEF EntriesOf
    <3>7. SetReady(k) \/ Gone(k) => FALSE
      BY <3>1 DEF SetReady, Gone, At
    <3>8. SnapSpec(k)' = SnapSpec(k) /\ ~Settled(k) /\ object[k].exists
      BY <1>1, <2>1, <3>1, <3>2 DEF SameJob, SnapSpec, Settled, FlowOK
    <3>9. ServedOK(k)'
      BY <2>2, <2>8, <3>1, <3>2, <3>7, <3>8 DEF ServedOK, SameJob
    <3>10. QED
      BY <3>5, <3>6, <3>9 DEF GatewayInv
  <2>16. CASE BuildGateway(k)
    <3>1. /\ flow[k].at = "build" /\ Holds(gatewayMutex, k) /\ object' = object
          /\ UNCHANGED <<listeners, gateway, gatewayMutex>>
      BY <2>16 DEF BuildGateway, At, gatewayVars
    <3>2. SameJob(k) /\ flow'[k].at = "write" /\ flow'[k].content = DefaultListenerEntries
      BY <2>16, Effects DEF Goes, SameJob
    <3>3. \A q \in Package : EntriesOf(q, DefaultListenerEntries) = Entries(q, listeners[q])
      BY DEF EntriesOf, DefaultListenerEntries, Entries
    <3>4. ASSUME NEW q \in Package PROVE WriterOK(q)'
      <4>1. CASE q = k
        BY <3>1, <3>2, <3>3, <4>1 DEF WriterOK, EntriesOf, Entries, Holds
      <4>2. CASE q # k
        <5>1. flow'[q] = flow[q]
          BY <1>4, <4>2, Elsewhere DEF Apart
        <5>2. flow[q].at # "write"
          BY <2>3, <3>1, <4>2 DEF Holds
        <5>3. QED
          BY <5>1, <5>2 DEF WriterOK
      <4>3. QED
        BY <4>1, <4>2
    <3>5. \A q \in Package : q # k => ServedOK(q)'
      BY <2>4, <3>1 DEF EntriesOf
    <3>6. SnapSpec(k)' = SnapSpec(k) /\ ~Settled(k) /\ object[k].exists
      BY <1>1, <2>1, <3>1, <3>2 DEF SameJob, SnapSpec, Settled, FlowOK
    <3>7. SetReady(k) \/ Gone(k) => FALSE
      BY <3>1 DEF SetReady, Gone, At
    <3>8. ServedOK(k)'
      BY <2>1, <2>2, <2>8, <3>1, <3>2, <3>6, <3>7 DEF ServedOK, SameJob
    <3>9. QED
      BY <3>4, <3>5, <3>8 DEF GatewayInv
  <2>17. CASE WriteGateway(k)
    <3>1. /\ flow[k].at = "write" /\ flow[k].job \in {"reconcile", "finalize"} /\ object' = object
          /\ listeners' = listeners /\ gateway' = flow[k].content
      BY <2>17 DEF WriteGateway, At, Either, Reconcile, Finalize
    <3>2. SameJob(k) /\ flow'[k].at = IF flow[k].job = "reconcile" THEN "probe" ELSE "gone"
      BY <2>17, Effects DEF Goes, SameJob
    <3>3. \A q \in Package : flow[q].at # "build" => EntriesOf(q, gateway)' = Entries(q, listeners[q])
      BY <2>1, <3>1 DEF WriterOK, EntriesOf
    <3>4. \A q \in Package : q # k => ServedOK(q)'
      BY <2>4, <3>3
    <3>5. ASSUME NEW q \in Package PROVE flow'[q].at # "write"
      <4>1. q # k => flow'[q] = flow[q]
        BY <1>4, Elsewhere DEF Apart
      <4>2. QED
        BY <2>3, <3>1, <3>2, <4>1
    <3>6. \A q \in Package : WriterOK(q)'
      BY <3>5 DEF WriterOK
    <3>7. Served(k, listeners[k])'
      BY <3>1, <3>3 DEF Served
    <3>8. SnapSpec(k)' = SnapSpec(k) /\ ~Settled(k) /\ object[k].exists
      BY <1>1, <2>1, <3>1, <3>2 DEF SameJob, SnapSpec, Settled, FlowOK
    <3>9. SetReady(k) \/ Gone(k) => FALSE
      BY <3>1 DEF SetReady, Gone, At
    <3>10. listeners[k] = IF flow[k].job = "reconcile" THEN SnapSpec(k).ports ELSE {}
      BY <2>1, <3>1 DEF ServedOK
    <3>11. ServedOK(k)'
      BY <2>2, <2>8, <3>1, <3>2, <3>7, <3>8, <3>9, <3>10 DEF ServedOK, SameJob
    <3>12. QED
      BY <3>4, <3>6, <3>11 DEF GatewayInv
  <2>18. QED
    BY <1>4, <2>9, <2>10, <2>11, <2>12, <2>13, <2>14, <2>15, <2>16, <2>17, Shapes
<1>5. QED
  BY <1>2, <1>3, <1>4, Steps

(* A reconciled package is served: the entries of both objects are those   *)
(* of its spec, whatever others write, fail at or forget meanwhile.        *)
LEMMA SharedInit == Init => SecretInv /\ GatewayInv
<1> SUFFICES ASSUME Init, NEW k \in Package PROVE SecretOK(k) /\ WriterOK(k) /\ ServedOK(k)
  BY DEF SecretInv, GatewayInv
<1>1. /\ flow[k].job = "none" /\ flow[k].at = "idle" /\ object[k].exists /\ object[k].phase = "Pending"
  BY DEF Init, Idle
<1>2. ~Settled(k)
  BY <1>1 DEF Settled
<1>3. QED
  BY <1>1, <1>2 DEF SecretOK, WriterOK, ServedOK

THEOREM ReadyAreServed == Spec => []ReadyIsServed
<1>1. TypeOK /\ SecretInv /\ GatewayInv => ReadyIsServed
  BY DEF SecretInv, GatewayInv, SecretOK, ServedOK, Served, EntriesOf, ReadyIsServed
<1>2. QED
  BY <1>1, InitTyped, TypeStep, SharedInit, SecretStep, GatewayStep, PTL DEF Spec

-----------------------------------------------------------------------------
(* The namespace and its pods.                                             *)

(* A pod runs with a sidecar as the label of its namespace asks for, or is *)
(* one that the job still has to kill.                                     *)
PodOK(k, p) ==
  \/ workload[p].leaving
  \/ workload[p].sidecar = (namespace[k].label = "sidecar")
  \/ flow[k].at = "kill" /\ p \in flow[k].todo

MeshOK(k) ==
  /\ flow[k].job = "reconcile" /\ flow[k].at # "get" => namespace[k].label = SnapSpec(k).mode /\ namespace[k].original # None
  /\ Settled(k) => namespace[k].label = object[k].spec.mode
  /\ "interrupted" \in trouble[k] \/ \A p \in Pod \cap WorkloadsOf(k) : PodOK(k, p)

MeshInv == \A k \in Package : MeshOK(k)

(* The label before the package is kept as long as it is not there again.  *)
RestoredOK(k) ==
  /\ (flow[k].job = "finalize" /\ flow[k].at # "get") \/ ~object[k].exists => namespace[k].original = None /\ ~namespace[k].pkg
  /\ "early" \in trouble[k] \/
       /\ namespace[k].original \in {None, before[k]}
       /\ namespace[k].original = None => namespace[k].label = before[k]
       /\ flow[k].job = "finalize" /\ flow[k].at = "get" => namespace[k].original # None
       /\ flow[k].job = "none" /\ object[k].exists /\ object[k].phase \in {"Ready", "Failed"} => namespace[k].original # None

RestoredInv == \A k \in Package : RestoredOK(k)

(* What a step does to the namespace, and to a pod.                        *)
LEMMA NamespaceKept ==
  ASSUME NEW k \in Package, StepOf(k)
  PROVE  (namespace' = namespace \/ ApplyNamespace(k)) /\ before' = before
  BY DEF StepOf, Step, Fail, Delete, Learn, Edit, FailPatch, Replace, StartReconcile, StartFinalize, ApplyNamespace,
         SetupAmbientWaypoint, PurgeClients, PurgeOrphans, SetListeners, BuildGateway, WriteGateway, ReadSecret,
         WriteSecret, SetReady, Gone, KillPod, LabelResource, UnlabelResource, mesh, bounds

LEMMA PodKept ==
  ASSUME TypeOK, NEW k \in Package, StepOf(k), NEW p \in Pod \cap WorkloadsOf(k)
  PROVE  \/ workload'[p].leaving
         \/ Replace(p) /\ workload'[p].sidecar = (namespace[k].label = "sidecar") /\ namespace' = namespace
         \/ workload'[p].leaving = workload[p].leaving /\ workload'[p].sidecar = workload[p].sidecar /\ ~KillPod(k, p)
<1>1. p \in Workload /\ In[p] = k /\ workload \in [Workload -> WorkloadState]
  BY DEF WorkloadsOf, TypeOK
<1>2. ASSUME NEW w \in WorkloadsOf(k), NEW label, PatchLabel(w, label)
      PROVE  workload'[p].leaving = workload[p].leaving /\ workload'[p].sidecar = workload[p].sidecar
  <2>1. PICK waypoint : workload' = [workload EXCEPT ![w].waypoint = waypoint]
    BY <1>2 DEF PatchLabel
  <2>2. QED
    BY <1>1, <2>1 DEF WorkloadState
<1>3. KillPod(k, p) => workload'[p].leaving
  BY <1>1 DEF KillPod, WorkloadState
<1>4. ASSUME NEW w \in WorkloadsOf(k), KillPod(k, w), w # p
      PROVE  workload'[p] = workload[p]
  BY <1>1, <1>4 DEF KillPod
<1>5. ASSUME NEW w \in WorkloadsOf(k), LabelResource(k, w) \/ UnlabelResource(k, w)
      PROVE  workload'[p].leaving = workload[p].leaving /\ workload'[p].sidecar = workload[p].sidecar
  BY <1>2, <1>5 DEF LabelResource, UnlabelResource
<1>6. ASSUME NEW w \in WorkloadsOf(k), Replace(w)
      PROVE  \/ Replace(p) /\ workload'[p].sidecar = (namespace[k].label = "sidecar") /\ namespace' = namespace
             \/ workload'[p] = workload[p]
  <2>1. CASE w = p
    BY <1>1, <1>6, <2>1 DEF Replace, NewPod
  <2>2. CASE w # p
    BY <1>1, <1>6, <2>2 DEF Replace
  <2>3. QED
    BY <2>1, <2>2
<1>7. \/ workload' = workload
      \/ \E w \in WorkloadsOf(k) : KillPod(k, w) \/ LabelResource(k, w) \/ UnlabelResource(k, w) \/ Replace(w)
  BY DEF StepOf, Step, Fail, Delete, Learn, Edit, FailPatch, StartReconcile, StartFinalize, ApplyNamespace,
         SetupAmbientWaypoint, PurgeClients, PurgeOrphans, SetListeners, BuildGateway, WriteGateway, ReadSecret,
         WriteSecret, SetReady, Gone, mesh
<1>8. QED
  BY <1>3, <1>4, <1>5, <1>6, <1>7

(* A job that leaves the killing before it is done is noted.               *)
LEMMA KillKept ==
  ASSUME TypeOK, NEW k \in Package, StepOf(k), NEW p \in Pod \cap WorkloadsOf(k), flow[k].at = "kill", p \in flow[k].todo
  PROVE  \/ flow'[k].at = "kill" /\ p \in flow'[k].todo
         \/ "interrupted" \in trouble'[k]
         \/ workload'[p].leaving \/ Replace(p)
<1>1. p \in Workload /\ In[p] = k /\ workload \in [Workload -> WorkloadState]
  BY DEF WorkloadsOf, TypeOK
<1>2. KillPod(k, p) => workload'[p].leaving
  BY <1>1 DEF KillPod, WorkloadState
<1>3. ASSUME NEW w \in WorkloadsOf(k), KillPod(k, w) \/ Replace(w), w # p PROVE flow'[k].at = "kill" /\ p \in flow'[k].todo
  <2>1. In[w] = k
    BY DEF WorkloadsOf
  <2>2. Goes(k, flow[k].at, flow[k].todo \ {w}, flow[k].next, flow[k].content)
    BY <1>3, <2>1, Effects
  <2>3. QED
    BY <1>3, <2>2 DEF Goes
<1>4. ASSUME Fail(k) PROVE "interrupted" \in trouble'[k]
  BY <1>4 DEF Fail, Troubled, Interrupted, TypeOK
<1>5. ASSUME Learn(k) \/ Delete(k) \/ (\E spec \in Specs[k] : Edit(k, spec)) PROVE flow' = flow
  BY <1>5 DEF Learn, Delete, Edit
<1>6. flow[k] # Idle /\ flow[k].todo # {}
  BY DEF Idle
<1>7. \/ Fail(k) \/ Learn(k) \/ Delete(k) \/ (\E spec \in Specs[k] : Edit(k, spec))
      \/ \E w \in WorkloadsOf(k) : KillPod(k, w) \/ Replace(w)
  BY <1>6 DEF StepOf, Step, At, FailPatch, StartReconcile, StartFinalize, ApplyNamespace,
         SetupAmbientWaypoint, PurgeClients, PurgeOrphans, SetListeners, BuildGateway, WriteGateway, ReadSecret,
         WriteSecret, SetReady, Gone, LabelResource, UnlabelResource
<1>8. QED
  BY <1>2, <1>3, <1>4, <1>5, <1>7

LEMMA MeshStep == TypeOK /\ SecretInv /\ MeshInv /\ [Next]_vars => MeshInv'
<1> SUFFICES ASSUME TypeOK, SecretInv, MeshInv, [Next]_vars PROVE MeshInv'
  OBVIOUS
<1>1. Idle.job = "none" /\ Idle.at = "idle"
  BY DEF Idle
<1>2. CASE UNCHANGED vars
  <2>1. UNCHANGED <<flow, object, due, trouble, namespace, workload>>
    BY <1>2 DEF vars, mesh
  <2>2. QED
    BY <2>1 DEF MeshInv, MeshOK, PodOK, Settled, SnapSpec
<1>3. CASE Restart
  <2>1. ASSUME NEW q \in Package PROVE MeshOK(q)'
    <3>1. /\ flow'[q] = Idle /\ object'[q] = object[q] /\ namespace' = namespace /\ workload' = workload
          /\ (object[q].exists => q \in due') /\ trouble'[q] = trouble[q] \cup {"restart"} \cup Interrupted(q)
      BY <1>3 DEF Restart, mesh
    <3>2. ~Settled(q)'
      BY <3>1 DEF Settled
    <3>3. MeshOK(q)
      BY DEF MeshInv
    <3>4. ASSUME NEW p \in Pod \cap WorkloadsOf(q), "interrupted" \notin trouble'[q] PROVE PodOK(q, p)'
      <4>1. "interrupted" \notin trouble[q] /\ ~(flow[q].at = "kill" /\ flow[q].todo # {})
        BY <3>1, <3>4 DEF Interrupted
      <4>2. QED
        BY <3>1, <3>3, <4>1 DEF MeshOK, PodOK
    <3>5. QED
      BY <1>1, <3>1, <3>2, <3>4 DEF MeshOK
  <2>2. QED
    BY <2>1 DEF MeshInv
<1>4. ASSUME NEW k \in Package, StepOf(k) PROVE MeshInv'
  <2>1. MeshOK(k) /\ SecretOK(k) /\ flow[k] \in Flow /\ FlowOK(k)
    BY Snapped DEF MeshInv, SecretInv
  <2>2. ASSUME NEW q \in Package, q # k PROVE MeshOK(q)'
    <3>1. MeshOK(q) /\ Apart(q)
      BY <1>4, <2>2, Elsewhere DEF MeshInv
    <3>2. QED
      BY <3>1 DEF MeshOK, PodOK, Apart, Settled, SnapSpec, WorkloadsOf
  <2>3. trouble[k] \subseteq trouble'[k] /\ (namespace' = namespace \/ ApplyNamespace(k))
    BY <1>4, Troubling, NamespaceKept
  <2>4. Settled(k)' => SetReady(k) \/ (Settled(k) /\ object'[k].spec = object[k].spec)
    BY <1>4, Settling
  <2>5. CASE ApplyNamespace(k)
    <3>1. /\ flow[k].at = "get" /\ flow[k].job \in {"reconcile", "finalize"} /\ namespace'[k] = Target(k)
          /\ workload' = workload /\ object' = object /\ trouble' = trouble
      BY <2>5 DEF ApplyNamespace, At, Either, Reconcile, Finalize, TypeOK
    <3> DEFINE label == Target(k).label
               restart == ShouldRestartPods(label, namespace[k].label)
    <3>2. SameJob(k) /\ flow'[k].at = "kill"
      BY <2>5, Effects DEF Goes, SameJob
    <3>3. flow'[k].todo = IF restart THEN PodsToKill(k, label = "sidecar") ELSE {}
      <4>1. PICK todo : /\ flow' = [flow EXCEPT ![k].at = "kill", ![k].todo = todo]
                        /\ todo = IF restart THEN PodsToKill(k, label = "sidecar") ELSE {}
        BY <2>5 DEF ApplyNamespace
      <4>2. flow'[k].todo = todo
        BY <2>1, <4>1 DEF TypeOK, Flow
      <4>3. QED
        BY <4>1, <4>2
    <3>4. flow[k].job = "reconcile" => label = SnapSpec(k).mode /\ Target(k).original # None
      <4>1. namespace[k].label # None
        BY NoneAssumption DEF TypeOK, NamespaceState, IstioState
      <4>2. QED
        BY <4>1 DEF Target, Annotated
    <3>5. ASSUME NEW p \in Pod \cap WorkloadsOf(k), "interrupted" \notin trouble'[k] PROVE PodOK(k, p)'
      <4>1. workload[p].leaving \/ workload[p].sidecar = (namespace[k].label = "sidecar")
        BY <2>1, <3>1, <3>5 DEF MeshOK, PodOK
      <4>2. CASE restart
        BY <3>1, <3>2, <3>3, <4>2 DEF PodOK, PodsToKill
      <4>3. CASE ~restart
        BY <3>1, <4>1, <4>3 DEF PodOK, ShouldRestartPods
      <4>4. QED
        BY <4>2, <4>3
    <3>6. ~Settled(k)'
      BY <1>1, <3>1, <3>2 DEF SameJob, Settled
    <3> HIDE DEF label
    <3>7. MeshOK(k)'
      BY <3>1, <3>2, <3>4, <3>5, <3>6 DEF MeshOK, SameJob, SnapSpec, label
    <3>8. QED
      BY <2>2, <3>7 DEF MeshInv
  <2>6. CASE ~ApplyNamespace(k)
    <3>1. namespace' = namespace
      BY <2>3, <2>6
    <3>2. ASSUME NEW p \in Pod \cap WorkloadsOf(k), "interrupted" \notin trouble'[k] PROVE PodOK(k, p)'
      <4>1. PodOK(k, p)
        BY <2>1, <2>3, <3>2 DEF MeshOK
      <4>2. CASE flow[k].at = "kill" /\ p \in flow[k].todo
        BY <1>4, <3>1, <3>2, <4>2, KillKept, PodKept DEF PodOK, Replace
      <4>3. CASE ~(flow[k].at = "kill" /\ p \in flow[k].todo)
        BY <1>4, <3>1, <4>1, <4>3, PodKept DEF PodOK
      <4>4. QED
        BY <4>2, <4>3
    <3>3. flow'[k].job = "reconcile" /\ flow'[k].at # "get" =>
            namespace[k].label = SnapSpec(k)'.mode /\ namespace[k].original # None
      <4>1. CASE Starts(k) \/ Ends(k)
        BY <1>1, <4>1 DEF Starts, Begins, Ends
      <4>2. CASE Meshes(k) /\ flow[k].at = "get"
        BY <2>6, <4>2 DEF Meshes
      <4>3. CASE FailsFor(k)
        BY <1>1, <4>3 DEF FailsFor, SameJob
      <4>4. CASE (SameJob(k) /\ flow[k].at # "get") \/ Quiet(k)
        BY <2>1, <4>4 DEF MeshOK, SameJob, Quiet, SnapSpec
      <4>5. ASSUME SetListeners(k) \/ BuildGateway(k) \/ WriteGateway(k) \/ ReadSecret(k) \/ WriteSecret(k)
            PROVE  SameJob(k) /\ flow[k].at # "get"
        <5>1. SameJob(k)
          BY <4>5, Effects DEF Goes, SameJob
        <5>2. QED
          BY <4>5, <5>1 DEF SetListeners, BuildGateway, WriteGateway, ReadSecret, WriteSecret, At
      <4>6. QED
        BY <1>4, <4>1, <4>2, <4>3, <4>4, <4>5, Shapes DEF Meshes
    <3>4. Settled(k)' => namespace[k].label = object'[k].spec.mode
      <4>1. CASE SetReady(k)
        <5>1. flow[k].at = "ready" /\ flow[k].job = "reconcile" /\ due' = due /\ object'[k].spec = object[k].spec
          BY <4>1, Effects DEF SetReady, At, Reconcile, Becomes
        <5>2. QED
          BY <2>1, <5>1 DEF SecretOK, MeshOK, Settled
      <4>2. QED
        BY <2>1, <2>4, <4>1 DEF MeshOK
    <3>5. MeshOK(k)'
      BY <3>1, <3>2, <3>3, <3>4 DEF MeshOK
    <3>6. QED
      BY <2>2, <3>5 DEF MeshInv
  <2>7. QED
    BY <2>5, <2>6
<1>5. QED
  BY <1>2, <1>3, <1>4, Steps

LEMMA RestoredStep == TypeOK /\ MeshInv /\ RestoredInv /\ [Next]_vars => RestoredInv'
<1> SUFFICES ASSUME TypeOK, MeshInv, RestoredInv, [Next]_vars PROVE RestoredInv'
  OBVIOUS
<1>1. Idle.job = "none" /\ Idle.at = "idle"
  BY DEF Idle
<1>2. CASE UNCHANGED vars
  <2>1. UNCHANGED <<flow, object, trouble, namespace, before>>
    BY <1>2 DEF vars, mesh, bounds
  <2>2. QED
    BY <2>1 DEF RestoredInv, RestoredOK
<1>3. CASE Restart
  <2>1. ASSUME NEW q \in Package PROVE RestoredOK(q)'
    <3>1. /\ flow'[q] = Idle /\ object'[q] = object[q] /\ namespace' = namespace /\ before' = before
          /\ trouble'[q] = trouble[q] \cup {"restart"} \cup Interrupted(q)
      BY <1>3 DEF Restart, mesh
    <3>2. namespace[q].original # None \/ "early" \in trouble'[q]
      BY <3>1 DEF Interrupted
    <3>3. RestoredOK(q)
      BY DEF RestoredInv
    <3>4. QED
      BY <1>1, <3>1, <3>2, <3>3 DEF RestoredOK
  <2>2. QED
    BY <2>1 DEF RestoredInv
<1>4. ASSUME NEW k \in Package, StepOf(k) PROVE RestoredInv'
  <2>1. RestoredOK(k) /\ MeshOK(k) /\ flow[k] \in Flow /\ FlowOK(k)
    BY Snapped DEF RestoredInv, MeshInv
  <2>2. ASSUME NEW q \in Package, q # k PROVE RestoredOK(q)'
    <3>1. RestoredOK(q) /\ Apart(q)
      BY <1>4, <2>2, Elsewhere DEF RestoredInv
    <3>2. QED
      BY <3>1 DEF RestoredOK, Apart
  <2>3. /\ trouble[k] \subseteq trouble'[k] /\ (namespace' = namespace \/ ApplyNamespace(k)) /\ before' = before
        /\ object'[k].phase = "Failed" => object[k].phase = "Failed" \/ Fail(k)
        /\ object'[k].phase = "Ready" => object[k].phase = "Ready" \/ SetReady(k)
        /\ object'[k].exists => object[k].exists
        /\ ~object'[k].exists => Gone(k) \/ ~object[k].exists
    BY <1>4, Troubling, NamespaceKept, Settling
  <2>4. CASE ApplyNamespace(k)
    <3>1. /\ flow[k].at = "get" /\ flow[k].job \in {"reconcile", "finalize"} /\ namespace'[k] = Target(k)
          /\ object' = object /\ trouble' = trouble
      BY <2>4 DEF ApplyNamespace, At, Either, Reconcile, Finalize, TypeOK
    <3>2. SameJob(k) /\ flow'[k].at = "kill"
      BY <2>4, Effects DEF Goes, SameJob
    <3>3. object[k].exists /\ before[k] # None /\ namespace[k].label # None
      BY <2>1, <3>1, NoneAssumption DEF FlowOK, TypeOK, NamespaceState, IstioState
    <3>4. CASE flow[k].job = "reconcile"
      <4>1. Target(k).original = IF namespace[k].original = None THEN namespace[k].label ELSE namespace[k].original
        BY <3>4 DEF Target, Annotated
      <4>2. RestoredOK(k)'
        BY <2>1, <2>3, <3>1, <3>2, <3>3, <3>4, <4>1 DEF RestoredOK, SameJob
      <4>3. QED
        BY <2>2, <4>2 DEF RestoredInv
    <3>5. CASE flow[k].job = "finalize"
      <4>1. /\ Target(k).original = None /\ ~Target(k).pkg
            /\ namespace[k].original # None => Target(k).label = namespace[k].original
        BY <3>5 DEF Target, Restored
      <4>2. RestoredOK(k)'
        BY <2>1, <2>3, <3>1, <3>2, <3>3, <3>5, <4>1 DEF RestoredOK, SameJob
      <4>3. QED
        BY <2>2, <4>2 DEF RestoredInv
    <3>6. QED
      BY <3>1, <3>4, <3>5
  <2>5. CASE ~ApplyNamespace(k)
    <3>1. namespace' = namespace
      BY <2>3, <2>5
    <3>2. Fail(k) => namespace[k].original # None \/ "early" \in trouble'[k]
      BY DEF Fail, Troubled, Interrupted, TypeOK
    <3>3. Gone(k) => flow[k].job = "finalize" /\ flow[k].at = "gone"
      BY DEF Gone, At, Finalize
    <3>4. SetReady(k) => flow[k].job = "reconcile" /\ flow[k].at = "ready"
      BY DEF SetReady, At, Reconcile
    <3>5. ASSUME SetListeners(k) \/ BuildGateway(k) \/ WriteGateway(k) \/ ReadSecret(k) \/ WriteSecret(k)
          PROVE  SameJob(k) /\ flow[k].at # "get" /\ flow[k].job # "none" /\ flow'[k].at # "get"
      <4>1. SameJob(k) /\ flow'[k].at \in {"build", "write", "probe", "gone", "save", AfterSecret(k)}
        BY <3>5, Effects DEF Goes, SameJob
      <4>2. QED
        BY <3>5, <4>1, Snapped DEF SetListeners, BuildGateway, WriteGateway, ReadSecret, WriteSecret, At, AfterSecret
    <3>6. /\ flow'[k].job = "finalize" /\ flow'[k].at # "get" => flow[k].job = "finalize" /\ flow[k].at # "get"
          /\ flow'[k].job = "finalize" /\ flow'[k].at = "get" =>
               StartFinalize(k) \/ Fail(k) \/ (flow[k].job = "finalize" /\ flow[k].at = "get")
          /\ flow'[k].job = "none" => flow[k].job = "none" \/ SetReady(k) \/ Gone(k) \/ Fail(k)
      <4>1. CASE Quiet(k)
        BY <4>1 DEF Quiet, SameJob
      <4>2. CASE Meshes(k)
        <5>1. flow[k].at # "idle" /\ flow[k].at # "get" /\ flow'[k].at # "get" /\ SameJob(k)
          BY <2>5, <4>2 DEF Meshes
        <5>2. QED
          BY <5>1, Snapped DEF SameJob
      <4>3. CASE Starts(k)
        BY <4>3, Effects DEF Starts, Begins
      <4>4. CASE Ends(k)
        BY <1>1, <4>4 DEF Ends
      <4>5. CASE FailsFor(k)
        <5>1. flow[k].at = "get" => Block(flow[k]) = "get"
          BY DEF Block
        <5>2. QED
          BY <1>1, <4>5, <5>1 DEF FailsFor, SameJob
      <4>6. QED
        BY <1>4, <3>5, <4>1, <4>2, <4>3, <4>4, <4>5, Shapes DEF SameJob
    <3>7. StartFinalize(k) => flow[k].job = "none" /\ object[k].exists /\ object[k].phase \in {"Ready", "Failed"}
      BY <1>1 DEF StartFinalize
    <3>8. SetReady(k) => namespace[k].original # None
      BY <2>1, <3>4 DEF MeshOK
    <3>9. ~(Gone(k) /\ object'[k].exists)
      BY Effects DEF Becomes
    <3>10. RestoredOK(k)'
      BY <2>1, <2>3, <3>1, <3>2, <3>3, <3>6, <3>7, <3>8, <3>9 DEF RestoredOK
    <3>11. QED
      BY <2>2, <3>10 DEF RestoredInv
  <2>6. QED
    BY <2>4, <2>5
<1>5. QED
  BY <1>2, <1>3, <1>4, Steps

LEMMA MeshInit == Init => MeshInv /\ RestoredInv
<1> SUFFICES ASSUME Init, NEW k \in Package PROVE MeshOK(k) /\ RestoredOK(k)
  BY DEF MeshInv, RestoredInv
<1>1. /\ flow[k].job = "none" /\ flow[k].at = "idle" /\ object[k].exists /\ object[k].phase = "Pending"
      /\ namespace[k].label = before[k] /\ namespace[k].original = None
  BY DEF Init, Idle
<1>2. ~Settled(k)
  BY <1>1 DEF Settled
<1>3. ASSUME NEW p \in Pod \cap WorkloadsOf(k) PROVE PodOK(k, p)
  <2>1. p \in Workload /\ In[p] = k
    BY DEF WorkloadsOf
  <2>2. workload[p].sidecar = (p \in Pod /\ before[In[p]] = "sidecar")
    BY <2>1 DEF Init
  <2>3. QED
    BY <1>1, <2>1, <2>2 DEF PodOK
<1>4. QED
  BY <1>1, <1>2, <1>3 DEF MeshOK, RestoredOK

(* The namespace of a reconciled package is in the mode it asks for, and   *)
(* its pods run with or without a sidecar accordingly.                     *)
THEOREM MeshesFollow == Spec => []MeshFollows
<1>1. TypeOK /\ MeshInv => MeshFollows
  <2> SUFFICES ASSUME TypeOK, MeshInv, NEW k \in Package, Settled(k), "interrupted" \notin trouble[k]
               PROVE  /\ namespace[k].label = object[k].spec.mode
                      /\ \A p \in Pod \cap WorkloadsOf(k) : ~workload[p].leaving =>
                           workload[p].sidecar = (object[k].spec.mode = "sidecar")
    BY DEF MeshFollows
  <2>1. MeshOK(k) /\ flow[k].at = "idle"
    BY DEF MeshInv, Settled, Idle
  <2>2. QED
    BY <2>1 DEF MeshOK, PodOK
<1>2. QED
  BY <1>1, InitTyped, TypeStep, SharedInit, SecretStep, MeshInit, MeshStep, PTL DEF Spec

-----------------------------------------------------------------------------
(* The waypoints of SSO clients, and the labels that lead to them.         *)

After == {"gateway", "build", "write", "probe", "save", "ready", "gone"}

(* The waypoints of the clients a job has been through have its            *)
(* generation, so that it does not purge them; a reconciled package has    *)
(* those of its clients.                                                   *)
MadeOK(k) ==
  /\ flow[k].job = "reconcile" /\ flow[k].at = "label" =>
       \A i \in 1..flow[k].next : gateways[k][SnapSpec(k).sso[i].client] = flow[k].snap.gen
  /\ flow[k].job = "reconcile" /\ flow[k].at \in {"clean"} \cup After /\ SnapSpec(k).mode = "ambient" =>
       \A i \in DOMAIN SnapSpec(k).sso : gateways[k][SnapSpec(k).sso[i].client] = flow[k].snap.gen
  /\ Settled(k) /\ object[k].spec.mode = "ambient" =>
       \A i \in DOMAIN object[k].spec.sso : gateways[k][object[k].spec.sso[i].client] > 0

MadeInv == \A k \in Package : MadeOK(k)

(* The workloads a job has been through are led as the package asks for    *)
(* now, as long as no edit waits to be reconciled and nothing went wrong   *)
(* that a later job does not make up for.                                  *)
Led(k, w) == workload[w].waypoint = MatchingClient(LatestSpec(k), w)

InSight(k) ==
  /\ trouble[k] \cap {"lag", "patch", "status"} = {}
  /\ flow[k].job = "finalize" \/ ~object[k].exists \/ (k \notin due /\ ~object[k].deleted)

LedOK(k) ==
  InSight(k) =>
    /\ flow[k].at = "label" =>
         \A w \in WorkloadsOf(k), i \in 1..flow[k].next : w \in SnapSpec(k).sso[i].selects => Led(k, w) \/ w \in flow[k].todo
    /\ flow[k].at = "clean" =>
         \A w \in WorkloadsOf(k) : workload[w].leaving \/ Led(k, w) \/ w \in flow[k].todo
    /\ flow[k].at \in After \/ ~object[k].exists \/ Settled(k) =>
         \A w \in WorkloadsOf(k) : workload[w].leaving \/ Led(k, w)

LedInv == \A k \in Package : LedOK(k)

(* Who changes the waypoints.                                              *)
LEMMA WaypointsKept ==
  ASSUME NEW k \in Package, StepOf(k)
  PROVE  gateways' = gateways \/ SetupAmbientWaypoint(k) \/ PurgeOrphans(k) \/ Gone(k)
  BY DEF StepOf, Step, Fail, Delete, Learn, Edit, FailPatch, Replace, StartReconcile, StartFinalize, ApplyNamespace,
         PurgeClients, SetListeners, BuildGateway, WriteGateway, ReadSecret,
         WriteSecret, SetReady, KillPod, LabelResource, UnlabelResource, mesh, bounds

(* The stages of a reconciliation that come before and after the waypoints. *)
LEMMA StagesKept ==
  ASSUME TypeOK, NEW k \in Package, StepOf(k)
  PROVE  /\ flow'[k].at = "label" => SetupAmbientWaypoint(k)
                 \/ (flow[k].at = "label" /\ SameJob(k) /\ flow'[k].next = flow[k].next)
         /\ flow'[k].at = "clean" => PurgeClients(k) \/ (flow[k].at = "clean" /\ SameJob(k))
         /\ flow'[k].at \in After =>
              PurgeOrphans(k) \/ (flow[k].at \in After /\ SameJob(k))
<1>1. Idle.at = "idle"
  BY DEF Idle
<1>2. CASE Quiet(k)
  BY <1>2 DEF Quiet
<1>3. CASE Starts(k) \/ Ends(k)
  BY <1>1, <1>3 DEF Starts, Begins, Ends, After
<1>4. ASSUME ApplyNamespace(k) \/ PurgeClients(k) PROVE flow'[k].at \in {"kill", "clean"} /\ (flow'[k].at = "clean" => PurgeClients(k))
  BY <1>4, Effects DEF Goes
<1>5. ASSUME SetupAmbientWaypoint(k) PROVE flow'[k].at = "label"
  BY <1>5, Snapped DEF SetupAmbientWaypoint, TypeOK, Flow
<1>6. ASSUME SetListeners(k) \/ BuildGateway(k) \/ WriteGateway(k) \/ ReadSecret(k) \/ WriteSecret(k)
      PROVE  SameJob(k) /\ flow[k].at \in After /\ flow'[k].at \in After
  <2>1. SameJob(k) /\ flow'[k].at \in {"build", "write", "probe", "gone", "save", AfterSecret(k)}
    BY <1>6, Effects DEF Goes, SameJob
  <2>2. QED
    BY <1>6, <2>1 DEF SetListeners, BuildGateway, WriteGateway, ReadSecret, WriteSecret, At, AfterSecret, After
<1>7. CASE FailsFor(k)
  <2>1. FlowOK(k)
    BY Snapped
  <2>2. flow[k].job = "finalize" => flow[k].at # "label"
    BY <2>1 DEF FlowOK
  <2>3. flow[k].at \in Waits /\ flow[k].job = "finalize" =>
          Block(flow[k]) \notin {"label", "clean"} /\ (Block(flow[k]) \in After => flow[k].at \in After)
    BY <2>2 DEF Block, Waits, After
  <2>4. QED
    BY <1>1, <1>7, <2>3 DEF FailsFor, After
<1>8. CASE Meshes(k)
  <2>1. PurgeOrphans(k) => flow'[k].at \in {"gateway", "probe"}
    BY Effects DEF Goes
  <2>2. QED
    BY <1>4, <1>5, <1>8, <2>1 DEF Meshes, After
<1>9. QED
  BY <1>2, <1>3, <1>6, <1>7, <1>8, Shapes DEF After

LEMMA MadeStep == TypeOK /\ SecretInv /\ MadeInv /\ [Next]_vars => MadeInv'
<1> SUFFICES ASSUME TypeOK, SecretInv, MadeInv, [Next]_vars PROVE MadeInv'
  OBVIOUS
<1>1. Idle.job = "none" /\ Idle.at = "idle" /\ "idle" \notin After /\ "clean" \notin After /\ "label" \notin After
  BY DEF Idle, After
<1>2. CASE UNCHANGED vars
  <2>1. UNCHANGED <<flow, object, due, gateways>>
    BY <1>2 DEF vars, mesh
  <2>2. QED
    BY <2>1 DEF MadeInv, MadeOK, Settled, SnapSpec
<1>3. CASE Restart
  <2>1. ASSUME NEW q \in Package PROVE MadeOK(q)'
    <3>1. flow'[q] = Idle /\ object'[q] = object[q] /\ (object[q].exists => q \in due')
      BY <1>3 DEF Restart
    <3>2. QED
      BY <1>1, <3>1 DEF MadeOK, Settled
  <2>2. QED
    BY <2>1 DEF MadeInv
<1>4. ASSUME NEW k \in Package, StepOf(k) PROVE MadeInv'
  <2>1. MadeOK(k) /\ SecretOK(k) /\ flow[k] \in Flow /\ FlowOK(k)
    BY Snapped DEF MadeInv, SecretInv
  <2>2. ASSUME NEW q \in Package, q # k PROVE MadeOK(q)'
    <3>1. MadeOK(q) /\ Apart(q)
      BY <1>4, <2>2, Elsewhere DEF MadeInv
    <3>2. QED
      BY <3>1 DEF MadeOK, Apart, Settled, SnapSpec
  <2>3. /\ flow'[k].at = "label" => SetupAmbientWaypoint(k)
                 \/ (flow[k].at = "label" /\ SameJob(k) /\ flow'[k].next = flow[k].next)
        /\ flow'[k].at = "clean" => PurgeClients(k) \/ (flow[k].at = "clean" /\ SameJob(k))
        /\ flow'[k].at \in After => PurgeOrphans(k) \/ (flow[k].at \in After /\ SameJob(k))
        /\ Settled(k)' => SetReady(k) \/ (Settled(k) /\ object'[k].spec = object[k].spec)
        /\ gateways' = gateways \/ SetupAmbientWaypoint(k) \/ PurgeOrphans(k) \/ Gone(k)
    BY <1>4, StagesKept, Settling, WaypointsKept
  <2>4. SameJob(k) => SnapSpec(k)' = SnapSpec(k) /\ flow'[k].snap = flow[k].snap /\ flow'[k].job = flow[k].job
    BY DEF SameJob, SnapSpec
  <2>5. CASE SetupAmbientWaypoint(k)
    <3> DEFINE n == flow[k].next + 1
    <3>1. /\ flow[k].job = "reconcile" /\ SnapSpec(k).mode = "ambient" /\ flow[k].at \in {"kill", "label"}
          /\ n \in 1..Len(SnapSpec(k).sso) /\ flow[k].next \in Nat /\ object' = object
          /\ gateways' = [gateways EXCEPT ![k][SnapSpec(k).sso[n].client] = flow[k].snap.gen]
      BY <2>1, <2>5, Snapped DEF SetupAmbientWaypoint, ClientsLeft, Flow, CreateWaypoint
    <3>2. SnapSpec(k).sso[n] \in SsoClient /\ SnapSpec(k).sso[n].client \in Client
      <4>1. SnapSpec(k).sso[n] \in SsoClient
        BY <3>1, Snapped
      <4>2. QED
        BY <4>1 DEF SsoClient
    <3>3. flow'[k].job = flow[k].job /\ flow'[k].snap = flow[k].snap /\ flow'[k].at = "label" /\ flow'[k].next = n
      BY <2>1, <2>5 DEF SetupAmbientWaypoint, TypeOK, Flow
    <3>5. \A i \in 1..flow[k].next : gateways[k][SnapSpec(k).sso[i].client] = flow[k].snap.gen
      BY <2>1, <3>1 DEF MadeOK, FlowOK
    <3>6. \A i \in 1..n : (i = n \/ i \in 1..flow[k].next) /\ i \in 1..Len(SnapSpec(k).sso)
      BY <3>1
    <3> HIDE DEF n
    <3>7. ASSUME NEW i \in 1..n PROVE gateways'[k][SnapSpec(k).sso[i].client] = flow[k].snap.gen
      <4>1. gateways[k] \in [Client -> Nat]
        BY DEF TypeOK
      <4>2. PICK client : client = SnapSpec(k).sso[n].client /\ client \in Client
        BY <3>2
      <4>3. gateways'[k] = [gateways[k] EXCEPT ![client] = flow[k].snap.gen]
        BY <3>1, <4>2 DEF TypeOK
      <4>4. PICK other : other = SnapSpec(k).sso[i].client
        OBVIOUS
      <4>5. other \in Client
        <5>1. SnapSpec(k).sso[i] \in SsoClient
          BY <3>1, <3>6, Snapped
        <5>2. QED
          BY <4>4, <5>1 DEF SsoClient
      <4>6. other = client \/ gateways[k][other] = flow[k].snap.gen
        BY <3>5, <3>6, <4>2, <4>4
      <4>7. gateways'[k][other] = flow[k].snap.gen
        BY <4>1, <4>2, <4>3, <4>5, <4>6
      <4>8. QED
        BY <4>4, <4>7
    <3>8. ~Settled(k)' /\ SnapSpec(k)' = SnapSpec(k)
      BY <1>1, <3>1, <3>3 DEF Settled, SnapSpec
    <3>9. MadeOK(k)'
      BY <1>1, <3>3, <3>7, <3>8 DEF MadeOK
    <3>10. QED
      BY <2>2, <3>9 DEF MadeInv
  <2>6. CASE PurgeOrphans(k)
    <3>1. flow[k].at = "clean" /\ flow[k].job \in {"reconcile", "finalize"} /\ object' = object
      BY <2>6 DEF PurgeOrphans, At, Either, Reconcile, Finalize
    <3>2. SameJob(k) /\ flow'[k].at \in {"gateway", "probe"}
      BY <2>6, Effects DEF Goes, SameJob
    <3>3. ASSUME flow[k].job = "reconcile", NEW c \in Client, gateways[k][c] = flow[k].snap.gen
          PROVE  gateways'[k][c] = flow[k].snap.gen
      <4>1. gateways' = [gateways EXCEPT ![k] = [b \in Client |-> IF @[b] = flow[k].snap.gen THEN flow[k].snap.gen ELSE 0]]
        BY <2>6, <3>3 DEF PurgeOrphans, PurgeWaypoints
      <4>2. QED
        BY <3>3, <4>1 DEF TypeOK
    <3>4. flow[k].job = "reconcile" => \A i \in DOMAIN SnapSpec(k).sso : SnapSpec(k).sso[i].client \in Client
      <4>1. \A c \in SsoClient : c.client \in Client
        BY DEF SsoClient
      <4>2. flow[k].job = "reconcile" => \A i \in DOMAIN SnapSpec(k).sso : SnapSpec(k).sso[i] \in SsoClient
        BY Snapped
      <4>3. QED
        BY <4>1, <4>2
    <3>5. ~Settled(k)'
      BY <1>1, <3>1, <3>2 DEF SameJob, Settled
    <3>6. MadeOK(k)'
      BY <1>1, <2>1, <2>4, <3>1, <3>2, <3>3, <3>4, <3>5 DEF MadeOK
    <3>7. QED
      BY <2>2, <3>6 DEF MadeInv
  <2>7. CASE Gone(k)
    <3>1. flow'[k] = Idle /\ ~Settled(k)'
      BY <2>7, Effects DEF Becomes, Settled
    <3>2. MadeOK(k)'
      BY <1>1, <3>1 DEF MadeOK
    <3>3. QED
      BY <2>2, <3>2 DEF MadeInv
  <2>8. CASE ~SetupAmbientWaypoint(k) /\ ~PurgeOrphans(k) /\ ~Gone(k)
    <3>1. gateways' = gateways
      BY <2>3, <2>8
    <3>2. flow'[k].job = "reconcile" /\ flow'[k].at = "label" =>
            \A i \in 1..flow'[k].next : gateways[k][SnapSpec(k)'.sso[i].client] = flow'[k].snap.gen
      BY <2>1, <2>3, <2>4, <2>8 DEF MadeOK
    <3>3. flow'[k].job = "reconcile" /\ flow'[k].at \in {"clean"} \cup After /\ SnapSpec(k)'.mode = "ambient" =>
            \A i \in DOMAIN SnapSpec(k)'.sso : gateways[k][SnapSpec(k)'.sso[i].client] = flow'[k].snap.gen
      <4>1. CASE PurgeClients(k)
        <5>1. SameJob(k) /\ flow[k].at \in {"kill", "label"} /\ ~ClientsLeft(k)
          BY <4>1, Effects DEF Goes, SameJob, PurgeClients
        <5>2. ASSUME flow[k].job = "reconcile", SnapSpec(k).mode = "ambient", NEW i \in DOMAIN SnapSpec(k).sso
              PROVE  gateways[k][SnapSpec(k).sso[i].client] = flow[k].snap.gen
          <6>1. flow[k].next >= Len(SnapSpec(k).sso) /\ i \in 1..Len(SnapSpec(k).sso) /\ Len(SnapSpec(k).sso) \in Nat
            BY <2>1, <5>1, <5>2, Snapped DEF ClientsLeft, Flow
          <6>2. flow[k].at = "label" /\ i \in 1..flow[k].next
            BY <2>1, <5>1, <6>1 DEF FlowOK, Flow
          <6>3. QED
            BY <2>1, <5>2, <6>2 DEF MadeOK
        <5>3. QED
          BY <2>4, <5>1, <5>2
      <4>2. CASE ~PurgeClients(k)
        BY <2>1, <2>3, <2>4, <2>8, <4>2 DEF MadeOK
      <4>3. QED
        BY <4>1, <4>2
    <3>4. Settled(k)' /\ object'[k].spec.mode = "ambient" =>
            \A i \in DOMAIN object'[k].spec.sso : gateways[k][object'[k].spec.sso[i].client] > 0
      <4>1. CASE SetReady(k)
        <5>1. /\ flow[k].at = "ready" /\ flow[k].job = "reconcile" /\ due' = due
              /\ object'[k].spec = object[k].spec /\ "ready" \in After /\ flow[k].snap.gen \in Nat \ {0}
          BY <4>1, Snapped, Effects DEF SetReady, At, Reconcile, Becomes, After
        <5>2. QED
          BY <2>1, <5>1 DEF SecretOK, MadeOK, Settled
      <4>2. QED
        BY <2>1, <2>3, <4>1 DEF MadeOK
    <3>5. MadeOK(k)'
      BY <3>1, <3>2, <3>3, <3>4 DEF MadeOK
    <3>6. QED
      BY <2>2, <3>5 DEF MadeInv
  <2>9. QED
    BY <2>5, <2>6, <2>7, <2>8
<1>5. QED
  BY <1>2, <1>3, <1>4, Steps

(* A workload that is created or patched with the webhooks up to date.     *)
LEMMA Relabelled ==
  ASSUME TypeOK, NEW k \in Package, NEW w \in WorkloadsOf(k),
         LatestSpec(k)' = LatestSpec(k), "lag" \notin trouble'[k],
         \/ w \in Pod /\ Replace(w)
         \/ UnlabelResource(k, w)
         \/ LabelResource(k, w) /\ MatchingClient(LatestSpec(k), w) # None
  PROVE  Led(k, w)'
<1>1. w \in Workload /\ In[w] = k /\ workload \in [Workload -> WorkloadState]
  BY DEF WorkloadsOf, TypeOK
<1>2. webhook[k] = LatestSpec(k)
  <2>1. Troubled(k, Lag(k))
    BY <1>1 DEF Replace, UnlabelResource, LabelResource
  <2>2. QED
    BY <2>1 DEF Troubled, Lag, TypeOK
<1>3. PICK label : /\ workload'[w].waypoint = Labelled(w, label)
                   /\ label = None \/ MatchingClient(LatestSpec(k), w) # None
  <2>1. CASE w \in Pod /\ Replace(w)
    <3>1. workload'[w] = NewPod(w)
      BY <1>1, <2>1 DEF Replace
    <3>2. QED
      BY <3>1 DEF NewPod
  <2>2. ASSUME NEW label, PatchLabel(w, label) PROVE workload'[w].waypoint = Labelled(w, label)
    <3>1. PICK waypoint : waypoint = Labelled(w, label) /\ workload' = [workload EXCEPT ![w].waypoint = waypoint]
      BY <2>2 DEF PatchLabel
    <3>2. QED
      BY <1>1, <3>1 DEF WorkloadState
  <2>3. QED
    BY <2>1, <2>2 DEF UnlabelResource, LabelResource
<1>4. Labelled(w, label) = MatchingClient(LatestSpec(k), w)
  BY <1>1, <1>2, <1>3 DEF Labelled
<1>5. QED
  BY <1>3, <1>4 DEF Led

(* Who changes the workloads.                                              *)
LEMMA WorkloadKept ==
  ASSUME TypeOK, NEW k \in Package, StepOf(k), NEW w \in WorkloadsOf(k)
  PROVE  \/ w \in Pod /\ Replace(w)
         \/ UnlabelResource(k, w)
         \/ LabelResource(k, w)
         \/ workload'[w].waypoint = workload[w].waypoint /\ (workload[w].leaving => workload'[w].leaving)
<1>1. w \in Workload /\ In[w] = k /\ workload \in [Workload -> WorkloadState]
  BY DEF WorkloadsOf, TypeOK
<1>2. ASSUME NEW v \in WorkloadsOf(k), v # w, LabelResource(k, v) \/ UnlabelResource(k, v) \/ Replace(v)
      PROVE  workload'[w] = workload[w]
  BY <1>1, <1>2 DEF LabelResource, UnlabelResource, Replace, PatchLabel
<1>3. ASSUME NEW v \in WorkloadsOf(k), KillPod(k, v)
      PROVE  workload'[w].waypoint = workload[w].waypoint /\ (workload[w].leaving => workload'[w].leaving)
  BY <1>1, <1>3 DEF KillPod, WorkloadState
<1>4. \/ workload' = workload
      \/ \E v \in WorkloadsOf(k) : KillPod(k, v) \/ LabelResource(k, v) \/ UnlabelResource(k, v) \/ (v \in Pod /\ Replace(v))
  BY DEF StepOf, Step, Fail, Delete, Learn, Edit, FailPatch, StartReconcile, StartFinalize, ApplyNamespace,
         SetupAmbientWaypoint, PurgeClients, PurgeOrphans, SetListeners, BuildGateway, WriteGateway, ReadSecret,
         WriteSecret, SetReady, Gone, mesh
<1>5. QED
  BY <1>2, <1>3, <1>4

(* As long as the package stays in sight, what it asks for stays.          *)
LEMMA SightKept ==
  ASSUME TypeOK, NEW k \in Package, StepOf(k), InSight(k)'
  PROVE  \/ LatestSpec(k)' = LatestSpec(k) /\ InSight(k)
         \/ StartReconcile(k) \/ StartFinalize(k)
<1>1. FlowOK(k) /\ trouble[k] \subseteq trouble'[k]
  BY Snapped, Troubling
<1>2. trouble[k] \cap {"lag", "patch", "status"} = {}
  BY <1>1 DEF InSight
<1>3. ASSUME NEW spec \in Specs[k], Edit(k, spec) PROVE FALSE
  <2>1. flow' = flow /\ object'[k].exists /\ ~object[k].deleted /\ k \in due'
    BY <1>3, Effects DEF Edit, Becomes
  <2>2. QED
    BY <1>1, <2>1 DEF InSight, FlowOK
<1>4. ASSUME Delete(k) PROVE FALSE
  <2>1. flow' = flow /\ object'[k].exists /\ ~object[k].deleted /\ object'[k].deleted
    BY <1>4, Effects DEF Delete, Becomes
  <2>2. QED
    BY <1>1, <2>1 DEF InSight, FlowOK
<1>5. ASSUME Gone(k) PROVE LatestSpec(k)' = LatestSpec(k) /\ flow[k].job = "finalize"
  <2>1. flow[k].job = "finalize" /\ ~object'[k].exists
    BY <1>5, Effects DEF Gone, At, Finalize, Becomes
  <2>2. QED
    BY <1>1, <2>1 DEF FlowOK, LatestSpec
<1>6. ASSUME SetReady(k) PROVE LatestSpec(k)' = LatestSpec(k) /\ InSight(k)
  <2>1. /\ object'[k].exists = object[k].exists /\ object'[k].deleted = object[k].deleted
        /\ object'[k].spec = object[k].spec
    BY <1>6, Effects DEF Becomes
  <2>2. due' = due /\ flow[k].job = "reconcile" /\ flow'[k].job = "none"
    <3>1. flow'[k] = Idle
      BY <1>6, Effects
    <3>2. QED
      BY <1>6, <3>1 DEF SetReady, At, Reconcile, Idle
  <2>3. QED
    BY <1>2, <2>1, <2>2 DEF InSight, LatestSpec
<1>7. ASSUME NEW phase \in {"Retrying", "Failed", "RemovalFailed"}, GiveUp(k, phase)
      PROVE  LatestSpec(k)' = LatestSpec(k) /\ InSight(k)
  <2>1. /\ object'[k].exists = object[k].exists /\ object'[k].deleted = object[k].deleted
        /\ object'[k].spec = object[k].spec
    BY <1>7, Effects DEF Becomes
  <2>2. (k \in due => k \in due') /\ flow'[k].job = "none"
    <3>1. flow'[k] = Idle
      BY <1>7, Effects
    <3>2. QED
      BY <1>7, <3>1 DEF GiveUp, Idle
  <2>3. QED
    BY <1>2, <2>1, <2>2 DEF InSight, LatestSpec
<1>8. ASSUME object' = object, due' = due, flow'[k].job = flow[k].job PROVE LatestSpec(k)' = LatestSpec(k) /\ InSight(k)
  BY <1>2, <1>8 DEF InSight, LatestSpec
<1>9. ASSUME ApplyNamespace(k) \/ SetupAmbientWaypoint(k) \/ PurgeClients(k) \/ PurgeOrphans(k)
      PROVE  LatestSpec(k)' = LatestSpec(k) /\ InSight(k)
  <2>1. object' = object /\ due' = due
    BY <1>9 DEF ApplyNamespace, SetupAmbientWaypoint, PurgeClients, PurgeOrphans
  <2>2. flow'[k].job = flow[k].job
    <3>1. CASE SetupAmbientWaypoint(k)
      BY <3>1, Snapped DEF SetupAmbientWaypoint, TypeOK, Flow
    <3>2. CASE ApplyNamespace(k) \/ PurgeClients(k) \/ PurgeOrphans(k)
      BY <3>2, Effects DEF Goes
    <3>3. QED
      BY <1>9, <3>1, <3>2
  <2>3. QED
    BY <1>8, <2>1, <2>2
<1>10. ASSUME SetListeners(k) \/ BuildGateway(k) \/ WriteGateway(k) \/ ReadSecret(k) \/ WriteSecret(k)
       PROVE  LatestSpec(k)' = LatestSpec(k) /\ InSight(k)
  <2>1. object' = object /\ due' = due
    BY <1>10 DEF SetListeners, BuildGateway, WriteGateway, ReadSecret, WriteSecret
  <2>2. flow'[k].job = flow[k].job
    BY <1>10, Effects DEF Goes
  <2>3. QED
    BY <1>8, <2>1, <2>2
<1>11. ASSUME Fail(k) PROVE LatestSpec(k)' = LatestSpec(k) /\ InSight(k)
  <2>1. CASE \E phase \in {"Retrying", "Failed", "RemovalFailed"} : GiveUp(k, phase)
    BY <1>7, <2>1
  <2>2. CASE flow' = [flow EXCEPT ![k] = [@ EXCEPT !.at = Block(flow[k]), !.todo = {}]] /\ UNCHANGED <<object, due>>
    <3>1. flow'[k].job = flow[k].job
      BY <2>2, Snapped DEF TypeOK, Flow
    <3>2. QED
      BY <1>8, <2>2, <3>1
  <2>3. QED
    BY <1>11, <2>1, <2>2 DEF Fail
<1>12. ASSUME NEW w \in WorkloadsOf(k), FailPatch(k, w) \/ (w \in Pod /\ Replace(w)) \/ KillPod(k, w)
                    \/ LabelResource(k, w) \/ UnlabelResource(k, w)
       PROVE  LatestSpec(k)' = LatestSpec(k) /\ InSight(k)
  <2>1. In[w] = k
    BY DEF WorkloadsOf
  <2>2. Goes(k, flow[k].at, flow[k].todo \ {w}, flow[k].next, flow[k].content)
    BY <1>12, <2>1, Effects
  <2>3. object' = object /\ due' = due /\ flow'[k].job = flow[k].job
    BY <1>12, <2>2 DEF FailPatch, Replace, KillPod, LabelResource, UnlabelResource, Goes
  <2>4. QED
    BY <1>8, <2>3
<1>13. ASSUME Learn(k) PROVE LatestSpec(k)' = LatestSpec(k) /\ InSight(k)
  BY <1>8, <1>13 DEF Learn
<1>14. Gone(k) => LatestSpec(k)' = LatestSpec(k) /\ InSight(k)
  BY <1>2, <1>5 DEF InSight
<1>15. QED
  BY <1>3, <1>4, <1>6, <1>9, <1>10, <1>11, <1>12, <1>13, <1>14 DEF StepOf, Step

(* Who takes a workload off what is to be patched.                         *)
LEMMA TodoKept ==
  ASSUME TypeOK, NEW k \in Package, StepOf(k), NEW w \in flow[k].todo, flow[k].at \in {"label", "clean"},
         flow'[k].at = flow[k].at
  PROVE  \/ w \in flow'[k].todo
         \/ w \in Pod /\ Replace(w)
         \/ LabelResource(k, w) \/ UnlabelResource(k, w) \/ FailPatch(k, w)
<1>1. FlowOK(k) /\ flow[k] \in Flow
  BY Snapped
<1>2. Idle.at = "idle"
  BY DEF Idle
<1>3. ASSUME NEW v \in WorkloadsOf(k), v # w, FailPatch(k, v) \/ (v \in Pod /\ Replace(v)) \/ KillPod(k, v)
                    \/ LabelResource(k, v) \/ UnlabelResource(k, v)
      PROVE  w \in flow'[k].todo
  <2>1. In[v] = k
    BY DEF WorkloadsOf
  <2>2. Goes(k, flow[k].at, flow[k].todo \ {v}, flow[k].next, flow[k].content)
    BY <1>3, <2>1, Effects
  <2>3. QED
    BY <1>3, <2>2 DEF Goes
<1>4. ~KillPod(k, w)
  BY DEF KillPod, At
<1>5. ASSUME Fail(k) PROVE FALSE
  <2>1. flow[k].at = "label" /\ flow[k].job # "finalize"
    BY <1>1, <1>5 DEF Fail, Waits, FlowOK
  <2>2. flow[k].job = "reconcile"
    BY <1>1, <1>2, <2>1 DEF FlowOK, Flow
  <2>3. \E phase : GiveUp(k, phase)
    BY <1>5, <2>2 DEF Fail
  <2>4. flow'[k] = Idle
    BY <2>3, Effects
  <2>5. QED
    BY <1>2, <2>4
<1>6. ASSUME Learn(k) \/ Delete(k) \/ (\E spec \in Specs[k] : Edit(k, spec)) PROVE w \in flow'[k].todo
  BY <1>6 DEF Learn, Delete, Edit
<1>7. ASSUME ApplyNamespace(k) \/ SetupAmbientWaypoint(k) \/ PurgeClients(k) \/ PurgeOrphans(k) PROVE FALSE
  BY <1>7 DEF ApplyNamespace, SetupAmbientWaypoint, PurgeClients, PurgeOrphans, At
<1>8. ASSUME StartReconcile(k) \/ StartFinalize(k) \/ SetReady(k) \/ Gone(k) PROVE FALSE
  BY <1>2, <1>8 DEF StartReconcile, StartFinalize, SetReady, Gone, At
<1>9. ASSUME SetListeners(k) \/ BuildGateway(k) \/ WriteGateway(k) \/ ReadSecret(k) \/ WriteSecret(k) PROVE FALSE
  BY <1>9 DEF SetListeners, BuildGateway, WriteGateway, ReadSecret, WriteSecret, At
<1>10. QED
  BY <1>3, <1>4, <1>5, <1>6, <1>7, <1>8, <1>9 DEF StepOf, Step

(* What the spec that a job works from asks for is what the package asks   *)
(* for now.                                                                *)
LEMMA SightOfJob ==
  ASSUME TypeOK, SecretInv, NEW k \in Package, InSight(k)
  PROVE  /\ flow[k].job = "reconcile" => LatestSpec(k) = SnapSpec(k) /\ SnapSpec(k) \in PackageSpec
         /\ flow[k].job = "finalize" => LatestSpec(k) = None
<1>1. FlowOK(k) /\ SecretOK(k)
  BY Snapped DEF SecretInv
<1>2. ASSUME flow[k].job = "reconcile" PROVE LatestSpec(k) = SnapSpec(k) /\ SnapSpec(k) \in PackageSpec
  <2>1. object[k].exists /\ k \notin due /\ ~object[k].deleted /\ flow[k].snap \in ObjectState
    BY <1>1, <1>2 DEF InSight, FlowOK
  <2>2. QED
    BY <1>1, <1>2, <2>1 DEF SecretOK, LatestSpec, SnapSpec, ObjectState
<1>3. ASSUME flow[k].job = "finalize" PROVE LatestSpec(k) = None
  BY <1>1, <1>3 DEF FlowOK, LatestSpec
<1>4. QED
  BY <1>2, <1>3

(* A workload that is led stays so, and one that is on the list is led     *)
(* when it is taken off.                                                   *)
LEMMA LedKept ==
  ASSUME TypeOK, SecretInv, NEW k \in Package, StepOf(k), InSight(k), InSight(k)', LatestSpec(k)' = LatestSpec(k),
         NEW w \in WorkloadsOf(k)
  PROVE  /\ Led(k, w) => Led(k, w)'
         /\ workload[w].leaving => workload'[w].leaving \/ Led(k, w)'
         /\ w \in flow[k].todo /\ flow[k].at \in {"label", "clean"} /\ flow'[k].at = flow[k].at =>
              w \in flow'[k].todo \/ Led(k, w)'
<1>1. "lag" \notin trouble'[k] /\ "patch" \notin trouble'[k]
  BY DEF InSight
<1>2. ASSUME LabelResource(k, w) PROVE MatchingClient(LatestSpec(k), w) # None
  <2>1. flow[k].job = "reconcile" /\ flow[k].at = "label" /\ w \in flow[k].todo
    BY <1>2 DEF LabelResource, At, Reconcile
  <2>2. LatestSpec(k) = SnapSpec(k) /\ SnapSpec(k) \in PackageSpec
    BY <2>1, SightOfJob
  <2>3. /\ SnapSpec(k).mode = "ambient" /\ flow[k].next \in 1..Len(SnapSpec(k).sso)
        /\ w \in SnapSpec(k).sso[flow[k].next].selects
    <3>1. FlowOK(k)
      BY Snapped
    <3>2. QED
      BY <2>1, <3>1 DEF FlowOK
  <2>4. flow[k].next \in DOMAIN SnapSpec(k).sso /\ SnapSpec(k) # None
    BY <2>2, <2>3, SpecsAssumption DEF PackageSpec
  <2>5. QED
    BY <2>2, <2>3, <2>4, LedTo
<1>3. (w \in Pod /\ Replace(w)) \/ LabelResource(k, w) \/ UnlabelResource(k, w) => Led(k, w)'
  BY <1>1, <1>2, Relabelled
<1>4. ~FailPatch(k, w)
  BY <1>1 DEF FailPatch, Troubled, TypeOK
<1>5. workload'[w].waypoint = workload[w].waypoint /\ Led(k, w) => Led(k, w)'
  BY DEF Led
<1>6. \/ Led(k, w)'
      \/ workload'[w].waypoint = workload[w].waypoint /\ (workload[w].leaving => workload'[w].leaving)
  BY <1>3, WorkloadKept
<1>7. w \in flow[k].todo /\ flow[k].at \in {"label", "clean"} /\ flow'[k].at = flow[k].at =>
              w \in flow'[k].todo \/ Led(k, w)'
  BY <1>3, <1>4, TodoKept
<1>8. QED
  BY <1>5, <1>6, <1>7

(* What purgeAuthserviceClients takes up, and what it need not.            *)
LEMMA LedPurged ==
  ASSUME TypeOK, SecretInv, NEW k \in Package, PurgeClients(k), LedOK(k), InSight(k), "status" \notin trouble'[k],
         NEW w \in WorkloadsOf(k)
  PROVE  workload[w].leaving \/ Led(k, w) \/ w \in flow'[k].todo
<1> DEFINE snap == flow[k].snap
           reconciles == flow[k].job = "reconcile"
           spec == IF reconciles THEN snap.spec ELSE None
           sso == IF reconciles THEN snap.spec.sso ELSE <<>>
           clean == ClientsToClean(snap.clients, sso, reconciles /\ snap.mode # snap.spec.mode)
           matching == MatchingClient(spec, w)
           waypoint == workload[w].waypoint
<1>1. /\ flow[k] \in Flow /\ flow[k].at \in {"kill", "label"} /\ flow[k].todo = {} /\ ~ClientsLeft(k)
      /\ FlowOK(k)
  BY Snapped DEF PurgeClients
<1>2. flow[k].job \in {"reconcile", "finalize"}
  <2>1. Idle.at = "idle"
    BY DEF Idle
  <2>2. QED
    BY <1>1, <2>1 DEF FlowOK, Flow
<1>3. LatestSpec(k) = spec /\ spec \in PackageSpec \cup {None} /\ (reconciles => spec = snap.spec /\ spec \in PackageSpec)
  BY <1>2, SightOfJob DEF SnapSpec
<1>4. flow'[k].todo = HasLabelOf(k, clean)
  BY <1>1 DEF PurgeClients, TypeOK
<1>5. ~Hidden(k, snap, spec)
  <2> HIDE DEF spec
  <2>1. Troubled(k, IF Hidden(k, snap, spec) THEN {"status"} ELSE {})
    BY DEF PurgeClients, spec
  <2>2. QED
    BY <2>1 DEF Troubled, TypeOK
<1>6. CASE matching # None
  <2>1. reconciles /\ spec.mode = "ambient"
    BY <1>3, <1>6, LedTo
  <2>2. PICK i \in DOMAIN spec.sso : w \in spec.sso[i].selects
    BY <1>3, <1>6, LedTo
  <2>3. spec.sso \in Seq(SsoClient)
    BY <1>3, <2>1 DEF PackageSpec
  <2>4. i \in 1..Len(spec.sso) /\ Len(spec.sso) \in Nat /\ flow[k].next >= Len(spec.sso)
    BY <1>1, <1>3, <2>1, <2>2, <2>3 DEF ClientsLeft, SnapSpec, Flow
  <2>5. flow[k].at = "label" /\ flow[k].next = Len(spec.sso)
    BY <1>1, <1>3, <2>1, <2>4 DEF FlowOK, SnapSpec
  <2>6. SnapSpec(k) = spec
    BY <1>3, <2>1 DEF SnapSpec
  <2>7. Led(k, w)
    BY <1>1, <2>2, <2>4, <2>5, <2>6 DEF LedOK
  <2>8. QED
    BY <2>7
<1>7. CASE matching = None /\ waypoint = None
  BY <1>3, <1>7 DEF Led
<1>8. CASE matching = None /\ waypoint # None
  <2>1. PICK l \in snap.clients : snap.mode = "ambient" /\ w \in l.selects /\ waypoint = l.client
    <3> HIDE DEF spec
    <3>1. waypoint \in {None, matching} \cup {l.client : l \in {c \in snap.clients : snap.mode = "ambient" /\ w \in c.selects}}
      BY <1>5 DEF Hidden
    <3>2. QED
      BY <1>8, <3>1
  <2>2. l.client \in clean
    <3>1. CASE reconciles /\ snap.mode # snap.spec.mode
      BY <2>1, <3>1 DEF ClientsToClean
    <3>2. CASE reconciles /\ snap.mode = snap.spec.mode
      <4>1. spec # None /\ spec.mode = "ambient" /\ sso = spec.sso
        BY <1>3, <2>1, <3>2, SpecsAssumption
      <4>2. \A i \in DOMAIN sso : w \notin sso[i].selects
        BY <1>3, <1>8, <4>1, LedTo
      <4>3. l \notin {sso[i] : i \in DOMAIN sso}
        BY <2>1, <4>2
      <4> HIDE DEF sso
      <4>4. QED
        BY <2>1, <4>3 DEF ClientsToClean
    <3>3. CASE ~reconciles
      BY <2>1, <3>3 DEF ClientsToClean
    <3>4. QED
      BY <3>1, <3>2, <3>3
  <2>3. workload[w].leaving \/ w \in HasLabelOf(k, clean)
    <3> HIDE DEF clean
    <3>1. QED
      BY <2>1, <2>2 DEF HasLabelOf
  <2>4. QED
    BY <1>4, <2>3
<1>9. QED
  BY <1>6, <1>7, <1>8

LEMMA LedStep == TypeOK /\ SecretInv /\ LedInv /\ [Next]_vars => LedInv'
<1> SUFFICES ASSUME TypeOK, SecretInv, LedInv, [Next]_vars PROVE LedInv'
  OBVIOUS
<1>1. Idle.job = "none" /\ Idle.at = "idle" /\ "idle" \notin After /\ "clean" \notin After /\ "label" \notin After
      /\ "get" \notin After
  BY DEF Idle, After
<1>2. ASSUME NEW q \in Package, flow'[q] = flow[q], object'[q] = object[q], q \in due' <=> q \in due,
             trouble[q] \subseteq trouble'[q], \A w \in WorkloadsOf(q) : workload'[w] = workload[w]
      PROVE  LedOK(q)'
  <2>1. LedOK(q)
    BY DEF LedInv
  <2>2. QED
    BY <1>2, <2>1 DEF LedOK, InSight, Led, LatestSpec, SnapSpec, Settled, WorkloadsOf
<1>3. CASE UNCHANGED vars
  <2>1. ASSUME NEW q \in Package PROVE LedOK(q)'
    <3>1. UNCHANGED <<flow, object, due, trouble, workload>>
      BY <1>3 DEF vars, mesh
    <3>2. QED
      BY <1>2, <3>1
  <2>2. QED
    BY <2>1 DEF LedInv
<1>4. CASE Restart
  <2>1. ASSUME NEW q \in Package PROVE LedOK(q)'
    <3>1. /\ flow'[q] = Idle /\ object'[q] = object[q] /\ (object[q].exists => q \in due') /\ workload' = workload
          /\ trouble[q] \subseteq trouble'[q]
      BY <1>4 DEF Restart, mesh
    <3>2. LedOK(q)
      BY DEF LedInv
    <3>3. CASE object[q].exists
      BY <1>1, <3>1, <3>3 DEF LedOK, InSight
    <3>4. CASE ~object[q].exists
      BY <1>1, <3>1, <3>2, <3>4 DEF LedOK, InSight, Led, LatestSpec, WorkloadsOf
    <3>5. QED
      BY <3>3, <3>4
  <2>2. QED
    BY <2>1 DEF LedInv
<1>5. ASSUME NEW k \in Package, StepOf(k) PROVE LedInv'
  <2>1. ASSUME NEW q \in Package, q # k PROVE LedOK(q)'
    <3>1. Apart(q)
      BY <1>5, <2>1, Elsewhere
    <3>2. QED
      BY <1>2, <3>1 DEF Apart
  <2>2. ASSUME InSight(k)' PROVE LedOK(k)'
    <3>1. CASE StartReconcile(k) \/ StartFinalize(k)
      <4>1. flow'[k].at = "get" /\ object'[k].exists
        BY <3>1, Effects DEF Begins, Becomes, StartReconcile, StartFinalize
      <4>2. ~Settled(k)'
        BY <1>1, <4>1 DEF Settled
      <4>3. QED
        BY <1>1, <4>1, <4>2 DEF LedOK
    <3>2. CASE LatestSpec(k)' = LatestSpec(k) /\ InSight(k)
      <4>1. LedOK(k) /\ FlowOK(k) /\ flow[k] \in Flow
        BY Snapped DEF LedInv
      <4>2. "status" \notin trouble'[k]
        BY <2>2 DEF InSight
      <4>3. ASSUME NEW w \in WorkloadsOf(k)
            PROVE  /\ Led(k, w) => Led(k, w)'
                   /\ workload[w].leaving => workload'[w].leaving \/ Led(k, w)'
                   /\ w \in flow[k].todo /\ flow[k].at \in {"label", "clean"} /\ flow'[k].at = flow[k].at =>
                        w \in flow'[k].todo \/ Led(k, w)'
        BY <1>5, <2>2, <3>2, <4>3, LedKept
      <4>4. ASSUME flow'[k].at = "label", NEW w \in WorkloadsOf(k), NEW i \in 1..flow'[k].next,
                   w \in SnapSpec(k)'.sso[i].selects
            PROVE  Led(k, w)' \/ w \in flow'[k].todo
        <5>1. CASE SetupAmbientWaypoint(k)
          <6>1. PICK new : new = SnapSpec(k).sso[flow[k].next + 1]
            OBVIOUS
          <6>2. PICK n : n = flow[k].next + 1
            OBVIOUS
          <6>3. /\ flow[k].at \in {"kill", "label"} /\ flow[k].todo = {}
                /\ flow' = [flow EXCEPT ![k].next = n, ![k].at = "label", ![k].todo = new.selects \cap WorkloadsOf(k)]
            BY <5>1, <6>1, <6>2 DEF SetupAmbientWaypoint
          <6>4. /\ flow'[k].next = n /\ flow'[k].todo = new.selects \cap WorkloadsOf(k)
                /\ flow'[k].snap = flow[k].snap
            BY <4>1, <6>3 DEF TypeOK, Flow
          <6>5. CASE i = n
            BY <4>4, <6>1, <6>2, <6>4, <6>5 DEF SnapSpec
          <6>6. CASE i # n
            <7>1. flow[k].next \in Nat /\ i \in 1..flow[k].next
              BY <4>1, <4>4, <6>2, <6>4, <6>6 DEF Flow
            <7>2. flow[k].at = "label"
              BY <4>1, <6>3, <7>1 DEF FlowOK
            <7>3. w \in SnapSpec(k).sso[i].selects
              BY <4>4, <6>4 DEF SnapSpec
            <7>4. Led(k, w)
              BY <3>2, <4>1, <6>3, <7>1, <7>2, <7>3 DEF LedOK
            <7>5. QED
              BY <4>3, <7>4
          <6>7. QED
            BY <6>5, <6>6
        <5>2. CASE flow[k].at = "label" /\ SameJob(k) /\ flow'[k].next = flow[k].next
          <6>1. w \in SnapSpec(k).sso[i].selects /\ i \in 1..flow[k].next
            BY <4>4, <5>2 DEF SameJob, SnapSpec
          <6>2. Led(k, w) \/ w \in flow[k].todo
            BY <3>2, <4>1, <5>2, <6>1 DEF LedOK
          <6>3. QED
            BY <4>3, <4>4, <5>2, <6>2
        <5>3. QED
          BY <1>5, <4>4, <5>1, <5>2, StagesKept
      <4>5. ASSUME flow'[k].at = "clean", NEW w \in WorkloadsOf(k)
            PROVE  workload'[w].leaving \/ Led(k, w)' \/ w \in flow'[k].todo
        <5>1. CASE PurgeClients(k)
          <6>1. workload[w].leaving \/ Led(k, w) \/ w \in flow'[k].todo
            BY <3>2, <4>1, <4>2, <5>1, LedPurged
          <6>2. QED
            BY <4>3, <6>1
        <5>2. CASE flow[k].at = "clean" /\ SameJob(k)
          <6>1. workload[w].leaving \/ Led(k, w) \/ w \in flow[k].todo
            BY <3>2, <4>1, <5>2 DEF LedOK
          <6>2. QED
            BY <4>3, <4>5, <5>2, <6>1
        <5>3. QED
          BY <1>5, <4>5, <5>1, <5>2, StagesKept
      <4>6. ASSUME flow'[k].at \in After \/ ~object'[k].exists \/ Settled(k)', NEW w \in WorkloadsOf(k)
            PROVE  workload'[w].leaving \/ Led(k, w)'
        <5>1. CASE PurgeOrphans(k)
          <6>1. flow[k].at = "clean" /\ flow[k].todo = {}
            BY <5>1 DEF PurgeOrphans, At
          <6>2. workload[w].leaving \/ Led(k, w)
            BY <3>2, <4>1, <6>1 DEF LedOK
          <6>3. QED
            BY <4>3, <6>2
        <5>2. CASE flow[k].at \in After \/ ~object[k].exists \/ Settled(k)
          <6>1. workload[w].leaving \/ Led(k, w)
            BY <3>2, <4>1, <5>2 DEF LedOK
          <6>2. QED
            BY <4>3, <6>1
        <5>3. SetReady(k) \/ Gone(k) => flow[k].at \in After
          BY DEF SetReady, Gone, At, After
        <5>4. QED
          BY <1>5, <4>6, <5>1, <5>2, <5>3, StagesKept, Settling
      <4>7. WorkloadsOf(k)' = WorkloadsOf(k)
        BY DEF WorkloadsOf
      <4>8. QED
        BY <4>4, <4>5, <4>6, <4>7 DEF LedOK
    <3>3. QED
      BY <1>5, <2>2, <3>1, <3>2, SightKept
  <2>3. LedOK(k)'
    BY <2>2 DEF LedOK
  <2>4. QED
    BY <2>1, <2>3 DEF LedInv
<1>6. QED
  BY <1>3, <1>4, <1>5, Steps

LEMMA LedInit == Init => MadeInv /\ LedInv
<1> SUFFICES ASSUME Init, NEW k \in Package PROVE MadeOK(k) /\ LedOK(k)
  BY DEF MadeInv, LedInv
<1>1. /\ flow[k].job = "none" /\ flow[k].at = "idle" /\ object[k].exists /\ k \in due
  BY DEF Init, Idle
<1>2. "idle" \notin After /\ ~Settled(k)
  BY <1>1 DEF After, Settled
<1>3. QED
  BY <1>1, <1>2 DEF MadeOK, LedOK

(* The workloads of a reconciled package go through the waypoint of the    *)
(* client that selects them, which exists, and through no other.           *)
THEOREM LabelsAreExact == Spec => []LabelsExact
<1>1. TypeOK /\ MadeInv /\ LedInv => LabelsExact
  <2> SUFFICES ASSUME TypeOK, MadeInv, LedInv, NEW k \in Package, Settled(k), ~object[k].deleted,
                      trouble[k] \cap {"lag", "patch", "status"} = {}, NEW w \in WorkloadsOf(k), ~workload[w].leaving
               PROVE  LET client == MatchingClient(object[k].spec, w)
                      IN  /\ workload[w].waypoint = client
                          /\ client # None => gateways[k][client] > 0
    BY DEF LabelsExact
  <2>1. MadeOK(k) /\ LedOK(k) /\ InSight(k) /\ LatestSpec(k) = object[k].spec /\ object[k].spec \in PackageSpec
    BY DEF MadeInv, LedInv, InSight, Settled, LatestSpec, TypeOK, ObjectState
  <2>2. workload[w].waypoint = MatchingClient(object[k].spec, w)
    BY <2>1 DEF LedOK, Led
  <2>3. ASSUME MatchingClient(object[k].spec, w) # None PROVE gateways[k][MatchingClient(object[k].spec, w)] > 0
    <3>1. /\ object[k].spec.mode = "ambient"
          /\ \E i \in DOMAIN object[k].spec.sso : MatchingClient(object[k].spec, w) = object[k].spec.sso[i].client
      BY <2>1, <2>3, LedTo
    <3>2. QED
      BY <2>1, <3>1 DEF MadeOK
  <2>4. QED
    BY <2>2, <2>3
<1>2. QED
  BY <1>1, InitTyped, TypeStep, SharedInit, SecretStep, LedInit, MadeStep, LedStep, PTL DEF Spec

(* A package that is gone leaves nothing behind: the namespace is as it    *)
(* was, no workload goes through a waypoint that went with the package, no *)
(* listener and no module stays.                                           *)
THEOREM NothingStays == Spec => []NothingRemains
<1>1. TypeOK /\ SecretInv /\ GatewayInv /\ RestoredInv /\ LedInv => NothingRemains
  <2> SUFFICES ASSUME TypeOK, SecretInv, GatewayInv, RestoredInv, LedInv, NEW k \in Package, ~object[k].exists
               PROVE  /\ namespace[k].original = None /\ ~namespace[k].pkg
                      /\ "early" \notin trouble[k] => namespace[k].label = before[k]
                      /\ trouble[k] \cap {"lag", "patch", "status"} = {} =>
                           \A w \in WorkloadsOf(k) : ~workload[w].leaving => workload[w].waypoint = None
                      /\ "request" \notin trouble[k] => {e \in gateway : e[1] = k} = {}
                      /\ {m \in secret : m[1] = k} = {}
    BY DEF NothingRemains
  <2>1. SecretOK(k) /\ ServedOK(k) /\ RestoredOK(k) /\ LedOK(k) /\ FlowOK(k)
    BY Snapped DEF SecretInv, GatewayInv, RestoredInv, LedInv
  <2>2. namespace[k].original = None /\ ~namespace[k].pkg /\ ("early" \notin trouble[k] => namespace[k].label = before[k])
    BY <2>1 DEF RestoredOK
  <2>3. {m \in secret : m[1] = k} = {}
    BY <2>1 DEF SecretOK, EntriesOf
  <2>4. "request" \notin trouble[k] => {e \in gateway : e[1] = k} = {}
    BY <2>1 DEF ServedOK, Served, EntriesOf, Entries
  <2>5. ASSUME trouble[k] \cap {"lag", "patch", "status"} = {}, NEW w \in WorkloadsOf(k), ~workload[w].leaving
        PROVE  workload[w].waypoint = None
    <3>1. Led(k, w)
      BY <2>1, <2>5 DEF LedOK, InSight
    <3>2. LatestSpec(k) = None
      BY DEF LatestSpec
    <3>3. QED
      BY <3>1, <3>2, LedTo DEF Led
  <2>6. QED
    BY <2>2, <2>3, <2>4, <2>5
<1>2. QED
  BY <1>1, InitTyped, TypeStep, SharedInit, SecretStep, GatewayStep, MeshInit, MeshStep, RestoredStep, LedInit, LedStep,
     PTL DEF Spec

=============================================================================
