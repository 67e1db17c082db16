----------------------- MODULE PackageLifecycleProofs -----------------------
(***************************************************************************)
(* Proofs about PackageLifecycle for every set of clients, specs and       *)
(* finalizer tasks and every bound.                                        *)
(***************************************************************************)
EXTENDS PackageLifecycle, TLAPS

-----------------------------------------------------------------------------
(* Type correctness.                                                       *)

(* A package as the user creates it.                                       *)
LEMMA CreatedTyped == \A s \in Specs : Created(s) \in Packages
  BY SpecsAssumption, BoundsAssumption DEF Created, Packages, Phases

(* A finalizer slot that runs nothing.                                     *)
LEMMA OffTyped == Off \in [pc : FinPcs, snap : Packages]
<1>1. (CHOOSE s \in Specs : TRUE) \in Specs
  BY SpecsAssumption
<1>2. QED
  BY <1>1, CreatedTyped DEF Off, FinPcs

(* A status update of a typed object with a typed snapshot is typed.       *)
LEMMA StatusTyped ==
  ASSUME NEW o \in Packages, NEW snap \in Packages
  PROVE  /\ PendingStatus(o, snap) \in Packages
         /\ ReadyStatus(o, snap) \in Packages
         /\ FailureStatus(o, snap) \in Packages
         /\ RemovalStatus(o, snap, "Removing") \in Packages
         /\ RemovalStatus(o, snap, "RemovalFailed") \in Packages
<1>1. \A clients \in SUBSET Clients : Normalized(snap, clients) \in SUBSET Clients
  BY DEF Normalized, Packages
<1>2. snap.spec.sso \in SUBSET Clients /\ snap.spec.auth \in SUBSET Clients
  BY SpecsAssumption DEF Packages
<1>3. 0 \in 0 .. MaxRetries /\ (snap.retry < MaxRetries => snap.retry + 1 \in 0 .. MaxRetries)
  BY BoundsAssumption DEF Packages
<1>4. PendingStatus(o, snap) \in Packages
  BY <1>1 DEF PendingStatus, Packages, Phases
<1>5. ReadyStatus(o, snap) \in Packages
  BY <1>1, <1>2, <1>3 DEF ReadyStatus, Packages, Phases
<1>6. FailureStatus(o, snap) \in Packages
  BY <1>1, <1>3 DEF FailureStatus, Packages, Phases
<1>7. /\ RemovalStatus(o, snap, "Removing") \in Packages
      /\ RemovalStatus(o, snap, "RemovalFailed") \in Packages
  BY <1>1 DEF RemovalStatus, Packages, Phases
<1>8. QED
  BY <1>4, <1>5, <1>6, <1>7

(* An edit of the spec and the generation.                                 *)
LEMMA EditTyped ==
  ASSUME NEW o \in Packages, NEW s \in Specs
  PROVE  [o EXCEPT !.spec = s, !.gen = @ + 1] \in Packages
<1>1. o.gen + 1 \in Nat
  BY DEF Packages
<1>2. QED
  BY <1>1 DEF Packages

(* The deletion timestamp and the generation it bumps.                     *)
LEMMA DeleteTyped ==
  ASSUME NEW o \in Packages
  PROVE  [o EXCEPT !.deleted = TRUE, !.gen = @ + 1] \in Packages
<1>1. o.gen + 1 \in Nat
  BY DEF Packages
<1>2. QED
  BY <1>1 DEF Packages

(* The stored object, as a fact of its own for the lemmas that cite it.    *)
LEMMA ObjTyped == TypeOK => obj \in Packages
  BY DEF TypeOK

(* A write of a typed object to the API server leaves the cluster typed,   *)
(* the events it causes included.                                          *)
LEMMA StoreTyped ==
  ASSUME TypeOK, NEW o \in Packages, Store(o)
  PROVE  /\ exists' \in BOOLEAN
         /\ obj' \in Packages
         /\ queue' \in Seq(Packages)
         /\ deletions' \in Seq(Packages)
  BY DEF TypeOK, Store

(* Counting one more use of any bound.                                     *)
LEMMA UsageTyped ==
  ASSUME NEW u \in Usage
  PROVE  /\ [u EXCEPT !.edits = @ + 1] \in Usage
         /\ [u EXCEPT !.touches = @ + 1] \in Usage
         /\ [u EXCEPT !.deletes = @ + 1] \in Usage
         /\ [u EXCEPT !.steps = @ + 1] \in Usage
         /\ [u EXCEPT !.api = @ + 1] \in Usage
         /\ [u EXCEPT !.crashes = @ + 1] \in Usage
         /\ [u EXCEPT !.relists = @ + 1] \in Usage
  BY DEF Usage

(* A failing step or request counts against its bound.                     *)
LEMMA FaultTyped == TypeOK /\ (UseStepFault \/ UseApiFault) => used' \in Usage
  BY UsageTyped DEF TypeOK, UseStepFault, UseApiFault

(* The initial states are typed.                                           *)
LEMMA InitTyped == Init => TypeOK
<1> SUFFICES ASSUME Init PROVE TypeOK
  OBVIOUS
<1>1. obj \in Packages
  BY CreatedTyped DEF Init
<1>2. rec \in [pc : RecPcs, snap : Packages]
  BY <1>1 DEF Init, RecPcs
<1>3. fin \in [Tasks -> [pc : FinPcs, snap : Packages]]
  BY OffTyped DEF Init
<1>4. used \in Usage
  BY DEF Init, Usage
<1>5. queue \in Seq(Packages) /\ deletions \in Seq(Packages)
  BY <1>1 DEF Init
<1>6. QED
  BY <1>1, <1>2, <1>3, <1>4, <1>5 DEF Init, TypeOK

(* The environment: users, reconnecting watches and restarts.              *)
LEMMA EnvironmentTyped ==
  ASSUME TypeOK, User \/ Relist \/ Restart
  PROVE  TypeOK'
<1> USE DEF cluster, external
<1>1. ASSUME NEW s \in Specs, UserEdits(s) PROVE TypeOK'
  <2>1. [obj EXCEPT !.spec = s, !.gen = @ + 1] \in Packages
    BY ObjTyped, EditTyped
  <2>2. QED
    BY <1>1, <2>1, StoreTyped, UsageTyped DEF TypeOK, UserEdits
<1>2. CASE UserTouches
  <2>1. obj \in Packages
    BY DEF TypeOK
  <2>2. QED
    BY <1>2, <2>1, StoreTyped, UsageTyped DEF TypeOK, UserTouches
<1>3. CASE UserDeletes
  <2>1. [obj EXCEPT !.deleted = TRUE, !.gen = @ + 1] \in Packages
    BY ObjTyped, DeleteTyped
  <2>2. QED
    BY <1>3, <2>1, StoreTyped, UsageTyped DEF TypeOK, UserDeletes
<1>4. CASE Relist
  <2>1. ASSUME NEW q \in Seq(Packages), NEW n \in 0 .. Len(q) - 2
        PROVE  Append(SubSeq(q, 1, n), q[Len(q)]) \in Seq(Packages)
    <3>1. SubSeq(q, 1, n) \in Seq(Packages)
      <4>1. \A i \in 1 .. n : q[i] \in Packages
        OBVIOUS
      <4>2. QED
        BY <4>1
    <3>2. q[Len(q)] \in Packages
      OBVIOUS
    <3>3. QED
      BY <3>1, <3>2
  <2>2. queue' \in Seq(Packages) /\ deletions' \in Seq(Packages)
    BY <1>4, <2>1 DEF Relist, TypeOK
  <2>3. QED
    BY <1>4, <2>2, UsageTyped DEF Relist, TypeOK
<1>5. CASE Restart
  <2>1. fin' \in [Tasks -> [pc : FinPcs, snap : Packages]]
    BY <1>5, OffTyped DEF Restart
  <2>2. queue' \in Seq(Packages) /\ rec' \in [pc : RecPcs, snap : Packages]
    BY <1>5 DEF Restart, TypeOK, RecPcs
  <2>3. used' \in Usage
    BY <1>5, UsageTyped DEF Restart, TypeOK
  <2>4. exists' \in BOOLEAN /\ obj' \in Packages /\ deletions' \in Seq(Packages)
    BY <1>5 DEF Restart, TypeOK
  <2>5. QED
    BY <1>5, <2>1, <2>2, <2>3, <2>4 DEF Restart, TypeOK
<1>6. QED
  BY <1>1, <1>2, <1>3, <1>4, <1>5 DEF User

(* What a step of the flow does to the resources is typed, whether it      *)
(* succeeds or throws.                                                     *)
LEMMA FlowEffectTyped ==
  ASSUME TypeOK, rec.pc \in FlowSteps,
         FlowEffect(rec.pc) \/ (FlowStepPart(rec.pc) /\ (UseStepFault \/ UseApiFault))
  PROVE  /\ keycloak' \subseteq Clients
         /\ chains' \subseteq Clients
         /\ shared' \subseteq SharedKinds
         /\ used' \in Usage
<1> DEFINE spec == rec.snap.spec
<1>1. spec.sso \subseteq Clients /\ spec.auth \subseteq Clients
  BY SpecsAssumption DEF TypeOK, Packages
<1>2. UseStepFault \/ UseApiFault => used' \in Usage
  BY FaultTyped
<1>3. CASE FlowEffect(rec.pc)
  BY <1>1, <1>2, <1>3 DEF FlowEffect, FlowSteps, TypeOK, SharedKinds, PurgedAll, PurgedSome, external
<1>4. CASE FlowStepPart(rec.pc) /\ (UseStepFault \/ UseApiFault)
  <2>1. \A step \in {"mesh", "gateway", "egress", "probe"} :
            [mesh |-> "namespace", gateway |-> "gateway", egress |-> "egress",
             probe |-> "blackbox"][step] \in SharedKinds
    BY DEF SharedKinds
  <2>2. keycloak' \subseteq Clients /\ chains' \subseteq Clients /\ shared' \subseteq SharedKinds
    BY <1>1, <1>4, <2>1 DEF FlowStepPart, TypeOK, external
  <2>3. QED
    BY <1>2, <1>4, <2>2
<1>5. QED
  BY <1>3, <1>4

(* The steps of packageReconciler.                                         *)
LEMMA ReconcilerTyped ==
  ASSUME TypeOK, Reconciler
  PROVE  TypeOK'
<1> USE DEF cluster, external, RecPcs
<1>0. rec.snap \in Packages /\ obj \in Packages /\ rec \in [pc : RecPcs, snap : Packages]
  BY DEF TypeOK
<1>1. CASE SkipEvent
  BY <1>1 DEF SkipEvent, TypeOK
<1>2. CASE StartAttempt
  BY <1>2 DEF StartAttempt, TypeOK
<1>3. CASE BackoffElapses \/ PatchNotFound
  BY <1>3 DEF BackoffElapses, PatchNotFound, TypeOK
<1>4. CASE BackoffEventFails \/ PatchFails \/ FailureEventFails
  BY <1>4, FaultTyped DEF BackoffEventFails, PatchFails, FailureEventFails, TypeOK
<1>5. CASE SetPending
  <2>1. PendingStatus(obj, rec.snap) \in Packages
    BY <1>0, StatusTyped
  <2>2. rec' \in [pc : RecPcs, snap : Packages]
    BY <1>0, <1>5 DEF SetPending, FlowSteps
  <2>3. QED
    BY <1>5, <2>1, <2>2, StoreTyped DEF SetPending, TypeOK, Races, Finalizing
<1>6. CASE FlowStep
  <2>1. rec' \in [pc : RecPcs, snap : Packages]
    BY <1>0, <1>6 DEF FlowStep, FlowSteps, NextFlowStep
  <2>2. raced' \in BOOLEAN
    BY <1>6 DEF FlowStep, Races, Finalizing, TypeOK
  <2>3. QED
    BY <1>6, <2>1, <2>2, FlowEffectTyped DEF FlowStep, TypeOK
<1>7. ASSUME NEW e \in StepErrors, FlowStepFails(e) PROVE TypeOK'
  <2>1. rec' \in [pc : RecPcs, snap : Packages]
    BY <1>0, <1>7 DEF FlowStepFails
  <2>2. raced' \in BOOLEAN
    BY <1>7 DEF FlowStepFails, Races, Finalizing, TypeOK
  <2>3. QED
    BY <1>7, <2>1, <2>2, FlowEffectTyped DEF FlowStepFails, TypeOK
<1>8. CASE SetReady
  <2>1. ReadyStatus(obj, rec.snap) \in Packages
    BY <1>0, StatusTyped
  <2>2. rec' \in [pc : RecPcs, snap : Packages]
    BY <1>0, <1>8 DEF SetReady
  <2>3. QED
    BY <1>8, <2>1, <2>2, StoreTyped DEF SetReady, TypeOK, Races, Finalizing
<1>9. CASE ReportFailure
  BY <1>0, <1>9 DEF ReportFailure, TypeOK
<1>10. QED
  BY <1>1, <1>2, <1>3, <1>4, <1>5, <1>6, <1>7, <1>8, <1>9 DEF Reconciler

(* The status patch of handleFailure that nobody awaits.                   *)
LEMMA FailurePatchTyped ==
  ASSUME TypeOK, FailurePatch
  PROVE  TypeOK'
<1> USE DEF cluster, external
<1> PICK p \in patches : FailurePatchLands(p) \/ FailurePatchLost(p)
  BY DEF FailurePatch
<1>1. CASE FailurePatchLands(p)
  <2>1. FailureStatus(obj, p) \in Packages
    BY StatusTyped DEF TypeOK
  <2>2. QED
    BY <1>1, <2>1, StoreTyped DEF FailurePatchLands, TypeOK, Races, Finalizing
<1>2. CASE FailurePatchLost(p)
  BY <1>2, FaultTyped DEF FailurePatchLost, TypeOK
<1>3. QED
  BY <1>1, <1>2

(* The steps of a packageFinalizer callback.                               *)
LEMMA FinalizerTyped ==
  ASSUME TypeOK, NEW t \in Tasks, Finalizer(t)
  PROVE  TypeOK'
<1> USE DEF cluster, external, FinPcs, CleanupSteps
<1>0. /\ fin[t] \in [pc : FinPcs, snap : Packages]
      /\ fin[t].snap \in Packages
      /\ obj \in Packages
      /\ fin \in [Tasks -> [pc : FinPcs, snap : Packages]]
  BY DEF TypeOK
<1>1. CASE SetRemoving(t)
  <2>1. RemovalStatus(obj, fin[t].snap, "Removing") \in Packages
    BY <1>0, StatusTyped
  <2>2. fin' \in [Tasks -> [pc : FinPcs, snap : Packages]]
    BY <1>0, <1>1 DEF SetRemoving
  <2>3. QED
    BY <1>1, <2>1, <2>2, StoreTyped DEF SetRemoving, TypeOK
<1>2. CASE CleanupStep(t)
  <2>1. fin' \in [Tasks -> [pc : FinPcs, snap : Packages]]
    BY <1>0, <1>2 DEF CleanupStep, NextCleanup
  <2>2. keycloak' \subseteq Clients /\ chains' \subseteq Clients /\ shared' \subseteq SharedKinds
    BY <1>2 DEF CleanupStep, CleanupEffect, PurgedAll, TypeOK
  <2>3. QED
    BY <1>2, <2>1, <2>2 DEF CleanupStep, TypeOK
<1>3. CASE CleanupFails(t)
  <2>1. fin' \in [Tasks -> [pc : FinPcs, snap : Packages]]
    BY <1>0, <1>3 DEF CleanupFails
  <2>2. keycloak' \subseteq Clients /\ chains' \subseteq Clients /\ shared' \subseteq SharedKinds
    BY <1>3 DEF CleanupFails, PurgedSome, TypeOK
  <2>3. used' \in Usage
    BY <1>3, FaultTyped DEF CleanupFails, TypeOK
  <2>4. QED
    BY <1>3, <2>1, <2>2, <2>3 DEF CleanupFails, TypeOK
<1>4. CASE SetRemovalFailed(t)
  <2>1. RemovalStatus(obj, fin[t].snap, "RemovalFailed") \in Packages
    BY <1>0, StatusTyped
  <2>2. fin' \in [Tasks -> [pc : FinPcs, snap : Packages]]
    BY <1>0, <1>4, OffTyped DEF SetRemovalFailed
  <2>3. QED
    BY <1>4, <2>1, <2>2, StoreTyped DEF SetRemovalFailed, TypeOK
<1>5. CASE RemoveFinalizer(t)
  <2>1. fin' \in [Tasks -> [pc : FinPcs, snap : Packages]]
    BY <1>0, <1>5, OffTyped DEF RemoveFinalizer
  <2>2. used' \in Usage
    BY <1>5, FaultTyped DEF RemoveFinalizer, TypeOK
  <2>3. QED
    BY <1>5, <2>1, <2>2 DEF RemoveFinalizer, TypeOK
<1>6. QED
  BY <1>1, <1>2, <1>3, <1>4, <1>5 DEF Finalizer

(* A watch event with a deletionTimestamp reaches packageFinalizer.        *)
LEMMA DeliverDeletionTyped ==
  ASSUME TypeOK, DeliverDeletion
  PROVE  TypeOK'
<1> USE DEF cluster, external
<1>1. CASE FinalizerSkips
  BY <1>1 DEF FinalizerSkips, TypeOK
<1>2. ASSUME NEW t \in Tasks, FinalizerStarts(t) PROVE TypeOK'
  <2>1. Head(deletions) \in Packages /\ deletions' \in Seq(Packages)
    BY <1>2 DEF FinalizerStarts, TypeOK
  <2>2. fin' \in [Tasks -> [pc : FinPcs, snap : Packages]]
    BY <1>2, <2>1 DEF FinalizerStarts, TypeOK, FinPcs
  <2>3. QED
    BY <1>2, <2>1, <2>2 DEF FinalizerStarts, TypeOK
<1>3. QED
  BY <1>1, <1>2 DEF DeliverDeletion

(* Every step keeps the types.                                             *)
LEMMA NextTyped == TypeOK /\ [Next]_vars => TypeOK'
<1> SUFFICES ASSUME TypeOK, [Next]_vars PROVE TypeOK'
  OBVIOUS
<1>1. CASE User \/ Relist \/ Restart
  BY <1>1, EnvironmentTyped
<1>2. CASE Reconciler
  BY <1>2, ReconcilerTyped
<1>3. CASE FailurePatch
  BY <1>3, FailurePatchTyped
<1>4. CASE DeliverDeletion
  BY <1>4, DeliverDeletionTyped
<1>5. ASSUME NEW t \in Tasks, Finalizer(t) PROVE TypeOK'
  BY <1>5, FinalizerTyped
<1>6. CASE UNCHANGED vars
  BY <1>6 DEF vars, TypeOK
<1>7. QED
  BY <1>1, <1>2, <1>3, <1>4, <1>5, <1>6 DEF Next

(* Every reachable state is well typed; in particular no status ever holds *)
(* more than MaxRetries retries.                                           *)
THEOREM TypeCorrect == Spec => []TypeOK
  BY InitTyped, NextTyped, PTL DEF Spec

-----------------------------------------------------------------------------
(* The order of generations.                                               *)

(* A snapshot of the object is not newer than the object, and one of the   *)
(* same generation has the same spec.                                      *)
Agrees(snap, o) ==
    /\ 1 <= snap.gen
    /\ snap.gen <= o.gen
    /\ snap.gen = o.gen => snap.spec = o.spec

SnapshotsAgree ==
    /\ 1 <= obj.gen /\ obj.observed <= obj.gen
    /\ Agrees(rec.snap, obj)
    /\ \A i \in DOMAIN queue : Agrees(queue[i], obj)
    /\ \A p \in patches : Agrees(p, obj)

QueueInOrder ==
    /\ \A i \in DOMAIN queue : rec.snap.gen <= queue[i].gen
    /\ \A i, j \in DOMAIN queue : i <= j => queue[i].gen <= queue[j].gen

OrderInv == SnapshotsAgree /\ QueueInOrder

(* Storing a version that is not older keeps the order.                    *)
LEMMA OrderStored ==
  ASSUME TypeOK, OrderInv, NEW o \in Packages, Store(o),
         obj.gen <= o.gen, o.gen = obj.gen => o.spec = obj.spec, o.observed <= o.gen,
         rec'.snap = rec.snap, patches' \subseteq patches
  PROVE  OrderInv'
<1> DEFINE q == Append(queue, o)
<1>1. /\ obj' = o /\ queue' = q
      /\ obj \in Packages /\ rec.snap \in Packages /\ patches \subseteq Packages
      /\ queue \in Seq(Packages)
      /\ \A i \in DOMAIN queue : queue[i] \in Packages
  BY DEF Store, TypeOK
<1>2. /\ DOMAIN q = DOMAIN queue \cup {Len(queue) + 1}
      /\ q[Len(queue) + 1] = o
      /\ \A i \in DOMAIN queue : q[i] = queue[i] /\ i <= Len(queue) /\ i \in Nat
      /\ Len(queue) \in Nat
  BY <1>1
<1>3. \A snap \in Packages : Agrees(snap, obj) => Agrees(snap, o)
  BY <1>1 DEF Agrees, Packages
<1>4. Agrees(o, o) /\ 1 <= o.gen
  BY <1>1 DEF Agrees, Packages, OrderInv, SnapshotsAgree
<1>5. \A i \in DOMAIN q : Agrees(q[i], o)
  BY <1>1, <1>2, <1>3, <1>4 DEF OrderInv, SnapshotsAgree
<1>6. SnapshotsAgree'
  BY <1>1, <1>3, <1>4, <1>5 DEF OrderInv, SnapshotsAgree
<1>7. \A i \in DOMAIN q : rec.snap.gen <= q[i].gen
  <2>1. rec.snap.gen <= o.gen
    BY <1>1, <1>3 DEF OrderInv, SnapshotsAgree, Agrees
  <2>2. QED
    BY <1>1, <1>2, <2>1 DEF OrderInv, QueueInOrder
<1>8. \A i, j \in DOMAIN q : i <= j => q[i].gen <= q[j].gen
  <2>1. \A i \in DOMAIN q : q[i].gen <= o.gen
    BY <1>5 DEF Agrees
  <2>2. QED
    BY <1>1, <1>2, <2>1 DEF OrderInv, QueueInOrder
<1>9. QED
  BY <1>1, <1>6, <1>7, <1>8 DEF OrderInv, QueueInOrder

(* A status update keeps the generation, the deletionTimestamp and the     *)
(* spec of the object.                                                     *)
LEMMA StatusKeeps ==
  ASSUME NEW o \in Packages, NEW snap \in Packages,
         NEW n \in {PendingStatus(o, snap), ReadyStatus(o, snap), FailureStatus(o, snap),
                    RemovalStatus(o, snap, "Removing"), RemovalStatus(o, snap, "RemovalFailed")}
  PROVE  n.gen = o.gen /\ n.spec = o.spec /\ n.deleted = o.deleted
         /\ n.observed \in {o.observed, snap.gen}
  BY DEF Packages, PendingStatus, ReadyStatus, FailureStatus, RemovalStatus

(* Each status patch is a version that is not older.                       *)
LEMMA OrderStatus ==
  ASSUME TypeOK, OrderInv, NEW snap \in Packages,
         NEW n \in {PendingStatus(obj, snap), FailureStatus(obj, snap), ReadyStatus(obj, snap)},
         Agrees(snap, obj), Store(n), rec'.snap = rec.snap, patches' \subseteq patches
  PROVE  OrderInv'
<1>1. obj \in Packages /\ n \in Packages
  BY StatusTyped DEF TypeOK
<1>2. n.gen = obj.gen /\ n.spec = obj.spec /\ n.observed \in {obj.observed, snap.gen}
  BY <1>1, StatusKeeps
<1>3. obj.gen <= n.gen /\ n.observed <= n.gen
  BY <1>1, <1>2 DEF OrderInv, SnapshotsAgree, Agrees, Packages
<1>4. QED
  BY <1>1, <1>2, <1>3, OrderStored

(* The first snapshot is the object itself.                                *)
LEMMA OrderInit == Init => OrderInv
<1> SUFFICES ASSUME Init PROVE OrderInv
  OBVIOUS
<1>1. PICK s \in Specs : obj = Created(s)
  BY DEF Init
<1>2. obj.gen = 1 /\ obj.observed = 0
  BY <1>1 DEF Created
<1>3. DOMAIN queue = {1} /\ queue[1] = obj /\ rec.snap = obj /\ patches = {}
  BY DEF Init
<1>4. QED
  BY <1>2, <1>3 DEF OrderInv, SnapshotsAgree, QueueInOrder, Agrees

(* Users store newer versions; reconnects and restarts keep the newest.    *)
LEMMA OrderEnvironment ==
  ASSUME TypeOK, OrderInv, User \/ Relist \/ Restart
  PROVE  OrderInv'
<1>0. /\ obj \in Packages /\ queue \in Seq(Packages) /\ rec \in [pc : RecPcs, snap : Packages]
      /\ obj.gen \in Nat /\ obj.observed \in Nat
  BY DEF TypeOK, Packages
<1>1. ASSUME NEW s \in Specs, UserEdits(s) PROVE OrderInv'
  <2> DEFINE o == [obj EXCEPT !.spec = s, !.gen = @ + 1]
  <2>1. o \in Packages /\ Store(o) /\ rec' = rec /\ patches' = patches
    BY <1>0, <1>1, EditTyped DEF UserEdits
  <2>2. o.gen = obj.gen + 1 /\ o.observed = obj.observed
    BY <1>0 DEF Packages
  <2>3. obj.gen <= o.gen /\ o.gen # obj.gen /\ o.observed <= o.gen
    BY <1>0, <2>2 DEF OrderInv, SnapshotsAgree
  <2> HIDE DEF o
  <2>4. QED
    BY <2>1, <2>3, OrderStored
<1>2. CASE UserTouches
  <2>1. Store(obj) /\ rec' = rec /\ patches' = patches
    BY <1>2 DEF UserTouches
  <2>2. obj.gen <= obj.gen /\ obj.observed <= obj.gen
    BY <1>0 DEF OrderInv, SnapshotsAgree
  <2>3. QED
    BY <1>0, <2>1, <2>2, OrderStored
<1>3. CASE UserDeletes
  <2> DEFINE o == [obj EXCEPT !.deleted = TRUE, !.gen = @ + 1]
  <2>1. o \in Packages /\ Store(o) /\ rec' = rec /\ patches' = patches
    BY <1>0, <1>3, DeleteTyped DEF UserDeletes
  <2>2. o.gen = obj.gen + 1 /\ o.observed = obj.observed
    BY <1>0 DEF Packages
  <2>3. obj.gen <= o.gen /\ o.gen # obj.gen /\ o.observed <= o.gen
    BY <1>0, <2>2 DEF OrderInv, SnapshotsAgree
  <2> HIDE DEF o
  <2>4. QED
    BY <2>1, <2>3, OrderStored
<1>4. CASE Relist
  <2>1. obj' = obj /\ rec' = rec /\ patches' = patches
    BY <1>4 DEF Relist
  <2>2. CASE queue' = queue
    BY <2>1, <2>2 DEF OrderInv, SnapshotsAgree, QueueInOrder
  <2>3. ASSUME NEW n \in 0 .. Len(queue) - 2,
               queue' = Append(SubSeq(queue, 1, n), queue[Len(queue)])
        PROVE  OrderInv'
    <3>1. /\ DOMAIN queue' = 1 .. n + 1
          /\ queue'[n + 1] = queue[Len(queue)]
          /\ \A i \in 1 .. n : queue'[i] = queue[i] /\ i \in DOMAIN queue
          /\ Len(queue) \in DOMAIN queue /\ \A i \in 1 .. n : i <= Len(queue)
      BY <1>0, <2>3
    <3>2. \A i \in DOMAIN queue' : \E j \in DOMAIN queue : queue'[i] = queue[j]
      BY <3>1
    <3>3. SnapshotsAgree'
      BY <2>1, <3>2 DEF OrderInv, SnapshotsAgree
    <3>4. \A i \in DOMAIN queue' : rec.snap.gen <= queue'[i].gen
      BY <3>2 DEF OrderInv, QueueInOrder
    <3>5. \A i, j \in DOMAIN queue' : i <= j => queue'[i].gen <= queue'[j].gen
      <4> SUFFICES ASSUME NEW i \in 1 .. n + 1, NEW j \in 1 .. n + 1, i <= j
                   PROVE  queue'[i].gen <= queue'[j].gen
        BY <3>1
      <4>1. CASE j \in 1 .. n
        BY <3>1, <4>1 DEF OrderInv, QueueInOrder
      <4>2. CASE j = n + 1 /\ i \in 1 .. n
        BY <3>1, <4>2 DEF OrderInv, QueueInOrder
      <4>3. CASE j = n + 1 /\ i = n + 1
        <5>0. queue[Len(queue)] \in Packages
          BY <1>0, <3>1
        <5>1. queue[Len(queue)].gen \in Nat
          BY <5>0 DEF Packages
        <5>2. QED
          BY <3>1, <4>3, <5>1
      <4>4. QED
        BY <4>1, <4>2, <4>3
    <3>6. QED
      BY <2>1, <3>3, <3>4, <3>5 DEF OrderInv, QueueInOrder
  <2>4. QED
    BY <1>4, <2>2, <2>3 DEF Relist
<1>5. CASE Restart
  <2>1. /\ obj' = obj /\ rec'.snap = rec.snap /\ patches' = {}
        /\ queue' = <<obj>> \/ queue' = <<>>
    BY <1>0, <1>5 DEF Restart
  <2>2. \A i \in DOMAIN queue' : queue'[i] = obj
    BY <2>1
  <2>3. QED
    BY <1>0, <2>1, <2>2 DEF OrderInv, SnapshotsAgree, QueueInOrder, Agrees
<1>6. QED
  BY <1>1, <1>2, <1>3, <1>4, <1>5 DEF User

(* The reconciler takes the oldest snapshot of the queue, and its patches  *)
(* keep the generation.                                                    *)
LEMMA OrderReconciler ==
  ASSUME TypeOK, OrderInv, Reconciler
  PROVE  OrderInv' /\ rec'.snap.gen >= rec.snap.gen
<1>0. /\ obj \in Packages /\ queue \in Seq(Packages) /\ rec \in [pc : RecPcs, snap : Packages]
      /\ rec.snap \in Packages /\ rec.snap.gen \in Nat /\ Agrees(rec.snap, obj)
  BY DEF TypeOK, Packages, OrderInv, SnapshotsAgree
<1>1. CASE obj' = obj /\ queue' = queue /\ rec'.snap = rec.snap /\ patches' \subseteq patches \cup {rec.snap}
  BY <1>0, <1>1 DEF OrderInv, SnapshotsAgree, QueueInOrder
<1>2. ASSUME queue # <<>>, queue' = Tail(queue), obj' = obj, patches' = patches,
             rec'.snap \in {rec.snap, Head(queue)}
      PROVE  OrderInv' /\ rec'.snap.gen >= rec.snap.gen
  <2>1. /\ \A i \in DOMAIN queue' : i \in Nat /\ i + 1 \in DOMAIN queue /\ queue'[i] = queue[i + 1]
        /\ 1 \in DOMAIN queue /\ Head(queue) = queue[1] /\ \A i \in DOMAIN queue : 1 <= i
    BY <1>0, <1>2
  <2>2. SnapshotsAgree'
    BY <1>0, <1>2, <2>1 DEF OrderInv, SnapshotsAgree
  <2>3. \A i \in DOMAIN queue' : rec'.snap.gen <= queue'[i].gen
    BY <1>2, <2>1 DEF OrderInv, QueueInOrder
  <2>4. \A i, j \in DOMAIN queue' : i <= j => queue'[i].gen <= queue'[j].gen
    BY <2>1 DEF OrderInv, QueueInOrder
  <2>5. rec'.snap.gen >= rec.snap.gen
    <3>0. Head(queue) \in Packages
      BY <1>0, <1>2
    <3>1. Head(queue).gen \in Nat /\ rec.snap.gen <= Head(queue).gen
      BY <2>1, <3>0 DEF OrderInv, QueueInOrder, Packages
    <3>2. QED
      BY <1>0, <1>2, <3>1
  <2>6. QED
    BY <2>2, <2>3, <2>4, <2>5 DEF OrderInv, QueueInOrder
<1>3. CASE SkipEvent \/ StartAttempt
  BY <1>0, <1>2, <1>3 DEF SkipEvent, StartAttempt
<1>4. CASE SetPending
  <2>1. Store(PendingStatus(obj, rec.snap)) /\ rec'.snap = rec.snap /\ patches' = patches
    BY <1>0, <1>4 DEF SetPending
  <2>2. QED
    BY <1>0, <2>1, OrderStatus
<1>5. CASE SetReady
  <2>1. Store(ReadyStatus(obj, rec.snap)) /\ rec'.snap = rec.snap /\ patches' = patches
    BY <1>0, <1>5 DEF SetReady
  <2>2. QED
    BY <1>0, <2>1, OrderStatus
<1>6. CASE BackoffElapses \/ BackoffEventFails \/ PatchNotFound \/ PatchFails
             \/ ReportFailure \/ FailureEventFails
  BY <1>0, <1>1, <1>6
     DEF BackoffElapses, BackoffEventFails, PatchNotFound, PatchFails, ReportFailure,
         FailureEventFails, cluster
<1>7. CASE FlowStep \/ \E e \in StepErrors : FlowStepFails(e)
  BY <1>0, <1>1, <1>7 DEF FlowStep, FlowStepFails, cluster
<1>8. QED
  BY <1>3, <1>4, <1>5, <1>6, <1>7 DEF Reconciler

(* Failure patches and finalizers change the status only.                  *)
LEMMA OrderOthers ==
  ASSUME TypeOK, OrderInv,
         FailurePatch \/ DeliverDeletion \/ \E t \in Tasks : Finalizer(t)
  PROVE  OrderInv' /\ rec' = rec
<1>0. obj \in Packages /\ patches \subseteq Packages /\ obj.gen \in Nat
  BY DEF TypeOK, Packages
<1>1. CASE obj' = obj /\ queue' = queue /\ rec' = rec /\ patches' \subseteq patches
  BY <1>1 DEF OrderInv, SnapshotsAgree, QueueInOrder
<1>2. CASE FailurePatch
  <2> PICK p \in patches : FailurePatchLands(p) \/ FailurePatchLost(p)
    BY <1>2 DEF FailurePatch
  <2>1. CASE FailurePatchLands(p)
    <3>1. Store(FailureStatus(obj, p)) /\ rec' = rec /\ patches' \subseteq patches
      BY <2>1 DEF FailurePatchLands
    <3>2. p \in Packages /\ Agrees(p, obj)
      BY <1>0 DEF OrderInv, SnapshotsAgree
    <3>3. QED
      BY <3>1, <3>2, OrderStatus
  <2>2. CASE FailurePatchLost(p)
    BY <1>1, <2>2 DEF FailurePatchLost, cluster
  <2>3. QED
    BY <2>1, <2>2
<1>3. CASE DeliverDeletion
  BY <1>1, <1>3 DEF DeliverDeletion, FinalizerSkips, FinalizerStarts
<1>4. ASSUME NEW t \in Tasks, Finalizer(t) PROVE OrderInv' /\ rec' = rec
  <2>0. fin[t].snap \in Packages
    BY DEF TypeOK
  <2>1. CASE CleanupStep(t) \/ CleanupFails(t) \/ RemoveFinalizer(t)
    BY <1>1, <2>1 DEF CleanupStep, CleanupFails, RemoveFinalizer, cluster
  <2>2. ASSUME NEW phase \in {"Removing", "RemovalFailed"},
               Store(RemovalStatus(obj, fin[t].snap, phase)), rec' = rec, patches' = patches
        PROVE  OrderInv'
    <3> DEFINE o == RemovalStatus(obj, fin[t].snap, phase)
    <3>1. o \in Packages
      BY <1>0, <2>0, StatusTyped
    <3>2. o.gen = obj.gen /\ o.spec = obj.spec /\ o.observed = obj.observed
      BY <1>0 DEF RemovalStatus, Packages
    <3>3. obj.gen <= o.gen /\ o.observed <= o.gen
      BY <1>0, <3>2 DEF OrderInv, SnapshotsAgree
    <3> HIDE DEF o
    <3>4. Store(o) /\ rec'.snap = rec.snap /\ patches' \subseteq patches
      BY <2>2 DEF o
    <3>5. QED
      BY <3>1, <3>2, <3>3, <3>4, OrderStored
  <2>3. CASE SetRemoving(t)
    BY <2>2, <2>3 DEF SetRemoving
  <2>4. CASE SetRemovalFailed(t)
    BY <2>2, <2>4 DEF SetRemovalFailed
  <2>5. QED
    BY <1>4, <2>1, <2>3, <2>4 DEF Finalizer
<1>5. QED
  BY <1>2, <1>3, <1>4

(* OrderInv is inductive.                                                  *)
LEMMA OrderNext ==
  ASSUME TypeOK, OrderInv, [Next]_vars
  PROVE  OrderInv' /\ rec'.snap.gen >= rec.snap.gen
<1>0. rec.snap.gen \in Nat /\ rec \in [pc : RecPcs, snap : Packages]
  BY DEF TypeOK, Packages
<1>1. CASE User \/ Relist \/ Restart
  <2>1. rec'.snap = rec.snap
    BY <1>0, <1>1 DEF User, UserEdits, UserTouches, UserDeletes, Relist, Restart
  <2>2. QED
    BY <1>0, <1>1, <2>1, OrderEnvironment
<1>2. CASE Reconciler
  BY <1>2, OrderReconciler
<1>3. CASE FailurePatch \/ DeliverDeletion \/ \E t \in Tasks : Finalizer(t)
  BY <1>0, <1>3, OrderOthers
<1>4. CASE UNCHANGED vars
  BY <1>0, <1>4 DEF vars, OrderInv, SnapshotsAgree, QueueInOrder
<1>5. QED
  BY <1>1, <1>2, <1>3, <1>4 DEF Next

(* OrderInv holds in every reachable state.                                *)
LEMMA OrderAlways == Spec => []OrderInv
<1>1. TypeOK /\ OrderInv /\ [Next]_vars => OrderInv'
  BY OrderNext
<1>2. QED
  BY <1>1, OrderInit, TypeCorrect, PTL DEF Spec

(* No attempt of the reconciler works from an older generation than the    *)
(* attempt before it, whatever users, restarts, reconnects and late status *)
(* patches do.                                                             *)
THEOREM GenerationsNeverGoBack == Spec => GenerationsInOrder
<1>1. TypeOK /\ OrderInv /\ [Next]_vars => [rec'.snap.gen >= rec.snap.gen]_vars
  BY OrderNext
<1>2. QED
  BY <1>1, OrderAlways, TypeCorrect, PTL DEF Spec, GenerationsInOrder

-----------------------------------------------------------------------------
(* Ready is true.                                                          *)

(* As long as the package is not deleted no finalizer has begun.           *)
NotFinalized ==
    ~obj.deleted => /\ exists
                    /\ deletions = <<>>
                    /\ \A t \in Tasks : fin[t].pc = "off"

(* What the steps of the flow up to the reconciler's place have put there  *)
(* is still there, and the status has left Ready.                          *)
FlowProgress ==
    ~obj.deleted =>
        /\ rec.pc \in FlowSteps \cup {"ready"} => obj.phase # "Ready"
        /\ rec.pc \in (FlowSteps \cup {"ready"}) \ {"mesh"} => "namespace" \in shared
        /\ rec.pc \in {"authservice", "gateway", "egress", "probe", "purge", "bundle", "ready"} =>
               rec.snap.spec.sso \subseteq keycloak
        /\ rec.pc \in {"gateway", "egress", "probe", "purge", "bundle", "ready"} =>
               rec.snap.spec.auth \subseteq chains
        /\ rec.pc \in {"egress", "probe", "purge", "bundle", "ready"} => "gateway" \in shared
        /\ rec.pc \in {"probe", "purge", "bundle", "ready"} => "egress" \in shared
        /\ rec.pc \in {"purge", "bundle", "ready"} => "blackbox" \in shared

ReadyInv == NotFinalized /\ FlowProgress /\ ReadyIsTrue

(* A step of a package that is not deleted afterwards was taken by a user, *)
(* a watch, a restart, the reconciler or a failure patch: the finalizer    *)
(* has nothing to do.                                                      *)
LEMMA NoFinalizerStep ==
  ASSUME TypeOK, NotFinalized, ~obj.deleted
  PROVE  /\ ~DeliverDeletion
         /\ \A t \in Tasks : ~Finalizer(t)
<1>1. deletions = <<>> /\ \A t \in Tasks : fin[t].pc = "off"
  BY DEF NotFinalized
<1>2. ~DeliverDeletion
  BY <1>1 DEF DeliverDeletion, FinalizerSkips, FinalizerStarts
<1>3. ASSUME NEW t \in Tasks PROVE ~Finalizer(t)
  BY <1>1 DEF Finalizer, SetRemoving, CleanupStep, CleanupFails, SetRemovalFailed,
              RemoveFinalizer, CleanupSteps
<1>4. QED
  BY <1>2, <1>3

(* Nothing is Ready and nothing runs at first.                             *)
LEMMA ReadyInit == Init => ReadyInv
<1> SUFFICES ASSUME Init PROVE ReadyInv
  OBVIOUS
<1>1. PICK s \in Specs : obj = Created(s)
  BY DEF Init
<1>2. obj.phase = "None" /\ rec.pc = "idle"
  BY <1>1 DEF Init, Created
<1>3. NotFinalized
  BY DEF Init, NotFinalized, Off
<1>4. FlowProgress
  BY <1>2 DEF FlowProgress, FlowSteps
<1>5. ReadyIsTrue
  BY <1>2 DEF ReadyIsTrue
<1>6. QED
  BY <1>3, <1>4, <1>5 DEF ReadyInv

(* An edit makes the observed generation an old one; a restart abandons    *)
(* the attempt and takes nothing away.                                     *)
LEMMA ReadyEnvironment ==
  ASSUME TypeOK, OrderInv, ReadyInv, User \/ Relist \/ Restart, ~obj'.deleted
  PROVE  ReadyInv'
<1>0. /\ obj \in Packages /\ obj.gen \in Nat /\ obj.observed \in Nat
      /\ obj.observed <= obj.gen
      /\ rec \in [pc : RecPcs, snap : Packages]
  BY DEF TypeOK, Packages, OrderInv, SnapshotsAgree
<1>1. ASSUME NEW s \in Specs, UserEdits(s) PROVE ReadyInv'
  <2>1. /\ obj'.deleted = obj.deleted /\ obj'.phase = obj.phase
        /\ obj'.observed = obj.observed /\ obj'.ssoClients = obj.ssoClients
        /\ obj'.gen = obj.gen + 1
    BY <1>0, <1>1 DEF UserEdits, Store, Packages
  <2>2. ~obj.deleted
    BY <2>1
  <2>3. /\ exists' = exists /\ rec' = rec /\ fin' = fin /\ deletions' = deletions
        /\ keycloak' = keycloak /\ chains' = chains /\ shared' = shared
    BY <1>1, <2>1, <2>2 DEF UserEdits, Store, external
  <2>4. obj'.observed # obj'.gen
    BY <1>0, <2>1
  <2>5. NotFinalized'
    BY <2>2, <2>3 DEF ReadyInv, NotFinalized
  <2>6. FlowProgress'
    BY <2>1, <2>2, <2>3 DEF ReadyInv, FlowProgress
  <2>7. ReadyIsTrue'
    BY <2>1, <2>2, <2>3, <2>4 DEF ReadyInv, ReadyIsTrue
  <2>8. QED
    BY <2>5, <2>6, <2>7 DEF ReadyInv
<1>2. CASE UserTouches
  <2>1. /\ obj' = obj /\ exists' = exists /\ rec' = rec /\ fin' = fin /\ deletions' = deletions
        /\ keycloak' = keycloak /\ chains' = chains /\ shared' = shared
    BY <1>2 DEF UserTouches, Store, external
  <2>2. QED
    BY <2>1 DEF ReadyInv, NotFinalized, FlowProgress, ReadyIsTrue
<1>3. CASE UserDeletes
  <2>1. obj'.deleted = TRUE
    BY <1>0, <1>3 DEF UserDeletes, Store, Packages
  <2>2. QED
    BY <2>1
<1>4. CASE Relist
  <2>1. /\ obj' = obj /\ exists' = exists /\ rec' = rec /\ fin' = fin
        /\ keycloak' = keycloak /\ chains' = chains /\ shared' = shared
    BY <1>4 DEF Relist, external
  <2>2. deletions = <<>>
    BY <2>1 DEF ReadyInv, NotFinalized
  <2>3. deletions' = deletions
    BY <1>4, <2>2 DEF Relist
  <2>4. QED
    BY <2>1, <2>3 DEF ReadyInv, NotFinalized, FlowProgress, ReadyIsTrue
<1>5. CASE Restart
  <2>1. /\ obj' = obj /\ exists' = exists /\ rec'.pc = "idle" /\ deletions' = <<>>
        /\ keycloak' = keycloak /\ chains' = chains /\ shared' = shared
        /\ \A t \in Tasks : fin'[t].pc = "off"
    BY <1>0, <1>5 DEF Restart, external, Off
  <2>2. FlowProgress'
    BY <2>1 DEF FlowProgress, FlowSteps
  <2>3. QED
    BY <2>1, <2>2 DEF ReadyInv, NotFinalized, ReadyIsTrue
<1>6. QED
  BY <1>1, <1>2, <1>3, <1>4, <1>5 DEF User

(* A step of the flow adds what it stands for and takes away no client of  *)
(* the spec it works from.                                                 *)
LEMMA FlowStepProgress ==
  ASSUME TypeOK, ReadyInv, ~obj.deleted, FlowStep
  PROVE  FlowProgress'
<1>1. /\ obj' = obj /\ rec.pc \in FlowSteps /\ FlowEffect(rec.pc)
      /\ rec'.snap = rec.snap /\ rec'.pc = NextFlowStep[rec.pc]
  BY DEF FlowStep, cluster, TypeOK
<1>2. FlowProgress
  BY DEF ReadyInv
<1>3. CASE rec.pc = "mesh"
  BY <1>1, <1>2, <1>3 DEF FlowProgress, FlowSteps, FlowEffect, NextFlowStep
<1>4. CASE rec.pc = "keycloak"
  BY <1>1, <1>2, <1>4 DEF FlowProgress, FlowSteps, FlowEffect, NextFlowStep
<1>5. CASE rec.pc = "authservice"
  BY <1>1, <1>2, <1>5 DEF FlowProgress, FlowSteps, FlowEffect, NextFlowStep
<1>6. CASE rec.pc = "gateway"
  BY <1>1, <1>2, <1>6 DEF FlowProgress, FlowSteps, FlowEffect, NextFlowStep
<1>7. CASE rec.pc = "egress"
  BY <1>1, <1>2, <1>7 DEF FlowProgress, FlowSteps, FlowEffect, NextFlowStep
<1>8. CASE rec.pc = "probe"
  BY <1>1, <1>2, <1>8 DEF FlowProgress, FlowSteps, FlowEffect, NextFlowStep
<1>9. CASE rec.pc = "purge"
  <2>1. rec'.pc = "bundle" /\ chains' = chains /\ shared' = shared
    BY <1>1, <1>9 DEF FlowEffect, NextFlowStep
  <2>2. rec.snap.spec.sso \subseteq keycloak'
    BY <1>1, <1>2, <1>9 DEF FlowEffect, FlowProgress, PurgedAll, PurgedSome
  <2>3. QED
    BY <1>1, <1>2, <1>9, <2>1, <2>2 DEF FlowProgress, FlowSteps
<1>10. CASE rec.pc = "bundle"
  BY <1>1, <1>2, <1>10 DEF FlowProgress, FlowSteps, FlowEffect, NextFlowStep, external
<1>11. QED
  BY <1>1, <1>3, <1>4, <1>5, <1>6, <1>7, <1>8, <1>9, <1>10 DEF FlowSteps

(* Each step of the attempt adds what FlowProgress asks of the next place, *)
(* and only the last one writes Ready.                                     *)
LEMMA ReadyReconciler ==
  ASSUME TypeOK, OrderInv, ReadyInv, Reconciler, ~obj'.deleted
  PROVE  ReadyInv'
<1>0. /\ obj \in Packages /\ rec \in [pc : RecPcs, snap : Packages] /\ rec.snap \in Packages
      /\ NotFinalized /\ FlowProgress /\ ReadyIsTrue
  BY DEF TypeOK, ReadyInv
<1>1. CASE /\ obj' = obj /\ exists' = exists /\ fin' = fin /\ deletions' = deletions
           /\ keycloak' = keycloak /\ chains' = chains /\ shared' = shared
           /\ rec'.pc \notin FlowSteps \cup {"ready"}
  <2>1. FlowProgress'
    BY <1>1 DEF FlowProgress, FlowSteps
  <2>2. QED
    BY <1>0, <1>1, <2>1 DEF ReadyInv, NotFinalized, ReadyIsTrue
<1>2. CASE SkipEvent
  BY <1>0, <1>2 DEF SkipEvent, external, ReadyInv, NotFinalized, FlowProgress, ReadyIsTrue
<1>3. CASE \/ StartAttempt \/ BackoffElapses \/ BackoffEventFails \/ PatchNotFound \/ PatchFails
           \/ ReportFailure \/ FailureEventFails
  BY <1>0, <1>1, <1>3 DEF StartAttempt, BackoffElapses, BackoffEventFails, PatchNotFound,
         PatchFails, ReportFailure, FailureEventFails, cluster, external, FlowSteps
<1>4. CASE SetPending
  <2>1. obj'.phase = "Pending" /\ obj'.deleted = obj.deleted /\ rec'.pc = "mesh"
    BY <1>0, <1>4 DEF SetPending, Store, PendingStatus, Packages
  <2>2. ~obj.deleted
    BY <2>1
  <2>3. exists' = exists /\ fin' = fin /\ deletions' = deletions
    BY <1>4, <2>1, <2>2 DEF SetPending, Store
  <2>4. FlowProgress' /\ ReadyIsTrue'
    BY <2>1 DEF FlowProgress, ReadyIsTrue, FlowSteps
  <2>5. QED
    BY <1>0, <2>2, <2>3, <2>4 DEF ReadyInv, NotFinalized
<1>5. CASE FlowStep
  <2>1. obj' = obj /\ exists' = exists /\ fin' = fin /\ deletions' = deletions /\ rec.pc \in FlowSteps
    BY <1>5 DEF FlowStep, cluster
  <2>2. obj.phase # "Ready"
    BY <1>0, <2>1 DEF FlowProgress
  <2>3. FlowProgress'
    BY <1>5, <2>1, FlowStepProgress
  <2>4. QED
    BY <1>0, <2>1, <2>2, <2>3 DEF ReadyInv, NotFinalized, ReadyIsTrue
<1>6. ASSUME NEW e \in StepErrors, FlowStepFails(e) PROVE ReadyInv'
  <2>1. /\ obj' = obj /\ exists' = exists /\ fin' = fin /\ deletions' = deletions
        /\ rec.pc \in FlowSteps /\ rec'.pc \in {"idle", "failing"}
    BY <1>0, <1>6 DEF FlowStepFails, cluster
  <2>2. obj.phase # "Ready"
    BY <1>0, <2>1 DEF FlowProgress
  <2>3. FlowProgress'
    BY <2>1 DEF FlowProgress, FlowSteps
  <2>4. QED
    BY <1>0, <2>1, <2>2, <2>3 DEF ReadyInv, NotFinalized, ReadyIsTrue
<1>7. CASE SetReady
  <2> DEFINE snap == rec.snap
  <2>1. /\ obj'.phase = "Ready" /\ obj'.deleted = obj.deleted /\ obj'.gen = obj.gen
        /\ obj'.spec = obj.spec /\ obj'.observed = snap.gen /\ obj'.ssoClients = snap.spec.sso
        /\ rec'.pc = "idle" /\ rec.pc = "ready"
    BY <1>0, <1>7 DEF SetReady, Store, ReadyStatus, Packages
  <2>2. ~obj.deleted
    BY <2>1
  <2>3. /\ exists' = exists /\ fin' = fin /\ deletions' = deletions
        /\ keycloak' = keycloak /\ chains' = chains /\ shared' = shared
    BY <1>7, <2>1, <2>2 DEF SetReady, Store, external
  <2>4. shared = SharedKinds /\ snap.spec.sso \subseteq keycloak /\ snap.spec.auth \subseteq chains
    <3>1. SharedKinds \subseteq shared
      BY <1>0, <2>1, <2>2 DEF FlowProgress, FlowSteps, SharedKinds
    <3>2. QED
      BY <1>0, <2>1, <2>2, <3>1 DEF FlowProgress, TypeOK
  <2>5. snap.gen = obj.gen => snap.spec = obj.spec
    BY DEF OrderInv, SnapshotsAgree, Agrees
  <2>6. ReadyIsTrue'
    BY <2>1, <2>3, <2>4, <2>5 DEF ReadyIsTrue
  <2>7. FlowProgress'
    BY <2>1 DEF FlowProgress, FlowSteps
  <2>8. QED
    BY <1>0, <2>2, <2>3, <2>6, <2>7 DEF ReadyInv, NotFinalized
<1>8. QED
  BY <1>2, <1>3, <1>4, <1>5, <1>6, <1>7 DEF Reconciler

(* A late failure patch never writes Ready.                                *)
LEMMA ReadyFailurePatch ==
  ASSUME TypeOK, ReadyInv, FailurePatch, ~obj'.deleted
  PROVE  ReadyInv'
<1> PICK p \in patches : FailurePatchLands(p) \/ FailurePatchLost(p)
  BY DEF FailurePatch
<1>0. obj \in Packages /\ p \in Packages
  BY DEF TypeOK
<1>1. CASE FailurePatchLands(p)
  <2>1. /\ obj'.phase # "Ready" /\ obj'.deleted = obj.deleted /\ rec' = rec
        /\ keycloak' = keycloak /\ chains' = chains /\ shared' = shared
    BY <1>0, <1>1 DEF FailurePatchLands, Store, FailureStatus, Packages, external
  <2>2. ~obj.deleted
    BY <2>1
  <2>3. exists' = exists /\ fin' = fin /\ deletions' = deletions
    BY <1>1, <2>1, <2>2 DEF FailurePatchLands, Store
  <2>4. FlowProgress' /\ ReadyIsTrue'
    BY <2>1, <2>2 DEF ReadyInv, FlowProgress, ReadyIsTrue
  <2>5. QED
    BY <2>2, <2>3, <2>4 DEF ReadyInv, NotFinalized
<1>2. CASE FailurePatchLost(p)
  BY <1>2 DEF FailurePatchLost, cluster, external, ReadyInv, NotFinalized, FlowProgress, ReadyIsTrue
<1>3. QED
  BY <1>1, <1>2

(* The deletionTimestamp is never taken back.                              *)
LEMMA DeletedStays ==
  ASSUME TypeOK, [Next]_vars, obj.deleted
  PROVE  obj'.deleted
<1>0. obj \in Packages /\ rec.snap \in Packages /\ patches \subseteq Packages
      /\ \A t \in Tasks : fin[t].snap \in Packages
  BY DEF TypeOK
<1>1. ASSUME NEW snap \in Packages,
             NEW n \in {PendingStatus(obj, snap), ReadyStatus(obj, snap), FailureStatus(obj, snap),
                    RemovalStatus(obj, snap, "Removing"), RemovalStatus(obj, snap, "RemovalFailed")},
             Store(n)
      PROVE  obj'.deleted
  BY <1>0, <1>1, StatusKeeps DEF Store
<1>2. CASE obj' = obj
  BY <1>2
<1>3. CASE User
  BY <1>0, <1>3 DEF User, UserEdits, UserTouches, UserDeletes, Store, Packages
<1>4. CASE Relist \/ Restart \/ DeliverDeletion
  BY <1>4, <1>2 DEF Relist, Restart, DeliverDeletion, FinalizerSkips, FinalizerStarts
<1>5. CASE Reconciler
  <2>1. CASE SetPending
    BY <1>0, <1>1, <2>1 DEF SetPending
  <2>2. CASE SetReady
    BY <1>0, <1>1, <2>2 DEF SetReady
  <2>3. CASE Reconciler /\ ~SetPending /\ ~SetReady
    BY <1>2, <2>3 DEF Reconciler, SkipEvent, StartAttempt, BackoffElapses, BackoffEventFails,
         PatchNotFound, PatchFails, FlowStep, FlowStepFails, ReportFailure, FailureEventFails, cluster
  <2>4. QED
    BY <1>5, <2>1, <2>2, <2>3
<1>6. CASE FailurePatch
  BY <1>0, <1>1, <1>2, <1>6 DEF FailurePatch, FailurePatchLands, FailurePatchLost, cluster
<1>7. ASSUME NEW t \in Tasks, Finalizer(t) PROVE obj'.deleted
  BY <1>0, <1>1, <1>2, <1>7 DEF Finalizer, SetRemoving, CleanupStep, CleanupFails,
         SetRemovalFailed, RemoveFinalizer, cluster
<1>8. CASE UNCHANGED vars
  BY <1>2, <1>8 DEF vars
<1>9. QED
  BY <1>3, <1>4, <1>5, <1>6, <1>7, <1>8 DEF Next

(* ReadyInv is inductive relative to the types and the order of snapshots. *)
LEMMA ReadyNext ==
  ASSUME TypeOK, OrderInv, ReadyInv, [Next]_vars
  PROVE  ReadyInv'
<1>1. CASE obj'.deleted
  BY <1>1 DEF ReadyInv, NotFinalized, FlowProgress, ReadyIsTrue
<1>2. CASE ~obj'.deleted
  <2>1. ~obj.deleted /\ NotFinalized
    BY <1>2, DeletedStays DEF ReadyInv
  <2>2. CASE User \/ Relist \/ Restart
    BY <1>2, <2>2, ReadyEnvironment
  <2>3. CASE Reconciler
    BY <1>2, <2>3, ReadyReconciler
  <2>4. CASE FailurePatch
    BY <1>2, <2>4, ReadyFailurePatch
  <2>5. CASE UNCHANGED vars
    BY <2>5 DEF vars, ReadyInv, NotFinalized, FlowProgress, ReadyIsTrue
  <2>6. QED
    BY <2>1, <2>2, <2>3, <2>4, <2>5, NoFinalizerStep DEF Next
<1>3. QED
  BY <1>1, <1>2

(* A Ready status of a package that is not being deleted is true: its      *)
(* shared entries and the clients it lists are in place, and when it is of *)
(* the current generation so are all clients and chains of the spec.       *)
THEOREM ReadyAlwaysTrue == Spec => []ReadyIsTrue
<1>1. TypeOK /\ OrderInv /\ ReadyInv /\ [Next]_vars => ReadyInv'
  BY ReadyNext
<1>2. ReadyInv => ReadyIsTrue
  BY DEF ReadyInv
<1>3. QED
  BY <1>1, <1>2, ReadyInit, OrderAlways, TypeCorrect, PTL DEF Spec

-----------------------------------------------------------------------------
(* The finalizer waits for the first outcome.                              *)

(* An outcome, once written, stays in observedGeneration, and the          *)
(* finalizer only sees outcomes that were written.                         *)
OutcomeRecorded ==
    /\ obj.phase \in {"Ready", "Failed"} => obj.observed > 0
    /\ \A i \in DOMAIN deletions : deletions[i].phase \in {"Ready", "Failed"} => obj.observed > 0
    /\ NoCleanupBeforeFirstOutcome

(* A store that neither records an outcome nor begins a cleanup.           *)
LEMMA OutcomeStored ==
  ASSUME TypeOK, OutcomeRecorded, obj.observed = 0, NEW o \in Packages, Store(o),
         o.observed = 0 => o.phase \notin {"Ready", "Failed"},
         \A t \in Tasks : fin[t].pc = "off" => fin'[t].pc = "off"
  PROVE  OutcomeRecorded'
<1>1. obj' = o /\ exists' = exists /\ o.observed \in Nat /\ deletions \in Seq(Packages)
  BY DEF Store, TypeOK, Packages
<1>2. CASE o.observed > 0
  BY <1>1, <1>2 DEF OutcomeRecorded, NoCleanupBeforeFirstOutcome
<1>3. CASE o.observed = 0
  <2>1. exists /\ \A t \in Tasks : fin[t].pc = "off"
    BY DEF OutcomeRecorded, NoCleanupBeforeFirstOutcome
  <2>2. \A i \in DOMAIN deletions : deletions[i].phase \notin {"Ready", "Failed"}
    BY DEF OutcomeRecorded
  <2>3. deletions' \in {deletions, Append(deletions, o)}
    BY DEF Store
  <2>4. \A i \in DOMAIN deletions' : deletions'[i].phase \notin {"Ready", "Failed"}
    <3>1. CASE deletions' = deletions
      BY <2>2, <3>1
    <3>2. CASE deletions' = Append(deletions, o)
      <4>1. \A i \in DOMAIN deletions' :
                (i \in DOMAIN deletions /\ deletions'[i] = deletions[i]) \/ deletions'[i] = o
        BY <1>1, <3>2
      <4>2. QED
        BY <1>3, <2>2, <4>1
    <3>3. QED
      BY <2>3, <3>1, <3>2
  <2>5. QED
    BY <1>1, <1>3, <2>1, <2>4 DEF OutcomeRecorded, NoCleanupBeforeFirstOutcome
<1>4. QED
  BY <1>1, <1>2, <1>3

(* Every status the operator writes records an outcome with it.            *)
LEMMA StatusOutcome ==
  ASSUME NEW o \in Packages, NEW snap \in Packages, 1 <= snap.gen,
         NEW n \in {PendingStatus(o, snap), ReadyStatus(o, snap), FailureStatus(o, snap)},
         n.observed = 0
  PROVE  n.phase \notin {"Ready", "Failed"}
<1>1. snap.gen \in Nat /\ snap.gen # 0
  BY DEF Packages
<1>2. CASE n = PendingStatus(o, snap)
  BY <1>2 DEF Packages, PendingStatus
<1>3. CASE n = ReadyStatus(o, snap)
  BY <1>1, <1>3 DEF Packages, ReadyStatus
<1>4. CASE n = FailureStatus(o, snap)
  BY <1>1, <1>4 DEF Packages, FailureStatus
<1>5. QED
  BY <1>2, <1>3, <1>4

(* An observed generation is never forgotten.                              *)
LEMMA ObservedStays ==
  ASSUME TypeOK, OrderInv, [Next]_vars, obj.observed > 0
  PROVE  obj'.observed > 0
<1>0. /\ obj \in Packages /\ rec.snap \in Packages /\ patches \subseteq Packages
      /\ \A t \in Tasks : fin[t].snap \in Packages
      /\ 1 <= rec.snap.gen /\ \A p \in patches : 1 <= p.gen
      /\ rec.snap.gen \in Nat /\ \A p \in patches : p.gen \in Nat
  BY DEF TypeOK, OrderInv, SnapshotsAgree, Agrees, Packages
<1>1. ASSUME NEW snap \in Packages, 1 <= snap.gen, snap.gen \in Nat,
             NEW n \in {PendingStatus(obj, snap), ReadyStatus(obj, snap), FailureStatus(obj, snap)},
             Store(n)
      PROVE  obj'.observed > 0
  <2>1. n.observed \in {obj.observed, snap.gen}
    BY <1>0, StatusKeeps
  <2>2. QED
    BY <1>1, <2>1 DEF Store
<1>2. CASE obj' = obj
  BY <1>2
<1>3. CASE User
  BY <1>0, <1>3 DEF User, UserEdits, UserTouches, UserDeletes, Store, Packages
<1>4. CASE Relist \/ Restart \/ DeliverDeletion
  BY <1>4, <1>2 DEF Relist, Restart, DeliverDeletion, FinalizerSkips, FinalizerStarts
<1>5. CASE Reconciler
  <2>1. CASE SetPending
    BY <1>0, <1>1, <2>1 DEF SetPending
  <2>2. CASE SetReady
    BY <1>0, <1>1, <2>2 DEF SetReady
  <2>3. CASE Reconciler /\ ~SetPending /\ ~SetReady
    BY <1>2, <2>3 DEF Reconciler, SkipEvent, StartAttempt, BackoffElapses, BackoffEventFails,
         PatchNotFound, PatchFails, FlowStep, FlowStepFails, ReportFailure, FailureEventFails, cluster
  <2>4. QED
    BY <1>5, <2>1, <2>2, <2>3
<1>6. CASE FailurePatch
  BY <1>0, <1>1, <1>2, <1>6 DEF FailurePatch, FailurePatchLands, FailurePatchLost, cluster
<1>7. ASSUME NEW t \in Tasks, Finalizer(t) PROVE obj'.observed > 0
  <2>1. CASE SetRemoving(t) \/ SetRemovalFailed(t)
    BY <1>0, <2>1 DEF SetRemoving, SetRemovalFailed, Store, RemovalStatus, Packages
  <2>2. CASE CleanupStep(t) \/ CleanupFails(t) \/ RemoveFinalizer(t)
    BY <1>2, <2>2 DEF CleanupStep, CleanupFails, RemoveFinalizer, cluster
  <2>3. QED
    BY <1>7, <2>1, <2>2 DEF Finalizer
<1>8. CASE UNCHANGED vars
  BY <1>2, <1>8 DEF vars
<1>9. QED
  BY <1>3, <1>4, <1>5, <1>6, <1>7, <1>8 DEF Next

(* Before the first outcome no step of the finalizer is possible.          *)
LEMMA OutcomeFirst ==
  ASSUME TypeOK, OrderInv, OutcomeRecorded, obj.observed = 0, [Next]_vars
  PROVE  OutcomeRecorded'
<1>0. /\ obj \in Packages /\ rec.snap \in Packages /\ patches \subseteq Packages
      /\ 1 <= rec.snap.gen /\ \A p \in patches : 1 <= p.gen
      /\ deletions \in Seq(Packages)
  BY DEF TypeOK, OrderInv, SnapshotsAgree, Agrees
<1>1. /\ obj.phase \notin {"Ready", "Failed"} /\ exists
      /\ \A t \in Tasks : fin[t].pc = "off"
      /\ \A i \in DOMAIN deletions : deletions[i].phase \notin {"Ready", "Failed"}
  BY DEF OutcomeRecorded, NoCleanupBeforeFirstOutcome
<1>2. ASSUME obj' = obj, exists' = exists, \A t \in Tasks : fin'[t].pc = "off",
             \A i \in DOMAIN deletions' : \E j \in DOMAIN deletions : deletions'[i] = deletions[j]
      PROVE  OutcomeRecorded'
  BY <1>1, <1>2 DEF OutcomeRecorded, NoCleanupBeforeFirstOutcome
<1>3. ASSUME NEW snap \in Packages, 1 <= snap.gen, fin' = fin,
             NEW n \in {PendingStatus(obj, snap), ReadyStatus(obj, snap), FailureStatus(obj, snap)},
             Store(n)
      PROVE  OutcomeRecorded'
  <2>1. n \in Packages
    BY <1>0, StatusTyped
  <2>2. n.observed = 0 => n.phase \notin {"Ready", "Failed"}
    BY <1>0, <1>3, StatusOutcome
  <2>3. QED
    BY <1>3, <2>1, <2>2, OutcomeStored
<1>4. CASE User
  <2>1. PICK o \in Packages : Store(o) /\ o.phase = obj.phase
    <3>1. ASSUME NEW s \in Specs, UserEdits(s)
          PROVE  \E o \in Packages : Store(o) /\ o.phase = obj.phase
      <4>1. [obj EXCEPT !.spec = s, !.gen = @ + 1] \in Packages
        BY <1>0, EditTyped
      <4>2. [obj EXCEPT !.spec = s, !.gen = @ + 1].phase = obj.phase
        BY <1>0 DEF Packages
      <4>3. QED
        BY <3>1, <4>1, <4>2 DEF UserEdits
    <3>2. CASE UserTouches
      BY <1>0, <3>2 DEF UserTouches
    <3>3. CASE UserDeletes
      <4>1. [obj EXCEPT !.deleted = TRUE, !.gen = @ + 1] \in Packages
        BY <1>0, DeleteTyped
      <4>2. [obj EXCEPT !.deleted = TRUE, !.gen = @ + 1].phase = obj.phase
        BY <1>0 DEF Packages
      <4>3. QED
        BY <3>3, <4>1, <4>2 DEF UserDeletes
    <3>4. QED
      BY <1>4, <3>1, <3>2, <3>3 DEF User
  <2>2. fin' = fin
    BY <1>4 DEF User, UserEdits, UserTouches, UserDeletes
  <2>3. QED
    BY <1>1, <2>1, <2>2, OutcomeStored
<1>5. CASE Relist
  <2>1. obj' = obj /\ exists' = exists /\ fin' = fin
    BY <1>5 DEF Relist
  <2>2. CASE deletions' = deletions
    BY <1>1, <1>2, <2>1, <2>2
  <2>3. ASSUME NEW n \in 0 .. Len(deletions) - 2,
               deletions' = Append(SubSeq(deletions, 1, n), deletions[Len(deletions)])
        PROVE  OutcomeRecorded'
    <3>1. /\ DOMAIN deletions' = 1 .. n + 1
          /\ deletions'[n + 1] = deletions[Len(deletions)]
          /\ \A i \in 1 .. n : deletions'[i] = deletions[i] /\ i \in DOMAIN deletions
          /\ Len(deletions) \in DOMAIN deletions
      BY <1>0, <2>3
    <3>2. \A i \in DOMAIN deletions' : \E j \in DOMAIN deletions : deletions'[i] = deletions[j]
      BY <3>1
    <3>3. QED
      BY <1>1, <1>2, <2>1, <3>2
  <2>4. QED
    BY <1>5, <2>2, <2>3 DEF Relist
<1>6. CASE Restart
  <2>1. obj' = obj /\ exists' = exists /\ \A t \in Tasks : fin'[t].pc = "off"
    BY <1>6 DEF Restart, Off
  <2>2. deletions' = <<>>
    BY <1>6 DEF Restart
  <2>3. \A i \in DOMAIN deletions' : FALSE
    BY <2>2
  <2>4. QED
    BY <1>2, <2>1, <2>3
<1>7. CASE Reconciler
  <2>1. CASE SetPending
    BY <1>0, <1>3, <2>1 DEF SetPending
  <2>2. CASE SetReady
    BY <1>0, <1>3, <2>2 DEF SetReady
  <2>3. CASE Reconciler /\ ~SetPending /\ ~SetReady
    <3>1. obj' = obj /\ exists' = exists /\ fin' = fin /\ deletions' = deletions
      BY <2>3 DEF Reconciler, SkipEvent, StartAttempt, BackoffElapses, BackoffEventFails,
         PatchNotFound, PatchFails, FlowStep, FlowStepFails, ReportFailure, FailureEventFails, cluster
    <3>2. QED
      BY <1>1, <1>2, <3>1
  <2>4. QED
    BY <1>7, <2>1, <2>2, <2>3
<1>8. CASE FailurePatch
  <2> PICK p \in patches : FailurePatchLands(p) \/ FailurePatchLost(p)
    BY <1>8 DEF FailurePatch
  <2>1. CASE FailurePatchLands(p)
    BY <1>0, <1>3, <2>1 DEF FailurePatchLands
  <2>2. CASE FailurePatchLost(p)
    BY <1>1, <1>2, <2>2 DEF FailurePatchLost, cluster
  <2>3. QED
    BY <2>1, <2>2
<1>9. CASE DeliverDeletion
  <2>1. deletions # <<>> => Head(deletions).phase \notin {"Ready", "Failed"}
    <3>1. deletions # <<>> => 1 \in DOMAIN deletions /\ Head(deletions) = deletions[1]
      BY <1>0
    <3>2. QED
      BY <1>1, <3>1
  <2>2. FinalizerSkips
    BY <1>9, <2>1 DEF DeliverDeletion, FinalizerStarts
  <2>3. obj' = obj /\ exists' = exists /\ fin' = fin /\ deletions # <<>> /\ deletions' = Tail(deletions)
    BY <2>2 DEF FinalizerSkips
  <2>4. \A i \in DOMAIN deletions' : i + 1 \in DOMAIN deletions /\ deletions'[i] = deletions[i + 1]
    BY <1>0, <2>3
  <2>5. QED
    BY <1>1, <1>2, <2>3, <2>4
<1>10. ASSUME NEW t \in Tasks, Finalizer(t) PROVE FALSE
  BY <1>1, <1>10 DEF Finalizer, SetRemoving, CleanupStep, CleanupFails, SetRemovalFailed,
              RemoveFinalizer, CleanupSteps
<1>11. CASE UNCHANGED vars
  BY <1>11 DEF vars, OutcomeRecorded, NoCleanupBeforeFirstOutcome
<1>12. QED
  BY <1>4, <1>5, <1>6, <1>7, <1>8, <1>9, <1>10, <1>11 DEF Next

(* OutcomeRecorded is inductive relative to the types.                     *)
LEMMA OutcomeNext ==
  ASSUME TypeOK, OrderInv, OutcomeRecorded, [Next]_vars
  PROVE  OutcomeRecorded'
<1>0. obj.observed \in Nat
  BY DEF TypeOK, Packages
<1>1. CASE obj.observed > 0
  <2>1. obj'.observed > 0
    BY <1>1, ObservedStays
  <2>2. QED
    BY <2>1 DEF OutcomeRecorded, NoCleanupBeforeFirstOutcome
<1>2. CASE obj.observed = 0
  BY <1>2, OutcomeFirst
<1>3. QED
  BY <1>0, <1>1, <1>2

(* No deletion and no finalizer at first.                                  *)
LEMMA OutcomeInit == Init => OutcomeRecorded
<1> SUFFICES ASSUME Init PROVE OutcomeRecorded
  OBVIOUS
<1>1. PICK s \in Specs : obj = Created(s)
  BY DEF Init
<1>2. obj.phase = "None" /\ exists /\ deletions = <<>> /\ \A t \in Tasks : fin[t].pc = "off"
  BY <1>1 DEF Init, Created, Off
<1>3. QED
  BY <1>2 DEF OutcomeRecorded, NoCleanupBeforeFirstOutcome

(* The finalizer never begins, and the object never goes, before some      *)
(* attempt has written a Ready or Failed status.                           *)
THEOREM CleanupWaitsForOutcome == Spec => []NoCleanupBeforeFirstOutcome
<1>1. TypeOK /\ OrderInv /\ OutcomeRecorded /\ [Next]_vars => OutcomeRecorded'
  BY OutcomeNext
<1>2. OutcomeRecorded => NoCleanupBeforeFirstOutcome
  BY DEF OutcomeRecorded
<1>3. QED
  BY <1>1, <1>2, OutcomeInit, OrderAlways, TypeCorrect, PTL DEF Spec

-----------------------------------------------------------------------------
(* What the last status recorded is gone with the object.                  *)

(* Two versions of the object that record the same clients.                *)
SameClients(p, q) ==
    p.ssoClients = q.ssoClients /\ p.authserviceClients = q.authserviceClients

(* What a step of the cleanup removes is not there.                        *)
IsGone(step) ==
    /\ step = "authservice" => chains \cap obj.authserviceClients = {}
    /\ step = "sso" => keycloak \cap obj.ssoClients = {}
    /\ step \in SharedKinds => step \notin shared

(* The steps a callback has done when it is at pc.                         *)
DoneAt(pc) ==
    CASE pc = "authservice" -> {"namespace"}
      [] pc = "sso"         -> {"namespace", "authservice"}
      [] pc = "blackbox"    -> {"namespace", "authservice", "sso"}
      [] pc = "egress"      -> {"namespace", "authservice", "sso", "blackbox"}
      [] pc = "gateway"     -> {"namespace", "authservice", "sso", "blackbox", "egress"}
      [] pc = "done"        -> CleanupSteps
      [] OTHER              -> {}

(* A deletion that a finalizer will act on shows what the object records,  *)
(* and so does the snapshot of a running one.                              *)
DueAgree ==
    \A i \in DOMAIN deletions :
        deletions[i].phase \in {"Ready", "Failed"} => SameClients(deletions[i], obj)

RunningAgree ==
    \A t \in Tasks : fin[t].pc # "off" => SameClients(fin[t].snap, obj)

(* What a running callback has removed nothing has brought back.           *)
Progress ==
    \A t \in Tasks : \A step \in DoneAt(fin[t].pc) : IsGone(step)

AllGone == ~exists /\ used.api = 0 => \A step \in CleanupSteps : IsGone(step)

RemovedInv == ~raced => DueAgree /\ RunningAgree /\ Progress /\ AllGone

(* What is gone stays gone while nothing is added and the lists stay.      *)
LEMMA GoneStays ==
  ASSUME NEW step, IsGone(step), SameClients(obj', obj),
         shared' \subseteq shared, keycloak' \subseteq keycloak, chains' \subseteq chains
  PROVE  IsGone(step)'
  BY DEF IsGone, SameClients

(* A write that keeps the lists keeps the snapshots in agreement.          *)
LEMMA StoreAgrees ==
  ASSUME TypeOK, DueAgree, RunningAgree, NEW o, Store(o), SameClients(o, obj),
         \A t \in Tasks : fin'[t].pc # "off" => fin[t].pc # "off" /\ fin'[t].snap = fin[t].snap
  PROVE  DueAgree' /\ RunningAgree'
<1>1. obj' = o /\ deletions \in Seq(Packages)
  BY DEF Store, TypeOK
<1>2. \A i \in DOMAIN deletions' :
          (i \in DOMAIN deletions /\ deletions'[i] = deletions[i]) \/ deletions'[i] = o
  <2>1. CASE deletions' = deletions
    BY <2>1
  <2>2. CASE deletions' = Append(deletions, o)
    BY <1>1, <2>2
  <2>3. QED
    BY <2>1, <2>2 DEF Store
<1>3. DueAgree'
  BY <1>1, <1>2 DEF DueAgree, SameClients
<1>4. RunningAgree'
  BY <1>1 DEF RunningAgree, SameClients
<1>5. QED
  BY <1>3, <1>4

(* A step that adds nothing, after which every running callback was        *)
(* running before and has done no more than before.                        *)
LEMMA RemovedStays ==
  ASSUME RemovedInv, ~raced, SameClients(obj', obj), exists' = exists, used'.api = 0 => used.api = 0,
         shared' \subseteq shared, keycloak' \subseteq keycloak, chains' \subseteq chains,
         \A t \in Tasks : DoneAt(fin'[t].pc) \subseteq DoneAt(fin[t].pc)
  PROVE  Progress' /\ AllGone'
<1>1. Progress'
  BY GoneStays DEF RemovedInv, Progress
<1>2. AllGone'
  BY GoneStays DEF RemovedInv, AllGone
<1>3. QED
  BY <1>1, <1>2

(* A write of the reconciler, before any finalization is due.              *)
LEMMA UnracedWrite ==
  ASSUME TypeOK, Races, ~raced', fin' = fin, exists' = exists,
         \/ obj' = obj /\ deletions' = deletions
         \/ \E o \in Packages : Store(o)
  PROVE  RemovedInv'
<1>1. /\ exists /\ \A t \in Tasks : fin[t].pc = "off"
      /\ \A i \in DOMAIN deletions : deletions[i].phase \notin {"Ready", "Failed"}
  BY DEF Races, Finalizing
<1>2. deletions \in Seq(Packages)
  BY DEF TypeOK
<1>3. \A i \in DOMAIN deletions' :
          deletions'[i].phase \notin {"Ready", "Failed"} \/ deletions'[i] = obj'
  <2>1. CASE deletions' = deletions
    BY <1>1, <2>1
  <2>2. ASSUME NEW o \in Packages, obj' = o, deletions' = Append(deletions, o)
        PROVE  \A i \in DOMAIN deletions' :
                  deletions'[i].phase \notin {"Ready", "Failed"} \/ deletions'[i] = obj'
    <3>1. \A i \in DOMAIN deletions' :
              (i \in DOMAIN deletions /\ deletions'[i] = deletions[i]) \/ deletions'[i] = o
      BY <1>2, <2>2
    <3>2. QED
      BY <1>1, <2>2, <3>1
  <2>3. QED
    BY <2>1, <2>2 DEF Store
<1>4. DueAgree'
  BY <1>3 DEF DueAgree, SameClients
<1>5. RunningAgree' /\ Progress'
  BY <1>1 DEF RunningAgree, Progress, DoneAt
<1>6. AllGone'
  BY <1>1 DEF AllGone
<1>7. QED
  BY <1>4, <1>5, <1>6 DEF RemovedInv

(* The initial states: no deletion, no callback.                           *)
LEMMA RemovedInit == Init => RemovedInv
<1> SUFFICES ASSUME Init PROVE RemovedInv
  OBVIOUS
<1>1. exists /\ deletions = <<>> /\ \A t \in Tasks : fin[t].pc = "off"
  BY DEF Init, Off
<1>2. QED
  BY <1>1 DEF RemovedInv, DueAgree, RunningAgree, Progress, AllGone, DoneAt

(* Users change no list of clients; reconnects and restarts forget events. *)
LEMMA RemovedEnvironment ==
  ASSUME TypeOK, RemovedInv, ~raced', User \/ Relist \/ Restart
  PROVE  RemovedInv'
<1>0. /\ obj \in Packages /\ deletions \in Seq(Packages) /\ used \in Usage
  BY DEF TypeOK
<1>1. ~raced /\ DueAgree /\ RunningAgree
  <2>1. raced' = raced
    BY DEF User, UserEdits, UserTouches, UserDeletes, Relist, Restart
  <2>2. QED
    BY <2>1 DEF RemovedInv
<1>2. CASE User
  <2>1. PICK o : Store(o) /\ SameClients(o, obj)
    <3>1. \A s \in Specs : SameClients([obj EXCEPT !.spec = s, !.gen = @ + 1], obj)
      BY <1>0 DEF SameClients, Packages
    <3>2. SameClients([obj EXCEPT !.deleted = TRUE, !.gen = @ + 1], obj) /\ SameClients(obj, obj)
      BY <1>0 DEF SameClients, Packages
    <3>3. QED
      BY <1>2, <3>1, <3>2 DEF User, UserEdits, UserTouches, UserDeletes
  <2>2. fin' = fin /\ UNCHANGED external
    BY <1>2 DEF User, UserEdits, UserTouches, UserDeletes
  <2>3. used'.api = used.api
    BY <1>0, <1>2 DEF User, UserEdits, UserTouches, UserDeletes, Usage
  <2>4. DueAgree' /\ RunningAgree'
    BY <1>1, <2>1, <2>2, StoreAgrees
  <2>5. Progress' /\ AllGone'
    BY <1>1, <2>1, <2>2, <2>3, RemovedStays DEF Store, external
  <2>6. QED
    BY <2>4, <2>5 DEF RemovedInv
<1>3. CASE Relist
  <2>1. fin' = fin /\ UNCHANGED external /\ obj' = obj /\ exists' = exists
    BY <1>3 DEF Relist
  <2>2. used'.api = used.api
    BY <1>0, <1>3 DEF Relist, Usage
  <2>3. \A i \in DOMAIN deletions' : \E j \in DOMAIN deletions : deletions'[i] = deletions[j]
    <3>1. CASE deletions' = deletions
      BY <3>1
    <3>2. ASSUME NEW n \in 0 .. Len(deletions) - 2,
                 deletions' = Append(SubSeq(deletions, 1, n), deletions[Len(deletions)])
          PROVE  \A i \in DOMAIN deletions' : \E j \in DOMAIN deletions : deletions'[i] = deletions[j]
      <4>1. /\ DOMAIN deletions' = 1 .. n + 1
            /\ deletions'[n + 1] = deletions[Len(deletions)]
            /\ \A i \in 1 .. n : deletions'[i] = deletions[i] /\ i \in DOMAIN deletions
            /\ Len(deletions) \in DOMAIN deletions
        BY <1>0, <3>2
      <4>2. QED
        BY <4>1
    <3>3. QED
      BY <1>3, <3>1, <3>2 DEF Relist
  <2>4. DueAgree' /\ RunningAgree'
    BY <1>1, <2>1, <2>3 DEF DueAgree, RunningAgree, SameClients
  <2>5. Progress' /\ AllGone'
    BY <1>1, <2>1, <2>2, RemovedStays DEF external, SameClients
  <2>6. QED
    BY <2>4, <2>5 DEF RemovedInv
<1>4. CASE Restart
  <2>1. /\ UNCHANGED external /\ obj' = obj /\ exists' = exists
        /\ deletions' = <<>> /\ \A t \in Tasks : fin'[t].pc = "off"
    BY <1>4 DEF Restart, Off
  <2>2. used'.api = used.api
    BY <1>0, <1>4 DEF Restart, Usage
  <2>3. DueAgree' /\ RunningAgree'
    BY <2>1 DEF DueAgree, RunningAgree
  <2>4. \A t \in Tasks : DoneAt(fin'[t].pc) \subseteq DoneAt(fin[t].pc)
    BY <2>1 DEF DoneAt
  <2>5. Progress' /\ AllGone'
    BY <1>1, <2>1, <2>2, <2>4, RemovedStays DEF external, SameClients
  <2>6. QED
    BY <2>3, <2>5 DEF RemovedInv
<1>5. QED
  BY <1>2, <1>3, <1>4

(* The reconciler and its un-awaited patches either touch nothing the      *)
(* invariant speaks of, or they write before a finalization is due.        *)
LEMMA RemovedReconciler ==
  ASSUME TypeOK, RemovedInv, ~raced', Reconciler \/ FailurePatch
  PROVE  RemovedInv'
<1>0. /\ obj \in Packages /\ rec.snap \in Packages /\ patches \subseteq Packages /\ used \in Usage
  BY DEF TypeOK
<1>1. ASSUME NEW snap \in Packages, Races, fin' = fin,
             Store(PendingStatus(obj, snap)) \/ Store(ReadyStatus(obj, snap)) \/ Store(FailureStatus(obj, snap))
      PROVE  RemovedInv'
  <2>1. \E o \in Packages : Store(o)
    BY <1>0, <1>1, StatusTyped
  <2>2. exists' = exists
    BY <1>1 DEF Store
  <2>3. QED
    BY <1>1, <2>1, <2>2, UnracedWrite
<1>2. ASSUME UNCHANGED <<exists, obj, deletions, fin, external, raced>>, used'.api = 0 => used.api = 0
      PROVE  RemovedInv'
  <2>1. ~raced /\ DueAgree /\ RunningAgree
    BY <1>2 DEF RemovedInv
  <2>2. Progress' /\ AllGone'
    BY <1>2, <2>1, RemovedStays DEF external, SameClients
  <2>3. DueAgree' /\ RunningAgree'
    BY <1>2, <2>1 DEF DueAgree, RunningAgree
  <2>4. QED
    BY <2>2, <2>3 DEF RemovedInv
<1>3. CASE SetPending \/ SetReady
  BY <1>0, <1>1, <1>3 DEF SetPending, SetReady
<1>4. CASE FlowStep \/ \E e \in StepErrors : FlowStepFails(e)
  BY <1>4, UnracedWrite DEF FlowStep, FlowStepFails, cluster
<1>5. ASSUME NEW p \in patches, FailurePatchLands(p) PROVE RemovedInv'
  BY <1>0, <1>1, <1>5 DEF FailurePatchLands
<1>6. UseApiFault => used'.api # 0
  BY <1>0 DEF UseApiFault, Usage
<1>7. ASSUME NEW p \in patches, FailurePatchLost(p) PROVE RemovedInv'
  BY <1>2, <1>6, <1>7 DEF FailurePatchLost, cluster
<1>8. CASE \/ SkipEvent \/ StartAttempt \/ BackoffElapses \/ BackoffEventFails
           \/ PatchNotFound \/ PatchFails \/ ReportFailure \/ FailureEventFails
  <2>1. UNCHANGED <<exists, obj, deletions, fin, external, raced>>
    BY <1>8 DEF SkipEvent, StartAttempt, BackoffElapses, BackoffEventFails, PatchNotFound, PatchFails,
         ReportFailure, FailureEventFails, cluster
  <2>2. used'.api = 0 => used.api = 0
    BY <1>6, <1>8 DEF SkipEvent, StartAttempt, BackoffElapses, BackoffEventFails, PatchNotFound, PatchFails,
         ReportFailure, FailureEventFails
  <2>3. QED
    BY <1>2, <2>1, <2>2
<1>9. QED
  BY <1>3, <1>4, <1>5, <1>7, <1>8 DEF Reconciler, FailurePatch

(* A deletion that is due hands its lists to the callback it starts.       *)
LEMMA RemovedDelivery ==
  ASSUME TypeOK, RemovedInv, ~raced', DeliverDeletion
  PROVE  RemovedInv'
<1>0. deletions \in Seq(Packages) /\ fin \in [Tasks -> [pc : FinPcs, snap : Packages]]
  BY DEF TypeOK
<1>1. /\ deletions # <<>> /\ deletions' = Tail(deletions)
      /\ UNCHANGED <<exists, obj, external, used, raced>>
  BY DEF DeliverDeletion, FinalizerSkips, FinalizerStarts
<1>2. ~raced /\ DueAgree /\ RunningAgree
  BY <1>1 DEF RemovedInv
<1>3. \A i \in DOMAIN deletions' : i + 1 \in DOMAIN deletions /\ deletions'[i] = deletions[i + 1]
  BY <1>0, <1>1
<1>4. DueAgree'
  BY <1>1, <1>2, <1>3 DEF DueAgree, SameClients
<1>5. RunningAgree' /\ \A t \in Tasks : DoneAt(fin'[t].pc) \subseteq DoneAt(fin[t].pc)
  <2>1. CASE FinalizerSkips
    BY <1>1, <1>2, <2>1 DEF FinalizerSkips, RunningAgree
  <2>2. ASSUME NEW t \in Tasks, FinalizerStarts(t)
        PROVE  RunningAgree' /\ \A u \in Tasks : DoneAt(fin'[u].pc) \subseteq DoneAt(fin[u].pc)
    <3>1. 1 \in DOMAIN deletions /\ Head(deletions) = deletions[1]
      BY <1>0, <1>1
    <3>2. SameClients(Head(deletions), obj)
      BY <1>2, <2>2, <3>1 DEF FinalizerStarts, DueAgree
    <3>3. fin' = [fin EXCEPT ![t] = [pc |-> "removing", snap |-> Head(deletions)]]
      BY <2>2 DEF FinalizerStarts
    <3>4. \A u \in Tasks : fin'[u] = IF u = t THEN [pc |-> "removing", snap |-> Head(deletions)] ELSE fin[u]
      BY <1>0, <3>3
    <3>5. RunningAgree'
      BY <1>1, <1>2, <3>2, <3>4 DEF RunningAgree, SameClients
    <3>6. \A u \in Tasks : DoneAt(fin'[u].pc) \subseteq DoneAt(fin[u].pc)
      BY <3>4 DEF DoneAt
    <3>7. QED
      BY <3>5, <3>6
  <2>3. QED
    BY <2>1, <2>2 DEF DeliverDeletion
<1>6. Progress' /\ AllGone'
  BY <1>1, <1>2, <1>5, RemovedStays DEF external, SameClients
<1>7. QED
  BY <1>4, <1>5, <1>6 DEF RemovedInv

(* The steps of one callback: it removes, and what it records is what the  *)
(* object records already.                                                 *)
LEMMA RemovedFinalizer ==
  ASSUME TypeOK, RemovedInv, ~raced', NEW t \in Tasks, Finalizer(t)
  PROVE  RemovedInv'
<1>0. /\ obj \in Packages /\ used \in Usage /\ fin \in [Tasks -> [pc : FinPcs, snap : Packages]]
      /\ shared \subseteq SharedKinds /\ fin[t].snap \in Packages
  BY DEF TypeOK
<1>1. ~raced /\ DueAgree /\ RunningAgree
  <2>1. raced' = raced
    BY DEF Finalizer, SetRemoving, CleanupStep, CleanupFails, SetRemovalFailed, RemoveFinalizer
  <2>2. QED
    BY <2>1 DEF RemovedInv
<1>2. used'.api = 0 => used.api = 0
  <2>1. UseApiFault => used'.api # 0
    BY <1>0 DEF UseApiFault, Usage
  <2>2. UseStepFault => used'.api = used.api
    BY <1>0 DEF UseStepFault, Usage
  <2>3. used' = used \/ UseApiFault \/ UseStepFault
    BY DEF Finalizer, SetRemoving, CleanupStep, CleanupFails, SetRemovalFailed, RemoveFinalizer
  <2>4. QED
    BY <2>1, <2>2, <2>3
<1>3. fin[t].pc # "off" => SameClients(fin[t].snap, obj)
  BY <1>1 DEF RunningAgree
<1>4. CASE SetRemoving(t) \/ SetRemovalFailed(t)
  <2>1. PICK phase \in {"Removing", "RemovalFailed"} :
            Store(RemovalStatus(obj, fin[t].snap, phase)) /\ fin[t].pc # "off"
    BY <1>4 DEF SetRemoving, SetRemovalFailed
  <2>2. SameClients(RemovalStatus(obj, fin[t].snap, phase), obj)
    BY <1>0, <1>3, <2>1 DEF SameClients, RemovalStatus, Normalized, Packages
  <2>3. \A u \in Tasks : \/ fin'[u] = fin[u]
                         \/ fin'[u].pc = "off"
                         \/ u = t /\ fin'[u].pc = "namespace" /\ fin'[u].snap = fin[u].snap
    BY <1>0, <1>4 DEF SetRemoving, SetRemovalFailed, Off
  <2>4. DueAgree' /\ RunningAgree'
    BY <1>1, <2>1, <2>2, <2>3, StoreAgrees
  <2>5. \A u \in Tasks : DoneAt(fin'[u].pc) \subseteq DoneAt(fin[u].pc)
    BY <2>3 DEF DoneAt
  <2>6. UNCHANGED external
    BY <1>4 DEF SetRemoving, SetRemovalFailed
  <2>7. exists' = exists /\ obj' = RemovalStatus(obj, fin[t].snap, phase)
    BY <2>1 DEF Store
  <2>8. Progress' /\ AllGone'
    BY <1>1, <1>2, <2>2, <2>5, <2>6, <2>7, RemovedStays DEF external
  <2>9. QED
    BY <2>4, <2>8 DEF RemovedInv
<1>5. CASE CleanupFails(t)
  <2>1. /\ UNCHANGED cluster /\ fin' = [fin EXCEPT ![t].pc = "removalFailed"] /\ fin[t].pc \in CleanupSteps
    BY <1>5 DEF CleanupFails
  <2>2. shared' \subseteq shared /\ keycloak' \subseteq keycloak /\ chains' \subseteq chains
    BY <1>5 DEF CleanupFails, PurgedSome, external
  <2>3. \A u \in Tasks : \/ fin'[u] = fin[u]
                         \/ u = t /\ fin'[u].pc = "removalFailed" /\ fin'[u].snap = fin[u].snap
    BY <1>0, <2>1
  <2>4. DueAgree' /\ RunningAgree'
    BY <1>1, <2>1, <2>3 DEF DueAgree, RunningAgree, cluster, CleanupSteps
  <2>5. \A u \in Tasks : DoneAt(fin'[u].pc) \subseteq DoneAt(fin[u].pc)
    BY <2>3 DEF DoneAt
  <2>6. Progress' /\ AllGone'
    BY <1>1, <1>2, <2>1, <2>2, <2>5, RemovedStays DEF cluster, SameClients
  <2>7. QED
    BY <2>4, <2>6 DEF RemovedInv
<1>6. CASE CleanupStep(t)
  <2>1. /\ UNCHANGED cluster /\ fin' = [fin EXCEPT ![t].pc = NextCleanup[fin[t].pc]]
        /\ fin[t].pc \in CleanupSteps /\ CleanupEffect(t)
    BY <1>6 DEF CleanupStep
  <2>2. shared' \subseteq shared /\ keycloak' \subseteq keycloak /\ chains' \subseteq chains
    <3>1. CASE fin[t].pc = "authservice"
      BY <2>1, <3>1 DEF CleanupEffect
    <3>2. CASE fin[t].pc = "sso"
      BY <2>1, <3>2 DEF CleanupEffect, PurgedAll
    <3>3. CASE fin[t].pc \notin {"authservice", "sso"}
      BY <2>1, <3>3 DEF CleanupEffect
    <3>4. QED
      BY <3>1, <3>2, <3>3
  <2>3. \A u \in Tasks : IF u = t THEN fin'[u].pc = NextCleanup[fin[t].pc] /\ fin'[u].snap = fin[u].snap
                                  ELSE fin'[u] = fin[u]
    BY <1>0, <2>1
  <2>4. DueAgree' /\ RunningAgree'
    BY <1>1, <2>1, <2>3 DEF DueAgree, RunningAgree, cluster, CleanupSteps
  <2> PICK pc \in CleanupSteps : pc = fin[t].pc
    BY <2>1
  <2>5. IsGone(pc)'
    <3>1. obj' = obj /\ SameClients(fin[t].snap, obj)
      BY <1>3, <2>1 DEF cluster, CleanupSteps
    <3>2. CASE pc = "authservice"
      BY <2>1, <3>1, <3>2 DEF CleanupEffect, IsGone, SameClients, SharedKinds
    <3>3. CASE pc = "sso"
      BY <2>1, <3>1, <3>3 DEF CleanupEffect, PurgedAll, IsGone, SameClients, SharedKinds
    <3>4. CASE pc \notin {"authservice", "sso"}
      BY <2>1, <3>4 DEF CleanupEffect, IsGone
    <3>5. QED
      BY <3>2, <3>3, <3>4
  <2>6. DoneAt(NextCleanup[pc]) \subseteq DoneAt(pc) \cup {pc}
    BY DEF DoneAt, NextCleanup, CleanupSteps
  <2>7. \A u \in Tasks : \A step \in DoneAt(fin[u].pc) : IsGone(step)'
    BY <1>1, <2>1, <2>2, GoneStays DEF RemovedInv, Progress, cluster, SameClients
  <2>8. Progress'
    BY <2>3, <2>5, <2>6, <2>7 DEF Progress
  <2>9. AllGone'
    BY <1>1, <1>2, <2>1, <2>2, GoneStays DEF RemovedInv, AllGone, cluster, SameClients
  <2>10. QED
    BY <2>4, <2>8, <2>9 DEF RemovedInv
<1>7. CASE RemoveFinalizer(t)
  <2>1. /\ UNCHANGED <<obj, deletions, external>> /\ fin' = [fin EXCEPT ![t] = Off] /\ exists' = FALSE
    BY <1>7 DEF RemoveFinalizer
  <2>2. \A u \in Tasks : fin'[u] = fin[u] \/ fin'[u].pc = "off"
    BY <1>0, <2>1 DEF Off
  <2>3. DueAgree' /\ RunningAgree'
    BY <1>1, <2>1, <2>2 DEF DueAgree, RunningAgree
  <2>4. \A u \in Tasks : DoneAt(fin'[u].pc) \subseteq DoneAt(fin[u].pc)
    BY <2>2 DEF DoneAt
  <2>5. Progress'
    BY <1>1, <2>1, <2>4, GoneStays DEF RemovedInv, Progress, external, SameClients
  <2>6. ASSUME used'.api = 0 PROVE fin[t].pc = "done" \/ ~exists
    <3>1. UseApiFault => used'.api # 0
      BY <1>0 DEF UseApiFault, Usage
    <3>2. QED
      BY <1>7, <2>6, <3>1 DEF RemoveFinalizer
  <2>7. ASSUME used'.api = 0 PROVE \A step \in CleanupSteps : IsGone(step)
    <3>1. DoneAt("done") = CleanupSteps
      BY DEF DoneAt
    <3>2. QED
      BY <1>1, <1>2, <2>6, <2>7, <3>1 DEF RemovedInv, Progress, AllGone
  <2>8. AllGone'
    BY <2>1, <2>7, GoneStays DEF AllGone, external, SameClients
  <2>9. QED
    BY <2>3, <2>5, <2>8 DEF RemovedInv
<1>8. QED
  BY <1>4, <1>5, <1>6, <1>7 DEF Finalizer

(* RemovedInv is inductive relative to the types.                          *)
LEMMA RemovedNext ==
  ASSUME TypeOK, RemovedInv, [Next]_vars
  PROVE  RemovedInv'
<1>1. CASE raced'
  BY <1>1 DEF RemovedInv
<1>2. CASE ~raced' /\ Next
  BY <1>2, RemovedEnvironment, RemovedReconciler, RemovedDelivery, RemovedFinalizer DEF Next
<1>3. CASE UNCHANGED vars
  BY <1>3 DEF vars, RemovedInv, DueAgree, RunningAgree, Progress, AllGone, IsGone, SameClients
<1>4. QED
  BY <1>1, <1>2, <1>3

(* When the object is gone nothing is left behind of what its last status  *)
(* recorded, unless the reconciler wrote beside the finalization or a      *)
(* request of the finalizer failed.                                        *)
THEOREM RecordedAreRemoved == Spec => []RecordedResourcesRemoved
<1>1. TypeOK /\ RemovedInv /\ [Next]_vars => RemovedInv'
  BY RemovedNext
<1>2. TypeOK /\ RemovedInv => RecordedResourcesRemoved
  <2> SUFFICES ASSUME TypeOK, RemovedInv, ~exists, ~raced, used.api = 0
               PROVE  shared = {} /\ keycloak \cap obj.ssoClients = {}
                      /\ chains \cap obj.authserviceClients = {}
    BY DEF RecordedResourcesRemoved
  <2>1. \A step \in CleanupSteps : IsGone(step)
    BY DEF RemovedInv, AllGone
  <2>2. shared = {}
    BY <2>1 DEF IsGone, CleanupSteps, SharedKinds, TypeOK
  <2>3. keycloak \cap obj.ssoClients = {} /\ chains \cap obj.authserviceClients = {}
    BY <2>1 DEF IsGone, CleanupSteps
  <2>4. QED
    BY <2>2, <2>3
<1>3. QED
  BY <1>1, <1>2, RemovedInit, TypeCorrect, PTL DEF Spec


=============================================================================
