--------------------------- MODULE PodReloadProofs ---------------------------
(***************************************************************************)
(* Proofs about PodReload for any objects, controllers, pods and bounds.   *)
(***************************************************************************)
EXTENDS PodReload, FiniteSetTheorems, TLAPS

-----------------------------------------------------------------------------
(* Type correctness.                                                       *)

(* The values that the actions make are typed.                             *)
LEMMA ValuesTyped ==
  /\ NoAnnotations \in Annotations /\ Idle \in Task
  /\ \A d \in Data \cup {None}, a \in Annotations : [data |-> d, annotations |-> a] \in Snapshot
  /\ \A e \in Snapshot : e.data \in Data \cup {None} /\ e.annotations \in Annotations
                         /\ e.annotations.selector \in Selector
  BY DEF NoAnnotations, Annotations, Idle, Task, Snapshot, Selector

(* What pods read is data.                                                 *)
LEMMA RunsTyped == TypeOK => Runs \in [Object -> Data \cup {None}]
  BY ValuesTyped DEF TypeOK, Runs

(* A pod told to leave.                                                    *)
LEMMA LeavingTyped == ASSUME TypeOK, NEW p \in Pod PROVE Leaving(p) \in PodState
  BY DEF TypeOK, Leaving, PodState

(* A new version of an object and the event of it.                         *)
LEMMA PublishTyped ==
  ASSUME TypeOK, NEW o \in Object, NEW new \in Snapshot, Publish(o, new)
  PROVE  object' \in [Object -> Snapshot] /\ queue' \in [Object -> Seq(Snapshot)]
<1>1. Append(queue[o], new) \in Seq(Snapshot)
  BY DEF TypeOK
<1>2. queue' = [queue EXCEPT ![o] = Append(queue[o], new)]
  BY DEF Publish
<1>3. QED
  BY <1>1, <1>2 DEF TypeOK, Publish

(* A snapshot taken from the queue.                                        *)
LEMMA DequeueTyped ==
  ASSUME TypeOK, NEW o \in Object, Dequeue(o)
  PROVE  /\ queue' \in [Object -> Seq(Snapshot)] /\ Head(queue[o]) \in Snapshot
         /\ Discover(o, Head(queue[o])) => task' \in [Object -> Task]
         /\ Discover(o, Head(queue[o])) => \A q \in Object : q # o => task'[q] = task[q]
         /\ Discover(o, Head(queue[o])) => task'[o].pods = {} /\ task'[o].evict = {}
<1>1. queue[o] \in Seq(Snapshot) /\ queue[o] # <<>>
  BY DEF TypeOK, Dequeue
<1>2. Tail(queue[o]) \in Seq(Snapshot) /\ Head(queue[o]) \in Snapshot
  BY <1>1
<1>3. queue' = [queue EXCEPT ![o] = Tail(queue[o])]
  BY DEF Dequeue
<1>4. queue' \in [Object -> Seq(Snapshot)]
  BY <1>2, <1>3 DEF TypeOK
<1>5. ASSUME Discover(o, Head(queue[o]))
      PROVE  /\ task' \in [Object -> Task] /\ \A q \in Object : q # o => task'[q] = task[q]
             /\ task'[o].pods = {} /\ task'[o].evict = {}
  <2> DEFINE e == Head(queue[o])
             new == [Idle EXCEPT !.at = "discover", !.data = e.data, !.selector = e.annotations.selector]
  <2>1. new \in Task /\ new.pods = {} /\ new.evict = {}
    BY <1>2, ValuesTyped DEF Idle, Task
  <2>2. task' = [task EXCEPT ![o] = new]
    BY <1>5 DEF Discover
  <2> HIDE DEF new
  <2>3. QED
    BY <2>1, <2>2 DEF TypeOK
<1>6. QED
  BY <1>2, <1>4, <1>5

(* The initial states.                                                     *)
LEMMA InitTyped == Init => TypeOK
<1> SUFFICES ASSUME Init PROVE TypeOK
  OBVIOUS
<1>1. object \in [Object -> Snapshot]
  <2>1. {NoAnnotations, [NoAnnotations EXCEPT !.map = TRUE]} \subseteq Annotations
    <3>1. NoAnnotations \in Annotations
      BY ValuesTyped
    <3>2. [NoAnnotations EXCEPT !.map = TRUE] \in Annotations
      BY <3>1 DEF Annotations
    <3>3. QED
      BY <3>1, <3>2
  <2>2. [data : {InitialData}, annotations : {NoAnnotations, [NoAnnotations EXCEPT !.map = TRUE]}]
          \subseteq Snapshot
    BY <2>1, DataAssumption DEF Snapshot
  <2>3. QED
    BY <2>2 DEF Init
<1>2. queue \in [Object -> Seq(Snapshot)]
  BY <1>1 DEF Init
<1>3. cache \in [Object -> Data \cup {None}]
  BY DataAssumption DEF Init
<1>4. pod \in [Pod -> PodState]
  BY <1>1, ValuesTyped DEF Init, PodState, Runs
<1>5. task \in [Object -> Task] /\ \A o \in Object : task[o].pods \cup task[o].evict = {}
  BY ValuesTyped DEF Init, Idle
<1>6. cleanups \in Seq(Cleanup) /\ claimed \subseteq Controller
      /\ restarts \in [Controller \cup Pod -> Nat] /\ chosen \in [Resource -> Selector]
  BY DEF Init, Selector
<1>7. changes \in 0..MaxChanges /\ faults \in 0..MaxFaults /\ starts \in 0..faults
  BY BoundsAssumption DEF Init
<1>8. QED
  BY <1>1, <1>2, <1>3, <1>4, <1>5, <1>6, <1>7 DEF TypeOK

(* The cluster: changes of the objects and pods that are replaced.         *)
LEMMA ClusterTyped ==
  ASSUME TypeOK,
         \/ \E o \in Object, d \in Data \cup {None} : ChangeData(o, d)
         \/ \E r \in Resource, s \in Selectors : Annotate(r, s)
         \/ \E p \in Pod : Replace(p)
  PROVE  TypeOK'
<1>0. changes \in Nat /\ MaxChanges \in Nat
  BY BoundsAssumption DEF TypeOK
<1>1. ASSUME NEW o \in Object, NEW d \in Data \cup {None}, ChangeData(o, d) PROVE TypeOK'
  <2> DEFINE new == [data |-> d, annotations |-> IF d = None THEN NoAnnotations ELSE object[o].annotations]
  <2>1. object[o].annotations \in Annotations
    BY ValuesTyped DEF TypeOK
  <2>2. new \in Snapshot
    BY <2>1, ValuesTyped
  <2>3. object' \in [Object -> Snapshot] /\ queue' \in [Object -> Seq(Snapshot)]
    <3>1. Publish(o, new)
      BY <1>1 DEF ChangeData
    <3> HIDE DEF new
    <3>2. QED
      BY <2>2, <3>1, PublishTyped
  <2>4. chosen' \in [Resource -> Selector]
    <3>1. object[o].annotations.selector \in Selector
      BY ValuesTyped DEF TypeOK
    <3>2. chosen' = chosen \/ (o \in Resource /\ chosen' = [chosen EXCEPT ![o] = object[o].annotations.selector])
      BY <1>1 DEF ChangeData, Object
    <3>3. QED
      BY <3>1, <3>2 DEF TypeOK
  <2>5. changes' \in 0..MaxChanges
    <3>1. changes < MaxChanges /\ changes' = changes + 1
      BY <1>1 DEF ChangeData
    <3>2. QED
      BY <1>0, <3>1
  <2>6. UNCHANGED <<claimed, pod, cache, task, cleanups, restarts, starts, faults>>
    BY <1>1 DEF ChangeData
  <2>7. QED
    BY <2>3, <2>4, <2>5, <2>6 DEF TypeOK
<1>2. ASSUME NEW r \in Resource, NEW s \in Selectors, Annotate(r, s) PROVE TypeOK'
  <2> DEFINE new == [object[r] EXCEPT !.annotations.map = TRUE, !.annotations.selector = s]
  <2>1. r \in Object /\ object[r] \in Snapshot /\ s \in Selector
    BY PodsAssumption DEF TypeOK, Object
  <2>2. new \in Snapshot
    BY <2>1 DEF Snapshot, Annotations
  <2>3. object' \in [Object -> Snapshot] /\ queue' \in [Object -> Seq(Snapshot)]
    <3>1. Publish(r, new)
      BY <1>2 DEF Annotate
    <3> HIDE DEF new
    <3>2. QED
      BY <2>1, <2>2, <3>1, PublishTyped
  <2>4. changes' \in 0..MaxChanges
    <3>1. changes < MaxChanges /\ changes' = changes + 1
      BY <1>2 DEF Annotate
    <3>2. QED
      BY <1>0, <3>1
  <2>5. UNCHANGED <<claimed, pod, cache, task, cleanups, restarts, chosen, starts, faults>>
    BY <1>2 DEF Annotate, history
  <2>6. QED
    BY <2>3, <2>4, <2>5 DEF TypeOK
<1>3. ASSUME NEW p \in Pod, Replace(p) PROVE TypeOK'
  <2>1. [state |-> IF Owner[p] = None THEN "gone" ELSE "running", runs |-> Runs] \in PodState
    BY RunsTyped DEF PodState
  <2>2. pod' \in [Pod -> PodState]
    BY <1>3, <2>1 DEF Replace, TypeOK
  <2>3. UNCHANGED <<object, queue, cache, task, cleanups, claimed, restarts, chosen, starts, changes, faults>>
    BY <1>3 DEF Replace, memory, history
  <2>4. QED
    BY <2>2, <2>3 DEF TypeOK
<1>4. QED
  BY <1>1, <1>2, <1>3

(* Taking a snapshot from the queue.                                       *)
LEMMA HandlingTyped ==
  ASSUME TypeOK, (\E r \in Resource : Handle(r)) \/ HandleMesh
  PROVE  TypeOK'
<1>1. PICK o \in Object : Dequeue(o) /\ (task' = task \/ Discover(o, Head(queue[o])))
  <2>1. ASSUME NEW r \in Resource, Handle(r)
        PROVE  Dequeue(r) /\ (task' = task \/ Discover(r, Head(queue[r])))
    BY <2>1 DEF Handle, HandleChange, HandleFirst, HandleDelete
  <2>2. CASE HandleMesh
    BY <2>2 DEF HandleMesh, Object
  <2>3. QED
    BY <2>1, <2>2 DEF Object
<1>2. queue' \in [Object -> Seq(Snapshot)] /\ Head(queue[o]) \in Snapshot
  BY <1>1, DequeueTyped
<1>3. /\ task' \in [Object -> Task]
      /\ \A q \in Object : task'[q].pods \cup task'[q].evict # {} => task'[q].at = "reload"
  <2>1. CASE task' = task
    BY <2>1 DEF TypeOK
  <2>2. CASE Discover(o, Head(queue[o]))
    BY <1>1, <2>2, DequeueTyped DEF TypeOK
  <2>3. QED
    BY <1>1, <2>1, <2>2
<1>4. cache' \in [Object -> Data \cup {None}] /\ cleanups' \in Seq(Cleanup)
  <2>1. ASSUME NEW r \in Resource, Handle(r)
        PROVE  cache' \in [Object -> Data \cup {None}] /\ cleanups' \in Seq(Cleanup)
    <3>1. r \in Object /\ Head(queue[r]) \in Snapshot
      BY <2>1, DequeueTyped DEF Object, Handle, HandleChange, HandleFirst, HandleDelete
    <3>2. Head(queue[r]).data \in Data \cup {None} /\ Head(queue[r]).annotations \in Annotations
      BY <3>1, ValuesTyped
    <3>3. cache' \in {[cache EXCEPT ![r] = Head(queue[r]).data], [cache EXCEPT ![r] = None]}
      BY <2>1 DEF Handle, HandleChange, HandleFirst, HandleDelete
    <3>4. cache' \in [Object -> Data \cup {None}]
      BY <3>2, <3>3 DEF TypeOK
    <3> DEFINE new == [of |-> r, annotations |-> Head(queue[r]).annotations, at |-> "clean"]
    <3>5. new \in Cleanup
      BY <3>2 DEF Cleanup
    <3>6. cleanups' \in {cleanups, Append(cleanups, new)}
      BY <2>1 DEF Handle, HandleChange, HandleFirst, HandleDelete
    <3>7. cleanups' \in Seq(Cleanup)
      <4> HIDE DEF new
      <4>1. cleanups \in Seq(Cleanup)
        BY DEF TypeOK
      <4>2. Append(cleanups, new) \in Seq(Cleanup)
        BY <3>5, <4>1
      <4>3. QED
        BY <3>6, <4>1, <4>2
    <3>8. QED
      BY <3>4, <3>7
  <2>2. CASE HandleMesh
    BY <2>2 DEF HandleMesh, TypeOK
  <2>3. QED
    BY <2>1, <2>2
<1>5. UNCHANGED <<object, claimed, pod, restarts, chosen, starts, changes, faults>>
  BY DEF Handle, HandleChange, HandleFirst, HandleDelete, HandleMesh, history
<1>6. QED
  BY <1>2, <1>3, <1>4, <1>5 DEF TypeOK

(* One handler's bookkeeping.                                              *)
LEMMA TaskTyped ==
  ASSUME TypeOK, NEW o \in Object, NEW new \in Task, task' = [task EXCEPT ![o] = new],
         new.pods \cup new.evict # {} => new.at = "reload"
  PROVE  /\ task' \in [Object -> Task]
         /\ \A q \in Object : task'[q].pods \cup task'[q].evict # {} => task'[q].at = "reload"
  BY DEF TypeOK

(* Telling a controller or a pod to restart.                               *)
LEMMA RestartsTyped ==
  ASSUME TypeOK, NEW x \in Controller \cup Pod, restarts' = [restarts EXCEPT ![x] = @ + 1]
  PROVE  restarts' \in [Controller \cup Pod -> Nat]
  BY DEF TypeOK

(* A pod whose handler can be restarted has a controller.                  *)
LEMMA HandledOwner == ASSUME NEW p \in Pod, Handled(Owner[p]) PROVE Owner[p] \in Controller
  BY PodsAssumption DEF Handled

(* Editing the record of a handler.                                        *)
LEMMA EditTyped ==
  ASSUME NEW t \in Task, NEW pods \in SUBSET Pod, NEW handled \in SUBSET Controller, NEW evict \in SUBSET Pod
  PROVE  /\ [t EXCEPT !.at = "reload", !.pods = pods] \in Task
         /\ [t EXCEPT !.pods = pods] \in Task
         /\ [t EXCEPT !.evict = evict] \in Task
         /\ [t EXCEPT !.pods = pods, !.evict = evict] \in Task
         /\ [t EXCEPT !.pods = pods, !.handled = handled] \in Task
  BY DEF Task

(* What a step of a reload makes of the record of its handler.             *)
LEMMA ReloadTask ==
  ASSUME TypeOK, NEW o \in Object, Reload(o)
  PROVE  \E new \in Task : /\ task' = [task EXCEPT ![o] = new]
                           /\ new.pods \cup new.evict # {} => new.at = "reload"
<1>0. /\ task[o] \in Task /\ task \in [Object -> Task]
      /\ task[o].pods \cup task[o].evict # {} => task[o].at = "reload"
  BY DEF TypeOK
<1>1. CASE FindPods(o)
  <2> DEFINE found == {p \in Pod : p \in Consumers(o, task[o].selector) /\ pod[p].state = "running"}
             new == [task[o] EXCEPT !.at = "reload", !.pods = found]
  <2>1. new \in Task /\ new.at = "reload"
    <3>1. found \in SUBSET Pod
      OBVIOUS
    <3> HIDE DEF found
    <3>2. new \in Task
      BY <1>0, <3>1, EditTyped
    <3>3. new.at = "reload"
      BY <1>0 DEF Task
    <3>4. QED
      BY <3>2, <3>3
  <2>2. task' = [task EXCEPT ![o] = new]
    BY <1>0, <1>1 DEF FindPods
  <2>3. QED
    BY <2>1, <2>2
<1>2. ASSUME NEW p \in Pod, SetAside(o, p)
      PROVE  \E new \in Task : /\ task' = [task EXCEPT ![o] = new]
                               /\ new.pods \cup new.evict # {} => new.at = "reload"
  <2> DEFINE new == [task[o] EXCEPT !.pods = @ \ {p}, !.evict = @ \cup {p}]
  <2>1. task[o].pods \ {p} \in SUBSET Pod /\ task[o].evict \cup {p} \in SUBSET Pod
    BY <1>0 DEF Task
  <2>2. new \in Task
    BY <1>0, <2>1, EditTyped
  <2>3. task[o].at = "reload"
    BY <1>0, <1>2 DEF SetAside
  <2>4. new.at = "reload"
    BY <1>0, <2>3 DEF Task
  <2>5. task' = [task EXCEPT ![o] = new]
    BY <1>0, <1>2 DEF SetAside
  <2>6. QED
    BY <2>2, <2>4, <2>5
<1>3. ASSUME NEW p \in Pod, RestartController(o, p)
      PROVE  \E new \in Task : /\ task' = [task EXCEPT ![o] = new]
                               /\ new.pods \cup new.evict # {} => new.at = "reload"
  <2> DEFINE skip == [task[o] EXCEPT !.pods = @ \ {p}]
             new == [task[o] EXCEPT !.pods = @ \ {p}, !.handled = @ \cup {Owner[p]}]
  <2>1. Owner[p] \in Controller /\ p \in task[o].pods
    BY <1>3, HandledOwner DEF RestartController
  <2>2. skip \in Task /\ skip.at = "reload" /\ new \in Task /\ new.at = "reload"
    <3>1. task[o].pods \ {p} \in SUBSET Pod /\ task[o].handled \cup {Owner[p]} \in SUBSET Controller
      BY <1>0, <2>1 DEF Task
    <3>2. skip \in Task /\ new \in Task
      BY <1>0, <3>1, EditTyped
    <3>3. task[o].at = "reload"
      BY <1>0, <2>1
    <3>4. skip.at = "reload" /\ new.at = "reload"
      BY <1>0, <3>3 DEF Task
    <3>5. QED
      BY <3>2, <3>4
  <2>3. task' = [task EXCEPT ![o] = skip] \/ task' = [task EXCEPT ![o] = new]
    BY <1>0, <1>3 DEF RestartController
  <2>4. QED
    BY <2>2, <2>3
<1>4. ASSUME NEW p \in Pod, EvictPod(o, p)
      PROVE  \E new \in Task : /\ task' = [task EXCEPT ![o] = new]
                               /\ new.pods \cup new.evict # {} => new.at = "reload"
  <2> DEFINE new == [task[o] EXCEPT !.evict = @ \ {p}]
  <2>1. task[o].evict \ {p} \in SUBSET Pod
    BY <1>0 DEF Task
  <2>2. new \in Task
    BY <1>0, <2>1, EditTyped
  <2>3. task[o].at = "reload"
    BY <1>0, <1>4 DEF EvictPod
  <2>4. new.at = "reload"
    BY <1>0, <2>3 DEF Task
  <2>5. task' = [task EXCEPT ![o] = new]
    BY <1>0, <1>4 DEF EvictPod
  <2>6. QED
    BY <2>2, <2>4, <2>5
<1>5. CASE FinishReload(o)
  <2>1. Idle \in Task /\ Idle.pods \cup Idle.evict = {} /\ task' = [task EXCEPT ![o] = Idle]
    BY <1>5, ValuesTyped DEF FinishReload, Idle
  <2>2. QED
    BY <2>1
<1>6. QED
  BY <1>1, <1>2, <1>3, <1>4, <1>5 DEF Reload

(* What the steps leave alone.                                             *)
LEMMA HandleFrame ==
  ASSUME NEW r, Handle(r)
  PROVE  UNCHANGED <<object, claimed, pod, restarts, chosen, starts, changes, faults, trouble>>
BY DEF Handle, HandleChange, HandleFirst, HandleDelete, history

LEMMA HandleMeshFrame ==
  ASSUME HandleMesh
  PROVE  UNCHANGED <<object, claimed, pod, cache, cleanups, restarts, chosen, starts, changes, faults, trouble>>
BY DEF HandleMesh, history

LEMMA ReloadFrame ==
  ASSUME NEW o, Reload(o)
  PROVE  /\ UNCHANGED <<object, queue, cleanups, chosen, starts, changes, faults, trouble>>
         /\ claimed' \subseteq claimed
         /\ cache' = cache \/ (o = Mesh /\ cache' = [cache EXCEPT ![o] = task[o].data])
<1> DEFINE Frame == /\ UNCHANGED <<object, queue, cleanups, chosen, starts, changes, faults, trouble>>
                    /\ claimed' \subseteq claimed
                    /\ cache' = cache \/ (o = Mesh /\ cache' = [cache EXCEPT ![o] = task[o].data])
<1>1. CASE FindPods(o)
  BY <1>1 DEF FindPods, history
<1>2. CASE FinishReload(o)
  BY <1>2 DEF FinishReload, history
<1>3. ASSUME NEW p \in Pod, SetAside(o, p) PROVE Frame
  BY <1>3 DEF SetAside, history
<1>4. ASSUME NEW p \in Pod, RestartController(o, p) PROVE Frame
  BY <1>4 DEF RestartController
<1>5. ASSUME NEW p \in Pod, EvictPod(o, p) PROVE Frame
  BY <1>5 DEF EvictPod
<1>6. QED
  BY <1>1, <1>2, <1>3, <1>4, <1>5 DEF Reload

LEMMA FailReloadFrame ==
  ASSUME NEW o, FailReload(o)
  PROVE  /\ UNCHANGED <<object, claimed, pod, queue, cache, cleanups, restarts, chosen, starts, changes>>
         /\ trouble \subseteq trouble'
BY DEF FailReload, history

LEMMA ReplaceFrame ==
  ASSUME NEW p, Replace(p)
  PROVE  UNCHANGED <<object, claimed, queue, cache, task, cleanups, restarts, chosen, starts, changes,
                     faults, trouble>>
BY DEF Replace, memory, history

LEMMA CleanupFrame ==
  ASSUME CleanControllers \/ FailCleanup
  PROVE  /\ UNCHANGED <<object, pod, queue, cache, task, restarts, chosen, starts, changes>>
         /\ trouble \subseteq trouble'
BY DEF CleanControllers, FailCleanup, history

LEMMA PublishFrame ==
  ASSUME \/ \E o \in Object, d \in Data \cup {None} : ChangeData(o, d)
         \/ \E r \in Resource, s \in Selectors : Annotate(r, s)
         \/ MarkComplete
  PROVE  trouble \subseteq trouble'
BY DEF ChangeData, Annotate, MarkComplete

(* The steps of a reload.                                                  *)
LEMMA ReloadTyped ==
  ASSUME TypeOK, NEW o \in Object, Reload(o)
  PROVE  TypeOK'
<1>1. /\ task' \in [Object -> Task]
      /\ \A q \in Object : task'[q].pods \cup task'[q].evict # {} => task'[q].at = "reload"
  BY ReloadTask, TaskTyped
<1>2. UNCHANGED <<object, queue, cleanups, chosen, starts, changes, faults>>
  BY DEF Reload, FindPods, SetAside, RestartController, EvictPod, FinishReload, history
<1>3. cache' \in [Object -> Data \cup {None}]
  <2>1. task[o].data \in Data \cup {None}
    BY DEF TypeOK, Task
  <2>2. cache' = cache \/ cache' = [cache EXCEPT ![o] = task[o].data]
    BY DEF Reload, FindPods, SetAside, RestartController, EvictPod, FinishReload
  <2>3. QED
    BY <2>1, <2>2 DEF TypeOK
<1>4. pod' \in [Pod -> PodState]
  <2>1. CASE UNCHANGED pod
    BY <2>1 DEF TypeOK
  <2>2. ASSUME NEW p \in Pod, RestartController(o, p) PROVE pod' \in [Pod -> PodState]
    <3>1. \A q \in Pod : Leaving(q) \in PodState /\ pod[q] \in PodState
      BY LeavingTyped DEF TypeOK
    <3>2. pod' = pod \/ pod' = [q \in Pod |-> IF Owner[q] = Owner[p] THEN Leaving(q) ELSE pod[q]]
      BY <2>2 DEF RestartController
    <3>3. QED
      BY <3>1, <3>2 DEF TypeOK
  <2>3. ASSUME NEW p \in Pod, EvictPod(o, p) PROVE pod' \in [Pod -> PodState]
    <3>1. pod' = [pod EXCEPT ![p] = Leaving(p)]
      BY <2>3 DEF EvictPod
    <3>2. QED
      BY <3>1, LeavingTyped DEF TypeOK
  <2>4. QED
    BY <2>1, <2>2, <2>3 DEF Reload, FindPods, SetAside, FinishReload
<1>5. restarts' \in [Controller \cup Pod -> Nat] /\ claimed' \subseteq Controller
  <2>1. CASE UNCHANGED restarts
    BY <2>1 DEF TypeOK, Reload, FindPods, SetAside, RestartController, EvictPod, FinishReload
  <2>2. ASSUME NEW p \in Pod, RestartController(o, p), restarts' # restarts
        PROVE restarts' \in [Controller \cup Pod -> Nat] /\ claimed' \subseteq Controller
    <3>1. Owner[p] \in Controller
      BY <2>2, HandledOwner DEF RestartController
    <3>2. restarts' = [restarts EXCEPT ![Owner[p]] = @ + 1] /\ claimed' = claimed \ {Owner[p]}
      BY <2>2 DEF RestartController
    <3>3. QED
      BY <3>1, <3>2, RestartsTyped DEF TypeOK
  <2>3. ASSUME NEW p \in Pod, EvictPod(o, p)
        PROVE restarts' \in [Controller \cup Pod -> Nat] /\ claimed' \subseteq Controller
    <3>1. restarts' = [restarts EXCEPT ![p] = @ + 1] /\ claimed' = claimed
      BY <2>3 DEF EvictPod
    <3>2. QED
      BY <3>1, RestartsTyped DEF TypeOK
  <2>4. QED
    BY <2>1, <2>2, <2>3 DEF Reload, FindPods, SetAside, FinishReload, history
<1>6. QED
  BY <1>1, <1>2, <1>3, <1>4, <1>5 DEF TypeOK

(* The queue of cleanups.                                                  *)
LEMMA CleanupsTyped ==
  ASSUME TypeOK, cleanups # <<>>
  PROVE  /\ Head(cleanups) \in Cleanup /\ Tail(cleanups) \in Seq(Cleanup)
         /\ [cleanups EXCEPT ![1].at = "mark"] \in Seq(Cleanup)
<1>1. cleanups \in Seq(Cleanup)
  BY DEF TypeOK
<1>2. Head(cleanups) \in Cleanup /\ Tail(cleanups) \in Seq(Cleanup) /\ cleanups[1] \in Cleanup
  BY <1>1
<1>3. [cleanups[1] EXCEPT !.at = "mark"] \in Cleanup
  BY <1>2 DEF Cleanup
<1>4. QED
  BY <1>1, <1>2, <1>3

LEMMA CleaningTyped ==
  ASSUME TypeOK, CleanControllers \/ MarkComplete
  PROVE  TypeOK'
<1>1. CASE CleanControllers
  <2>1. cleanups' \in Seq(Cleanup)
    BY <1>1, CleanupsTyped DEF CleanControllers
  <2>2. claimed' \subseteq Controller
    BY <1>1 DEF CleanControllers, TypeOK
  <2>3. UNCHANGED <<object, queue, cache, task, pod, restarts, chosen, starts, changes, faults>>
    BY <1>1 DEF CleanControllers, history
  <2>4. QED
    BY <2>1, <2>2, <2>3 DEF TypeOK
<1>2. CASE MarkComplete
  <2> DEFINE r == Head(cleanups).of
             now == object[r].annotations
             old == Head(cleanups).annotations
             new == [object[r] EXCEPT !.annotations =
                      [map |-> TRUE, complete |-> TRUE, selector |-> IF old.map THEN now.selector ELSE None]]
  <2>1. r \in Object /\ object[r] \in Snapshot
    <3>1. r \in Resource
      BY <1>2, CleanupsTyped DEF MarkComplete, Cleanup
    <3>2. QED
      BY <3>1 DEF TypeOK, Object
  <2>2. new \in Snapshot
    <3>1. now.selector \in Selector /\ None \in Selector
      BY <2>1, ValuesTyped DEF Selector
    <3>2. [map |-> TRUE, complete |-> TRUE, selector |-> IF old.map THEN now.selector ELSE None] \in Annotations
      BY <3>1 DEF Annotations
    <3>3. QED
      BY <2>1, <3>2 DEF Snapshot
  <2>3. UNCHANGED <<object, queue>> \/ Publish(r, new)
    BY <1>2 DEF MarkComplete
  <2>4. object' \in [Object -> Snapshot] /\ queue' \in [Object -> Seq(Snapshot)]
    <3> HIDE DEF r, new
    <3>1. CASE UNCHANGED <<object, queue>>
      BY <3>1 DEF TypeOK
    <3>2. CASE Publish(r, new)
      BY <2>1, <2>2, <3>2, PublishTyped
    <3>3. QED
      BY <2>3, <3>1, <3>2
  <2>5. cleanups' \in Seq(Cleanup)
    BY <1>2, CleanupsTyped DEF MarkComplete
  <2>6. UNCHANGED <<claimed, cache, task, pod, restarts, chosen, starts, changes, faults>>
    BY <1>2 DEF MarkComplete, history
  <2>7. QED
    BY <2>4, <2>5, <2>6 DEF TypeOK
<1>3. QED
  BY <1>1, <1>2

(* Failing requests.                                                       *)
LEMMA FailuresTyped ==
  ASSUME TypeOK, (\E o \in Object : FailReload(o)) \/ FailCleanup
  PROVE  TypeOK'
<1>0. faults' \in 0..MaxFaults /\ starts \in 0..faults'
  <2>1. faults < MaxFaults /\ faults' = faults + 1
    BY DEF FailReload, FailCleanup
  <2>2. QED
    BY <2>1, BoundsAssumption DEF TypeOK
<1>1. ASSUME NEW o \in Object, FailReload(o) PROVE TypeOK'
  <2>0. /\ task[o] \in Task
        /\ task[o].pods \cup task[o].evict # {} => task[o].at = "reload"
    BY DEF TypeOK
  <2>1. \E new \in Task : /\ task' = [task EXCEPT ![o] = new]
                          /\ new.pods \cup new.evict # {} => new.at = "reload"
    <3>1. CASE task' = [task EXCEPT ![o] = Idle]
      BY <3>1, ValuesTyped DEF Idle
    <3>2. ASSUME NEW p, task' = [task EXCEPT ![o].pods = @ \ {p}], p \in task[o].pods
          PROVE  \E new \in Task : /\ task' = [task EXCEPT ![o] = new]
                                   /\ new.pods \cup new.evict # {} => new.at = "reload"
      <4> DEFINE new == [task[o] EXCEPT !.pods = @ \ {p}]
      <4>1. task[o].pods \ {p} \in SUBSET Pod
        BY <2>0 DEF Task
      <4>2. new \in Task
        BY <2>0, <4>1, EditTyped
      <4>3. task[o].at = "reload"
        BY <2>0, <3>2
      <4>4. new.at = "reload"
        BY <2>0, <4>3 DEF Task
      <4>5. task' = [task EXCEPT ![o] = new]
        BY <3>2 DEF TypeOK
      <4>6. QED
        BY <4>2, <4>4, <4>5
    <3>3. ASSUME NEW p, task' = [task EXCEPT ![o].evict = @ \ {p}], p \in task[o].evict
          PROVE  \E new \in Task : /\ task' = [task EXCEPT ![o] = new]
                                   /\ new.pods \cup new.evict # {} => new.at = "reload"
      <4> DEFINE new == [task[o] EXCEPT !.evict = @ \ {p}]
      <4>1. task[o].evict \ {p} \in SUBSET Pod
        BY <2>0 DEF Task
      <4>2. new \in Task
        BY <2>0, <4>1, EditTyped
      <4>3. task[o].at = "reload"
        BY <2>0, <3>3
      <4>4. new.at = "reload"
        BY <2>0, <4>3 DEF Task
      <4>5. task' = [task EXCEPT ![o] = new]
        BY <3>3 DEF TypeOK
      <4>6. QED
        BY <4>2, <4>4, <4>5
    <3>4. QED
      BY <1>1, <3>1, <3>2, <3>3 DEF FailReload
  <2>2. /\ task' \in [Object -> Task]
        /\ \A q \in Object : task'[q].pods \cup task'[q].evict # {} => task'[q].at = "reload"
    BY <2>1, TaskTyped
  <2>3. UNCHANGED <<object, claimed, pod, queue, cache, cleanups, restarts, chosen, starts, changes>>
    BY <1>1 DEF FailReload, history
  <2>4. QED
    BY <1>0, <2>2, <2>3 DEF TypeOK
<1>2. CASE FailCleanup
  <2>1. cleanups' \in Seq(Cleanup)
    BY <1>2, CleanupsTyped DEF FailCleanup
  <2>2. UNCHANGED <<object, claimed, pod, queue, cache, task, restarts, chosen, starts, changes>>
    BY <1>2 DEF FailCleanup, history
  <2>3. QED
    BY <1>0, <2>1, <2>2 DEF TypeOK
<1>3. QED
  BY <1>1, <1>2

(* The operator starts again.                                              *)
LEMMA RestartTyped == ASSUME TypeOK, Restart PROVE TypeOK'
<1>1. faults' \in 0..MaxFaults /\ starts' \in 0..faults'
  <2>1. faults < MaxFaults /\ faults' = faults + 1 /\ starts' = starts + 1
    BY DEF Restart
  <2>2. QED
    BY <2>1, BoundsAssumption DEF TypeOK
<1>2. queue' \in [Object -> Seq(Snapshot)]
  <2>1. \A o \in Object : <<object[o]>> \in Seq(Snapshot)
    BY DEF TypeOK
  <2>2. <<>> \in Seq(Snapshot)
    OBVIOUS
  <2>3. QED
    BY <2>1, <2>2 DEF Restart
<1>3. cache' \in [Object -> Data \cup {None}] /\ cleanups' \in Seq(Cleanup)
  BY DataAssumption DEF Restart
<1>4. task' \in [Object -> Task] /\ \A q \in Object : task'[q].pods \cup task'[q].evict = {}
  BY ValuesTyped DEF Restart, Idle
<1>5. UNCHANGED <<object, claimed, pod, restarts, chosen, changes>>
  BY DEF Restart
<1>6. QED
  BY <1>1, <1>2, <1>3, <1>4, <1>5 DEF TypeOK

(* Every step keeps the types.                                             *)
LEMMA NextTyped == TypeOK /\ [Next]_vars => TypeOK'
<1> SUFFICES ASSUME TypeOK, [Next]_vars PROVE TypeOK'
  OBVIOUS
<1>1. CASE Next
  <2>1. ASSUME NEW o \in Object, Reload(o) \/ FailReload(o) \/ \E d \in Data \cup {None} : ChangeData(o, d)
        PROVE  TypeOK'
    BY <2>1, ReloadTyped, FailuresTyped, ClusterTyped
  <2>2. ASSUME NEW r \in Resource, Handle(r) \/ \E s \in Selectors : Annotate(r, s)
        PROVE  TypeOK'
    BY <2>2, HandlingTyped, ClusterTyped
  <2>3. CASE HandleMesh \/ CleanControllers \/ MarkComplete \/ FailCleanup \/ Restart
    BY <2>3, HandlingTyped, CleaningTyped, FailuresTyped, RestartTyped
  <2>4. CASE \E p \in Pod : Replace(p)
    BY <2>4, ClusterTyped
  <2>5. QED
    BY <1>1, <2>1, <2>2, <2>3, <2>4 DEF Next
<1>2. CASE UNCHANGED vars
  BY <1>2 DEF vars, TypeOK
<1>3. QED
  BY <1>1, <1>2

(* The variables keep their types; a handler knows pods only while it      *)
(* reloads.                                                                *)
THEOREM TypeCorrect == Spec => []TypeOK
<1>1. QED
  BY InitTyped, NextTyped, PTL DEF Spec

-----------------------------------------------------------------------------
(* The mark of a finished cleanup.                                         *)

(* A controller with a pod on its way out is no longer claimed, and only   *)
(* pods without a controller are gone for good.                            *)
LeavingUnclaimed ==
  \A p \in Pod : /\ pod[p].state = "leaving" /\ Handled(Owner[p]) => Owner[p] \notin claimed
                 /\ pod[p].state = "gone" => Owner[p] = None

(* Nobody evicts a pod whose controller can be restarted.                  *)
EvictedAlone == \A o \in Object : \A p \in task[o].evict : ~Handled(Owner[p])

(* The consumers of an object that is marked, or about to be, are clean.   *)
Clean(r) == \A p \in Uses[r] : Handled(Owner[p]) => Owner[p] \notin claimed

CleanInv ==
  /\ LeavingUnclaimed
  /\ "cleanup" \notin trouble =>
       /\ \A r \in Resource : object[r].annotations.complete => Clean(r)
       /\ \A i \in DOMAIN cleanups : cleanups[i].at = "mark" => Clean(cleanups[i].of)

(* Nothing is claimed again: what is clean stays clean, and the pods that  *)
(* are on their way out need no more than that.                            *)
LEMMA CleanStays ==
  ASSUME CleanInv, claimed' \subseteq claimed,
         \A p \in Pod : \/ pod'[p].state = pod[p].state
                        \/ pod'[p].state = "running"
                        \/ pod'[p].state = "gone" /\ Owner[p] = None
                        \/ pod'[p].state = "leaving" /\ (Handled(Owner[p]) => Owner[p] \notin claimed')
  PROVE  LeavingUnclaimed' /\ \A r \in Resource : Clean(r) => Clean(r)'
<1>1. LeavingUnclaimed'
  BY DEF CleanInv, LeavingUnclaimed
<1>2. \A r \in Resource : Clean(r) => Clean(r)'
  BY DEF Clean
<1>3. QED
  BY <1>1, <1>2

(* A step that marks nothing and queues no finished cleanup.               *)
LEMMA UnmarkedStep ==
  ASSUME CleanInv, LeavingUnclaimed', \A r \in Resource : Clean(r) => Clean(r)',
         trouble \subseteq trouble',
         \A r \in Resource : object'[r].annotations.complete => object[r].annotations.complete,
         \A i \in DOMAIN cleanups' : cleanups'[i].at = "mark" =>
            \E j \in DOMAIN cleanups : /\ cleanups[j].at = "mark" /\ cleanups'[i].of = cleanups[j].of
                                       /\ cleanups[j].of \in Resource
  PROVE  CleanInv'
<1>1. ASSUME "cleanup" \notin trouble'
      PROVE  /\ \A r \in Resource : object'[r].annotations.complete => Clean(r)'
             /\ \A i \in DOMAIN cleanups' : cleanups'[i].at = "mark" => Clean(cleanups[i].of)'
  <2>1. "cleanup" \notin trouble
    BY <1>1
  <2>2. \A r \in Resource : object'[r].annotations.complete => Clean(r)'
    BY <2>1 DEF CleanInv
  <2>3. \A i \in DOMAIN cleanups' : cleanups'[i].at = "mark" =>
            \E r \in Resource : r = cleanups'[i].of /\ Clean(r)'
    BY <2>1 DEF CleanInv
  <2>4. \A i \in DOMAIN cleanups' : cleanups'[i].at = "mark" => Clean(cleanups[i].of)'
    BY <2>3 DEF Clean
  <2>5. QED
    BY <2>2, <2>4
<1>2. QED
  BY <1>1 DEF CleanInv

(* Cleanups are for resources.                                             *)
LEMMA CleanupsOf == ASSUME TypeOK PROVE \A i \in DOMAIN cleanups : cleanups[i].of \in Resource
<1>1. cleanups \in Seq(Cleanup)
  BY DEF TypeOK
<1>2. \A i \in DOMAIN cleanups : cleanups[i] \in Cleanup
  BY <1>1
<1>3. QED
  BY <1>2 DEF Cleanup

(* Only pods whose controller cannot be restarted are evicted.             *)
LEMMA EvictNext ==
  ASSUME TypeOK, EvictedAlone, [Next]_vars
  PROVE  EvictedAlone'
<1>0. /\ task \in [Object -> Task]
      /\ \A o \in Object : \A p \in task[o].evict : ~Handled(Owner[p])
  BY DEF TypeOK, EvictedAlone
<1>1. CASE UNCHANGED task
  BY <1>0, <1>1 DEF EvictedAlone
<1>2. ASSUME NEW o \in Object, NEW new \in Task, task' = [task EXCEPT ![o] = new],
             \A p \in new.evict : ~Handled(Owner[p])
      PROVE  EvictedAlone'
  BY <1>0, <1>2 DEF EvictedAlone
<1>3. Idle \in Task /\ Idle.evict = {}
  BY ValuesTyped DEF Idle
<1>4. ASSUME NEW o \in Object, Discover(o, Head(queue[o])), Dequeue(o) PROVE EvictedAlone'
  BY <1>0, <1>4, DequeueTyped DEF EvictedAlone
<1>5. ASSUME NEW o \in Object, Reload(o) PROVE EvictedAlone'
  <2>1. CASE FindPods(o)
    <3>1. \A q \in Object : task'[q].evict = task[q].evict
      BY <1>0, <2>1 DEF FindPods, Task
    <3>2. QED
      BY <1>0, <3>1 DEF EvictedAlone
  <2>2. ASSUME NEW p \in Pod, SetAside(o, p) PROVE EvictedAlone'
    <3>1. \A q \in Object : task'[q].evict \subseteq task[q].evict \cup {p}
      BY <1>0, <2>2 DEF SetAside, Task
    <3>2. ~Handled(Owner[p])
      BY <2>2 DEF SetAside
    <3>3. QED
      BY <1>0, <3>1, <3>2 DEF EvictedAlone
  <2>3. ASSUME NEW p \in Pod, RestartController(o, p) PROVE EvictedAlone'
    <3>1. \A q \in Object : task'[q].evict = task[q].evict
      BY <1>0, <2>3 DEF RestartController, Task
    <3>2. QED
      BY <1>0, <3>1 DEF EvictedAlone
  <2>4. ASSUME NEW p \in Pod, EvictPod(o, p) PROVE EvictedAlone'
    <3>1. \A q \in Object : task'[q].evict \subseteq task[q].evict
      BY <1>0, <2>4 DEF EvictPod, Task
    <3>2. QED
      BY <1>0, <3>1 DEF EvictedAlone
  <2>5. CASE FinishReload(o)
    BY <1>2, <1>3, <2>5 DEF FinishReload
  <2>6. QED
    BY <1>5, <2>1, <2>2, <2>3, <2>4, <2>5 DEF Reload
<1>6. ASSUME NEW o \in Object, FailReload(o) PROVE EvictedAlone'
  <2>1. CASE task' = [task EXCEPT ![o] = Idle]
    BY <1>2, <1>3, <2>1
  <2>2. ASSUME NEW p, task' = [task EXCEPT ![o].pods = @ \ {p}] \/ task' = [task EXCEPT ![o].evict = @ \ {p}]
        PROVE  EvictedAlone'
    <3>1. \A q \in Object : task'[q].evict \subseteq task[q].evict
      BY <1>0, <2>2 DEF Task
    <3>2. QED
      BY <1>0, <3>1 DEF EvictedAlone
  <2>3. QED
    BY <1>6, <2>1, <2>2 DEF FailReload
<1>7. CASE Restart
  BY <1>3, <1>7 DEF Restart, EvictedAlone
<1>8. ASSUME NEW r \in Resource, Handle(r) PROVE EvictedAlone'
  BY <1>1, <1>4, <1>8 DEF Handle, HandleChange, HandleFirst, HandleDelete, Object
<1>9. CASE HandleMesh
  BY <1>1, <1>4, <1>9 DEF HandleMesh, Object
<1>10. CASE UNCHANGED vars
  BY <1>1, <1>10 DEF vars
<1>11. CASE \/ \E o \in Object, d \in Data \cup {None} : ChangeData(o, d)
            \/ \E r \in Resource, s \in Selectors : Annotate(r, s)
            \/ \E p \in Pod : Replace(p)
            \/ CleanControllers \/ MarkComplete \/ FailCleanup
  BY <1>1, <1>11 DEF ChangeData, Annotate, Replace, CleanControllers, MarkComplete, FailCleanup, memory
<1>12. QED
  BY <1>5, <1>6, <1>7, <1>8, <1>9, <1>10, <1>11 DEF Next

(* Steps that leave pods, claims and cleanups alone and change at most     *)
(* other things about an object than its mark.                             *)
LEMMA CleanCluster ==
  ASSUME TypeOK, CleanInv,
         \/ \E o \in Object, d \in Data \cup {None} : ChangeData(o, d)
         \/ \E r \in Resource, s \in Selectors : Annotate(r, s)
  PROVE  CleanInv'
<1>1. UNCHANGED <<claimed, pod, cleanups>> /\ trouble \subseteq trouble'
  BY DEF ChangeData, Annotate
<1>2. \A r \in Resource : object'[r].annotations.complete => object[r].annotations.complete
  <2>1. ASSUME NEW o \in Object, NEW d \in Data \cup {None}, ChangeData(o, d), NEW r \in Resource,
               object'[r].annotations.complete
        PROVE  object[r].annotations.complete
    <3> DEFINE new == [data |-> d, annotations |-> IF d = None THEN NoAnnotations ELSE object[o].annotations]
    <3>1. object' = [object EXCEPT ![o] = new] /\ r \in Object
      BY <2>1 DEF ChangeData, Publish, Object
    <3>2. CASE r # o
      BY <2>1, <3>1, <3>2 DEF TypeOK
    <3>3. CASE r = o
      <4>1. object'[r].annotations = IF d = None THEN NoAnnotations ELSE object[o].annotations
        BY <3>1, <3>3 DEF TypeOK
      <4>2. QED
        BY <2>1, <3>3, <4>1 DEF NoAnnotations
    <3>4. QED
      BY <3>2, <3>3
  <2>2. ASSUME NEW q \in Resource, NEW s \in Selectors, Annotate(q, s), NEW r \in Resource
        PROVE  object'[r].annotations.complete = object[r].annotations.complete
    <3>1. object' = [object EXCEPT ![q] = [object[q] EXCEPT !.annotations.map = TRUE, !.annotations.selector = s]]
          /\ r \in Object /\ object[q] \in Snapshot
      BY <2>2 DEF Annotate, Publish, Object, TypeOK
    <3>2. object[q].annotations \in Annotations
      BY <3>1 DEF Snapshot
    <3>3. [object[q] EXCEPT !.annotations.map = TRUE, !.annotations.selector = s].annotations.complete
            = object[q].annotations.complete
      BY <3>1, <3>2 DEF Snapshot, Annotations
    <3>4. QED
      BY <3>1, <3>3 DEF TypeOK
  <2>3. QED
    BY <2>1, <2>2
<1>3. \A i \in DOMAIN cleanups : cleanups[i].of \in Resource
  BY CleanupsOf
<1>4. LeavingUnclaimed' /\ \A r \in Resource : Clean(r) => Clean(r)'
  BY <1>1, CleanStays
<1>5. QED
  BY <1>1, <1>2, <1>3, <1>4, UnmarkedStep

(* Steps of handlers, and pods that are replaced.                          *)
LEMMA CleanHandlers ==
  ASSUME TypeOK, EvictedAlone, CleanInv,
         \/ \E r \in Resource : Handle(r)
         \/ HandleMesh
         \/ \E o \in Object : Reload(o) \/ FailReload(o)
         \/ \E p \in Pod : Replace(p)
  PROVE  CleanInv'
<1>1. object' = object /\ trouble \subseteq trouble' /\ claimed' \subseteq claimed
  BY HandleFrame, HandleMeshFrame, ReloadFrame, FailReloadFrame, ReplaceFrame
<1>2. \A i \in DOMAIN cleanups : cleanups[i].of \in Resource
  BY CleanupsOf
<1>3. \A i \in DOMAIN cleanups' : cleanups'[i].at = "mark" =>
         \E j \in DOMAIN cleanups : /\ cleanups[j].at = "mark" /\ cleanups'[i].of = cleanups[j].of
                                    /\ cleanups[j].of \in Resource
  <2>1. CASE cleanups' = cleanups
    BY <1>2, <2>1
  <2>2. ASSUME NEW r \in Resource, HandleFirst(r)
        PROVE  \A i \in DOMAIN cleanups' : cleanups'[i].at = "mark" =>
                  i \in DOMAIN cleanups /\ cleanups'[i] = cleanups[i]
    <3> DEFINE new == [of |-> r, annotations |-> Head(queue[r]).annotations, at |-> "clean"]
    <3>1. cleanups' = cleanups \/ cleanups' = Append(cleanups, new)
      BY <2>2 DEF HandleFirst
    <3>2. cleanups \in Seq(Cleanup) /\ new.at = "clean"
      BY DEF TypeOK
    <3> HIDE DEF new
    <3>3. CASE cleanups' = cleanups
      BY <3>3
    <3>4. CASE cleanups' = Append(cleanups, new)
      <4>1. DOMAIN cleanups' = 1 .. (Len(cleanups) + 1) /\ cleanups'[Len(cleanups) + 1] = new
        BY <3>2, <3>4
      <4>2. \A i \in 1 .. Len(cleanups) : cleanups'[i] = cleanups[i]
        BY <3>2, <3>4
      <4>3. DOMAIN cleanups = 1 .. Len(cleanups) /\ Len(cleanups) \in Nat
        BY <3>2
      <4>4. QED
        BY <3>2, <4>1, <4>2, <4>3
    <3>5. QED
      BY <3>1, <3>3, <3>4
  <2>3. QED
    <3>1. ASSUME NEW r \in Resource, HandleChange(r) \/ HandleDelete(r) PROVE cleanups' = cleanups
      BY <3>1 DEF HandleChange, HandleDelete
    <3>2. (\E r \in Resource : HandleFirst(r)) \/ cleanups' = cleanups
      BY <3>1, HandleMeshFrame, ReloadFrame, FailReloadFrame, ReplaceFrame DEF Handle
    <3>3. QED
      BY <1>2, <2>1, <2>2, <3>2
<1>4. claimed' \subseteq claimed
  BY <1>1
<1>5. \A p \in Pod : \/ pod'[p].state = pod[p].state
                     \/ pod'[p].state = "running"
                     \/ pod'[p].state = "gone" /\ Owner[p] = None
                     \/ pod'[p].state = "leaving" /\ (Handled(Owner[p]) => Owner[p] \notin claimed')
  <2>0. \A p \in Pod : pod[p] \in PodState
    BY DEF TypeOK
  <2>1. CASE pod' = pod
    BY <2>1
  <2>2. ASSUME NEW q \in Pod, Replace(q), NEW p \in Pod
        PROVE  \/ pod'[p].state = pod[p].state
               \/ pod'[p].state = "running"
               \/ pod'[p].state = "gone" /\ Owner[p] = None
    <3>1. pod' = [pod EXCEPT ![q] = [state |-> IF Owner[q] = None THEN "gone" ELSE "running", runs |-> Runs]]
      BY <2>2 DEF Replace
    <3>2. QED
      BY <3>1 DEF TypeOK
  <2>3. ASSUME NEW o \in Object, NEW q \in Pod, RestartController(o, q), NEW p \in Pod
        PROVE  \/ pod'[p].state = pod[p].state
               \/ pod'[p].state = "leaving" /\ Owner[p] \notin claimed'
    <3>1. \/ pod' = pod
          \/ /\ pod' = [u \in Pod |-> IF Owner[u] = Owner[q] THEN Leaving(u) ELSE pod[u]]
             /\ claimed' = claimed \ {Owner[q]}
      BY <2>3 DEF RestartController
    <3>2. Leaving(p).state = "leaving" \/ Leaving(p).state = pod[p].state
      BY <2>0 DEF Leaving, PodState
    <3>3. QED
      BY <3>1, <3>2
  <2>4. ASSUME NEW o \in Object, NEW q \in Pod, EvictPod(o, q), NEW p \in Pod
        PROVE  \/ pod'[p].state = pod[p].state
               \/ pod'[p].state = "leaving" /\ ~Handled(Owner[p])
    <3>1. pod' = [pod EXCEPT ![q] = Leaving(q)] /\ ~Handled(Owner[q])
      BY <2>4 DEF EvictPod, EvictedAlone
    <3>2. Leaving(q).state = "leaving" \/ Leaving(q).state = pod[q].state
      BY <2>0 DEF Leaving, PodState
    <3>3. QED
      BY <3>1, <3>2 DEF TypeOK
  <2>5. QED
    BY <2>1, <2>2, <2>3, <2>4 DEF Handle, HandleChange, HandleFirst, HandleDelete, HandleMesh, Reload, FindPods,
       SetAside, FinishReload, FailReload
<1>6. QED
  BY <1>1, <1>3, <1>4, <1>5, CleanStays, UnmarkedStep

(* A cleanup leaves no consumer's controller claimed, and only a cleanup   *)
(* that was done sets the mark.                                            *)
LEMMA CleanCleanups ==
  ASSUME TypeOK, CleanInv, CleanControllers \/ MarkComplete \/ FailCleanup \/ Restart
  PROVE  CleanInv'
<1>0. /\ cleanups \in Seq(Cleanup) /\ \A i \in DOMAIN cleanups : cleanups[i].of \in Resource
      /\ \A p \in Pod : pod[p] \in PodState
  BY CleanupsOf DEF TypeOK
<1>1. claimed' \subseteq claimed /\ pod' = pod /\ trouble \subseteq trouble'
  BY DEF CleanControllers, MarkComplete, FailCleanup, Restart
<1>2. LeavingUnclaimed' /\ \A r \in Resource : Clean(r) => Clean(r)'
  BY <1>1, CleanStays
<1>3. cleanups # <<>> => /\ Head(cleanups) = cleanups[1] /\ 1 \in DOMAIN cleanups
                         /\ \A i \in DOMAIN Tail(cleanups) :
                              i + 1 \in DOMAIN cleanups /\ Tail(cleanups)[i] = cleanups[i + 1]
  BY <1>0
<1>4. cleanups # <<>> => LET marked == [cleanups EXCEPT ![1].at = "mark"]
                         IN  \A i \in DOMAIN marked : /\ i \in DOMAIN cleanups /\ marked[i].of = cleanups[i].of
                                                      /\ i # 1 => marked[i] = cleanups[i]
  <2>1. cleanups # <<>> => cleanups[1] \in Cleanup
    BY <1>0
  <2>2. QED
    BY <1>0, <2>1 DEF Cleanup
<1>5. CASE CleanControllers
  <2> PICK r \in Resource : r = cleanups[1].of
    BY <1>0, <1>3, <1>5 DEF CleanControllers
  <2>1. Clean(r)'
    <3>1. ASSUME NEW p \in Uses[r], Handled(Owner[p]) PROVE Owner[p] \notin claimed'
      <4>1. p \in Pod /\ Owner[p] # None
        BY <3>1, PodsAssumption DEF Object, Handled
      <4>2. CASE pod[p].state = "running"
        BY <1>3, <1>5, <3>1, <4>2 DEF CleanControllers
      <4>3. CASE pod[p].state # "running"
        BY <1>0, <1>1, <3>1, <4>1, <4>3 DEF PodState, CleanInv, LeavingUnclaimed
      <4>4. QED
        BY <4>2, <4>3
    <3>2. QED
      BY <3>1 DEF Clean
  <2>2. cleanups' = [cleanups EXCEPT ![1].at = "mark"] /\ cleanups # <<>> /\ object' = object
    BY <1>5 DEF CleanControllers
  <2>3. ASSUME "cleanup" \notin trouble', NEW i \in DOMAIN cleanups', cleanups'[i].at = "mark"
        PROVE  \E q \in Resource : q = cleanups'[i].of /\ Clean(q)'
    <3>1. i \in DOMAIN cleanups /\ cleanups'[i].of = cleanups[i].of /\ (i # 1 => cleanups'[i] = cleanups[i])
      BY <1>4, <2>2
    <3>2. CASE i = 1
      BY <2>1, <3>1, <3>2
    <3>3. CASE i # 1
      BY <1>0, <1>1, <1>2, <2>3, <3>1, <3>3 DEF CleanInv
    <3>4. QED
      BY <3>2, <3>3
  <2>4. ASSUME "cleanup" \notin trouble'
        PROVE  \A q \in Resource : object'[q].annotations.complete => Clean(q)'
    BY <1>1, <1>2, <2>2, <2>4 DEF CleanInv
  <2>5. QED
    BY <1>2, <2>3, <2>4 DEF CleanInv, Clean
<1>6. CASE MarkComplete
  <2> PICK r \in Resource : r = Head(cleanups).of /\ cleanups[1].of = r
    BY <1>0, <1>3, <1>6 DEF MarkComplete
  <2>1. cleanups' = Tail(cleanups) /\ cleanups # <<>> /\ cleanups[1].at = "mark"
    BY <1>3, <1>6 DEF MarkComplete
  <2>2. \A q \in Resource : q # r => object'[q] = object[q]
    BY <1>6 DEF MarkComplete, Publish, TypeOK, Object
  <2>3. "cleanup" \notin trouble => Clean(r)
    BY <1>3, <2>1 DEF CleanInv
  <2>4. ASSUME "cleanup" \notin trouble', NEW i \in DOMAIN cleanups', cleanups'[i].at = "mark"
        PROVE  \E q \in Resource : q = cleanups'[i].of /\ Clean(q)'
    <3>1. i + 1 \in DOMAIN cleanups /\ cleanups'[i] = cleanups[i + 1]
      BY <1>3, <2>1, <2>4
    <3>2. QED
      BY <1>0, <1>1, <1>2, <2>4, <3>1 DEF CleanInv
  <2>5. ASSUME "cleanup" \notin trouble'
        PROVE  \A q \in Resource : object'[q].annotations.complete => Clean(q)'
    BY <1>1, <1>2, <2>2, <2>3, <2>5 DEF CleanInv
  <2>6. QED
    BY <1>2, <2>4, <2>5 DEF CleanInv, Clean
<1>7. CASE FailCleanup
  <2>1. object' = object /\ cleanups # <<>>
    BY <1>7 DEF FailCleanup
  <2>2. CASE cleanups' = Tail(cleanups)
    <3>1. \A i \in DOMAIN cleanups' : cleanups'[i].at = "mark" =>
             \E j \in DOMAIN cleanups : /\ cleanups[j].at = "mark" /\ cleanups'[i].of = cleanups[j].of
                                        /\ cleanups[j].of \in Resource
      BY <1>0, <1>3, <2>1, <2>2
    <3>2. QED
      BY <1>1, <1>2, <2>1, <3>1, UnmarkedStep
  <2>3. CASE "cleanup" \in trouble'
    BY <1>2, <2>3 DEF CleanInv
  <2>4. QED
    BY <1>7, <2>2, <2>3 DEF FailCleanup
<1>8. CASE Restart
  <2>1. object' = object /\ cleanups' = <<>>
    BY <1>8 DEF Restart
  <2>2. DOMAIN cleanups' = {}
    BY <2>1
  <2>3. QED
    BY <1>1, <1>2, <2>1, <2>2, UnmarkedStep
<1>9. QED
  BY <1>5, <1>6, <1>7, <1>8

(* At the start nothing is marked and no pod is on its way out.            *)
LEMMA CleanInit == Init => CleanInv /\ EvictedAlone
<1> SUFFICES ASSUME Init PROVE CleanInv /\ EvictedAlone
  OBVIOUS
<1>1. \A p \in Pod : pod[p].state = "running"
  BY DEF Init
<1>2. cleanups = <<>> /\ DOMAIN cleanups = {}
  BY DEF Init
<1>3. \A r \in Resource : ~object[r].annotations.complete
  <2>1. object \in [Object -> [data : {InitialData},
                     annotations : {NoAnnotations, [NoAnnotations EXCEPT !.map = TRUE]}]]
    BY DEF Init
  <2>2. ~NoAnnotations.complete /\ ~[NoAnnotations EXCEPT !.map = TRUE].complete
    BY DEF NoAnnotations
  <2>3. QED
    BY <2>1, <2>2 DEF Object
<1>4. EvictedAlone
  BY DEF Init, Idle, EvictedAlone
<1>5. QED
  BY <1>1, <1>2, <1>3, <1>4 DEF CleanInv, LeavingUnclaimed

(* An object marked as cleaned up has no consumer with a controller whose  *)
(* fields the operator still owns, unless cleaning one failed.             *)
THEOREM MarkedAreClean == Spec => []MarkedIsClean
<1>1. TypeOK /\ EvictedAlone /\ CleanInv /\ [Next]_vars => CleanInv'
  <2> SUFFICES ASSUME TypeOK, EvictedAlone, CleanInv, [Next]_vars PROVE CleanInv'
    OBVIOUS
  <2>1. CASE Next
    BY <2>1, CleanCluster, CleanHandlers, CleanCleanups DEF Next
  <2>2. CASE UNCHANGED vars
    BY <2>2 DEF vars, CleanInv, LeavingUnclaimed, Clean
  <2>3. QED
    BY <2>1, <2>2
<1>2. TypeOK /\ EvictedAlone /\ [Next]_vars => EvictedAlone'
  BY EvictNext
<1>3. CleanInv => MarkedIsClean
  BY DEF CleanInv, Clean, MarkedIsClean
<1>4. QED
  BY <1>1, <1>2, <1>3, CleanInit, TypeCorrect, PTL DEF Spec

-----------------------------------------------------------------------------
(* What the handlers of an object have left to do.                         *)

(* The data the operator compares the next snapshot of o with, and the     *)
(* data before the i-th snapshot.                                          *)
Known(o) == IF o = Mesh /\ task[o].at # "idle" THEN task[o].data ELSE cache[o]
Before(o, i) == IF i = 1 THEN Known(o) ELSE queue[o][i - 1].data

(* Handling the i-th snapshot of o starts a reload.                        *)
Reloads(o, i) ==
  /\ i \in DOMAIN queue[o] /\ queue[o][i].data # Before(o, i)
  /\ o = Mesh \/ None \notin {queue[o][i].data, Before(o, i)}

(* The reload of o in progress may still tell x to restart.                *)
MayRestart(o, x) ==
  \/ task[o].at = "discover"
  \/ task[o].at = "reload" /\ x \in Controller \ task[o].handled
  \/ x \in task[o].pods \cup task[o].evict

(* All that may: a reload in progress, numbered 0, and those in the queue. *)
Due(x) == {w \in Object \X Nat : IF w[2] = 0 THEN MayRestart(w[1], x) ELSE Reloads(w[1], w[2])}

(* The snapshot that comes last is the object.                             *)
LastIsObject ==
  \A o \in Object :
    /\ queue[o] # <<>> => queue[o][Len(queue[o])].data = object[o].data
    /\ o # Mesh /\ queue[o] = <<>> => cache[o] = object[o].data

(* Nothing changes about the queue of an object.                           *)
LEMMA ReloadsSame ==
  ASSUME NEW o, NEW i, queue'[o] = queue[o], Known(o)' = Known(o)
  PROVE  Reloads(o, i)' <=> Reloads(o, i)
  BY DEF Reloads, Before

(* A handler that takes a snapshot knows its data from then on, and starts *)
(* a reload only for one that counts as a change.                          *)
LEMMA HandlingKnows ==
  ASSUME TypeOK, (\E r \in Resource : Handle(r)) \/ HandleMesh
  PROVE  \E o \in Object :
           /\ Dequeue(o) /\ Known(o)' = Head(queue[o]).data /\ object' = object
           /\ \A q \in Object : q # o => task'[q] = task[q] /\ cache'[q] = cache[q] /\ queue'[q] = queue[q]
           /\ \/ task' = task
              \/ /\ task'[o].at = "discover" /\ task'[o].data = Head(queue[o]).data
                 /\ task'[o].selector = Head(queue[o]).annotations.selector /\ Reloads(o, 1)
           /\ Reloads(o, 1) /\ Head(queue[o]).annotations.selector # Invalid => task'[o].at = "discover"
<1>0. /\ task \in [Object -> Task] /\ cache \in [Object -> Data \cup {None}] /\ queue \in [Object -> Seq(Snapshot)]
      /\ Idle.at = "idle" /\ Mesh \notin Resource /\ Resource \subseteq Object /\ Mesh \in Object
  BY DataAssumption DEF TypeOK, Idle, Object
<1>1. ASSUME NEW o \in Object, Dequeue(o)
      PROVE  /\ queue[o] # <<>> /\ Head(queue[o]) = queue[o][1] /\ 1 \in DOMAIN queue[o] /\ task[o] = Idle
             /\ Before(o, 1) = cache[o]
             /\ \A q \in Object : q # o => queue'[q] = queue[q]
             /\ Discover(o, Head(queue[o])) =>
                  /\ task'[o].at = "discover" /\ task'[o].data = Head(queue[o]).data
                  /\ task'[o].selector = Head(queue[o]).annotations.selector
                  /\ \A q \in Object : q # o => task'[q] = task[q]
  <2>1. queue[o] # <<>> /\ task[o] = Idle /\ queue' = [queue EXCEPT ![o] = Tail(@)]
    BY <1>1 DEF Dequeue
  <2>2. Head(queue[o]) = queue[o][1] /\ 1 \in DOMAIN queue[o]
    BY <1>0, <2>1
  <2>3. Before(o, 1) = cache[o]
    BY <1>0, <2>1 DEF Before, Known
  <2>4. ASSUME Discover(o, Head(queue[o]))
        PROVE  /\ task'[o].at = "discover" /\ task'[o].data = Head(queue[o]).data
               /\ task'[o].selector = Head(queue[o]).annotations.selector
               /\ \A q \in Object : q # o => task'[q] = task[q]
    BY <1>0, <2>4 DEF Discover, Idle
  <2>5. QED
    BY <1>0, <2>1, <2>2, <2>3, <2>4
<1>2. ASSUME NEW r \in Resource, HandleChange(r)
      PROVE  \E o \in Object :
           /\ Dequeue(o) /\ Known(o)' = Head(queue[o]).data /\ object' = object
           /\ \A q \in Object : q # o => task'[q] = task[q] /\ cache'[q] = cache[q] /\ queue'[q] = queue[q]
           /\ \/ task' = task
              \/ /\ task'[o].at = "discover" /\ task'[o].data = Head(queue[o]).data
                 /\ task'[o].selector = Head(queue[o]).annotations.selector /\ Reloads(o, 1)
           /\ Reloads(o, 1) /\ Head(queue[o]).annotations.selector # Invalid => task'[o].at = "discover"
  <2>1. /\ Dequeue(r) /\ r \in Object /\ r # Mesh /\ cache' = [cache EXCEPT ![r] = Head(queue[r]).data]
        /\ object' = object /\ cache[r] # None /\ Head(queue[r]).data # None
        /\ IF Head(queue[r]).data # cache[r] /\ Head(queue[r]).annotations.selector # Invalid
           THEN Discover(r, Head(queue[r])) ELSE task' = task
    BY <1>0, <1>2 DEF HandleChange
  <2>2. Reloads(r, 1) <=> Head(queue[r]).data # cache[r]
    BY <1>1, <2>1 DEF Reloads
  <2>3. Known(r)' = Head(queue[r]).data
    BY <1>0, <2>1 DEF Known
  <2>4. \A q \in Object : q # r => task'[q] = task[q] /\ cache'[q] = cache[q] /\ queue'[q] = queue[q]
    BY <1>0, <1>1, <2>1
  <2>5. QED
    BY <1>1, <2>1, <2>2, <2>3, <2>4
<1>3. ASSUME NEW r \in Resource, HandleFirst(r) \/ HandleDelete(r)
      PROVE  \E o \in Object :
           /\ Dequeue(o) /\ Known(o)' = Head(queue[o]).data /\ object' = object /\ task' = task
           /\ \A q \in Object : q # o => task'[q] = task[q] /\ cache'[q] = cache[q] /\ queue'[q] = queue[q]
           /\ ~Reloads(o, 1)
  <2>1. /\ Dequeue(r) /\ r \in Object /\ r # Mesh /\ cache' = [cache EXCEPT ![r] = Head(queue[r]).data]
        /\ object' = object /\ task' = task /\ None \in {cache[r], Head(queue[r]).data}
    BY <1>0, <1>3 DEF HandleFirst, HandleDelete
  <2>2. ~Reloads(r, 1)
    BY <1>1, <2>1 DEF Reloads
  <2>3. Known(r)' = Head(queue[r]).data
    BY <1>0, <2>1 DEF Known
  <2>4. \A q \in Object : q # r => task'[q] = task[q] /\ cache'[q] = cache[q] /\ queue'[q] = queue[q]
    BY <1>0, <1>1, <2>1
  <2>5. QED
    BY <2>1, <2>2, <2>3, <2>4
<1>4. CASE HandleMesh
  <2>1. /\ Dequeue(Mesh) /\ object' = object /\ cache' = cache
        /\ IF Head(queue[Mesh]).data # cache[Mesh] THEN Discover(Mesh, Head(queue[Mesh])) ELSE task' = task
    BY <1>4 DEF HandleMesh
  <2>2. Reloads(Mesh, 1) <=> Head(queue[Mesh]).data # cache[Mesh]
    BY <1>0, <1>1, <2>1 DEF Reloads
  <2>3. Known(Mesh)' = Head(queue[Mesh]).data
    BY <1>0, <1>1, <2>1 DEF Known
  <2>4. \A q \in Object : q # Mesh => task'[q] = task[q] /\ cache'[q] = cache[q] /\ queue'[q] = queue[q]
    BY <1>0, <1>1, <2>1
  <2>5. QED
    BY <1>0, <1>1, <2>1, <2>2, <2>3, <2>4
<1>5. QED
  BY <1>2, <1>3, <1>4 DEF Handle

(* What is in a queue moves up by one.                                     *)
LEMMA QueueMovesUp ==
  ASSUME TypeOK, NEW o \in Object, Dequeue(o), Known(o)' = Head(queue[o]).data, NEW i \in Nat \ {0}
  PROVE  Reloads(o, i)' <=> Reloads(o, i + 1)
<1>1. queue[o] \in Seq(Snapshot) /\ queue[o] # <<>> /\ queue'[o] = Tail(queue[o])
  BY DEF TypeOK, Dequeue
<1>2. /\ i \in DOMAIN queue'[o] <=> i + 1 \in DOMAIN queue[o]
      /\ i \in DOMAIN queue'[o] => queue'[o][i] = queue[o][i + 1]
      /\ i \in DOMAIN queue'[o] /\ i # 1 => queue'[o][i - 1] = queue[o][i]
      /\ Head(queue[o]) = queue[o][1]
  BY <1>1
<1>3. i \in DOMAIN queue'[o] => Before(o, i)' = Before(o, i + 1)
  BY <1>2 DEF Before
<1>4. QED
  BY <1>2, <1>3 DEF Reloads

(* A version of an object that is published brings a change exactly when   *)
(* its data differs; nothing else about the queue changes.                 *)
LEMMA PublishReloads ==
  ASSUME TypeOK, NEW o \in Object, NEW new, Publish(o, new), UNCHANGED <<task, cache>>,
         NEW q \in Object, NEW i \in Nat \ {0}
  PROVE  Reloads(q, i)' <=> \/ Reloads(q, i)
                            \/ /\ q = o /\ i = Len(queue[o]) + 1 /\ new.data # Before(o, i)
                               /\ o = Mesh \/ None \notin {new.data, Before(o, i)}
<1>1. queue[o] \in Seq(Snapshot) /\ queue'[o] = Append(queue[o], new) /\ Known(q)' = Known(q)
  BY DEF TypeOK, Publish, Known
<1>2. CASE q # o
  <2>1. queue'[q] = queue[q]
    BY <1>2 DEF TypeOK, Publish
  <2>2. QED
    BY <1>1, <1>2, <2>1, ReloadsSame
<1>3. CASE q = o
  <2>1. /\ DOMAIN queue'[o] = 1..Len(queue[o]) + 1 /\ DOMAIN queue[o] = 1..Len(queue[o]) /\ Len(queue[o]) \in Nat
        /\ queue'[o][Len(queue[o]) + 1] = new /\ \A j \in DOMAIN queue[o] : queue'[o][j] = queue[o][j]
    BY <1>1
  <2>2. i \in DOMAIN queue'[o] => Before(o, i)' = Before(o, i)
    BY <1>1, <1>3, <2>1 DEF Before
  <2>3. QED
    BY <1>3, <2>1, <2>2 DEF Reloads
<1>4. QED
  BY <1>2, <1>3

(* The reloads that are due, counted: each step but a new change, or a     *)
(* start of the operator, leaves as many or takes one away.                *)
RestartsInv ==
  \A x \in Controller \cup Pod :
    IsFiniteSet(Due(x)) /\ restarts[x] + Cardinality(Due(x)) <= changes + starts

(* Part of a finite set, and an image of one part for part, is no larger.  *)
LEMMA Fewer ==
  ASSUME NEW S, IsFiniteSet(S), NEW T, T \subseteq S
  PROVE  IsFiniteSet(T) /\ Cardinality(S) \in Nat /\ Cardinality(T) \in Nat /\ Cardinality(T) <= Cardinality(S)
<1>1. IsFiniteSet(T) /\ Cardinality(T) <= Cardinality(S)
  BY FS_Subset
<1>2. QED
  BY <1>1, FS_CardinalityType

LEMMA MovedUp ==
  ASSUME NEW S, IsFiniteSet(S), NEW T, T \subseteq Object \X Nat, NEW o \in Object,
         \A w \in T : (IF w[1] = o THEN <<o, w[2] + 1>> ELSE w) \in S
  PROVE  IsFiniteSet(T) /\ Cardinality(S) \in Nat /\ Cardinality(T) \in Nat /\ Cardinality(T) <= Cardinality(S)
<1> DEFINE f == [w \in T |-> IF w[1] = o THEN <<o, w[2] + 1>> ELSE w]
<1>1. f \in [T -> S]
  OBVIOUS
<1>2. ASSUME NEW v \in T, NEW w \in T, f[v] = f[w] PROVE v = w
  <2>1. v = <<v[1], v[2]>> /\ w = <<w[1], w[2]>> /\ v[2] \in Nat /\ w[2] \in Nat
    OBVIOUS
  <2>2. v[1] = o <=> w[1] = o
    BY <1>2, <2>1
  <2>3. CASE v[1] = o
    <3>1. <<o, v[2] + 1>> = <<o, w[2] + 1>>
      BY <1>2, <2>2, <2>3
    <3>2. v[2] = w[2]
      BY <2>1, <3>1
    <3>3. QED
      BY <2>1, <2>2, <2>3, <3>2
  <2>4. CASE v[1] # o
    BY <1>2, <2>2, <2>4
  <2>5. QED
    BY <2>3, <2>4
<1> HIDE DEF f
<1>3. f \in Injection(T, S)
  BY <1>1, <1>2 DEF Injection, IsInjective
<1>4. IsFiniteSet(T) /\ Cardinality(T) <= Cardinality(S)
  BY <1>3, FS_Injection
<1>5. QED
  BY <1>4, FS_CardinalityType

(* Steps that leave the queues, and make no handler restart more.          *)
LEMMA DueShrinks ==
  ASSUME NEW x, \A o \in Object : queue'[o] = queue[o] /\ Known(o)' = Known(o),
         \A o \in Object : MayRestart(o, x)' => MayRestart(o, x)
  PROVE  Due(x)' \subseteq Due(x)
<1>1. SUFFICES ASSUME NEW w \in Object \X Nat, IF w[2] = 0 THEN MayRestart(w[1], x)' ELSE Reloads(w[1], w[2])'
               PROVE  IF w[2] = 0 THEN MayRestart(w[1], x) ELSE Reloads(w[1], w[2])
  BY DEF Due
<1>2. w[1] \in Object
  OBVIOUS
<1>3. Reloads(w[1], w[2])' <=> Reloads(w[1], w[2])
  BY <1>2, ReloadsSame
<1>4. QED
  BY <1>1, <1>2, <1>3

(* Such a step does not disturb the bound.                                 *)
LEMMA BoundKept ==
  ASSUME TypeOK, RestartsInv, NEW x \in Controller \cup Pod, Due(x)' \subseteq Due(x),
         restarts'[x] = restarts[x], changes' \in {changes, changes + 1}, starts' = starts
  PROVE  IsFiniteSet(Due(x)') /\ restarts'[x] + Cardinality(Due(x)') <= changes' + starts'
<1> DEFINE S == Due(x)
           T == Due(x)'
<1>1. IsFiniteSet(S) /\ restarts[x] + Cardinality(S) <= changes + starts /\ restarts[x] \in Nat
      /\ changes \in Nat /\ starts \in Nat
  BY BoundsAssumption DEF RestartsInv, TypeOK
<1>2. T \subseteq S
  OBVIOUS
<1> HIDE DEF S, T
<1>3. IsFiniteSet(T) /\ Cardinality(S) \in Nat /\ Cardinality(T) \in Nat /\ Cardinality(T) <= Cardinality(S)
  BY <1>1, <1>2, Fewer
<1>4. restarts'[x] + Cardinality(T) <= changes' + starts'
  BY <1>1, <1>3
<1>5. QED
  BY <1>3, <1>4 DEF T

(* A version of a resource with the same data makes nothing due.           *)
LEMMA SameDataPublished ==
  ASSUME TypeOK, LastIsObject, NEW r \in Resource, NEW new, Publish(r, new),
         new.data = object[r].data, UNCHANGED <<task, cache>>, NEW x
  PROVE  Due(x)' \subseteq Due(x)
<1>0. r \in Object /\ r # Mesh /\ queue[r] \in Seq(Snapshot)
  BY DataAssumption DEF Object, TypeOK
<1>1. Before(r, Len(queue[r]) + 1) = object[r].data
  <2>1. CASE queue[r] = <<>>
    <3>1. Len(queue[r]) + 1 = 1
      BY <2>1
    <3>2. Before(r, 1) = cache[r] /\ cache[r] = object[r].data
      BY <1>0, <2>1 DEF Before, Known, LastIsObject
    <3>3. QED
      BY <3>1, <3>2
  <2>2. CASE queue[r] # <<>>
    <3>1. Len(queue[r]) + 1 # 1 /\ Len(queue[r]) + 1 - 1 = Len(queue[r])
      BY <1>0, <2>2
    <3>2. QED
      BY <1>0, <2>2, <3>1 DEF Before, LastIsObject
  <2>3. QED
    BY <2>1, <2>2
<1>2. \A q \in Object, i \in Nat \ {0} : Reloads(q, i)' => Reloads(q, i)
  BY <1>0, <1>1, PublishReloads
<1>3. \A q \in Object : MayRestart(q, x)' <=> MayRestart(q, x)
  BY DEF MayRestart
<1>4. QED
  <2>1. SUFFICES ASSUME NEW w \in Object \X Nat,
                        IF w[2] = 0 THEN MayRestart(w[1], x)' ELSE Reloads(w[1], w[2])'
                 PROVE  IF w[2] = 0 THEN MayRestart(w[1], x) ELSE Reloads(w[1], w[2])
    BY DEF Due
  <2>2. w[1] \in Object /\ w[2] \in Nat
    OBVIOUS
  <2>3. QED
    BY <1>2, <1>3, <2>1, <2>2

(* A change makes at most one reload due.                                  *)
LEMMA ChangeMakesOneDue ==
  ASSUME TypeOK, NEW o \in Object, NEW d \in Data \cup {None}, ChangeData(o, d), NEW x
  PROVE  \E w : Due(x)' \subseteq Due(x) \cup {w}
<1> DEFINE new == [data |-> d, annotations |-> IF d = None THEN NoAnnotations ELSE object[o].annotations]
<1>1. Publish(o, new) /\ UNCHANGED <<task, cache>>
  BY DEF ChangeData
<1> HIDE DEF new
<1>2. \A q \in Object, i \in Nat \ {0} : Reloads(q, i)' => Reloads(q, i) \/ (q = o /\ i = Len(queue[o]) + 1)
  BY <1>1, PublishReloads
<1>3. \A q \in Object : MayRestart(q, x)' <=> MayRestart(q, x)
  BY <1>1 DEF MayRestart
<1>4. Due(x)' \subseteq Due(x) \cup {<<o, Len(queue[o]) + 1>>}
  <2>1. SUFFICES ASSUME NEW w \in Object \X Nat,
                        IF w[2] = 0 THEN MayRestart(w[1], x)' ELSE Reloads(w[1], w[2])'
                 PROVE  (IF w[2] = 0 THEN MayRestart(w[1], x) ELSE Reloads(w[1], w[2]))
                        \/ w = <<o, Len(queue[o]) + 1>>
    BY DEF Due
  <2>2. w[1] \in Object /\ w[2] \in Nat /\ w = <<w[1], w[2]>>
    OBVIOUS
  <2>3. QED
    BY <1>2, <1>3, <2>1, <2>2
<1>5. QED
  BY <1>4

(* The cluster.                                                            *)
LEMMA RestartsCluster ==
  ASSUME TypeOK, LastIsObject, RestartsInv,
         \/ \E o \in Object, d \in Data \cup {None} : ChangeData(o, d)
         \/ \E r \in Resource, s \in Selectors : Annotate(r, s)
         \/ MarkComplete
         \/ \E p \in Pod : Replace(p)
  PROVE  RestartsInv'
<1> SUFFICES ASSUME NEW x \in Controller \cup Pod
             PROVE  IsFiniteSet(Due(x)') /\ restarts'[x] + Cardinality(Due(x)') <= changes' + starts'
  BY DEF RestartsInv
<1>1. ASSUME NEW o \in Object, NEW d \in Data \cup {None}, ChangeData(o, d)
      PROVE  IsFiniteSet(Due(x)') /\ restarts'[x] + Cardinality(Due(x)') <= changes' + starts'
  <2>1. PICK w : Due(x)' \subseteq Due(x) \cup {w}
    BY <1>1, ChangeMakesOneDue
  <2>2. changes' = changes + 1 /\ restarts' = restarts /\ starts' = starts
    BY <1>1 DEF ChangeData
  <2> DEFINE S == Due(x)
             T == Due(x)'
  <2>3. IsFiniteSet(S) /\ restarts[x] + Cardinality(S) <= changes + starts /\ restarts[x] \in Nat
        /\ changes \in Nat /\ starts \in Nat
    BY BoundsAssumption DEF RestartsInv, TypeOK
  <2>4. T \subseteq S \cup {w}
    BY <2>1
  <2> HIDE DEF S, T
  <2>5. IsFiniteSet(S \cup {w}) /\ Cardinality(S \cup {w}) \in {Cardinality(S), Cardinality(S) + 1}
    BY <2>3, FS_AddElement
  <2>6. IsFiniteSet(T) /\ Cardinality(T) \in Nat /\ Cardinality(T) <= Cardinality(S \cup {w})
    BY <2>4, <2>5, Fewer
  <2>7. Cardinality(S) \in Nat
    BY <2>3, FS_CardinalityType
  <2>8. restarts'[x] + Cardinality(T) <= changes' + starts'
    BY <2>2, <2>3, <2>5, <2>6, <2>7
  <2>9. QED
    BY <2>6, <2>8 DEF T
<1>2. ASSUME NEW r \in Resource, NEW s \in Selectors, Annotate(r, s)
      PROVE  IsFiniteSet(Due(x)') /\ restarts'[x] + Cardinality(Due(x)') <= changes' + starts'
  <2> DEFINE new == [object[r] EXCEPT !.annotations.map = TRUE, !.annotations.selector = s]
  <2>1. /\ Publish(r, new) /\ UNCHANGED <<task, cache>>
        /\ changes' = changes + 1 /\ restarts' = restarts /\ starts' = starts
    BY <1>2 DEF Annotate, history
  <2>2. new.data = object[r].data
    BY DEF TypeOK, Snapshot, Object
  <2> HIDE DEF new
  <2>3. Due(x)' \subseteq Due(x)
    BY <2>1, <2>2, SameDataPublished
  <2>4. QED
    BY <2>1, <2>3, BoundKept
<1>3. CASE MarkComplete
  <2>1. /\ UNCHANGED <<task, cache>> /\ changes' = changes /\ restarts' = restarts /\ starts' = starts
        /\ cleanups # <<>>
    BY <1>3 DEF MarkComplete, history
  <2>2. CASE UNCHANGED <<object, queue>>
    <3>1. \A o \in Object : queue'[o] = queue[o] /\ Known(o)' = Known(o)
      BY <2>1, <2>2 DEF Known
    <3>2. \A o \in Object : MayRestart(o, x)' => MayRestart(o, x)
      BY <2>1 DEF MayRestart
    <3>3. Due(x)' \subseteq Due(x)
      BY <3>1, <3>2, DueShrinks
    <3>4. QED
      BY <2>1, <3>3, BoundKept
  <2>3. CASE ~UNCHANGED <<object, queue>>
    <3> DEFINE r == Head(cleanups).of
               now == object[r].annotations
               old == Head(cleanups).annotations
               new == [object[r] EXCEPT !.annotations =
                         [map |-> TRUE, complete |-> TRUE, selector |-> IF old.map THEN now.selector ELSE None]]
    <3>1. Publish(r, new)
      BY <1>3, <2>3 DEF MarkComplete
    <3>2. r \in Resource
      BY <2>1, CleanupsTyped DEF Cleanup
    <3>3. new.data = object[r].data
      BY <3>2 DEF TypeOK, Snapshot, Object
    <3> HIDE DEF new, r
    <3>4. Due(x)' \subseteq Due(x)
      BY <2>1, <3>1, <3>2, <3>3, SameDataPublished
    <3>5. QED
      BY <2>1, <3>4, BoundKept
  <2>4. QED
    BY <2>2, <2>3
<1>4. ASSUME NEW p \in Pod, Replace(p)
      PROVE  IsFiniteSet(Due(x)') /\ restarts'[x] + Cardinality(Due(x)') <= changes' + starts'
  <2>1. UNCHANGED <<queue, cache, task, restarts, changes, starts>>
    BY <1>4 DEF Replace, memory, history
  <2>2. \A o \in Object : queue'[o] = queue[o] /\ Known(o)' = Known(o)
    BY <2>1 DEF Known
  <2>3. \A o \in Object : MayRestart(o, x)' => MayRestart(o, x)
    BY <2>1 DEF MayRestart
  <2>4. Due(x)' \subseteq Due(x)
    BY <2>2, <2>3, DueShrinks
  <2>5. QED
    BY <2>1, <2>4, BoundKept
<1>5. QED
  BY <1>1, <1>2, <1>3, <1>4

(* The handlers: what was in the queue is in progress.                     *)
LEMMA RestartsHandling ==
  ASSUME TypeOK, RestartsInv, (\E r \in Resource : Handle(r)) \/ HandleMesh
  PROVE  RestartsInv'
<1>1. PICK o \in Object :
        /\ Dequeue(o) /\ Known(o)' = Head(queue[o]).data
        /\ \A q \in Object : q # o => task'[q] = task[q] /\ cache'[q] = cache[q] /\ queue'[q] = queue[q]
        /\ task' = task \/ Reloads(o, 1)
  BY HandlingKnows
<1>2. UNCHANGED <<restarts, changes, starts>>
  BY DEF Handle, HandleChange, HandleFirst, HandleDelete, HandleMesh, history
<1> SUFFICES ASSUME NEW x \in Controller \cup Pod
             PROVE  IsFiniteSet(Due(x)') /\ restarts'[x] + Cardinality(Due(x)') <= changes' + starts'
  BY DEF RestartsInv
<1> DEFINE S == Due(x)
           T == Due(x)'
<1>3. IsFiniteSet(S) /\ restarts[x] + Cardinality(S) <= changes + starts /\ restarts[x] \in Nat
      /\ changes \in Nat /\ starts \in Nat
  BY BoundsAssumption DEF RestartsInv, TypeOK
<1>4. ASSUME NEW w \in T PROVE (IF w[1] = o THEN <<o, w[2] + 1>> ELSE w) \in S
  <2>1. /\ w \in Object \X Nat /\ w[1] \in Object /\ w[2] \in Nat
        /\ IF w[2] = 0 THEN MayRestart(w[1], x)' ELSE Reloads(w[1], w[2])'
    BY DEF Due
  <2>2. CASE w[1] = o /\ w[2] = 0
    <3>1. task[o] = Idle
      BY <1>1 DEF Dequeue
    <3>2. ~MayRestart(o, x)
      BY <3>1 DEF MayRestart, Idle
    <3>3. MayRestart(o, x)'
      BY <2>1, <2>2
    <3>4. task' # task
      BY <3>2, <3>3 DEF MayRestart
    <3>5. Reloads(o, 1)
      BY <1>1, <3>4
    <3>6. <<o, 1>> \in S
      BY <3>5 DEF Due
    <3>7. QED
      BY <2>2, <3>6
  <2>3. CASE w[1] = o /\ w[2] # 0
    <3>1. Reloads(o, w[2])'
      BY <2>1, <2>3
    <3>2. w[2] \in Nat \ {0}
      BY <2>1, <2>3
    <3>3. Reloads(o, w[2] + 1)
      BY <1>1, <3>1, <3>2, QueueMovesUp
    <3>4. <<o, w[2] + 1>> \in S
      BY <2>1, <3>3 DEF Due
    <3>5. QED
      BY <2>3, <3>4
  <2>4. CASE w[1] # o
    <3>1. task'[w[1]] = task[w[1]] /\ cache'[w[1]] = cache[w[1]] /\ queue'[w[1]] = queue[w[1]]
      BY <1>1, <2>1, <2>4
    <3>2. MayRestart(w[1], x)' <=> MayRestart(w[1], x)
      BY <3>1 DEF MayRestart
    <3>3. Known(w[1])' = Known(w[1])
      BY <3>1 DEF Known
    <3>4. Reloads(w[1], w[2])' <=> Reloads(w[1], w[2])
      BY <3>1, <3>3 DEF Reloads, Before
    <3>5. QED
      BY <2>1, <2>4, <3>2, <3>4 DEF Due
  <2>5. QED
    BY <2>2, <2>3, <2>4
<1>5. T \subseteq Object \X Nat
  BY DEF Due
<1> HIDE DEF S, T
<1>6. IsFiniteSet(T) /\ Cardinality(S) \in Nat /\ Cardinality(T) \in Nat /\ Cardinality(T) <= Cardinality(S)
  BY <1>3, <1>4, <1>5, MovedUp
<1>7. restarts'[x] + Cardinality(T) <= changes' + starts'
  BY <1>2, <1>3, <1>6
<1>8. QED
  BY <1>6, <1>7 DEF T

(* Telling a controller or a pod to restart uses up what was due.          *)
LEMMA RestartUsesOne ==
  ASSUME TypeOK, RestartsInv, NEW x \in Controller \cup Pod, NEW w \in Due(x),
         Due(x)' \subseteq Due(x) \ {w}, restarts'[x] = restarts[x] + 1, changes' = changes, starts' = starts
  PROVE  IsFiniteSet(Due(x)') /\ restarts'[x] + Cardinality(Due(x)') <= changes' + starts'
<1> DEFINE S == Due(x)
           T == Due(x)'
<1>1. IsFiniteSet(S) /\ restarts[x] + Cardinality(S) <= changes + starts /\ restarts[x] \in Nat
      /\ changes \in Nat /\ starts \in Nat
  BY BoundsAssumption DEF RestartsInv, TypeOK
<1>2. T \subseteq S \ {w} /\ w \in S
  OBVIOUS
<1> HIDE DEF S, T
<1>3. IsFiniteSet(S \ {w}) /\ Cardinality(S \ {w}) = Cardinality(S) - 1
  BY <1>1, <1>2, FS_RemoveElement
<1>4. IsFiniteSet(T) /\ Cardinality(T) \in Nat /\ Cardinality(T) <= Cardinality(S \ {w})
  BY <1>2, <1>3, Fewer
<1>5. Cardinality(S) \in Nat
  BY <1>1, FS_CardinalityType
<1>6. Cardinality(T) <= Cardinality(S) - 1
  BY <1>3, <1>4
<1> HIDE DEF RestartsInv
<1>7. restarts'[x] + Cardinality(T) <= changes' + starts'
  <2> DEFINE s == Cardinality(S)
             t == Cardinality(T)
  <2>1. s \in Nat /\ t \in Nat /\ t <= s - 1 /\ restarts[x] + s <= changes + starts
    BY <1>1, <1>4, <1>5, <1>6
  <2> HIDE DEF s, t
  <2>2. restarts'[x] + t <= changes' + starts'
    BY <1>1, <2>1
  <2>3. QED
    BY <2>2 DEF t
<1>8. QED
  BY <1>4, <1>7 DEF T

(* A step of a reload leaves the queues and what is known of the objects,  *)
(* and the reloads of the other objects.                                   *)
LEMMA ReloadKnows ==
  ASSUME TypeOK, NEW o \in Object, Reload(o)
  PROVE  /\ \A q \in Object : queue'[q] = queue[q] /\ Known(q)' = Known(q)
         /\ \A q \in Object : q # o => task'[q] = task[q]
         /\ UNCHANGED <<object, chosen, changes, starts, trouble>>
<1>1. /\ queue' = queue /\ \A q \in Object : q # o => task'[q] = task[q] /\ cache'[q] = cache[q]
      /\ UNCHANGED <<object, chosen, changes, starts, trouble>>
  <2>1. UNCHANGED <<object, queue, chosen, changes, starts, trouble>>
    BY ReloadFrame
  <2>2. task \in [Object -> Task] /\ cache \in [Object -> Data \cup {None}]
    BY DEF TypeOK
  <2>3. \A q \in Object : q # o => cache'[q] = cache[q]
    BY <2>2, ReloadFrame
  <2>4. \A q \in Object : q # o => task'[q] = task[q]
    <3>1. CASE FindPods(o) \/ FinishReload(o)
      BY <2>2, <3>1 DEF FindPods, FinishReload
    <3>2. ASSUME NEW p \in Pod, SetAside(o, p) \/ EvictPod(o, p)
          PROVE  \A q \in Object : q # o => task'[q] = task[q]
      BY <2>2, <3>2 DEF SetAside, EvictPod
    <3>3. ASSUME NEW p \in Pod, RestartController(o, p)
          PROVE  \A q \in Object : q # o => task'[q] = task[q]
      BY <2>2, <3>3 DEF RestartController
    <3>4. QED
      BY <3>1, <3>2, <3>3 DEF Reload
  <2>5. QED
    BY <2>1, <2>3, <2>4
<1>2. Known(o)' = Known(o)
  <2>1. CASE FinishReload(o)
    <3>1. task[o].at = "reload" /\ task'[o].at = "idle"
      BY <2>1 DEF FinishReload, TypeOK, Idle
    <3>2. cache'[o] = IF o = Mesh THEN task[o].data ELSE cache[o]
      BY <2>1 DEF FinishReload, TypeOK
    <3>3. QED
      BY <3>1, <3>2 DEF Known
  <2>2. CASE ~FinishReload(o)
    <3>1. cache' = cache
      BY <2>2 DEF Reload, FindPods, SetAside, RestartController, EvictPod
    <3>2. task[o].at \in {"discover", "reload"}
      BY <2>2 DEF Reload, FindPods, SetAside, RestartController, EvictPod, TypeOK
    <3>3. task'[o].data = task[o].data /\ task'[o].at \in {"discover", "reload"}
      <4>0. task[o] \in Task /\ task \in [Object -> Task]
        BY DEF TypeOK
      <4>1. CASE FindPods(o)
        BY <4>0, <4>1 DEF FindPods, Task
      <4>2. ASSUME NEW p \in Pod, SetAside(o, p) \/ EvictPod(o, p)
            PROVE  task'[o].data = task[o].data /\ task'[o].at = task[o].at
        BY <4>0, <4>2 DEF SetAside, EvictPod, Task
      <4>3. ASSUME NEW p \in Pod, RestartController(o, p)
            PROVE  task'[o].data = task[o].data /\ task'[o].at = task[o].at
        <5>1. CASE Owner[p] \in task[o].handled
          BY <4>0, <4>3, <5>1 DEF RestartController, Task
        <5>2. CASE Owner[p] \notin task[o].handled
          BY <4>0, <4>3, <5>2 DEF RestartController, Task
        <5>3. QED
          BY <5>1, <5>2
      <4>4. QED
        BY <2>2, <3>2, <4>1, <4>2, <4>3 DEF Reload
    <3>4. QED
      BY <3>1, <3>2, <3>3 DEF Known
  <2>3. QED
    BY <2>1, <2>2
<1>3. QED
  BY <1>1, <1>2 DEF Known

(* The steps of a reload.                                                  *)
LEMMA RestartsReload ==
  ASSUME TypeOK, RestartsInv, NEW o \in Object, Reload(o)
  PROVE  RestartsInv'
<1>0. /\ task[o] \in Task /\ task \in [Object -> Task] /\ Controller \cap Pod = {}
      /\ task[o].pods \cup task[o].evict # {} => task[o].at = "reload"
  BY PodsAssumption DEF TypeOK
<1>1. /\ \A q \in Object : queue'[q] = queue[q] /\ Known(q)' = Known(q)
      /\ \A q \in Object : q # o => task'[q] = task[q]
      /\ changes' = changes /\ starts' = starts
  BY ReloadKnows
<1> SUFFICES ASSUME NEW x \in Controller \cup Pod
             PROVE  IsFiniteSet(Due(x)') /\ restarts'[x] + Cardinality(Due(x)') <= changes' + starts'
  BY DEF RestartsInv
<1>2. \A q \in Object : q # o => (MayRestart(q, x)' <=> MayRestart(q, x))
  BY <1>1 DEF MayRestart
<1>3. ASSUME MayRestart(o, x)' => MayRestart(o, x), restarts'[x] = restarts[x]
      PROVE  IsFiniteSet(Due(x)') /\ restarts'[x] + Cardinality(Due(x)') <= changes' + starts'
  <2>1. Due(x)' \subseteq Due(x)
    BY <1>1, <1>2, <1>3, DueShrinks
  <2>2. QED
    BY <1>1, <1>3, <2>1, BoundKept
<1>4. ASSUME MayRestart(o, x), ~MayRestart(o, x)', restarts'[x] = restarts[x] + 1
      PROVE  IsFiniteSet(Due(x)') /\ restarts'[x] + Cardinality(Due(x)') <= changes' + starts'
  <2>1. Due(x)' \subseteq Due(x)
    BY <1>1, <1>2, <1>4, DueShrinks
  <2>2. <<o, 0>> \in Due(x) /\ <<o, 0>> \notin Due(x)'
    BY <1>4 DEF Due
  <2>3. Due(x)' \subseteq Due(x) \ {<<o, 0>>}
    BY <2>1, <2>2
  <2>4. QED
    BY <1>1, <1>4, <2>2, <2>3, RestartUsesOne
<1>5. CASE FindPods(o)
  <2>1. MayRestart(o, x) /\ restarts' = restarts
    BY <1>5 DEF FindPods, MayRestart, history
  <2>2. QED
    BY <1>3, <2>1
<1>6. ASSUME NEW p \in Pod, SetAside(o, p)
      PROVE  IsFiniteSet(Due(x)') /\ restarts'[x] + Cardinality(Due(x)') <= changes' + starts'
  <2>1. /\ restarts' = restarts /\ p \in task[o].pods /\ task'[o].at = task[o].at /\ task'[o].handled = task[o].handled
        /\ task'[o].pods = task[o].pods \ {p} /\ task'[o].evict = task[o].evict \cup {p}
    BY <1>0, <1>6 DEF SetAside, history, Task
  <2>2. MayRestart(o, x)' => MayRestart(o, x)
    BY <2>1 DEF MayRestart
  <2>3. QED
    BY <1>3, <2>1, <2>2
<1>7. ASSUME NEW p \in Pod, RestartController(o, p)
      PROVE  IsFiniteSet(Due(x)') /\ restarts'[x] + Cardinality(Due(x)') <= changes' + starts'
  <2>1. Owner[p] \in Controller /\ p \in task[o].pods /\ task[o].at = "reload"
    BY <1>0, <1>7, HandledOwner DEF RestartController
  <2>2. CASE Owner[p] \in task[o].handled
    <3>1. /\ restarts' = restarts /\ task'[o].at = task[o].at /\ task'[o].handled = task[o].handled
          /\ task'[o].pods = task[o].pods \ {p} /\ task'[o].evict = task[o].evict
      BY <1>0, <1>7, <2>2 DEF RestartController, Task
    <3>2. MayRestart(o, x)' => MayRestart(o, x)
      BY <3>1 DEF MayRestart
    <3>3. QED
      BY <1>3, <3>1, <3>2
  <2>3. CASE Owner[p] \notin task[o].handled
    <3>1. /\ restarts' = [restarts EXCEPT ![Owner[p]] = @ + 1] /\ task'[o].at = task[o].at
          /\ task'[o].handled = task[o].handled \cup {Owner[p]}
          /\ task'[o].pods = task[o].pods \ {p} /\ task'[o].evict = task[o].evict
      BY <1>0, <1>7, <2>3 DEF RestartController, Task
    <3>2. CASE x = Owner[p]
      <4>1. MayRestart(o, x)
        BY <2>1, <2>3, <3>2 DEF MayRestart
      <4>2. x \notin task[o].pods /\ x \notin task[o].evict
        BY <1>0, <2>1, <3>2 DEF Task
      <4>3. ~MayRestart(o, x)'
        BY <2>1, <3>1, <3>2, <4>2 DEF MayRestart
      <4>4. restarts'[x] = restarts[x] + 1
        BY <3>1, <3>2 DEF TypeOK
      <4>5. QED
        BY <1>4, <4>1, <4>3, <4>4
    <3>3. CASE x # Owner[p]
      <4>1. MayRestart(o, x)' => MayRestart(o, x)
        BY <3>1, <3>3 DEF MayRestart
      <4>2. restarts'[x] = restarts[x]
        BY <3>1, <3>3 DEF TypeOK
      <4>3. QED
        BY <1>3, <4>1, <4>2
    <3>4. QED
      BY <3>2, <3>3
  <2>4. QED
    BY <2>2, <2>3
<1>8. ASSUME NEW p \in Pod, EvictPod(o, p)
      PROVE  IsFiniteSet(Due(x)') /\ restarts'[x] + Cardinality(Due(x)') <= changes' + starts'
  <2>1. /\ restarts' = [restarts EXCEPT ![p] = @ + 1] /\ task'[o].at = task[o].at
        /\ task[o].pods = {} /\ p \in task[o].evict /\ task[o].at = "reload"
        /\ task'[o].handled = task[o].handled /\ task'[o].pods = task[o].pods
        /\ task'[o].evict = task[o].evict \ {p}
    BY <1>0, <1>8 DEF EvictPod, Task
  <2>2. CASE x = p
    <3>1. MayRestart(o, x) /\ ~MayRestart(o, x)'
      BY <1>0, <2>1, <2>2 DEF MayRestart
    <3>2. restarts'[x] = restarts[x] + 1
      BY <2>1, <2>2 DEF TypeOK
    <3>3. QED
      BY <1>4, <3>1, <3>2
  <2>3. CASE x # p
    <3>1. MayRestart(o, x)' => MayRestart(o, x)
      BY <2>1 DEF MayRestart
    <3>2. restarts'[x] = restarts[x]
      BY <2>1, <2>3 DEF TypeOK
    <3>3. QED
      BY <1>3, <3>1, <3>2
  <2>4. QED
    BY <2>2, <2>3
<1>9. CASE FinishReload(o)
  <2>1. restarts' = restarts /\ task'[o] = Idle
    BY <1>0, <1>9 DEF FinishReload, history
  <2>2. ~MayRestart(o, x)'
    BY <2>1 DEF MayRestart, Idle
  <2>3. QED
    BY <1>3, <2>1, <2>2
<1>10. QED
  BY <1>5, <1>6, <1>7, <1>8, <1>9 DEF Reload

(* Requests that fail, cleanups, and the start of the operator.            *)
LEMMA RestartsOthers ==
  ASSUME TypeOK, RestartsInv,
         CleanControllers \/ FailCleanup \/ Restart \/ \E o \in Object : FailReload(o)
  PROVE  RestartsInv'
<1>0. task \in [Object -> Task] /\ restarts \in [Controller \cup Pod -> Nat] /\ changes \in Nat /\ starts \in Nat
  BY BoundsAssumption DEF TypeOK
<1> SUFFICES ASSUME NEW x \in Controller \cup Pod
             PROVE  IsFiniteSet(Due(x)') /\ restarts'[x] + Cardinality(Due(x)') <= changes' + starts'
  BY DEF RestartsInv
<1>1. CASE CleanControllers \/ FailCleanup
  <2>1. UNCHANGED <<queue, cache, task, restarts, changes, starts>>
    BY <1>1 DEF CleanControllers, FailCleanup, history
  <2>2. \A o \in Object : queue'[o] = queue[o] /\ Known(o)' = Known(o)
    BY <2>1 DEF Known
  <2>3. \A o \in Object : MayRestart(o, x)' => MayRestart(o, x)
    BY <2>1 DEF MayRestart
  <2>4. Due(x)' \subseteq Due(x)
    BY <2>2, <2>3, DueShrinks
  <2>5. QED
    BY <2>1, <2>4, BoundKept
<1>2. ASSUME NEW o \in Object, FailReload(o)
      PROVE  IsFiniteSet(Due(x)') /\ restarts'[x] + Cardinality(Due(x)') <= changes' + starts'
  <2>1. UNCHANGED <<queue, cache, restarts, changes, starts>> /\ \A q \in Object : q # o => task'[q] = task[q]
    BY <1>0, <1>2 DEF FailReload, history
  <2>2. CASE task[o].at = "discover" /\ task' = [task EXCEPT ![o] = Idle]
    <3>1. ~MayRestart(o, x)' /\ MayRestart(o, x)
      BY <1>0, <2>2 DEF MayRestart, Idle
    <3>2. \A q \in Object : q # o => (MayRestart(q, x)' <=> MayRestart(q, x)) /\ Known(q)' = Known(q)
      BY <2>1 DEF MayRestart, Known
    <3> DEFINE S == Due(x)
               T == Due(x)'
    <3>3. IsFiniteSet(S) /\ restarts[x] + Cardinality(S) <= changes + starts
      BY DEF RestartsInv
    <3>4. <<o, 0>> \in S
      BY <3>1 DEF Due
    <3>5. T \subseteq (S \ {<<o, 0>>}) \cup {<<o, 1>>}
      <4>1. SUFFICES ASSUME NEW w \in T, w # <<o, 1>> PROVE w \in S /\ w # <<o, 0>>
        OBVIOUS
      <4>2. /\ w \in Object \X Nat /\ w = <<w[1], w[2]>>
            /\ IF w[2] = 0 THEN MayRestart(w[1], x)' ELSE Reloads(w[1], w[2])'
        BY DEF Due
      <4>3. w # <<o, 0>>
        BY <3>1, <4>2
      <4>4. IF w[2] = 0 THEN MayRestart(w[1], x) ELSE Reloads(w[1], w[2])
        <5>1. CASE w[1] # o
          <6>1. queue'[w[1]] = queue[w[1]] /\ Known(w[1])' = Known(w[1])
                /\ (MayRestart(w[1], x)' <=> MayRestart(w[1], x))
            BY <2>1, <3>2, <4>2, <5>1
          <6>2. Reloads(w[1], w[2])' <=> Reloads(w[1], w[2])
            BY <6>1, ReloadsSame
          <6>3. QED
            BY <4>2, <6>1, <6>2
        <5>2. CASE w[1] = o
          <6>1. w[2] \notin {0, 1}
            BY <4>1, <4>2, <4>3, <5>2
          <6>2. Reloads(o, w[2])'
            BY <4>2, <5>2, <6>1
          <6>3. Reloads(o, w[2])
            BY <2>1, <6>1, <6>2 DEF Reloads, Before
          <6>4. QED
            BY <5>2, <6>1, <6>3
        <5>3. QED
          BY <5>1, <5>2
      <4>5. QED
        BY <4>2, <4>3, <4>4 DEF Due
    <3> HIDE DEF S, T
    <3>6. IsFiniteSet(S \ {<<o, 0>>}) /\ Cardinality(S \ {<<o, 0>>}) = Cardinality(S) - 1 /\ Cardinality(S) \in Nat
      BY <3>3, <3>4, FS_RemoveElement, FS_CardinalityType
    <3> DEFINE U == S \ {<<o, 0>>}
    <3> HIDE DEF U
    <3>7. IsFiniteSet(U \cup {<<o, 1>>}) /\ Cardinality(U \cup {<<o, 1>>}) \in {Cardinality(U), Cardinality(U) + 1}
      BY <3>6, FS_AddElement DEF U
    <3>8. IsFiniteSet(T) /\ Cardinality(T) \in Nat /\ Cardinality(T) <= Cardinality(U \cup {<<o, 1>>})
      BY <3>5, <3>7, Fewer DEF U
    <3>9. restarts'[x] + Cardinality(T) <= changes' + starts'
      <4>1. Cardinality(U) = Cardinality(S) - 1
        BY <3>6 DEF U
      <4>2. QED
        BY <1>0, <2>1, <3>3, <3>6, <3>7, <3>8, <4>1
    <3>10. QED
      BY <3>8, <3>9 DEF T
  <2>3. CASE ~(task[o].at = "discover" /\ task' = [task EXCEPT ![o] = Idle])
    <3>1. /\ task[o] \in Task /\ task[o].pods \cup task[o].evict # {} => task[o].at = "reload"
      BY DEF TypeOK
    <3>2. /\ task'[o].at = task[o].at /\ task'[o].data = task[o].data /\ task'[o].handled = task[o].handled
          /\ task'[o].pods \subseteq task[o].pods /\ task'[o].evict \subseteq task[o].evict
      BY <1>0, <1>2, <2>3, <3>1 DEF FailReload, Task
    <3>3. \A q \in Object : queue'[q] = queue[q] /\ Known(q)' = Known(q)
      BY <2>1, <3>2 DEF Known
    <3>4. \A q \in Object : MayRestart(q, x)' => MayRestart(q, x)
      BY <2>1, <3>2 DEF MayRestart
    <3>5. Due(x)' \subseteq Due(x)
      BY <3>3, <3>4, DueShrinks
    <3>6. QED
      BY <2>1, <3>5, BoundKept
  <2>4. QED
    BY <2>2, <2>3
<1>3. CASE Restart
  <2>1. /\ restarts' = restarts /\ changes' = changes /\ starts' = starts + 1
        /\ task' = [o \in Object |-> Idle]
        /\ cache' = [o \in Object |-> IF o = Mesh THEN InitialData ELSE None]
        /\ queue' = [o \in Object |-> IF object[o].data = None THEN <<>> ELSE <<object[o]>>]
    BY <1>3 DEF Restart
  <2>2. Due(x)' \subseteq {<<Mesh, 1>>}
    <3>1. SUFFICES ASSUME NEW w \in Object \X Nat,
                          IF w[2] = 0 THEN MayRestart(w[1], x)' ELSE Reloads(w[1], w[2])'
                   PROVE  w = <<Mesh, 1>>
      BY DEF Due
    <3>2. w[1] \in Object /\ w[2] \in Nat /\ w = <<w[1], w[2]>>
      OBVIOUS
    <3>3. ~MayRestart(w[1], x)'
      BY <2>1, <3>2 DEF MayRestart, Idle
    <3>4. w[2] \in DOMAIN queue'[w[1]] /\ queue'[w[1]] \in {<<>>, <<object[w[1]]>>}
      BY <2>1, <3>1, <3>2, <3>3 DEF Reloads
    <3>5. w[2] = 1
      BY <3>4
    <3>6. w[1] = Mesh
      BY <2>1, <3>1, <3>2, <3>3, <3>5 DEF Reloads, Before, Known, Idle
    <3>7. QED
      BY <3>2, <3>5, <3>6
  <2> DEFINE S == Due(x)
             T == Due(x)'
  <2>3. IsFiniteSet(S) /\ restarts[x] + Cardinality(S) <= changes + starts
    BY DEF RestartsInv
  <2>4. T \subseteq {<<Mesh, 1>>}
    BY <2>2
  <2> HIDE DEF S, T
  <2>5. IsFiniteSet({<<Mesh, 1>>}) /\ Cardinality({<<Mesh, 1>>}) = 1 /\ Cardinality(S) \in Nat
    BY <2>3, FS_Singleton, FS_CardinalityType
  <2>6. IsFiniteSet(T) /\ Cardinality(T) \in Nat /\ Cardinality(T) <= 1
    BY <2>4, <2>5, Fewer
  <2>7. restarts'[x] + Cardinality(T) <= changes' + starts'
    BY <1>0, <2>1, <2>3, <2>5, <2>6
  <2>8. QED
    BY <2>6, <2>7 DEF T
<1>4. QED
  BY <1>1, <1>2, <1>3

(* A sequence without elements.                                            *)
LEMMA EmptyLen == ASSUME NEW S, NEW s \in Seq(S) PROVE s = <<>> <=> Len(s) = 0
  OBVIOUS

(* What comes last in a queue, or is remembered, is the object.            *)
LEMMA LastPublished ==
  ASSUME TypeOK, LastIsObject, NEW o \in Object, NEW new \in Snapshot, Publish(o, new), cache' = cache
  PROVE  LastIsObject'
<1>1. /\ queue \in [Object -> Seq(Snapshot)] /\ object \in [Object -> Snapshot]
      /\ queue' = [queue EXCEPT ![o] = Append(queue[o], new)] /\ object' = [object EXCEPT ![o] = new]
  BY DEF TypeOK, Publish
<1>2. queue[o] \in Seq(Snapshot)
  BY <1>1
<1>3. Append(queue[o], new) # <<>> /\ Append(queue[o], new)[Len(Append(queue[o], new))] = new
  BY <1>2
<1>4. ASSUME NEW q \in Object
      PROVE  /\ queue'[q] # <<>> => queue'[q][Len(queue'[q])].data = object'[q].data
             /\ q # Mesh /\ queue'[q] = <<>> => cache'[q] = object'[q].data
  <2>1. CASE q = o
    BY <1>1, <1>3, <2>1
  <2>2. CASE q # o
    BY <1>1, <2>2 DEF LastIsObject
  <2>3. QED
    BY <2>1, <2>2
<1>5. QED
  BY <1>4 DEF LastIsObject

LEMMA LastNext == TypeOK /\ LastIsObject /\ [Next]_vars => LastIsObject'
<1> SUFFICES ASSUME TypeOK, LastIsObject, [Next]_vars PROVE LastIsObject'
  OBVIOUS
<1>1. ASSUME UNCHANGED <<object, queue>>, \A o \in Object : o # Mesh => cache'[o] = cache[o] PROVE LastIsObject'
  BY <1>1 DEF LastIsObject
<1>2. ASSUME NEW o \in Object, NEW d \in Data \cup {None}, ChangeData(o, d) PROVE LastIsObject'
  <2> DEFINE new == [data |-> d, annotations |-> IF d = None THEN NoAnnotations ELSE object[o].annotations]
  <2>1. new \in Snapshot
    <3>1. object[o].annotations \in Annotations
      BY ValuesTyped DEF TypeOK
    <3>2. QED
      BY <3>1, ValuesTyped
  <2>2. Publish(o, new) /\ cache' = cache
    BY <1>2 DEF ChangeData
  <2> HIDE DEF new
  <2>3. QED
    BY <2>1, <2>2, LastPublished
<1>3. ASSUME NEW r \in Resource, NEW s \in Selectors, Annotate(r, s) PROVE LastIsObject'
  <2> DEFINE new == [object[r] EXCEPT !.annotations.map = TRUE, !.annotations.selector = s]
  <2>1. r \in Object /\ object[r] \in Snapshot /\ s \in Selector
    BY PodsAssumption DEF TypeOK, Object
  <2>2. new \in Snapshot
    BY <2>1 DEF Snapshot, Annotations
  <2>3. Publish(r, new) /\ cache' = cache
    BY <1>3 DEF Annotate
  <2> HIDE DEF new
  <2>4. QED
    BY <2>1, <2>2, <2>3, LastPublished
<1>4. CASE MarkComplete
  <2>1. cleanups # <<>> /\ cache' = cache
    BY <1>4 DEF MarkComplete
  <2>2. CASE UNCHANGED <<object, queue>>
    BY <1>1, <2>1, <2>2
  <2>3. CASE ~UNCHANGED <<object, queue>>
    <3> DEFINE r == Head(cleanups).of
               now == object[r].annotations
               old == Head(cleanups).annotations
               new == [object[r] EXCEPT !.annotations =
                         [map |-> TRUE, complete |-> TRUE, selector |-> IF old.map THEN now.selector ELSE None]]
    <3>1. Publish(r, new)
      BY <1>4, <2>3 DEF MarkComplete
    <3>2. r \in Object
      BY <2>1, CleanupsTyped DEF Cleanup, Object
    <3>3. object[r] \in Snapshot /\ now.selector \in Selector
      BY <3>2, ValuesTyped DEF TypeOK
    <3>4. new \in Snapshot
      BY <3>3 DEF Snapshot, Annotations, Selector
    <3> HIDE DEF new, r
    <3>5. QED
      BY <2>1, <3>1, <3>2, <3>4, LastPublished
  <2>4. QED
    BY <2>2, <2>3
<1>5. CASE (\E r \in Resource : Handle(r)) \/ HandleMesh
  <2>1. PICK o \in Object :
          /\ Dequeue(o) /\ Known(o)' = Head(queue[o]).data /\ object' = object
          /\ \A q \in Object : q # o => cache'[q] = cache[q] /\ queue'[q] = queue[q]
    BY <1>5, HandlingKnows
  <2>2. queue[o] \in Seq(Snapshot) /\ queue[o] # <<>> /\ queue'[o] = Tail(queue[o])
    BY <2>1 DEF Dequeue, TypeOK
  <2>3. /\ queue'[o] # <<>> => queue'[o][Len(queue'[o])] = queue[o][Len(queue[o])]
        /\ queue'[o] = <<>> => Head(queue[o]) = queue[o][Len(queue[o])]
    <3>1. Len(queue[o]) \in Nat \ {0} /\ Head(queue[o]) = queue[o][1] /\ Tail(queue[o]) \in Seq(Snapshot)
      BY <2>2
    <3>2. Len(Tail(queue[o])) = Len(queue[o]) - 1 /\ \A i \in 1..Len(queue[o]) - 1 : Tail(queue[o])[i] = queue[o][i + 1]
      BY <2>2
    <3>3. Tail(queue[o]) = <<>> <=> Len(Tail(queue[o])) = 0
      BY <3>1, EmptyLen
    <3>4. QED
      BY <2>2, <3>1, <3>2, <3>3
  <2>4. o # Mesh => cache'[o] = Head(queue[o]).data
    BY <2>1 DEF Known
  <2>5. ASSUME NEW q \in Object
        PROVE  /\ queue'[q] # <<>> => queue'[q][Len(queue'[q])].data = object'[q].data
               /\ q # Mesh /\ queue'[q] = <<>> => cache'[q] = object'[q].data
    <3>1. CASE q = o
      BY <2>1, <2>2, <2>3, <2>4, <3>1 DEF LastIsObject
    <3>2. CASE q # o
      BY <2>1, <3>2 DEF LastIsObject
    <3>3. QED
      BY <3>1, <3>2
  <2>6. QED
    BY <2>5 DEF LastIsObject
<1>6. CASE Restart
  <2>1. /\ object' = object
        /\ cache' = [o \in Object |-> IF o = Mesh THEN InitialData ELSE None]
        /\ queue' = [o \in Object |-> IF object[o].data = None THEN <<>> ELSE <<object[o]>>]
    BY <1>6 DEF Restart
  <2>2. \A e : <<e>> # <<>> /\ Len(<<e>>) = 1 /\ <<e>>[1] = e
    OBVIOUS
  <2>3. ASSUME NEW o \in Object
        PROVE  /\ queue'[o] # <<>> => queue'[o][Len(queue'[o])].data = object'[o].data
               /\ o # Mesh /\ queue'[o] = <<>> => cache'[o] = object'[o].data
    <3>1. cache'[o] = IF o = Mesh THEN InitialData ELSE None
      BY <2>1
    <3>2. CASE object[o].data = None
      <4>1. queue'[o] = <<>>
        BY <2>1, <3>2
      <4>2. QED
        BY <2>1, <3>1, <3>2, <4>1
    <3>3. CASE object[o].data # None
      <4>1. queue'[o] = <<object[o]>>
        BY <2>1, <3>3
      <4>2. QED
        BY <2>1, <2>2, <4>1
    <3>4. QED
      BY <3>2, <3>3
  <2>4. QED
    BY <2>3 DEF LastIsObject
<1>7. CASE \/ CleanControllers \/ FailCleanup \/ \E o \in Object : Reload(o) \/ FailReload(o)
           \/ \E p \in Pod : Replace(p)
  <2>1. UNCHANGED <<object, queue>> /\ \A o \in Object : o # Mesh => cache'[o] = cache[o]
    <3>1. cache \in [Object -> Data \cup {None}]
      BY DEF TypeOK
    <3>2. ASSUME NEW o \in Object, Reload(o)
          PROVE  UNCHANGED <<object, queue>> /\ \A q \in Object : q # Mesh => cache'[q] = cache[q]
      BY <3>1, <3>2, ReloadFrame
    <3>3. QED
      BY <1>7, <3>2, CleanupFrame, FailReloadFrame, ReplaceFrame
  <2>2. QED
    BY <1>1, <2>1
<1>8. CASE UNCHANGED vars
  BY <1>1, <1>8 DEF vars
<1>9. QED
  BY <1>2, <1>3, <1>4, <1>5, <1>6, <1>7, <1>8 DEF Next

(* At the start nothing is due.                                            *)
LEMMA RestartsInit == Init => LastIsObject /\ RestartsInv
<1> SUFFICES ASSUME Init PROVE LastIsObject /\ RestartsInv
  OBVIOUS
<1>1. /\ object \in [Object -> [data : {InitialData}, annotations : {NoAnnotations, [NoAnnotations EXCEPT !.map = TRUE]}]]
      /\ queue = [o \in Object |-> <<object[o]>>] /\ task = [o \in Object |-> Idle]
      /\ cache = [o \in Object |-> IF o = Mesh THEN InitialData ELSE None]
      /\ restarts = [x \in Controller \cup Pod |-> 0] /\ changes = 0 /\ starts = 0
  BY DEF Init
<1>2. \A e : <<e>> # <<>> /\ Len(<<e>>) = 1 /\ <<e>>[1] = e /\ \A i \in DOMAIN <<e>> : i = 1
  OBVIOUS
<1>3. LastIsObject
  BY <1>1, <1>2 DEF LastIsObject
<1>4. ASSUME NEW x \in Controller \cup Pod PROVE Due(x) = {}
  <2>1. \A o \in Object : ~MayRestart(o, x)
    <3>1. Idle.at = "idle" /\ Idle.pods = {} /\ Idle.evict = {}
      BY DEF Idle
    <3>2. \A o \in Object : task[o] = Idle
      BY <1>1
    <3>3. QED
      BY <3>1, <3>2 DEF MayRestart
  <2>2. ASSUME NEW o \in Object, NEW i, Reloads(o, i) PROVE FALSE
    <3>1. i = 1 /\ queue[o][i].data = InitialData
      BY <1>1, <1>2, <2>2 DEF Reloads
    <3>2. Before(o, i) = cache[o]
      BY <1>1, <3>1 DEF Before, Known, Idle
    <3>3. QED
      BY <1>1, <2>2, <3>1, <3>2 DEF Reloads
  <2>3. QED
    BY <2>1, <2>2 DEF Due
<1>5. RestartsInv
  <2>1. IsFiniteSet({}) /\ Cardinality({}) = 0
    BY FS_EmptySet
  <2>2. QED
    BY <1>1, <1>4, <2>1 DEF RestartsInv
<1>6. QED
  BY <1>3, <1>5

(* No controller or pod is told to restart more often than there were      *)
(* changes, and starts of the operator: whatever the pods of a controller, *)
(* the objects that change at a time, and the handlers that overlap.       *)
THEOREM RestartsAreNeeded == Spec => []NoNeedlessRestart
<1>1. TypeOK /\ LastIsObject /\ RestartsInv /\ [Next]_vars => RestartsInv'
  <2> SUFFICES ASSUME TypeOK, LastIsObject, RestartsInv, [Next]_vars PROVE RestartsInv'
    OBVIOUS
  <2>1. CASE Next
    BY <2>1, RestartsCluster, RestartsHandling, RestartsReload, RestartsOthers DEF Next
  <2>2. CASE UNCHANGED vars
    <3>1. UNCHANGED <<queue, cache, task, restarts, changes, starts>>
      BY <2>2 DEF vars
    <3>2. ASSUME NEW x \in Controller \cup Pod
          PROVE  IsFiniteSet(Due(x)') /\ restarts'[x] + Cardinality(Due(x)') <= changes' + starts'
      <4>1. \A o \in Object : queue'[o] = queue[o] /\ Known(o)' = Known(o) /\ MayRestart(o, x)' = MayRestart(o, x)
        BY <3>1 DEF Known, MayRestart
      <4>2. Due(x)' \subseteq Due(x)
        BY <4>1, DueShrinks
      <4>3. QED
        BY <3>1, <4>2, BoundKept
    <3>3. QED
      BY <3>2 DEF RestartsInv
  <2>3. QED
    BY <2>1, <2>2
<1>2. TypeOK /\ RestartsInv => NoNeedlessRestart
  <2> SUFFICES ASSUME TypeOK, RestartsInv, NEW x \in Controller \cup Pod PROVE restarts[x] <= changes + starts
    BY DEF NoNeedlessRestart
  <2> DEFINE n == Cardinality(Due(x))
  <2>1. IsFiniteSet(Due(x)) /\ restarts[x] + n <= changes + starts
    BY DEF RestartsInv
  <2>2. n \in Nat
    BY <2>1, FS_CardinalityType
  <2>3. restarts[x] \in Nat /\ changes \in Nat /\ starts \in Nat
    BY BoundsAssumption DEF TypeOK
  <2> HIDE DEF n
  <2>4. QED
    BY <2>1, <2>2, <2>3
<1>3. QED
  BY <1>1, <1>2, LastNext, RestartsInit, TypeCorrect, PTL DEF Spec

-----------------------------------------------------------------------------
(* The pods that a reload reaches.                                         *)

(* There is nothing to change about the mesh configuration but its data,   *)
(* and a handler that looks for pods has restarted nothing yet.            *)
MeshPlain ==
  /\ object[Mesh].annotations.selector = None
  /\ \A i \in DOMAIN queue[Mesh] : queue[Mesh][i].annotations.selector = None

Fresh == \A o \in Object : task[o].at = "discover" => task[o].handled = {}

(* Handlers do not give up, forget or meet an object that was deleted.     *)
Undisturbed == trouble \cap {"request", "restart", "created again"} = {}

ChosenFor(o) == IF o = Mesh THEN None ELSE chosen[o]

(* Every snapshot has data, and what is known of an object without one     *)
(* waiting is what it is.                                                  *)
NoGap(o) ==
  /\ \A i \in DOMAIN queue[o] : queue[o][i].data # None
  /\ queue[o] = <<>> => Known(o) = object[o].data

(* The last change in the queue brings the selector it was made with.      *)
LastChange(o, i) == Reloads(o, i) /\ \A j \in DOMAIN queue[o] : j > i => ~Reloads(o, j)
SelectorArrives(o) ==
  \A i \in DOMAIN queue[o] : LastChange(o, i) => queue[o][i].annotations.selector = ChosenFor(o)

(* A pod that runs older data will be told to go by the reload in progress *)
(* unless there is another in the queue.                                   *)
Stale(o, p) == pod[p].state = "running" /\ Reloadable(p) /\ pod[p].runs[o] # object[o].data

WillGo(o, p) ==
  \/ task[o].at = "discover" /\ p \in Consumers(o, task[o].selector)
  \/ p \in task[o].pods /\ (Handled(Owner[p]) => Owner[p] \notin task[o].handled)
  \/ p \in task[o].evict

NothingWaits(o) == \A i \in DOMAIN queue[o] : ~Reloads(o, i)

StaleAreCaught(o) ==
  NothingWaits(o) => \A p \in Consumers(o, ChosenFor(o)) : Stale(o, p) => WillGo(o, p)

WellServed(o) == NoGap(o) /\ (ChosenFor(o) # Invalid => SelectorArrives(o) /\ StaleAreCaught(o))

ReloadInv == Undisturbed => \A o \in Object : object[o].data # None => WellServed(o)

(* The consumers of an object are pods.                                    *)
LEMMA ConsumersArePods ==
  ASSUME TypeOK, NEW o \in Object, ChosenFor(o) # Invalid
  PROVE  Consumers(o, ChosenFor(o)) \subseteq Pod
<1>1. ChosenFor(o) \in {None} \cup SUBSET Pod
  BY DEF TypeOK, ChosenFor, Selector, Object
<1>2. Uses[o] \subseteq Pod
  BY PodsAssumption
<1>3. QED
  BY <1>1, <1>2 DEF Consumers

(* A step that does not touch an object, its queue or what is known of it, *)
(* makes no pod stale and lets no stale pod get away.                      *)
LEMMA ServedSame ==
  ASSUME TypeOK, NEW o \in Object, WellServed(o), queue'[o] = queue[o], Known(o)' = Known(o),
         object'[o].data = object[o].data, ChosenFor(o)' = ChosenFor(o),
         \A p \in Pod : Stale(o, p)' => Stale(o, p) /\ (WillGo(o, p) => WillGo(o, p)')
  PROVE  WellServed(o)'
<1>1. \A i : Reloads(o, i)' <=> Reloads(o, i)
  BY ReloadsSame
<1>2. NoGap(o)'
  BY DEF WellServed, NoGap
<1>3. ASSUME ChosenFor(o) # Invalid PROVE SelectorArrives(o)' /\ StaleAreCaught(o)'
  <2>1. SelectorArrives(o) /\ StaleAreCaught(o)
    BY <1>3 DEF WellServed
  <2>2. \A i : LastChange(o, i)' <=> LastChange(o, i)
    BY <1>1 DEF LastChange
  <2>3. SelectorArrives(o)'
    BY <2>1, <2>2 DEF SelectorArrives
  <2>4. NothingWaits(o)' <=> NothingWaits(o)
    BY <1>1 DEF NothingWaits
  <2>5. Consumers(o, ChosenFor(o)) \subseteq Pod
    BY <1>3, ConsumersArePods
  <2>6. Consumers(o, ChosenFor(o))' = Consumers(o, ChosenFor(o))
    BY DEF Consumers
  <2>7. StaleAreCaught(o)'
    BY <2>1, <2>4, <2>5, <2>6 DEF StaleAreCaught
  <2>8. QED
    BY <2>3, <2>7
<1>4. QED
  BY <1>2, <1>3 DEF WellServed

(* What comes before a new version in the queue is the object.             *)
LEMMA BeforeNext ==
  ASSUME TypeOK, LastIsObject, NEW o \in Object, NoGap(o)
  PROVE  Before(o, Len(queue[o]) + 1) = object[o].data
<1>0. queue[o] \in Seq(Snapshot) /\ Len(queue[o]) \in Nat
  BY DEF TypeOK
<1>1. CASE queue[o] = <<>>
  <2>1. Len(queue[o]) + 1 = 1
    BY <1>1
  <2>2. QED
    BY <1>1, <2>1 DEF Before, NoGap
<1>2. CASE queue[o] # <<>>
  <2>1. Len(queue[o]) # 0
    BY <1>0, <1>2, EmptyLen
  <2>2. Len(queue[o]) + 1 # 1 /\ Len(queue[o]) + 1 - 1 = Len(queue[o])
    BY <1>0, <2>1
  <2>3. QED
    BY <1>2, <2>2 DEF Before, LastIsObject
<1>3. QED
  BY <1>1, <1>2

(* A queue with one more snapshot.                                         *)
LEMMA PublishedQueue ==
  ASSUME TypeOK, NEW o \in Object, NEW new, Publish(o, new)
  PROVE  /\ Len(queue[o]) \in Nat /\ DOMAIN queue[o] = 1..Len(queue[o])
         /\ DOMAIN queue'[o] = 1..Len(queue[o]) + 1 /\ queue'[o] # <<>>
         /\ queue'[o][Len(queue[o]) + 1] = new /\ \A j \in DOMAIN queue[o] : queue'[o][j] = queue[o][j]
         /\ object'[o] = new
         /\ \A q \in Object : q # o => queue'[q] = queue[q] /\ object'[q] = object[q]
<1>1. queue[o] \in Seq(Snapshot) /\ queue'[o] = Append(queue[o], new) /\ object'[o] = new
      /\ \A q \in Object : q # o => queue'[q] = queue[q] /\ object'[q] = object[q]
  BY DEF TypeOK, Publish
<1>2. QED
  BY <1>1

(* A change of an object waits in the queue with the selector of its time. *)
LEMMA ServedChanged ==
  ASSUME TypeOK, LastIsObject, MeshPlain, NEW o \in Object, NEW d \in Data, ChangeData(o, d),
         object[o].data # None, WellServed(o)
  PROVE  WellServed(o)'
<1> DEFINE new == [data |-> d, annotations |-> IF d = None THEN NoAnnotations ELSE object[o].annotations]
<1>1. /\ Publish(o, new) /\ UNCHANGED <<task, cache>> /\ d # object[o].data /\ d # None
      /\ new.data = d /\ new.annotations = object[o].annotations
      /\ chosen' = IF o = Mesh THEN chosen ELSE [chosen EXCEPT ![o] = object[o].annotations.selector]
  BY DataAssumption DEF ChangeData
<1> HIDE DEF new
<1>n. PICK n : n = Len(queue[o]) + 1
  OBVIOUS
<1>2. /\ Len(queue[o]) \in Nat /\ DOMAIN queue[o] = 1..Len(queue[o])
      /\ DOMAIN queue'[o] = 1..n /\ queue'[o] # <<>>
      /\ queue'[o][n] = new /\ \A j \in DOMAIN queue[o] : queue'[o][j] = queue[o][j]
  BY <1>1, <1>n, PublishedQueue
<1>3. NoGap(o)'
  <2>1. ASSUME NEW i \in DOMAIN queue'[o] PROVE queue'[o][i].data # None
    <3>1. CASE i = n
      BY <1>1, <1>2, <3>1
    <3>2. CASE i # n
      BY <1>n, <1>2, <3>2 DEF WellServed, NoGap
    <3>3. QED
      BY <3>1, <3>2
  <2>2. QED
    BY <1>2, <2>1 DEF NoGap
<1>4. Reloads(o, n)'
  <2>1. Before(o, n) = object[o].data
    BY <1>n, BeforeNext DEF WellServed
  <2>2. n \in Nat \ {0}
    BY <1>2, <1>n
  <2>3. QED
    BY <1>1, <1>n, <2>1, <2>2, PublishReloads
<1>5. StaleAreCaught(o)'
  BY <1>2, <1>4, <1>n DEF StaleAreCaught, NothingWaits
<1>6. SelectorArrives(o)'
  <2>1. ASSUME NEW i \in DOMAIN queue'[o], LastChange(o, i)' PROVE i = n
    BY <1>2, <1>4, <1>n, <2>1 DEF LastChange
  <2>2. object[o].annotations.selector = ChosenFor(o)'
    <3>1. CASE o = Mesh
      BY <3>1 DEF MeshPlain, ChosenFor
    <3>2. CASE o # Mesh
      BY <1>1, <3>2 DEF ChosenFor, TypeOK, Object
    <3>3. QED
      BY <3>1, <3>2
  <2>3. QED
    BY <1>1, <1>2, <2>1, <2>2 DEF SelectorArrives
<1>7. QED
  BY <1>3, <1>5, <1>6 DEF WellServed

(* A version with the same data waits behind whatever is in the queue.     *)
LEMMA ServedAnnotated ==
  ASSUME TypeOK, LastIsObject, NEW r \in Resource, NEW new, Publish(r, new), new.data = object[r].data,
         UNCHANGED <<task, cache, pod, chosen>>, object[r].data # None, WellServed(r)
  PROVE  WellServed(r)'
<1> DEFINE n == Len(queue[r]) + 1
<1>0. r \in Object /\ r # Mesh
  BY DataAssumption DEF Object
<1>1. /\ Len(queue[r]) \in Nat /\ DOMAIN queue[r] = 1..Len(queue[r])
      /\ DOMAIN queue'[r] = 1..n /\ queue'[r] # <<>> /\ object'[r] = new
      /\ queue'[r][n] = new /\ \A j \in DOMAIN queue[r] : queue'[r][j] = queue[r][j]
  BY <1>0, PublishedQueue
<1>2. \A i \in Nat \ {0} : Reloads(r, i)' <=> Reloads(r, i)
  <2>1. Before(r, n) = object[r].data
    BY <1>0, BeforeNext DEF WellServed
  <2>2. QED
    BY <1>0, <2>1, PublishReloads
<1>3. NoGap(r)'
  BY <1>1 DEF WellServed, NoGap
<1>4. ~Reloads(r, n)
  BY <1>1 DEF Reloads
<1>5. ASSUME ChosenFor(r) # Invalid PROVE SelectorArrives(r)' /\ StaleAreCaught(r)'
  <2>0. SelectorArrives(r) /\ StaleAreCaught(r)
    BY <1>5 DEF WellServed
  <2>1. ASSUME NEW i \in DOMAIN queue'[r], LastChange(r, i)'
        PROVE  queue'[r][i].annotations.selector = ChosenFor(r)
    <3>1. i \in Nat \ {0} /\ i <= n
      BY <1>1
    <3>2. Reloads(r, i)
      BY <1>2, <2>1, <3>1 DEF LastChange
    <3>3. i \in DOMAIN queue[r]
      BY <3>2 DEF Reloads
    <3>4. \A j \in DOMAIN queue[r] : j \in DOMAIN queue'[r] /\ j \in Nat \ {0}
      BY <1>1
    <3>5. \A j \in DOMAIN queue[r] : j > i => ~Reloads(r, j)
      BY <1>2, <2>1, <3>4 DEF LastChange
    <3>6. QED
      BY <1>1, <2>0, <3>2, <3>3, <3>5 DEF SelectorArrives, LastChange
  <2>2. ChosenFor(r)' = ChosenFor(r)
    BY DEF ChosenFor
  <2>3. SelectorArrives(r)'
    BY <2>1, <2>2 DEF SelectorArrives
  <2>4. NothingWaits(r)' => NothingWaits(r)
    BY <1>1, <1>2 DEF NothingWaits
  <2>5. \A p : (Stale(r, p)' <=> Stale(r, p)) /\ (WillGo(r, p)' <=> WillGo(r, p))
    BY <1>1 DEF Stale, WillGo
  <2>6. Consumers(r, ChosenFor(r))' = Consumers(r, ChosenFor(r))
    BY <2>2 DEF Consumers
  <2>7. StaleAreCaught(r)'
    BY <2>0, <2>4, <2>5, <2>6 DEF StaleAreCaught
  <2>8. QED
    BY <2>3, <2>7
<1>6. ChosenFor(r)' = ChosenFor(r)
  BY DEF ChosenFor
<1>7. QED
  BY <1>3, <1>5, <1>6 DEF WellServed

(* Taking a snapshot from the queue: the reload for the last change finds  *)
(* the pods that its selector names.                                       *)
LEMMA ServedHandled ==
  ASSUME TypeOK, LastIsObject, NEW o \in Object, Dequeue(o), WellServed(o), UNCHANGED <<object, pod, chosen>>,
         Known(o)' = Head(queue[o]).data,
         \/ task' = task
         \/ /\ task'[o].at = "discover" /\ task'[o].data = Head(queue[o]).data
            /\ task'[o].selector = Head(queue[o]).annotations.selector /\ Reloads(o, 1),
         Reloads(o, 1) /\ Head(queue[o]).annotations.selector # Invalid => task'[o].at = "discover"
  PROVE  WellServed(o)'
<1>1. queue[o] \in Seq(Snapshot) /\ queue[o] # <<>> /\ queue'[o] = Tail(queue[o]) /\ task[o] = Idle
  BY DEF TypeOK, Dequeue
<1>2. PICK n \in Nat : n = Len(queue[o]) - 1
  <2>1. Len(queue[o]) \in Nat /\ Len(queue[o]) # 0
    BY <1>1, EmptyLen
  <2>2. Len(queue[o]) - 1 \in Nat
    BY <2>1
  <2>3. QED
    BY <2>2
<1>3. /\ DOMAIN queue[o] = 1..n + 1 /\ DOMAIN queue'[o] = 1..n /\ Head(queue[o]) = queue[o][1]
      /\ \A i \in 1..n : queue'[o][i] = queue[o][i + 1]
  BY <1>1, <1>2
<1>4. \A i \in Nat \ {0} : Reloads(o, i)' <=> Reloads(o, i + 1)
  BY QueueMovesUp
<1>5. NoGap(o)'
  <2>1. \A i \in DOMAIN queue'[o] : queue'[o][i].data # None
    <3>1. ASSUME NEW i \in 1..n PROVE i + 1 \in 1..n + 1
      BY <1>2
    <3>2. QED
      BY <1>3, <3>1 DEF WellServed, NoGap
  <2>2. queue'[o] = <<>> => Known(o)' = object'[o].data
    <3>1. queue'[o] = <<>> => n = 0
      <4>1. queue'[o] = <<>> => 1 \notin DOMAIN queue'[o]
        OBVIOUS
      <4>2. n # 0 => 1 \in 1..n
        <5>1. n \in Nat
          BY <1>2
        <5>2. QED
          BY <5>1
      <4>3. QED
        BY <1>3, <4>1, <4>2, Zenon
    <3>2. n = 0 => Len(queue[o]) = 1
      BY <1>1, <1>2
    <3>3. QED
      BY <1>1, <1>3, <3>1, <3>2 DEF LastIsObject
  <2>3. QED
    BY <2>1, <2>2 DEF NoGap
<1>6. ChosenFor(o)' = ChosenFor(o) /\ Consumers(o, ChosenFor(o))' = Consumers(o, ChosenFor(o))
  BY DEF ChosenFor, Consumers
<1>7. ASSUME ChosenFor(o) # Invalid PROVE SelectorArrives(o)' /\ StaleAreCaught(o)'
  <2>1. SelectorArrives(o) /\ StaleAreCaught(o)
    BY <1>7 DEF WellServed
  <2>2. ASSUME NEW i \in DOMAIN queue'[o], LastChange(o, i)'
        PROVE  queue'[o][i].annotations.selector = ChosenFor(o)
    <3>1. i \in Nat \ {0} /\ i \in 1..n /\ i + 1 \in 1..n + 1
      BY <1>2, <1>3
    <3>2. Reloads(o, i + 1)
      BY <1>4, <2>2, <3>1 DEF LastChange
    <3>3. ASSUME NEW j \in DOMAIN queue[o], j > i + 1 PROVE ~Reloads(o, j)
      <4>1. /\ j - 1 \in Nat \ {0} /\ j - 1 \in DOMAIN queue'[o] /\ j - 1 > i /\ j - 1 + 1 = j
        BY <1>2, <1>3, <3>1, <3>3
      <4>2. ~Reloads(o, j - 1)'
        BY <2>2, <4>1 DEF LastChange
      <4>3. QED
        BY <1>4, <4>1, <4>2
    <3>4. LastChange(o, i + 1) /\ i + 1 \in DOMAIN queue[o]
      BY <1>3, <3>1, <3>2, <3>3 DEF LastChange
    <3>5. QED
      BY <1>3, <2>1, <3>1, <3>4 DEF SelectorArrives
  <2>3. SelectorArrives(o)'
    BY <1>6, <2>2 DEF SelectorArrives
  <2>4. ASSUME NothingWaits(o)', NEW p \in Consumers(o, ChosenFor(o)), Stale(o, p)'
        PROVE  WillGo(o, p)'
    <3>1. \A j \in DOMAIN queue[o] : j # 1 => ~Reloads(o, j)
      <4>1. SUFFICES ASSUME NEW j \in DOMAIN queue[o], j # 1 PROVE ~Reloads(o, j)
        OBVIOUS
      <4>2. j - 1 \in Nat \ {0} /\ j - 1 \in DOMAIN queue'[o] /\ j - 1 + 1 = j
        BY <1>2, <1>3, <4>1
      <4>3. ~Reloads(o, j - 1)'
        BY <2>4, <4>2 DEF NothingWaits
      <4>4. QED
        BY <1>4, <4>2, <4>3
    <3>2. Stale(o, p)
      BY <2>4 DEF Stale
    <3>3. CASE Reloads(o, 1)
      <4>1. 1 \in DOMAIN queue[o] /\ LastChange(o, 1)
        BY <1>2, <1>3, <3>1, <3>3 DEF LastChange
      <4>2. Head(queue[o]).annotations.selector = ChosenFor(o)
        BY <1>3, <2>1, <4>1 DEF SelectorArrives
      <4>3. task'[o].at = "discover"
        BY <1>7, <3>3, <4>2
      <4>4. task' # task
        BY <1>1, <4>3 DEF Idle
      <4>5. task'[o].selector = ChosenFor(o)
        BY <4>2, <4>4
      <4>6. QED
        BY <4>3, <4>5 DEF WillGo, Consumers
    <3>4. CASE ~Reloads(o, 1)
      <4>1. NothingWaits(o)
        BY <3>1, <3>4 DEF NothingWaits
      <4>2. WillGo(o, p)
        BY <2>1, <3>2, <4>1 DEF StaleAreCaught
      <4>3. ~WillGo(o, p)
        BY <1>1 DEF WillGo, Idle
      <4>4. QED
        BY <4>2, <4>3
    <3>5. QED
      BY <3>3, <3>4
  <2>5. StaleAreCaught(o)'
    BY <1>6, <2>4 DEF StaleAreCaught
  <2>6. QED
    BY <2>3, <2>5
<1>8. QED
  BY <1>5, <1>6, <1>7 DEF WellServed

(* The steps of a reload: a pod that was to go goes, or is still to go.    *)
LEMMA ReloadKeepsPods ==
  ASSUME TypeOK, Fresh, NEW o \in Object, Reload(o), NEW q \in Object, NEW p \in Pod, Stale(q, p)'
  PROVE  Stale(q, p) /\ (WillGo(q, p) => WillGo(q, p)')
<1>0. /\ task[o] \in Task /\ task \in [Object -> Task] /\ pod \in [Pod -> PodState] /\ object' = object
      /\ \A r \in Object : r # o => task'[r] = task[r]
      /\ task[o].pods \cup task[o].evict # {} => task[o].at = "reload"
  BY ReloadKnows DEF TypeOK
<1>1. CASE FindPods(o)
  <2>1. pod' = pod /\ task[o].at = "discover" /\ task[o].handled = {}
    BY <1>1 DEF FindPods, Fresh
  <2>2. Stale(q, p) /\ pod[p].state = "running"
    BY <1>0, <2>1 DEF Stale
  <2>3. /\ task'[o].pods = {s \in Pod : s \in Consumers(o, task[o].selector) /\ pod[s].state = "running"}
        /\ task'[o].handled = task[o].handled /\ task'[o].evict = task[o].evict
    BY <1>0, <1>1 DEF FindPods, Task
  <2>4. WillGo(q, p) => WillGo(q, p)'
    <3>1. CASE q = o
      BY <1>0, <2>1, <2>2, <2>3, <3>1 DEF WillGo
    <3>2. CASE q # o
      BY <1>0, <3>2 DEF WillGo
    <3>3. QED
      BY <3>1, <3>2
  <2>5. QED
    BY <2>2, <2>4
<1>2. ASSUME NEW s \in Pod, SetAside(o, s) PROVE Stale(q, p) /\ (WillGo(q, p) => WillGo(q, p)')
  <2>1. /\ pod' = pod /\ ~Handled(Owner[s]) /\ s \in task[o].pods /\ task[o].at = "reload"
        /\ task'[o].pods = task[o].pods \ {s} /\ task'[o].handled = task[o].handled
        /\ task'[o].evict = task[o].evict \cup {s}
    BY <1>0, <1>2 DEF SetAside, Task
  <2>2. Stale(q, p)
    BY <1>0, <2>1 DEF Stale
  <2>3. CASE q = o
    BY <2>1, <2>2, <2>3 DEF WillGo
  <2>4. CASE q # o
    BY <1>0, <2>2, <2>4 DEF WillGo
  <2>5. QED
    BY <2>3, <2>4
<1>3. ASSUME NEW s \in Pod, RestartController(o, s) PROVE Stale(q, p) /\ (WillGo(q, p) => WillGo(q, p)')
  <2> DEFINE c == Owner[s]
  <2>1. c \in Controller /\ c # None /\ s \in task[o].pods /\ task[o].at = "reload" /\ Handled(c)
    BY <1>0, <1>3, HandledOwner, PodsAssumption DEF RestartController
  <2>2. CASE c \in task[o].handled
    <3>1. /\ pod' = pod /\ task'[o].pods = task[o].pods \ {s} /\ task'[o].handled = task[o].handled
          /\ task'[o].evict = task[o].evict
      BY <1>0, <1>3, <2>2 DEF RestartController, Task
    <3>2. Stale(q, p)
      BY <1>0, <3>1 DEF Stale
    <3>3. CASE q = o
      BY <2>1, <2>2, <3>1, <3>2, <3>3 DEF WillGo
    <3>4. CASE q # o
      BY <1>0, <3>2, <3>4 DEF WillGo
    <3>5. QED
      BY <3>3, <3>4
  <2>3. CASE c \notin task[o].handled
    <3>1. /\ task'[o].pods = task[o].pods \ {s} /\ task'[o].handled = task[o].handled \cup {c}
          /\ task'[o].evict = task[o].evict
          /\ pod' = IF ControllerKind[c] = "ReplicaSet" THEN pod
                    ELSE [r \in Pod |-> IF Owner[r] = c THEN Leaving(r) ELSE pod[r]]
      BY <1>0, <1>3, <2>3 DEF RestartController, Task
    <3>2. Owner[p] # c /\ Stale(q, p)
      <4>1. CASE Owner[p] = c
        <5>1. ControllerKind[c] # "ReplicaSet"
          BY <2>1, <4>1 DEF Stale, Reloadable
        <5>2. pod'[p] = Leaving(p)
          BY <3>1, <4>1, <5>1
        <5>3. Leaving(p).state # "running"
          BY <1>0 DEF Leaving, PodState
        <5>4. QED
          BY <5>2, <5>3 DEF Stale
      <4>2. CASE Owner[p] # c
        <5>1. pod'[p] = pod[p]
          BY <3>1, <4>2
        <5>2. QED
          BY <1>0, <4>2, <5>1 DEF Stale
      <4>3. QED
        BY <4>1, <4>2
    <3>3. CASE q = o
      BY <2>1, <3>1, <3>2, <3>3 DEF WillGo
    <3>4. CASE q # o
      BY <1>0, <3>2, <3>4 DEF WillGo
    <3>5. QED
      BY <3>3, <3>4
  <2>4. QED
    BY <2>2, <2>3
<1>4. ASSUME NEW s \in Pod, EvictPod(o, s) PROVE Stale(q, p) /\ (WillGo(q, p) => WillGo(q, p)')
  <2>1. /\ pod' = [pod EXCEPT ![s] = Leaving(s)] /\ task[o].at = "reload"
        /\ task'[o].pods = task[o].pods /\ task'[o].handled = task[o].handled
        /\ task'[o].evict = task[o].evict \ {s}
    BY <1>0, <1>4 DEF EvictPod, Task
  <2>2. p # s /\ Stale(q, p)
    <3>1. Leaving(s).state # "running"
      BY <1>0 DEF Leaving, PodState
    <3>2. p # s
      BY <1>0, <2>1, <3>1 DEF Stale
    <3>3. pod'[p] = pod[p]
      BY <1>0, <2>1, <3>2
    <3>4. QED
      BY <1>0, <3>2, <3>3 DEF Stale
  <2>3. CASE q = o
    BY <2>1, <2>2, <2>3 DEF WillGo
  <2>4. CASE q # o
    BY <1>0, <2>2, <2>4 DEF WillGo
  <2>5. QED
    BY <2>3, <2>4
<1>5. CASE FinishReload(o)
  <2>1. pod' = pod /\ task[o].at = "reload" /\ task[o].pods = {} /\ task[o].evict = {}
    BY <1>5 DEF FinishReload
  <2>2. Stale(q, p)
    BY <1>0, <2>1 DEF Stale
  <2>3. WillGo(q, p) => WillGo(q, p)'
    <3>1. CASE q = o
      BY <2>1, <3>1 DEF WillGo
    <3>2. CASE q # o
      BY <1>0, <3>2 DEF WillGo
    <3>3. QED
      BY <3>1, <3>2
  <2>4. QED
    BY <2>2, <2>3
<1>6. QED
  BY <1>1, <1>2, <1>3, <1>4, <1>5 DEF Reload

(* Steps that publish nothing and take nothing from a queue.               *)
LEMMA ServedElsewhere ==
  ASSUME TypeOK, Fresh, ReloadInv, Undisturbed,
         \/ \E o \in Object : Reload(o)
         \/ \E p \in Pod : Replace(p)
         \/ CleanControllers \/ FailCleanup,
         NEW q \in Object, object'[q].data # None
  PROVE  WellServed(q)'
<1>1. UNCHANGED <<object, chosen>> /\ queue'[q] = queue[q] /\ Known(q)' = Known(q)
  <2>1. ASSUME NEW o \in Object, Reload(o)
        PROVE  UNCHANGED <<object, chosen>> /\ queue'[q] = queue[q] /\ Known(q)' = Known(q)
    BY <2>1, ReloadKnows
  <2>2. CASE (\E p \in Pod : Replace(p)) \/ CleanControllers \/ FailCleanup
    BY <2>2 DEF Replace, memory, history, CleanControllers, FailCleanup, Known
  <2>3. QED
    BY <2>1, <2>2
<1>2. WellServed(q)
  BY <1>1 DEF ReloadInv
<1>3. ASSUME NEW p \in Pod, Stale(q, p)'
      PROVE  Stale(q, p) /\ (WillGo(q, p) => WillGo(q, p)')
  <2>1. ASSUME NEW o \in Object, Reload(o) PROVE Stale(q, p) /\ (WillGo(q, p) => WillGo(q, p)')
    BY <1>3, <2>1, ReloadKeepsPods
  <2>2. ASSUME NEW s \in Pod, Replace(s) PROVE Stale(q, p) /\ (WillGo(q, p) => WillGo(q, p)')
    <3>1. /\ task' = task /\ object' = object /\ pod \in [Pod -> PodState]
          /\ pod' = [pod EXCEPT ![s] = [state |-> IF Owner[s] = None THEN "gone" ELSE "running", runs |-> Runs]]
      BY <2>2 DEF Replace, memory, TypeOK
    <3>2. Runs[q] = object[q].data
      BY DEF Runs
    <3>3. p # s
      BY <1>3, <3>1, <3>2 DEF Stale
    <3>4. pod'[p] = pod[p]
      BY <3>1, <3>3
    <3>5. QED
      BY <1>3, <3>1, <3>4 DEF Stale, WillGo
  <2>3. CASE CleanControllers \/ FailCleanup
    <3>1. UNCHANGED <<object, pod, task>>
      BY <2>3 DEF CleanControllers, FailCleanup
    <3>2. QED
      BY <1>3, <3>1 DEF Stale, WillGo
  <2>4. QED
    BY <2>1, <2>2, <2>3
<1>4. ChosenFor(q)' = ChosenFor(q)
  BY <1>1 DEF ChosenFor
<1>5. QED
  BY <1>1, <1>2, <1>3, <1>4, ServedSame

(* Another object than the one a step is about.                            *)
LEMMA ServedOther ==
  ASSUME TypeOK, NEW q \in Object, WellServed(q), queue'[q] = queue[q], cache'[q] = cache[q], task'[q] = task[q],
         object'[q] = object[q], ChosenFor(q)' = ChosenFor(q), pod' = pod
  PROVE  WellServed(q)'
<1>1. Known(q)' = Known(q)
  BY DEF Known
<1>2. \A p \in Pod : Stale(q, p)' => Stale(q, p) /\ (WillGo(q, p) => WillGo(q, p)')
  BY DEF Stale, WillGo
<1>3. QED
  BY <1>1, <1>2, ServedSame

(* Steps that publish a version of an object.                              *)
LEMMA ServedPublished ==
  ASSUME TypeOK, LastIsObject, MeshPlain, ReloadInv, Undisturbed, Undisturbed',
         \/ \E o \in Object, d \in Data \cup {None} : ChangeData(o, d)
         \/ \E r \in Resource, s \in Selectors : Annotate(r, s)
         \/ MarkComplete,
         NEW q \in Object, object'[q].data # None
  PROVE  WellServed(q)'
<1>1. ASSUME NEW o \in Object, NEW d \in Data \cup {None}, ChangeData(o, d) PROVE WellServed(q)'
  <2> DEFINE new == [data |-> d, annotations |-> IF d = None THEN NoAnnotations ELSE object[o].annotations]
  <2>1. /\ Publish(o, new) /\ UNCHANGED <<task, cache, pod>> /\ new.data = d
        /\ chosen' = IF o = Mesh THEN chosen ELSE [chosen EXCEPT ![o] = object[o].annotations.selector]
        /\ trouble' = trouble \cup (IF object[o].data = None THEN {"created again"} ELSE {})
    BY <1>1 DEF ChangeData
  <2> HIDE DEF new
  <2>2. object'[o] = new /\ \A r \in Object : r # o => queue'[r] = queue[r] /\ object'[r] = object[r]
    BY <2>1, PublishedQueue
  <2>3. CASE q = o
    <3>1. d \in Data
      BY <2>1, <2>2, <2>3
    <3>2. object[o].data # None
      BY <2>1 DEF Undisturbed
    <3>3. WellServed(o)
      BY <3>2 DEF ReloadInv
    <3>4. QED
      BY <1>1, <2>3, <3>1, <3>2, <3>3, ServedChanged
  <2>4. CASE q # o
    <3>1. queue'[q] = queue[q] /\ object'[q] = object[q]
      BY <2>2, <2>4
    <3>2. ChosenFor(q)' = ChosenFor(q)
      BY <2>1, <2>4 DEF ChosenFor, TypeOK, Object
    <3>3. WellServed(q)
      BY <3>1 DEF ReloadInv
    <3>4. QED
      BY <2>1, <3>1, <3>2, <3>3, ServedOther
  <2>5. QED
    BY <2>3, <2>4
<1>2. ASSUME NEW r \in Resource, NEW new, Publish(r, new), new.data = object[r].data,
             UNCHANGED <<task, cache, pod, chosen>>
      PROVE  WellServed(q)'
  <2>1. r \in Object /\ object'[r] = new
        /\ \A o \in Object : o # r => queue'[o] = queue[o] /\ object'[o] = object[o]
    BY <1>2, PublishedQueue DEF Object
  <2>2. CASE q = r
    <3>1. object[r].data # None
      BY <1>2, <2>1, <2>2
    <3>2. WellServed(r)
      BY <2>1, <3>1 DEF ReloadInv
    <3>3. QED
      BY <1>2, <2>2, <3>1, <3>2, ServedAnnotated
  <2>3. CASE q # r
    <3>1. queue'[q] = queue[q] /\ object'[q] = object[q] /\ WellServed(q)
      BY <2>1, <2>3 DEF ReloadInv
    <3>2. ChosenFor(q)' = ChosenFor(q)
      BY <1>2 DEF ChosenFor
    <3>3. QED
      BY <1>2, <3>1, <3>2, ServedOther
  <2>4. QED
    BY <2>2, <2>3
<1>3. ASSUME NEW r \in Resource, NEW s \in Selectors, Annotate(r, s) PROVE WellServed(q)'
  <2> DEFINE new == [object[r] EXCEPT !.annotations.map = TRUE, !.annotations.selector = s]
  <2>1. Publish(r, new) /\ UNCHANGED <<task, cache, pod, chosen>>
    BY <1>3 DEF Annotate, history
  <2>2. new.data = object[r].data
    BY DEF TypeOK, Snapshot, Object
  <2> HIDE DEF new
  <2>3. QED
    BY <1>2, <2>1, <2>2
<1>4. CASE MarkComplete
  <2>1. cleanups # <<>> /\ UNCHANGED <<task, cache, pod, chosen>>
    BY <1>4 DEF MarkComplete, history
  <2>2. CASE UNCHANGED <<object, queue>>
    <3>1. WellServed(q) /\ ChosenFor(q)' = ChosenFor(q)
      BY <2>1, <2>2 DEF ReloadInv, ChosenFor
    <3>2. QED
      BY <2>1, <2>2, <3>1, ServedOther
  <2>3. CASE ~UNCHANGED <<object, queue>>
    <3> DEFINE r == Head(cleanups).of
               now == object[r].annotations
               old == Head(cleanups).annotations
               new == [object[r] EXCEPT !.annotations =
                         [map |-> TRUE, complete |-> TRUE, selector |-> IF old.map THEN now.selector ELSE None]]
    <3>1. Publish(r, new)
      BY <1>4, <2>3 DEF MarkComplete
    <3>2. r \in Resource
      BY <2>1, CleanupsTyped DEF Cleanup
    <3>3. new.data = object[r].data
      BY <3>2 DEF TypeOK, Snapshot, Object
    <3> HIDE DEF new, r
    <3>4. QED
      BY <1>2, <2>1, <3>1, <3>2, <3>3
  <2>4. QED
    BY <2>2, <2>3
<1>5. QED
  BY <1>1, <1>3, <1>4

LEMMA ReloadInvNext == TypeOK /\ LastIsObject /\ MeshPlain /\ Fresh /\ ReloadInv /\ [Next]_vars => ReloadInv'
<1> SUFFICES ASSUME TypeOK, LastIsObject, MeshPlain, Fresh, ReloadInv, [Next]_vars, Undisturbed',
                    NEW q \in Object, object'[q].data # None
             PROVE  WellServed(q)'
  BY DEF ReloadInv
<1>1. ~Restart /\ \A o \in Object : ~FailReload(o)
  BY DEF Restart, FailReload, Undisturbed
<1>2. Undisturbed
  <2>1. trouble \subseteq trouble'
    <3>1. CASE UNCHANGED vars
      BY <3>1 DEF vars
    <3>2. QED
      BY <1>1, <3>1, HandleFrame, HandleMeshFrame, ReloadFrame, FailReloadFrame, ReplaceFrame, CleanupFrame,
         PublishFrame DEF Next
  <2>2. QED
    BY <2>1 DEF Undisturbed
<1>3. CASE (\E r \in Resource : Handle(r)) \/ HandleMesh
  <2>1. PICK o \in Object :
           /\ Dequeue(o) /\ Known(o)' = Head(queue[o]).data /\ object' = object
           /\ \A r \in Object : r # o => task'[r] = task[r] /\ cache'[r] = cache[r] /\ queue'[r] = queue[r]
           /\ \/ task' = task
              \/ /\ task'[o].at = "discover" /\ task'[o].data = Head(queue[o]).data
                 /\ task'[o].selector = Head(queue[o]).annotations.selector /\ Reloads(o, 1)
           /\ Reloads(o, 1) /\ Head(queue[o]).annotations.selector # Invalid => task'[o].at = "discover"
    BY <1>3, HandlingKnows
  <2>2. UNCHANGED <<pod, chosen>>
    BY <1>3 DEF Handle, HandleChange, HandleFirst, HandleDelete, HandleMesh, history
  <2>3. WellServed(q)
    BY <1>2, <2>1 DEF ReloadInv
  <2>4. CASE q = o
    BY <2>1, <2>2, <2>3, <2>4, ServedHandled
  <2>5. CASE q # o
    <3>1. ChosenFor(q)' = ChosenFor(q)
      BY <2>2 DEF ChosenFor
    <3>2. QED
      BY <2>1, <2>2, <2>3, <2>5, <3>1, ServedOther
  <2>6. QED
    BY <2>4, <2>5
<1>4. CASE \/ \E o \in Object : Reload(o)
           \/ \E p \in Pod : Replace(p)
           \/ CleanControllers \/ FailCleanup
  BY <1>2, <1>4, ServedElsewhere
<1>5. CASE \/ \E o \in Object, d \in Data \cup {None} : ChangeData(o, d)
           \/ \E r \in Resource, s \in Selectors : Annotate(r, s)
           \/ MarkComplete
  BY <1>2, <1>5, ServedPublished
<1>6. CASE UNCHANGED vars
  <2>1. UNCHANGED <<object, queue, cache, task, pod, chosen>>
    BY <1>6 DEF vars
  <2>2. WellServed(q) /\ ChosenFor(q)' = ChosenFor(q)
    BY <1>2, <2>1 DEF ReloadInv, ChosenFor
  <2>3. QED
    BY <2>1, <2>2, ServedOther
<1>7. QED
  BY <1>1, <1>3, <1>4, <1>5, <1>6 DEF Next

(* The annotations of the mesh configuration, and what a handler has done  *)
(* before it has found pods.                                               *)
LEMMA PlainNext == TypeOK /\ MeshPlain /\ [Next]_vars => MeshPlain'
<1> SUFFICES ASSUME TypeOK, MeshPlain, [Next]_vars PROVE MeshPlain'
  OBVIOUS
<1>0. Mesh \in Object /\ Mesh \notin Resource /\ queue[Mesh] \in Seq(Snapshot)
  BY DataAssumption DEF Object, TypeOK
<1>1. ASSUME object'[Mesh] = object[Mesh], queue'[Mesh] = queue[Mesh] PROVE MeshPlain'
  BY <1>1 DEF MeshPlain
<1>2. ASSUME NEW r \in Resource, NEW new, Publish(r, new) PROVE MeshPlain'
  <2>1. r \in Object /\ r # Mesh
    BY <1>0 DEF Object
  <2>2. object'[Mesh] = object[Mesh] /\ queue'[Mesh] = queue[Mesh]
    BY <1>0, <1>2, <2>1, PublishedQueue
  <2>3. QED
    BY <1>1, <2>2
<1>3. ASSUME NEW o \in Object, NEW d \in Data \cup {None}, ChangeData(o, d) PROVE MeshPlain'
  <2> DEFINE new == [data |-> d, annotations |-> IF d = None THEN NoAnnotations ELSE object[o].annotations]
  <2>1. Publish(o, new) /\ (o = Mesh => d # None)
    BY <1>3 DEF ChangeData
  <2>2. o = Mesh => new.annotations = object[Mesh].annotations
    BY <2>1
  <2> HIDE DEF new
  <2>3. CASE o = Mesh
    <3>1. /\ DOMAIN queue'[o] = 1..Len(queue[o]) + 1 /\ DOMAIN queue[o] = 1..Len(queue[o]) /\ Len(queue[o]) \in Nat
          /\ queue'[o][Len(queue[o]) + 1] = new /\ \A j \in DOMAIN queue[o] : queue'[o][j] = queue[o][j]
          /\ object'[o] = new
      BY <2>1, PublishedQueue
    <3>2. QED
      BY <2>2, <2>3, <3>1 DEF MeshPlain
  <2>4. CASE o # Mesh
    <3>1. o \in Resource
      BY <2>4 DEF Object
    <3>2. QED
      BY <1>2, <2>1, <3>1
  <2>5. QED
    BY <2>3, <2>4
<1>4. ASSUME NEW r \in Resource, NEW s \in Selectors, Annotate(r, s) PROVE MeshPlain'
  BY <1>2, <1>4 DEF Annotate
<1>5. CASE MarkComplete
  <2>1. cleanups # <<>>
    BY <1>5 DEF MarkComplete
  <2>2. Head(cleanups).of \in Resource
    BY <2>1, CleanupsTyped DEF Cleanup
  <2>3. UNCHANGED <<object, queue>> \/ \E new : Publish(Head(cleanups).of, new)
    BY <1>5 DEF MarkComplete
  <2>4. QED
    BY <1>1, <1>2, <2>2, <2>3
<1>6. CASE (\E r \in Resource : Handle(r)) \/ HandleMesh
  <2>1. PICK o \in Object : Dequeue(o) /\ object' = object
                            /\ \A q \in Object : q # o => queue'[q] = queue[q]
    BY <1>6, HandlingKnows
  <2>2. CASE o # Mesh
    BY <1>0, <1>1, <2>1, <2>2
  <2>3. CASE o = Mesh
    <3>1. queue[o] \in Seq(Snapshot) /\ queue[o] # <<>> /\ queue'[o] = Tail(queue[o])
      BY <2>1 DEF Dequeue, TypeOK
    <3>2. \A i \in DOMAIN queue'[o] : i + 1 \in DOMAIN queue[o] /\ queue'[o][i] = queue[o][i + 1]
      BY <3>1
    <3>3. QED
      BY <2>1, <2>3, <3>2 DEF MeshPlain
  <2>4. QED
    BY <2>2, <2>3
<1>7. CASE Restart
  <2>1. object' = object /\ queue'[Mesh] \in {<<>>, <<object[Mesh]>>}
    BY <1>0, <1>7 DEF Restart
  <2>2. \A e : <<e>>[1] = e /\ \A i \in DOMAIN <<e>> : i = 1
    OBVIOUS
  <2>3. DOMAIN <<>> = {}
    OBVIOUS
  <2>4. \A i \in DOMAIN queue'[Mesh] : queue'[Mesh][i] = object[Mesh]
    <3>1. CASE queue'[Mesh] = <<>>
      BY <2>3, <3>1
    <3>2. CASE queue'[Mesh] = <<object[Mesh]>>
      BY <2>2, <3>2
    <3>3. QED
      BY <2>1, <3>1, <3>2
  <2>5. QED
    BY <2>1, <2>4 DEF MeshPlain
<1>8. CASE \/ CleanControllers \/ FailCleanup \/ \E o \in Object : Reload(o) \/ FailReload(o)
           \/ \E p \in Pod : Replace(p)
  <2>1. UNCHANGED <<object, queue>>
    BY <1>8, CleanupFrame, FailReloadFrame, ReplaceFrame, ReloadFrame
  <2>2. QED
    BY <1>1, <2>1
<1>9. CASE UNCHANGED vars
  BY <1>1, <1>9 DEF vars
<1>10. QED
  BY <1>3, <1>4, <1>5, <1>6, <1>7, <1>8, <1>9 DEF Next

LEMMA FreshNext == TypeOK /\ Fresh /\ [Next]_vars => Fresh'
<1> SUFFICES ASSUME TypeOK, Fresh, [Next]_vars PROVE Fresh'
  OBVIOUS
<1>0. task \in [Object -> Task] /\ \A o \in Object : task[o] \in Task
  BY DEF TypeOK
<1>1. CASE UNCHANGED task
  BY <1>1 DEF Fresh
<1>2. ASSUME NEW o \in Object, \A q \in Object : q # o => task'[q] = task[q],
             task'[o].at # "discover" \/ task'[o].handled = {}
      PROVE  Fresh'
  BY <1>2 DEF Fresh
<1>3. ASSUME NEW o \in Object, NEW e, Discover(o, e) PROVE Fresh'
  <2>1. task'[o].handled = {} /\ \A q \in Object : q # o => task'[q] = task[q]
    BY <1>0, <1>3 DEF Discover, Idle
  <2>2. QED
    BY <1>2, <2>1
<1>4. CASE (\E r \in Resource : Handle(r)) \/ HandleMesh
  <2>1. UNCHANGED task \/ \E o \in Object : Discover(o, Head(queue[o]))
    BY <1>4 DEF Handle, HandleChange, HandleFirst, HandleDelete, HandleMesh, Object
  <2>2. QED
    BY <1>1, <1>3, <2>1
<1>5. ASSUME NEW o \in Object, Reload(o) PROVE Fresh'
  <2>1. \A q \in Object : q # o => task'[q] = task[q]
    BY <1>5, ReloadKnows
  <2>2. task'[o].at # "discover"
    <3>1. task[o].pods \cup task[o].evict # {} => task[o].at = "reload"
      BY DEF TypeOK
    <3>2. CASE FindPods(o) \/ FinishReload(o)
      BY <1>0, <3>2 DEF FindPods, FinishReload, Task, Idle
    <3>3. ASSUME NEW p \in Pod, SetAside(o, p) \/ EvictPod(o, p) PROVE task'[o].at = "reload"
      BY <1>0, <3>1, <3>3 DEF SetAside, EvictPod, Task
    <3>4. ASSUME NEW p \in Pod, RestartController(o, p) PROVE task'[o].at = "reload"
      <4>1. CASE Owner[p] \in task[o].handled
        BY <1>0, <3>1, <3>4, <4>1 DEF RestartController, Task
      <4>2. CASE Owner[p] \notin task[o].handled
        BY <1>0, <3>1, <3>4, <4>2 DEF RestartController, Task
      <4>3. QED
        BY <4>1, <4>2
    <3>5. QED
      BY <1>5, <3>2, <3>3, <3>4 DEF Reload
  <2>3. QED
    BY <1>2, <2>1, <2>2
<1>6. ASSUME NEW o \in Object, FailReload(o) PROVE Fresh'
  <2>1. /\ \A q \in Object : q # o => task'[q] = task[q]
        /\ task'[o].at = "idle" \/ (task'[o].at = task[o].at /\ task'[o].handled = task[o].handled)
    BY <1>0, <1>6 DEF FailReload, Task, Idle
  <2>2. task'[o].at # "discover" \/ task'[o].handled = {}
    BY <2>1 DEF Fresh
  <2>3. QED
    BY <1>2, <2>1, <2>2
<1>7. CASE Restart
  BY <1>7 DEF Restart, Fresh, Idle
<1>8. CASE \/ \E o \in Object, d \in Data \cup {None} : ChangeData(o, d)
           \/ \E r \in Resource, s \in Selectors : Annotate(r, s)
           \/ \E p \in Pod : Replace(p)
           \/ CleanControllers \/ MarkComplete \/ FailCleanup
           \/ UNCHANGED vars
  BY <1>1, <1>8 DEF ChangeData, Annotate, Replace, memory, CleanControllers, MarkComplete, FailCleanup, vars
<1>9. QED
  BY <1>4, <1>5, <1>6, <1>7, <1>8 DEF Next

(* At the start every pod runs the data there is.                          *)
LEMMA ReloadInit == Init => MeshPlain /\ Fresh /\ ReloadInv
<1> SUFFICES ASSUME Init PROVE MeshPlain /\ Fresh /\ ReloadInv
  OBVIOUS
<1>0. Mesh \in Object /\ Mesh \notin Resource
  BY DataAssumption DEF Object
<1>1. /\ object \in [Object -> [data : {InitialData}, annotations : {NoAnnotations, [NoAnnotations EXCEPT !.map = TRUE]}]]
      /\ queue = [o \in Object |-> <<object[o]>>] /\ task = [o \in Object |-> Idle]
      /\ pod = [p \in Pod |-> [state |-> "running", runs |-> Runs]]
      /\ object[Mesh].annotations = NoAnnotations
  BY DEF Init
<1>2. \A e : <<e>> # <<>> /\ <<e>>[1] = e /\ \A i \in DOMAIN <<e>> : i = 1
  OBVIOUS
<1>3. MeshPlain
  BY <1>0, <1>1, <1>2 DEF MeshPlain, NoAnnotations
<1>4. Fresh
  BY <1>1 DEF Fresh, Idle
<1>5. ASSUME NEW o \in Object PROVE WellServed(o)
  <2>1. queue[o] = <<object[o]>> /\ object[o].data = InitialData /\ InitialData # None
    BY <1>1, DataAssumption
  <2>2. NoGap(o)
    BY <1>2, <2>1 DEF NoGap
  <2>3. \A i : ~Reloads(o, i)
    <3>1. SUFFICES ASSUME NEW i, Reloads(o, i) PROVE FALSE
      OBVIOUS
    <3>2. i = 1 /\ queue[o][i].data = InitialData
      BY <1>2, <2>1, <3>1 DEF Reloads
    <3>3. Before(o, i) = cache[o]
      BY <1>1, <3>2 DEF Before, Known, Idle
    <3>4. cache[o] = IF o = Mesh THEN InitialData ELSE None
      BY DEF Init
    <3>5. QED
      BY <3>1, <3>2, <3>3, <3>4 DEF Reloads
  <2>4. SelectorArrives(o)
    BY <2>3 DEF SelectorArrives, LastChange
  <2>5. ASSUME ChosenFor(o) # Invalid PROVE StaleAreCaught(o)
    <3>1. TypeOK
      BY InitTyped
    <3>2. Consumers(o, ChosenFor(o)) \subseteq Pod
      BY <2>5, <3>1, ConsumersArePods
    <3>3. \A p \in Pod : ~Stale(o, p)
      BY <1>1 DEF Stale, Runs
    <3>4. QED
      BY <3>2, <3>3 DEF StaleAreCaught
  <2>6. QED
    BY <2>2, <2>4, <2>5 DEF WellServed
<1>6. QED
  BY <1>3, <1>4, <1>5 DEF ReloadInv

(* When nothing is left to do every pod that uses an object, or that its   *)
(* selector names, started after the object's last change, unless a        *)
(* request failed, the operator started again or an object was created     *)
(* again.                                                                  *)
THEOREM PodsAreReloaded == Spec => []PodsRunLatest
<1>1. TypeOK /\ ReloadInv => PodsRunLatest
  <2>0. SUFFICES ASSUME TypeOK, ReloadInv, Quiet, trouble \cap {"request", "restart", "created again"} = {},
                      NEW o \in Object, ChosenFor(o) # Invalid, object[o].data # None,
                      NEW p \in Consumers(o, ChosenFor(o)), pod[p].state = "running", Reloadable(p)
               PROVE  pod[p].runs[o] = object[o].data
    BY DEF PodsRunLatest, ChosenFor
  <2>1. StaleAreCaught(o)
    BY <2>0 DEF ReloadInv, Undisturbed, WellServed
  <2>2. task[o] = Idle /\ queue[o] = <<>>
    BY <2>0 DEF Quiet
  <2>3. NothingWaits(o)
    <3>1. DOMAIN queue[o] = {}
      BY <2>2
    <3>2. QED
      BY <3>1 DEF NothingWaits
  <2>4. ~WillGo(o, p)
    <3>1. task[o].at = "idle" /\ task[o].pods = {} /\ task[o].evict = {}
      BY <2>2 DEF Idle
    <3>2. QED
      BY <3>1 DEF WillGo
  <2>5. QED
    BY <2>0, <2>1, <2>3, <2>4 DEF StaleAreCaught, Stale
<1>2. QED
  BY <1>1, LastNext, RestartsInit, PlainNext, FreshNext, ReloadInvNext, ReloadInit, TypeCorrect, PTL DEF Spec

=============================================================================
