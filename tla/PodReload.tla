------------------------------ MODULE PodReload ------------------------------
(***************************************************************************)
(* Reloading pods when a labelled Secret or ConfigMap changes              *)
(* (reload/pod-reload.ts, reload/reload-utils.ts), and the gateways when   *)
(* the mesh configuration does (istio/istio-configmap-sync.ts). A handler  *)
(* compares the object with what it remembers, looks for the pods that use *)
(* it and restarts their controllers or evicts them. Handlers of one       *)
(* object run one after another, those of different objects overlap.       *)
(*                                                                         *)
(* A pod reads the objects when it starts. The checksum of data is the     *)
(* data itself; the mesh configuration is its gateway topology.            *)
(***************************************************************************)
EXTENDS Naturals, Sequences, FiniteSets

CONSTANTS Resource, Mesh,     \* labelled objects; the mesh configuration
          Data, InitialData, None,
          Controller, ControllerKind,   \* controller -> kind, a ReplicaSet's parent resolved
          Pod, Owner,                   \* pod -> controller, or None
          Uses,                         \* object -> pods that mount or reference it
          Selectors, Invalid,           \* values of the selector: None, Invalid, sets of pods
          MaxChanges,  \* bound: changes of the objects and their annotations
          MaxFaults    \* bound: failing requests and restarts of the operator

Object == Resource \cup {Mesh}
Selector == {None, Invalid} \cup SUBSET Pod

ASSUME DataAssumption == InitialData \in Data /\ None \notin Data /\ Mesh \notin Resource

ASSUME PodsAssumption ==
  /\ Owner \in [Pod -> Controller \cup {None}] /\ None \notin Controller /\ Controller \cap Pod = {}
  /\ Uses \in [Object -> SUBSET Pod] /\ \A s \in Selectors : s \in Selector

ASSUME BoundsAssumption == {MaxChanges, MaxFaults} \subseteq Nat

VARIABLES object,    \* object -> [data, annotations], data None while deleted
          claimed,   \* controllers of which the operator owns fields it should not
          pod,       \* pod -> [state, runs: object -> data it started with]
          queue,     \* object -> snapshots still to handle
          cache,     \* object -> remembered checksum, None without one
          task,      \* object -> its handler
          cleanups,  \* startupCleanupQueue, its head in progress
          restarts,  \* history: controller or pod -> how often it was told to restart
          chosen,    \* history: resource -> the selector when its data changed last
          starts,    \* history: how often the operator started again
          changes, faults,
          trouble    \* history: what went wrong

vars == <<object, claimed, pod, queue, cache, task, cleanups, restarts, chosen, starts,
          changes, faults, trouble>>
memory == <<queue, cache, task, cleanups>>
history == <<restarts, chosen, starts>>

NoAnnotations == [map |-> FALSE, complete |-> FALSE, selector |-> None]
Idle == [at |-> "idle", data |-> None, selector |-> None, pods |-> {}, handled |-> {}, evict |-> {}]
Runs == [o \in Object |-> object[o].data]

(* The operator starts beside pods that run the data there is; an older    *)
(* version of it has applied every controller whole.                       *)
Init ==
  /\ object \in [Object -> [data : {InitialData}, annotations : {NoAnnotations, [NoAnnotations EXCEPT !.map = TRUE]}]]
  /\ object[Mesh].annotations = NoAnnotations
  /\ claimed = Controller
  /\ pod = [p \in Pod |-> [state |-> "running", runs |-> Runs]]
  /\ queue = [o \in Object |-> <<object[o]>>]
  /\ cache = [o \in Object |-> IF o = Mesh THEN InitialData ELSE None]
  /\ task = [o \in Object |-> Idle] /\ cleanups = <<>>
  /\ restarts = [x \in Controller \cup Pod |-> 0] /\ chosen = [r \in Resource |-> None] /\ starts = 0
  /\ changes = 0 /\ faults = 0 /\ trouble = {}

----------------------------------------------------------------------------
(* The cluster. An object that is created anew has no annotations.         *)
Publish(o, new) == object' = [object EXCEPT ![o] = new] /\ queue' = [queue EXCEPT ![o] = Append(@, new)]

ChangeData(o, d) ==
  /\ changes < MaxChanges /\ object[o].data # d /\ (d = None => o # Mesh)
  /\ Publish(o, [data |-> d, annotations |-> IF d = None THEN NoAnnotations ELSE object[o].annotations])
  /\ chosen' = IF o = Mesh THEN chosen ELSE [chosen EXCEPT ![o] = object[o].annotations.selector]
  /\ trouble' = trouble \cup (IF object[o].data = None THEN {"created again"} ELSE {})
  /\ changes' = changes + 1
  /\ UNCHANGED <<claimed, pod, cache, task, cleanups, restarts, starts, faults>>

Annotate(r, s) ==
  /\ changes < MaxChanges /\ object[r].data # None /\ object[r].annotations.selector # s
  /\ Publish(r, [object[r] EXCEPT !.annotations.map = TRUE, !.annotations.selector = s])
  /\ changes' = changes + 1
  /\ UNCHANGED <<claimed, pod, cache, task, cleanups, history, faults, trouble>>

(* A pod that was told to go: its controller replaces it, and the new one  *)
(* reads the objects as they are now. One without a controller is gone.    *)
Replace(p) ==
  /\ pod[p].state = "leaving"
  /\ pod' = [pod EXCEPT ![p] = [state |-> IF Owner[p] = None THEN "gone" ELSE "running", runs |-> Runs]]
  /\ UNCHANGED <<object, claimed, memory, history, changes, faults, trouble>>

----------------------------------------------------------------------------
(* handleResourceUpdate. The checksum is remembered before anything else.  *)
Consumers(o, selector) == IF selector = None THEN Uses[o] ELSE selector

Dequeue(o) == task[o] = Idle /\ queue[o] # <<>> /\ queue' = [queue EXCEPT ![o] = Tail(@)]

Discover(o, e) == task' = [task EXCEPT ![o] = [Idle EXCEPT !.at = "discover", !.data = e.data,
                                                          !.selector = e.annotations.selector]]

HandleChange(r) ==
  /\ Dequeue(r)
  /\ LET e == Head(queue[r])
     IN  /\ cache[r] # None /\ e.data # None
         /\ cache' = [cache EXCEPT ![r] = e.data]
         /\ IF e.data # cache[r] /\ e.annotations.selector # Invalid THEN Discover(r, e) ELSE UNCHANGED task
  /\ UNCHANGED <<object, claimed, pod, cleanups, history, changes, faults, trouble>>

(* The first time an object is seen its consumers' controllers are cleaned *)
(* up, unless a mark on the object says that this was done.                *)
HandleFirst(r) ==
  /\ Dequeue(r)
  /\ LET e == Head(queue[r])
     IN  /\ cache[r] = None /\ e.data # None
         /\ cache' = [cache EXCEPT ![r] = e.data]
         /\ cleanups' = IF e.annotations.complete THEN cleanups
                        ELSE Append(cleanups, [of |-> r, annotations |-> e.annotations, at |-> "clean"])
  /\ UNCHANGED <<object, claimed, pod, task, history, changes, faults, trouble>>

HandleDelete(r) ==
  /\ Dequeue(r)
  /\ Head(queue[r]).data = None
  /\ cache' = [cache EXCEPT ![r] = None]
  /\ UNCHANGED <<object, claimed, pod, task, cleanups, history, changes, faults, trouble>>

(* restartGatewayPods remembers the topology after the reload. Nothing is  *)
(* remembered at first, which is the same as the default topology.         *)
HandleMesh ==
  /\ Dequeue(Mesh)
  /\ LET e == Head(queue[Mesh])
     IN  IF e.data # cache[Mesh] THEN Discover(Mesh, e) ELSE UNCHANGED task
  /\ UNCHANGED <<object, claimed, pod, cache, cleanups, history, changes, faults, trouble>>

(* The pods found; those that are on their way out are left alone.         *)
FindPods(o) ==
  /\ task[o].at = "discover"
  /\ task' = [task EXCEPT ![o].at = "reload",
                          ![o].pods = {p \in Pod : p \in Consumers(o, task[o].selector) /\ pod[p].state = "running"}]
  /\ UNCHANGED <<object, claimed, pod, queue, cache, cleanups, history, changes, faults, trouble>>

(* reloadPods: a controller is restarted once, pods without one that can   *)
(* be restarted are evicted afterwards.                                    *)
Handled(c) == c # None /\ ControllerKind[c] \in {"Deployment", "StatefulSet", "DaemonSet", "ReplicaSet"}
Leaving(p) == [pod[p] EXCEPT !.state = IF @ = "running" THEN "leaving" ELSE @]

LeaveUnhandled(o, p) ==
  /\ p \in task[o].pods /\ ~Handled(Owner[p])
  /\ task' = [task EXCEPT ![o].pods = @ \ {p}, ![o].evict = IF Owner[p] = None THEN @ \cup {p} ELSE @]
  /\ UNCHANGED <<object, claimed, pod, queue, cache, cleanups, history, changes, faults, trouble>>

SetAside(o, p) ==
  /\ p \in task[o].pods /\ ~Handled(Owner[p])
  /\ task' = [task EXCEPT ![o].pods = @ \ {p}, ![o].evict = @ \cup {p}]
  /\ UNCHANGED <<object, claimed, pod, queue, cache, cleanups, history, changes, faults, trouble>>

RestartForEveryPod(o, p) ==
  /\ p \in task[o].pods /\ Handled(Owner[p])
  /\ task' = [task EXCEPT ![o].pods = @ \ {p}]
  /\ claimed' = claimed \ {Owner[p]}
  /\ restarts' = [restarts EXCEPT ![Owner[p]] = @ + 1]
  /\ pod' = [q \in Pod |-> IF Owner[q] = Owner[p] THEN Leaving(q) ELSE pod[q]]
  /\ UNCHANGED <<object, queue, cache, cleanups, chosen, starts, changes, faults, trouble>>

(* A new annotation of the template replaces the pods of every kind but a  *)
(* ReplicaSet's.                                                           *)
RestartController(o, p) ==
  /\ p \in task[o].pods /\ Handled(Owner[p])
  /\ LET c == Owner[p]
     IN  IF c \in task[o].handled
         THEN /\ task' = [task EXCEPT ![o].pods = @ \ {p}]
              /\ UNCHANGED <<claimed, pod, restarts>>
         ELSE /\ task' = [task EXCEPT ![o].pods = @ \ {p}, ![o].handled = @ \cup {c}]
              /\ claimed' = claimed \ {c}
              /\ restarts' = [restarts EXCEPT ![c] = @ + 1]
              /\ pod' = IF ControllerKind[c] = "ReplicaSet" THEN pod
                        ELSE [q \in Pod |-> IF Owner[q] = c THEN Leaving(q) ELSE pod[q]]
  /\ UNCHANGED <<object, queue, cache, cleanups, chosen, starts, changes, faults, trouble>>

EvictPod(o, p) ==
  /\ task[o].pods = {} /\ p \in task[o].evict
  /\ pod' = [pod EXCEPT ![p] = Leaving(p)]
  /\ restarts' = [restarts EXCEPT ![p] = @ + 1]
  /\ task' = [task EXCEPT ![o].evict = @ \ {p}]
  /\ UNCHANGED <<object, claimed, queue, cache, cleanups, chosen, starts, changes, faults, trouble>>

FinishReload(o) ==
  /\ task[o].at = "reload" /\ task[o].pods = {} /\ task[o].evict = {}
  /\ task' = [task EXCEPT ![o] = Idle]
  /\ cache' = IF o = Mesh THEN [cache EXCEPT ![o] = task[o].data] ELSE cache
  /\ UNCHANGED <<object, claimed, pod, queue, cleanups, history, changes, faults, trouble>>

----------------------------------------------------------------------------
CleanSelected ==
  /\ cleanups # <<>> /\ Head(cleanups).at = "clean"
  /\ LET c == Head(cleanups)
         pods == IF c.annotations.selector = Invalid THEN {} ELSE Consumers(c.of, c.annotations.selector)
     IN  claimed' = claimed \ {Owner[p] : p \in {q \in pods : pod[q].state = "running" /\ Handled(Owner[q])}}
  /\ cleanups' = [cleanups EXCEPT ![1].at = "mark"]
  /\ UNCHANGED <<object, pod, queue, cache, task, history, changes, faults, trouble>>

(* The cleanups run one at a time. They look for the consumers, whatever   *)
(* the selector says.                                                      *)
CleanControllers ==
  /\ cleanups # <<>> /\ Head(cleanups).at = "clean"
  /\ claimed' = claimed \ {Owner[p] : p \in {q \in Uses[Head(cleanups).of] :
                                             pod[q].state = "running" /\ Handled(Owner[q])}}
  /\ cleanups' = [cleanups EXCEPT ![1].at = "mark"]
  /\ UNCHANGED <<object, pod, queue, cache, task, history, changes, faults, trouble>>

(* The patch makes the map of annotations when the object as it was first  *)
(* seen had none, and replaces one that was made since.                    *)
MarkComplete ==
  /\ cleanups # <<>> /\ Head(cleanups).at = "mark"
  /\ LET r == Head(cleanups).of
         now == object[r].annotations
         old == Head(cleanups).annotations
     IN  IF object[r].data = None \/ (old.map /\ ~now.map) THEN UNCHANGED <<object, queue>>
         ELSE Publish(r, [object[r] EXCEPT !.annotations =
                [map |-> TRUE, complete |-> TRUE, selector |-> IF old.map THEN now.selector ELSE None]])
  /\ cleanups' = Tail(cleanups)
  /\ UNCHANGED <<claimed, pod, cache, task, history, changes, faults, trouble>>

----------------------------------------------------------------------------
(* Requests that fail, each after its own tries. Finding the pods ends the *)
(* handler, a controller is tried again for its next pod, an eviction is   *)
(* given up, a cleanup that does not find the pods leaves no mark.         *)
FailReload(o) ==
  /\ faults < MaxFaults
  /\ \/ task[o].at = "discover" /\ task' = [task EXCEPT ![o] = Idle]
     \/ \E p \in task[o].pods :
          Handled(Owner[p]) /\ Owner[p] \notin task[o].handled /\ task' = [task EXCEPT ![o].pods = @ \ {p}]
     \/ task[o].pods = {} /\ \E p \in task[o].evict : task' = [task EXCEPT ![o].evict = @ \ {p}]
  /\ faults' = faults + 1 /\ trouble' = trouble \cup {"request"}
  /\ UNCHANGED <<object, claimed, pod, queue, cache, cleanups, history, changes>>

FailCleanup ==
  /\ faults < MaxFaults /\ cleanups # <<>>
  /\ \/ cleanups' = Tail(cleanups) /\ UNCHANGED trouble
     \/ /\ Head(cleanups).at = "clean"
        /\ cleanups' = [cleanups EXCEPT ![1].at = "mark"] /\ trouble' = trouble \cup {"cleanup"}
  /\ faults' = faults + 1
  /\ UNCHANGED <<object, claimed, pod, queue, cache, task, history, changes>>

Restart ==
  /\ faults < MaxFaults
  /\ queue' = [o \in Object |-> IF object[o].data = None THEN <<>> ELSE <<object[o]>>]
  /\ cache' = [o \in Object |-> IF o = Mesh THEN InitialData ELSE None]
  /\ task' = [o \in Object |-> Idle] /\ cleanups' = <<>>
  /\ starts' = starts + 1
  /\ faults' = faults + 1 /\ trouble' = trouble \cup {"restart"}
  /\ UNCHANGED <<object, claimed, pod, restarts, chosen, changes>>

----------------------------------------------------------------------------
Handle(r) == HandleChange(r) \/ HandleFirst(r) \/ HandleDelete(r)

Reload(o) == FindPods(o) \/ FinishReload(o)
             \/ \E p \in Pod : SetAside(o, p) \/ RestartController(o, p) \/ EvictPod(o, p)

Next ==
  \/ \E o \in Object : Reload(o) \/ FailReload(o) \/ \E d \in Data \cup {None} : ChangeData(o, d)
  \/ \E r \in Resource : Handle(r) \/ \E s \in Selectors : Annotate(r, s)
  \/ HandleMesh \/ CleanControllers \/ MarkComplete \/ FailCleanup \/ Restart
  \/ \E p \in Pod : Replace(p)

Spec == Init /\ [][Next]_vars

----------------------------------------------------------------------------
Quiet ==
  /\ \A o \in Object : task[o] = Idle /\ queue[o] = <<>>
  /\ cleanups = <<>> /\ \A p \in Pod : pod[p].state # "leaving"

(* The types, and what a handler knows: pods only while it reloads, each   *)
(* to be restarted with its controller or evicted.                         *)
Annotations == [map : BOOLEAN, complete : BOOLEAN, selector : Selector]
Snapshot == [data : Data \cup {None}, annotations : Annotations]

PodState == [state : {"running", "leaving", "gone"}, runs : [Object -> Data \cup {None}]]
Task == [at : {"idle", "discover", "reload"}, data : Data \cup {None}, selector : Selector,
         pods : SUBSET Pod, handled : SUBSET Controller, evict : SUBSET Pod]
Cleanup == [of : Resource, annotations : Annotations, at : {"clean", "mark"}]

TypeOK ==
  /\ object \in [Object -> Snapshot] /\ queue \in [Object -> Seq(Snapshot)]
  /\ cache \in [Object -> Data \cup {None}] /\ pod \in [Pod -> PodState]
  /\ task \in [Object -> Task]
  /\ \A o \in Object : task[o].pods \cup task[o].evict # {} => task[o].at = "reload"
  /\ cleanups \in Seq(Cleanup) /\ claimed \subseteq Controller
  /\ restarts \in [Controller \cup Pod -> Nat] /\ chosen \in [Resource -> Selector]
  /\ changes \in 0..MaxChanges /\ faults \in 0..MaxFaults /\ starts \in 0..faults

Reloadable(p) == Owner[p] = None \/ ControllerKind[Owner[p]] # "ReplicaSet"

(* When nothing is left to do every pod that uses an object, or that its   *)
(* selector names, started after the object's last change, however many    *)
(* objects changed at a time; unless a request failed, the operator        *)
(* started again or the object was created again: the checksum is          *)
(* remembered before the reload, and nothing repairs a reload that failed. *)
PodsRunLatest ==
  Quiet /\ trouble \cap {"request", "restart", "created again"} = {} =>
    \A o \in Object :
      LET selector == IF o = Mesh THEN None ELSE chosen[o]
      IN  selector # Invalid /\ object[o].data # None =>
            \A p \in Consumers(o, selector) :
              pod[p].state = "running" /\ Reloadable(p) => pod[p].runs[o] = object[o].data

(* No controller or pod is told to restart more often than there were      *)
(* changes: neither the start of the operator, nor a cleanup, nor several  *)
(* pods of one controller restart anything. Each time the operator started *)
(* again the gateways restart once more for a topology it does not         *)
(* remember.                                                               *)
NoNeedlessRestart == \A x \in Controller \cup Pod : restarts[x] <= changes + starts

(* An object marked as cleaned up has no consumer with a controller whose  *)
(* fields the operator still owns, unless cleaning one failed.             *)
MarkedIsClean ==
  "cleanup" \notin trouble =>
    \A r \in Resource : object[r].annotations.complete =>
      \A p \in Uses[r] : pod[p].state = "running" /\ Handled(Owner[p]) => Owner[p] \notin claimed

(* The operator leaves the annotations of others alone: "Use JSON Patch    *)
(* (not SSA Apply) so we don't affect field ownership".                    *)
(* Does not hold and is in no run: see the README's divergences.            *)
SelectorKept ==
  [][\A r \in Resource : object[r].annotations.selector # None /\ changes' = changes =>
       object'[r].annotations.selector = object[r].annotations.selector]_vars
=============================================================================
