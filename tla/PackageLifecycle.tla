-------------------------- MODULE PackageLifecycle --------------------------
(***************************************************************************)
(* The life of one UDS Package custom resource: the cluster object, the    *)
(* watch events the operator sees of it, the queued reconciler             *)
(* (packageReconciler), the un-queued finalizer callbacks                  *)
(* (packageFinalizer), and the resources outside Kubernetes ownership that *)
(* only those two create and remove: Keycloak clients, authservice chains  *)
(* and four kinds of shared resource.                                      *)
(*                                                                         *)
(* Pepr runs one reconcile queue per kind/namespace/name, so one package   *)
(* is one queue.  A step of the model is the code between two awaits on    *)
(* the API server, Keycloak or a timer.                                    *)
(***************************************************************************)
EXTENDS Naturals, Sequences

CONSTANTS
    Clients,        \* SSO client ids
    Specs,          \* the specs a user may submit
    Tasks,          \* finalizer callbacks that may run at the same time
    MaxRetries,     \* retries before Failed: 4 in handleFailure
    StepErrors,     \* how a step of the flow may fail: "error" or "notFound"
    MaxEdits,       \* bound: spec updates by the user
    MaxTouches,     \* bound: metadata-only updates
    MaxDeletes,     \* bound: 1 if the user may delete the package
    MaxStepFaults,  \* bound: failing steps of the flow and of the finalizer
    MaxApiFaults,   \* bound: failing status patches and event writes, steps that meet a 404
    MaxCrashes,     \* bound: restarts of the watcher pod
    MaxRelists      \* bound: reconnects that lose watch events

ASSUME SpecsAssumption ==
    /\ Specs \subseteq [sso : SUBSET Clients, auth : SUBSET Clients]
    /\ \A s \in Specs : s.auth \subseteq s.sso
    /\ Specs # {}

ASSUME BoundsAssumption ==
    /\ MaxRetries \in Nat
    /\ StepErrors \subseteq {"error", "notFound"}
    /\ {MaxEdits, MaxTouches, MaxDeletes, MaxStepFaults, MaxApiFaults, MaxCrashes,
         MaxRelists} \subseteq Nat

VARIABLES
    exists,     \* the object is in the cluster (Pepr's finalizer still holds it)
    obj,        \* the object as the API server stores it
    queue,      \* snapshots waiting for packageReconciler, oldest first
    deletions,  \* Modified events with a deletionTimestamp waiting for packageFinalizer
    rec,        \* the reconciler: where it is and the snapshot it works from
    fin,        \* each finalizer callback: where it is and its snapshot
    patches,    \* snapshots whose failure status is patched without being awaited
    uidSeen,    \* the pod's in-memory uidSeen contains the package
    keycloak,   \* clients that exist in Keycloak
    chains,     \* clients that have a chain in the authservice config
    shared,     \* kinds of shared resource that hold entries of the package
    used,       \* how much of each bound has been used
    raced       \* history: the reconciler wrote while a finalization was due, running or over

vars == <<exists, obj, queue, deletions, rec, fin, patches, uidSeen,
          keycloak, chains, shared, used, raced>>

cluster  == <<exists, obj, queue, deletions>>
external == <<keycloak, chains, shared>>

-----------------------------------------------------------------------------
Phases == {"None", "Pending", "Ready", "Failed", "Retrying", "Removing", "RemovalFailed"}

SharedKinds == {"namespace", "gateway", "egress", "blackbox"}

Packages ==
    [gen : Nat, deleted : BOOLEAN, spec : Specs, phase : Phases, observed : Nat,
     retry : 0 .. MaxRetries, ssoClients : SUBSET Clients, authserviceClients : SUBSET Clients]

(* The steps of reconcilePackageFlow that can fail or touch state outside  *)
(* the package's own namespaced, owner-referenced resources.               *)
NextFlowStep ==
    [mesh |-> "keycloak", keycloak |-> "authservice", authservice |-> "gateway",
     gateway |-> "egress", egress |-> "probe", probe |-> "purge",
     purge |-> "bundle", bundle |-> "ready"]

FlowSteps == {"mesh", "keycloak", "authservice", "gateway", "egress", "probe",
              "purge", "bundle"}

NextCleanup ==
    [namespace |-> "authservice", authservice |-> "sso", sso |-> "blackbox",
     blackbox |-> "egress", egress |-> "gateway", gateway |-> "done"]

CleanupSteps == {"namespace", "authservice", "sso", "blackbox", "egress", "gateway"}

RecPcs == {"idle", "backoff", "pending", "ready", "failing"} \cup FlowSteps
FinPcs == {"off", "removing", "removalFailed", "done"} \cup CleanupSteps

Usage ==
    [edits : Nat, touches : Nat, deletes : Nat, steps : Nat, api : Nat, crashes : Nat,
     relists : Nat]

Created(spec) ==
    [gen |-> 1, deleted |-> FALSE, spec |-> spec, phase |-> "None", observed |-> 0,
     retry |-> 0, ssoClients |-> {}, authserviceClients |-> {}]

Off == [pc |-> "off", snap |-> Created(CHOOSE s \in Specs : TRUE)]

Init ==
    /\ exists = TRUE
    /\ obj \in {Created(s) : s \in Specs}
    /\ queue = <<obj>>
    /\ deletions = <<>>
    /\ rec = [pc |-> "idle", snap |-> obj]
    /\ fin = [t \in Tasks |-> Off]
    /\ patches = {}
    /\ uidSeen = FALSE
    /\ keycloak = {} /\ chains = {} /\ shared = {}
    /\ used = [edits |-> 0, touches |-> 0, deletes |-> 0, steps |-> 0, api |-> 0,
               crashes |-> 0, relists |-> 0]
    /\ raced = FALSE

-----------------------------------------------------------------------------
(* The API server stores a new version of the object and the watches of    *)
(* the reconcile binding and of the finalize binding see it.  The finalize *)
(* binding filters on the deletionTimestamp.                               *)
Store(o) ==
    /\ obj' = o
    /\ queue' = Append(queue, o)
    /\ deletions' = IF o.deleted THEN Append(deletions, o) ELSE deletions
    /\ UNCHANGED exists

UseStepFault == used.steps < MaxStepFaults /\ used' = [used EXCEPT !.steps = @ + 1]
UseApiFault  == used.api < MaxApiFaults /\ used' = [used EXCEPT !.api = @ + 1]

UserEdits(s) ==
    /\ exists /\ used.edits < MaxEdits /\ s # obj.spec
    /\ Store([obj EXCEPT !.spec = s, !.gen = @ + 1])
    /\ used' = [used EXCEPT !.edits = @ + 1]
    /\ UNCHANGED <<rec, fin, patches, uidSeen, external, raced>>

UserTouches ==
    /\ exists /\ used.touches < MaxTouches
    /\ Store(obj)
    /\ used' = [used EXCEPT !.touches = @ + 1]
    /\ UNCHANGED <<rec, fin, patches, uidSeen, external, raced>>

(* The finalizer keeps the object; setting the deletionTimestamp is an     *)
(* update that increments the generation.                                  *)
UserDeletes ==
    /\ exists /\ ~obj.deleted /\ used.deletes < MaxDeletes
    /\ Store([obj EXCEPT !.deleted = TRUE, !.gen = @ + 1])
    /\ used' = [used EXCEPT !.deletes = @ + 1]
    /\ UNCHANGED <<rec, fin, patches, uidSeen, external, raced>>

(* A watch that reconnects lists the object again: the undelivered events  *)
(* but the last are lost.                                                  *)
Relist ==
    /\ \/ \E n \in 0 .. Len(queue) - 2 :
              /\ queue' = Append(SubSeq(queue, 1, n), queue[Len(queue)])
              /\ UNCHANGED deletions
       \/ \E n \in 0 .. Len(deletions) - 2 :
              /\ deletions' = Append(SubSeq(deletions, 1, n), deletions[Len(deletions)])
              /\ UNCHANGED queue
    /\ used.relists < MaxRelists
    /\ used' = [used EXCEPT !.relists = @ + 1]
    /\ UNCHANGED <<exists, obj, rec, fin, patches, uidSeen, external, raced>>

(* The pod restarts: everything in memory is gone and the first list shows *)
(* the object as Added, which the finalize binding does not match.         *)
Restart ==
    /\ used.crashes < MaxCrashes
    /\ used' = [used EXCEPT !.crashes = @ + 1]
    /\ queue' = IF exists THEN <<obj>> ELSE <<>>
    /\ deletions' = <<>>
    /\ rec' = [rec EXCEPT !.pc = "idle"]
    /\ fin' = [t \in Tasks |-> Off]
    /\ patches' = {}
    /\ uidSeen' = FALSE
    /\ UNCHANGED <<exists, obj, external, raced>>

-----------------------------------------------------------------------------
(* updateStatus: the authserviceClients of the caller's snapshot, when     *)
(* there are any, go into every patch.                                     *)
Normalized(snap, clients) ==
    IF snap.authserviceClients # {} THEN snap.authserviceClients ELSE clients

PendingStatus(o, snap) ==
    [o EXCEPT !.phase = "Pending",
              !.authserviceClients = Normalized(snap, @)]

(* Mutant: the generation of the object, not of the snapshot, is observed. *)
ReadyStatusObservesLatest(o, snap) ==
    [o EXCEPT !.phase = "Ready", !.observed = o.gen, !.retry = 0,
              !.ssoClients = snap.spec.sso,
              !.authserviceClients = Normalized(snap, snap.spec.auth)]

ReadyStatus(o, snap) ==
    [o EXCEPT !.phase = "Ready", !.observed = snap.gen, !.retry = 0,
              !.ssoClients = snap.spec.sso,
              !.authserviceClients = Normalized(snap, snap.spec.auth)]

(* Mutant: one retry too many.                                             *)
FailureStatusOffByOne(o, snap) ==
    IF snap.retry <= MaxRetries
    THEN [o EXCEPT !.phase = "Retrying", !.retry = snap.retry + 1,
                   !.authserviceClients = Normalized(snap, @)]
    ELSE [o EXCEPT !.phase = "Failed", !.retry = 0, !.observed = snap.gen,
                   !.authserviceClients = Normalized(snap, @)]

FailureStatus(o, snap) ==
    IF snap.retry < MaxRetries
    THEN [o EXCEPT !.phase = "Retrying", !.retry = snap.retry + 1,
                   !.authserviceClients = Normalized(snap, @)]
    ELSE [o EXCEPT !.phase = "Failed", !.retry = 0, !.observed = snap.gen,
                   !.authserviceClients = Normalized(snap, @)]

RemovalStatus(o, snap, phase) ==
    [o EXCEPT !.phase = phase, !.authserviceClients = Normalized(snap, @)]

(* Mutant: a package this pod has not processed yet is skipped as well.    *)
ShouldSkipUnseen(snap) ==
    /\ snap.phase # "Retrying"
    /\ \/ snap.deleted
       \/ snap.phase \in {"Removing", "RemovalFailed", "Pending"}
       \/ snap.gen = snap.observed

(* Mutant: the deletionTimestamp is looked at before the Retrying phase.   *)
ShouldSkipDeletedFirst(snap) ==
    /\ uidSeen
    /\ \/ snap.deleted
       \/ snap.phase \in {"Removing", "RemovalFailed", "Pending"}
       \/ snap.phase # "Retrying" /\ snap.gen = snap.observed

ShouldSkip(snap) ==
    /\ uidSeen
    /\ snap.phase # "Retrying"
    /\ \/ snap.deleted
       \/ snap.phase \in {"Removing", "RemovalFailed", "Pending"}
       \/ snap.gen = snap.observed

-----------------------------------------------------------------------------
(* The reconciler.                                                         *)

(* A finalization is due, running, or has removed the object.              *)
Finalizing ==
    \/ ~exists
    \/ \E t \in Tasks : fin[t].pc # "off"
    \/ \E i \in DOMAIN deletions : deletions[i].phase \in {"Ready", "Failed"}

Races == raced' = (raced \/ Finalizing)

SkipEvent ==
    /\ rec.pc = "idle" /\ queue # <<>>
    /\ ShouldSkip(Head(queue))
    /\ queue' = Tail(queue)
    /\ UNCHANGED <<exists, obj, deletions, rec, fin, patches, uidSeen, external, used, raced>>

(* Mutant: the queue serves the newest event first.                        *)
StartAttemptLifo ==
    /\ rec.pc = "idle" /\ queue # <<>>
    /\ LET last == queue[Len(queue)]
       IN  /\ ~ShouldSkip(last)
           /\ queue' = SubSeq(queue, 1, Len(queue) - 1)
           /\ rec' = [pc |-> IF last.retry > 0 THEN "backoff" ELSE "pending", snap |-> last]
    /\ UNCHANGED <<exists, obj, deletions, fin, patches, uidSeen, external, used, raced>>

StartAttempt ==
    /\ rec.pc = "idle" /\ queue # <<>>
    /\ ~ShouldSkip(Head(queue))
    /\ queue' = Tail(queue)
    /\ rec' = [pc |-> IF Head(queue).retry > 0 THEN "backoff" ELSE "pending",
               snap |-> Head(queue)]
    /\ UNCHANGED <<exists, obj, deletions, fin, patches, uidSeen, external, used, raced>>

BackoffElapses ==
    /\ rec.pc = "backoff"
    /\ rec' = [rec EXCEPT !.pc = "pending"]
    /\ UNCHANGED <<cluster, fin, patches, uidSeen, external, used, raced>>

(* The event written before the backoff is outside the try block: when it  *)
(* throws, the attempt is over and nothing records it.                     *)
BackoffEventFails ==
    /\ rec.pc = "backoff"
    /\ UseApiFault
    /\ rec' = [rec EXCEPT !.pc = "idle"]
    /\ UNCHANGED <<cluster, fin, patches, uidSeen, external, raced>>

SetPending ==
    /\ rec.pc = "pending" /\ exists
    /\ Store(PendingStatus(obj, rec.snap))
    /\ uidSeen' = TRUE
    /\ rec' = [rec EXCEPT !.pc = "mesh"]
    /\ Races
    /\ UNCHANGED <<fin, patches, external, used>>

(* A status patch of a deleted object is a 404, which handleFailure drops. *)
PatchNotFound ==
    /\ rec.pc \in {"pending", "ready"} /\ ~exists
    /\ rec' = [rec EXCEPT !.pc = "idle"]
    /\ UNCHANGED <<cluster, fin, patches, uidSeen, external, used, raced>>

PatchFails ==
    /\ rec.pc \in {"pending", "ready"} /\ exists
    /\ UseApiFault
    /\ rec' = [rec EXCEPT !.pc = "failing"]
    /\ UNCHANGED <<cluster, fin, patches, uidSeen, external, raced>>

(* Deleting a client that is not in Keycloak throws, and a throw leaves    *)
(* the clients after it alone: all of toRemove goes, or some of it.        *)
PurgedAll(toRemove) ==
    /\ toRemove \subseteq keycloak
    /\ keycloak' = keycloak \ toRemove

PurgedSome(toRemove) ==
    \E gone \in SUBSET (toRemove \cap keycloak) :
        /\ gone # toRemove
        /\ keycloak' = keycloak \ gone

(* Each step of the flow when it does not throw.  Errors of the purge are  *)
(* logged and swallowed.                                                   *)
FlowEffect(step) ==
    LET spec  == rec.snap.spec
        stale == rec.snap.ssoClients \ spec.sso
    IN  CASE step = "mesh"        -> shared' = shared \cup {"namespace"}
                                     /\ UNCHANGED <<keycloak, chains, used>>
          [] step = "keycloak"    -> keycloak' = keycloak \cup spec.sso
                                     /\ UNCHANGED <<chains, shared, used>>
          [] step = "authservice" -> chains' = (chains \ rec.snap.authserviceClients)
                                                   \cup spec.auth
                                     /\ UNCHANGED <<keycloak, shared, used>>
          [] step = "gateway"     -> shared' = shared \cup {"gateway"}
                                     /\ UNCHANGED <<keycloak, chains, used>>
          [] step = "egress"      -> shared' = shared \cup {"egress"}
                                     /\ UNCHANGED <<keycloak, chains, used>>
          [] step = "probe"       -> shared' = shared \cup {"blackbox"}
                                     /\ UNCHANGED <<keycloak, chains, used>>
          [] step = "purge"       -> /\ UNCHANGED <<chains, shared>>
                                     /\ \/ PurgedAll(stale) /\ UNCHANGED used
                                        \/ PurgedSome(stale) /\ UNCHANGED used
                                             /\ ~(stale \subseteq keycloak)
                                        \/ PurgedSome(stale) /\ UseStepFault
          [] step = "bundle"      -> UNCHANGED <<external, used>>

FlowStep ==
    /\ rec.pc \in FlowSteps
    /\ FlowEffect(rec.pc)
    /\ rec' = [rec EXCEPT !.pc = NextFlowStep[rec.pc]]
    /\ Races
    /\ UNCHANGED <<cluster, fin, patches, uidSeen>>

(* A step throws: nothing, or a part, of what it does has been done.       *)
FlowStepPart(step) ==
    LET spec == rec.snap.spec
    IN  \/ UNCHANGED external
        \/ /\ step = "keycloak"
           /\ \E done \in SUBSET spec.sso : keycloak' = keycloak \cup done
           /\ UNCHANGED <<chains, shared>>
        \/ /\ step = "authservice"
           /\ \E done \in SUBSET spec.auth, gone \in SUBSET (rec.snap.authserviceClients \ spec.auth) :
                  /\ gone # {} => done = spec.auth
                  /\ chains' = (chains \ gone) \cup done
           /\ UNCHANGED <<keycloak, shared>>
        \/ /\ step \in {"mesh", "gateway", "egress", "probe"}
           /\ shared' = shared \cup
                  {[mesh |-> "namespace", gateway |-> "gateway", egress |-> "egress",
                    probe |-> "blackbox"][step]}
           /\ UNCHANGED <<keycloak, chains>>

(* A 404 of any request is taken for a deleted package: handleFailure      *)
(* drops it, like the failing writes it is counted with.                   *)
FlowStepFails(err) ==
    /\ rec.pc \in FlowSteps \ {"purge"}
    /\ FlowStepPart(rec.pc)
    /\ IF err = "notFound" THEN UseApiFault ELSE UseStepFault
    /\ rec' = [rec EXCEPT !.pc = IF err = "notFound" THEN "idle" ELSE "failing"]
    /\ Races
    /\ UNCHANGED <<cluster, fin, patches, uidSeen>>

SetReady ==
    /\ rec.pc = "ready" /\ exists
    /\ Store(ReadyStatus(obj, rec.snap))
    /\ uidSeen' = TRUE
    /\ rec' = [rec EXCEPT !.pc = "idle"]
    /\ Races
    /\ UNCHANGED <<fin, patches, external, used>>

(* handleFailure: the event is awaited, the status patch is not.           *)
ReportFailure ==
    /\ rec.pc = "failing"
    /\ patches' = patches \cup {rec.snap}
    /\ rec' = [rec EXCEPT !.pc = "idle"]
    /\ UNCHANGED <<cluster, fin, uidSeen, external, used, raced>>

FailureEventFails ==
    /\ rec.pc = "failing"
    /\ UseApiFault
    /\ rec' = [rec EXCEPT !.pc = "idle"]
    /\ UNCHANGED <<cluster, fin, patches, uidSeen, external, raced>>

FailurePatchLands(p) ==
    /\ p \in patches /\ exists
    /\ patches' = patches \ {p}
    /\ Store(FailureStatus(obj, p))
    /\ uidSeen' = TRUE
    /\ Races
    /\ UNCHANGED <<rec, fin, external, used>>

FailurePatchLost(p) ==
    /\ p \in patches
    /\ patches' = patches \ {p}
    /\ \/ ~exists /\ UNCHANGED used
       \/ exists /\ UseApiFault
    /\ UNCHANGED <<cluster, rec, fin, uidSeen, external, raced>>

-----------------------------------------------------------------------------
(* The finalizer.                                                          *)

FinalizerSkips ==
    /\ deletions # <<>>
    /\ Head(deletions).phase \notin {"Ready", "Failed"}
    /\ deletions' = Tail(deletions)
    /\ UNCHANGED <<exists, obj, queue, rec, fin, patches, uidSeen, external, used, raced>>

(* Mutant: the finalizer does not wait for Ready or Failed.                *)
FinalizerStartsEarly(t) ==
    /\ deletions # <<>> /\ fin[t].pc = "off"
    /\ Head(deletions).phase \notin {"Removing", "RemovalFailed"}
    /\ deletions' = Tail(deletions)
    /\ fin' = [fin EXCEPT ![t] = [pc |-> "removing", snap |-> Head(deletions)]]
    /\ UNCHANGED <<exists, obj, queue, rec, patches, uidSeen, external, used, raced>>

FinalizerStarts(t) ==
    /\ deletions # <<>> /\ fin[t].pc = "off"
    /\ Head(deletions).phase \in {"Ready", "Failed"}
    /\ deletions' = Tail(deletions)
    /\ fin' = [fin EXCEPT ![t] = [pc |-> "removing", snap |-> Head(deletions)]]
    /\ UNCHANGED <<exists, obj, queue, rec, patches, uidSeen, external, used, raced>>

SetRemoving(t) ==
    /\ fin[t].pc = "removing" /\ exists
    /\ Store(RemovalStatus(obj, fin[t].snap, "Removing"))
    /\ uidSeen' = TRUE
    /\ fin' = [fin EXCEPT ![t].pc = "namespace"]
    /\ UNCHANGED <<rec, patches, external, used, raced>>

CleanupEffect(t) ==
    LET snap == fin[t].snap
    IN  CASE fin[t].pc = "authservice" -> chains' = chains \ snap.authserviceClients
                                          /\ UNCHANGED <<keycloak, shared>>
          [] fin[t].pc = "sso"         -> PurgedAll(snap.ssoClients)
                                          /\ UNCHANGED <<chains, shared>>
          [] OTHER                     -> shared' = shared \ {fin[t].pc}
                                          /\ UNCHANGED <<keycloak, chains>>

CleanupStep(t) ==
    /\ fin[t].pc \in CleanupSteps
    /\ CleanupEffect(t)
    /\ fin' = [fin EXCEPT ![t].pc = NextCleanup[fin[t].pc]]
    /\ UNCHANGED <<cluster, rec, patches, uidSeen, used, raced>>

(* Mutant: a cleanup that failed is logged and the next one runs.          *)
CleanupFailsAndGoesOn(t) ==
    /\ fin[t].pc \in CleanupSteps
    /\ UseStepFault
    /\ fin' = [fin EXCEPT ![t].pc = NextCleanup[fin[t].pc]]
    /\ UNCHANGED <<cluster, rec, patches, uidSeen, external, raced>>

(* All five attempts of retryWithDelay fail, with nothing, a part or all   *)
(* of the step done.  Once one client of several is deleted no later       *)
(* attempt can succeed, so the purge needs no fault when one is missing.   *)
CleanupFails(t) ==
    LET pc == fin[t].pc  snap == fin[t].snap
    IN  /\ pc \in CleanupSteps
        /\ \/ UseStepFault /\ UNCHANGED external
           \/ /\ pc \in SharedKinds
              /\ UseStepFault
              /\ shared' = shared \ {pc}
              /\ UNCHANGED <<keycloak, chains>>
           \/ /\ pc = "authservice"
              /\ UseStepFault
              /\ \E gone \in SUBSET snap.authserviceClients : chains' = chains \ gone
              /\ UNCHANGED <<keycloak, shared>>
           \/ /\ pc = "sso"
              /\ PurgedSome(snap.ssoClients)
              /\ IF snap.ssoClients \subseteq keycloak THEN UseStepFault ELSE UNCHANGED used
              /\ UNCHANGED <<chains, shared>>
        /\ fin' = [fin EXCEPT ![t].pc = "removalFailed"]
        /\ UNCHANGED <<cluster, rec, patches, uidSeen, raced>>

SetRemovalFailed(t) ==
    /\ fin[t].pc = "removalFailed" /\ exists
    /\ Store(RemovalStatus(obj, fin[t].snap, "RemovalFailed"))
    /\ uidSeen' = TRUE
    /\ fin' = [fin EXCEPT ![t] = Off]
    /\ UNCHANGED <<rec, patches, external, used, raced>>

(* The callback returned TRUE, or it threw: Pepr removes its finalizer and *)
(* the API server drops the object.                                        *)
RemoveFinalizer(t) ==
    /\ \/ fin[t].pc = "done" /\ UNCHANGED used
       \/ fin[t].pc \in {"removing", "removalFailed"} /\ ~exists /\ UNCHANGED used
       \/ fin[t].pc \in {"removing", "removalFailed"} /\ exists /\ UseApiFault
    /\ exists' = FALSE
    /\ fin' = [fin EXCEPT ![t] = Off]
    /\ UNCHANGED <<obj, queue, deletions, rec, patches, uidSeen, external, raced>>

-----------------------------------------------------------------------------
User == (\E s \in Specs : UserEdits(s)) \/ UserTouches \/ UserDeletes

Reconciler ==
    \/ SkipEvent \/ StartAttempt \/ BackoffElapses \/ BackoffEventFails
    \/ SetPending \/ PatchNotFound \/ PatchFails
    \/ FlowStep \/ (\E e \in StepErrors : FlowStepFails(e)) \/ SetReady
    \/ ReportFailure \/ FailureEventFails

FailurePatch == \E p \in patches : FailurePatchLands(p) \/ FailurePatchLost(p)

Finalizer(t) ==
    \/ SetRemoving(t) \/ CleanupStep(t) \/ CleanupFails(t)
    \/ SetRemovalFailed(t) \/ RemoveFinalizer(t)

DeliverDeletion == FinalizerSkips \/ \E t \in Tasks : FinalizerStarts(t)

Next ==
    \/ User \/ Relist \/ Restart
    \/ Reconciler \/ FailurePatch
    \/ DeliverDeletion \/ (\E t \in Tasks : Finalizer(t))

Spec == Init /\ [][Next]_vars

(* The event loop runs every callback whose await has settled, the client  *)
(* answers or fails every request, and Pepr delivers every queued event.   *)
(* Users, reconnects and restarts are not obliged to happen.               *)
Fairness ==
    /\ WF_vars(Reconciler)
    /\ WF_vars(FailurePatch)
    /\ WF_vars(DeliverDeletion)
    /\ \A t \in Tasks : WF_vars(Finalizer(t))

FairSpec == Spec /\ Fairness

-----------------------------------------------------------------------------
(* Properties.                                                             *)

(* The types of the variables; in particular no status ever shows a        *)
(* retryAttempt above the limit of handleFailure.                          *)
TypeOK ==
    /\ exists \in BOOLEAN
    /\ obj \in Packages
    /\ queue \in Seq(Packages)
    /\ deletions \in Seq(Packages)
    /\ rec \in [pc : RecPcs, snap : Packages]
    /\ fin \in [Tasks -> [pc : FinPcs, snap : Packages]]
    /\ patches \subseteq Packages
    /\ uidSeen \in BOOLEAN
    /\ keycloak \subseteq Clients
    /\ chains \subseteq Clients
    /\ shared \subseteq SharedKinds
    /\ used \in Usage
    /\ raced \in BOOLEAN

(* A package that shows Ready and is not being deleted has everything its  *)
(* observed generation asked for: the clients its status lists exist in    *)
(* Keycloak, the shared resources hold its entries, and when the observed  *)
(* generation is the current one every SSO client and every authservice    *)
(* chain of the spec is in place.  It must survive failed attempts, stale  *)
(* snapshots, restarts in the middle of the flow and late failure patches. *)
ReadyIsTrue ==
    exists /\ obj.phase = "Ready" /\ ~obj.deleted =>
        /\ shared = SharedKinds
        /\ obj.ssoClients \subseteq keycloak
        /\ obj.observed = obj.gen =>
               /\ obj.ssoClients = obj.spec.sso
               /\ obj.spec.auth \subseteq chains

(* When the object is gone nothing of what its last status recorded is     *)
(* left behind, unless the reconciler wrote while the finalization was due *)
(* or running, or a status patch of the finalizer failed.  Retries,        *)
(* partial failures, restarts during the cleanup and a second finalizer    *)
(* callback do not leave anything.                                         *)
RecordedResourcesRemoved ==
    ~exists /\ ~raced /\ used.api = 0 =>
        /\ shared = {}
        /\ keycloak \cap obj.ssoClients = {}
        /\ chains \cap obj.authserviceClients = {}

(* The finalizer's cleanup never begins before an attempt has written a    *)
(* Ready or Failed status: a package deleted while its first reconciliation *)
(* is pending, running, retrying or was cut by a restart keeps its object. *)
NoCleanupBeforeFirstOutcome ==
    (\E t \in Tasks : fin[t].pc # "off") \/ ~exists => obj.observed > 0

(* No attempt works from an older generation than the attempt before it.   *)
GenerationsInOrder ==
    [][rec'.snap.gen >= rec.snap.gen]_vars

(* Gone, its removal failed, or an outcome for the current generation.     *)
Settled ==
    \/ ~exists
    \/ obj.phase = "RemovalFailed"
    \/ ~obj.deleted /\ obj.phase \in {"Ready", "Failed"} /\ obj.observed = obj.gen

(* Every package settles: eventually it is gone, its removal has failed,   *)
(* or it shows Ready or Failed for its current generation, also when it    *)
(* was edited or deleted while Pending or Retrying, or when the pod        *)
(* restarted in any state.  One write of an event or a status that fails,  *)
(* or a step that meets a 404, may leave it Pending or Retrying for good.  *)
EventuallySettled == <>[](Settled \/ used.api > 0)

=============================================================================
