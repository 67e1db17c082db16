---------------------------- MODULE ClusterConfig ----------------------------
(***************************************************************************)
(* The cluster configuration (config/config.ts) and the trust bundles made *)
(* from it (ca-bundles/ca-bundle.ts). Every process of the operator, the   *)
(* watcher and the admission replicas, loads the ClusterConfig when it     *)
(* starts and follows it by a watch of its own. They share one status,     *)
(* which also tells them what to skip. The watcher alone writes: trust     *)
(* bundles of the packages and of Istio, and authservice's configuration.  *)
(*                                                                         *)
(* Certificates are members of a set and a bundle is the set of those in   *)
(* it. A snapshot that shouldSkip refuses is never queued: the test reads  *)
(* nothing but the snapshot. Handlers of one object run one after another. *)
(***************************************************************************)
EXTENDS Naturals, Sequences, FiniteSets

CONSTANTS Proc, Watcher,     \* the processes, one of them the watcher
          Package, None,
          Cert, Cidr, Domain, Uri,  \* what the objects may contain
          Specs,             \* specs of the ClusterConfig
          Parsing,           \* certificates of the administrator that parse
          Origin,            \* of shipped certificates: DoD, public
          ShippedCerts,      \* contents of uds-ca-certs: Origin -> certificate or None
          Secrets,           \* of uds-operator-config: [redis, mode]
          Modes, DefaultMode, DefaultDomain,
          InitialSpec, InitialShipped, InitialSecret,
          MaxChanges,        \* bound: changes of the objects, new packages
          MaxFaults          \* bound: failing requests and restarts

ASSUME WatcherAssumption == Watcher \in Proc /\ Package \cap {"namespace", "istio"} = {}

(* What the schema admits, None for a value that is not there.             *)
ClusterSpec == [certs : Cert \cup {None}, includes : SUBSET Origin,
                cidrs : [api : Cidr \cup {None}, nodes : Cidr \cup {None}],
                domain : Domain \cup {None}, exemptAll : BOOLEAN]
Shipped == [Origin -> Cert \cup {None}]
SecretData == [redis : Uri \cup {None}, mode : STRING]

ASSUME SpecsAssumption == InitialSpec \in Specs /\ Specs \subseteq ClusterSpec
ASSUME ShippedAssumption == InitialShipped \in ShippedCerts /\ ShippedCerts \subseteq Shipped
ASSUME SecretsAssumption == InitialSecret \in Secrets /\ Secrets \subseteq SecretData
ASSUME NoneAssumption == \A certs \in SUBSET Cert : certs # None
ASSUME BoundsAssumption == MaxChanges \in Nat /\ MaxFaults \in Nat

VARIABLES cfg, shipped, secret,     \* the three objects
          queue, certsQueue, secretQueue,  \* snapshots still to handle
          watching,   \* the watches of a process are running
          mem,        \* process -> UDSConfig
          task,       \* process -> its handler of the ClusterConfig, or its start
          certsTask, secretTask,    \* the other two handlers of the watcher
          write,      \* handler -> trust bundles it still has to write
          packages, due, applying,  \* packages, those to reconcile, bundles in flight
          bundle,     \* package or "istio" -> the trust bundle in the cluster
          authservice,  \* what authservice was told
          changes, faults,
          done,       \* history: process -> generation it settled last
          trouble     \* history: what went wrong or overlapped

objects == <<cfg, shipped, secret>>
events == <<queue, certsQueue, secretQueue, watching>>
cluster == <<packages, due, applying, bundle>>
vars == <<cfg, shipped, secret, queue, certsQueue, secretQueue, watching, mem, task, certsTask,
          secretTask, write, packages, due, applying, bundle, authservice, changes, faults, done, trouble>>

Writer == {"cfg", "certs"}
Target == Package \cup {"istio"}
NoWrites == [todo |-> {}, content |-> {}, istio |-> {}]
Idle == [at |-> "idle", gen |-> 0, spec |-> None, load |-> FALSE, shipped |-> None, secret |-> None]

(* UDSConfig before anything is loaded.                                    *)
UDSConfig == [certs |-> None, includes |-> {}, shipped |-> [o \in Origin |-> None],
              cidrs |-> [api |-> None, nodes |-> None], domain |-> None, exemptAll |-> FALSE,
              redis |-> None, mode |-> DefaultMode]

buildCABundleContent(m) ==
  ({m.certs} \cup {m.shipped[o] : o \in m.includes}) \ {None}

DomainOf(spec) == IF spec.domain = None THEN DefaultDomain ELSE spec.domain
ModeOf(s) == IF s.mode \in Modes THEN s.mode ELSE DefaultMode

(* What a process knows once it has handled these objects.                 *)
Settled(spec, certs, s) ==
  [certs |-> spec.certs, includes |-> spec.includes, shipped |-> certs, cidrs |-> spec.cidrs,
   domain |-> DomainOf(spec), exemptAll |-> spec.exemptAll, redis |-> s.redis, mode |-> ModeOf(s)]

AuthserviceUpdate(m) == [ca |-> buildCABundleContent(m), redis |-> m.redis]

(* All processes run and have settled the first generation.                *)
Init ==
  /\ cfg = [gen |-> 1, spec |-> InitialSpec, phase |-> "Ready", observed |-> 1]
  /\ shipped = InitialShipped /\ secret = InitialSecret
  /\ queue = [p \in Proc |-> <<>>] /\ certsQueue = <<>> /\ secretQueue = <<>>
  /\ watching = Proc
  /\ mem = [p \in Proc |-> Settled(InitialSpec, InitialShipped, InitialSecret)]
  /\ task = [p \in Proc |-> Idle] /\ certsTask = "idle" /\ secretTask = Idle
  /\ write = [w \in Writer |-> NoWrites]
  /\ packages = {} /\ due = {} /\ applying = [k \in Package |-> None]
  /\ bundle = [t \in Target |-> IF t = "istio" THEN buildCABundleContent(mem[Watcher]) ELSE {}]
  /\ authservice = AuthserviceUpdate(mem[Watcher])
  /\ changes = 0 /\ faults = 0
  /\ done = [p \in Proc |-> 1] /\ trouble = {}

Quiet ==
  /\ watching = Proc /\ certsQueue = <<>> /\ secretQueue = <<>>
  /\ \A p \in Proc : queue[p] = <<>> /\ task[p] = Idle
  /\ certsTask = "idle" /\ secretTask = Idle /\ \A w \in Writer : write[w].todo = {}
  /\ due = {} /\ \A k \in Package : applying[k] = None

----------------------------------------------------------------------------
shouldSkip(c) == c.phase = "Pending" \/ c.observed = c.gen

Notify(c) ==
  queue' = [p \in Proc |-> IF p \in watching /\ ~shouldSkip(c) THEN Append(queue[p], c) ELSE queue[p]]

Valid(spec) == spec.certs \in Parsing \cup {None}

(* The administrator. The webhook refuses certificates that do not parse.  *)
ChangeSpec(spec) ==
  /\ changes < MaxChanges /\ spec # cfg.spec
  /\ Valid(spec)
  /\ cfg' = [cfg EXCEPT !.gen = @ + 1, !.spec = spec]
  /\ Notify(cfg')
  /\ changes' = changes + 1
  /\ UNCHANGED <<shipped, secret, certsQueue, secretQueue, watching, mem, task, certsTask,
                 secretTask, write, cluster, authservice, faults, done, trouble>>

ChangeShipped(certs) ==
  /\ changes < MaxChanges /\ certs # shipped
  /\ shipped' = certs
  /\ certsQueue' = IF Watcher \in watching THEN Append(certsQueue, certs) ELSE certsQueue
  /\ changes' = changes + 1
  /\ UNCHANGED <<cfg, secret, queue, secretQueue, watching, mem, task, certsTask, secretTask,
                 write, cluster, authservice, faults, done, trouble>>

ChangeSecret(s) ==
  /\ changes < MaxChanges /\ s # secret
  /\ secret' = s
  /\ secretQueue' = IF Watcher \in watching THEN Append(secretQueue, s) ELSE secretQueue
  /\ changes' = changes + 1
  /\ UNCHANGED <<cfg, shipped, queue, certsQueue, watching, mem, task, certsTask, secretTask,
                 write, cluster, authservice, faults, done, trouble>>

----------------------------------------------------------------------------
(* handleCfg, one action per request it waits for.                         *)
Goto(p, at) == task' = [task EXCEPT ![p].at = at]
Finish(p) == task' = [task EXCEPT ![p] = Idle]
Updates(p) == p = Watcher /\ ~task[p].load

StartCfg(p) ==
  /\ task[p] = Idle /\ queue[p] # <<>>
  /\ task' = [task EXCEPT ![p] = [Idle EXCEPT !.at = "pending", !.gen = Head(queue[p]).gen,
                                             !.spec = Head(queue[p]).spec]]
  /\ queue' = [queue EXCEPT ![p] = Tail(@)]
  /\ UNCHANGED <<objects, certsQueue, secretQueue, watching, mem, certsTask, secretTask, write,
                 cluster, authservice, changes, faults, done, trouble>>

PatchStatus(status) ==
  /\ cfg' = [cfg EXCEPT !.phase = status.phase, !.observed = status.observed]
  /\ Notify(cfg')
  /\ UNCHANGED <<shipped, secret, certsQueue, secretQueue, watching>>

PatchPending(p) ==
  /\ task[p].at = "pending"
  /\ PatchStatus([phase |-> "Pending", observed |-> cfg.observed])
  /\ Goto(p, "fetch")
  /\ UNCHANGED <<mem, certsTask, secretTask, write, cluster, authservice, changes, faults, done, trouble>>

(* fetchCACerts is answered; the answer is used after whatever comes first. *)
FetchCACerts(p) ==
  /\ task[p].at = "fetch"
  /\ task' = [task EXCEPT ![p].shipped = shipped, ![p].at = "bundle"]
  /\ UNCHANGED <<objects, events, mem, certsTask, secretTask, write, cluster, authservice,
                 changes, faults, done, trouble>>

HandleTellingFirst(p) ==
  /\ task[p].at = "bundle"
  /\ mem' = [mem EXCEPT ![p].certs = task[p].spec.certs, ![p].includes = task[p].spec.includes,
                        ![p].shipped = task[p].shipped]
  /\ task' = [task EXCEPT ![p].at = IF Updates(p) THEN "authservice" ELSE "cidrs",
                          ![p].secret = IF Updates(p) THEN AuthserviceUpdate(mem[p]) ELSE @]
  /\ UNCHANGED <<objects, events, certsTask, secretTask, write, cluster, authservice, changes,
                 faults, done, trouble>>

HandleCABundle(p) ==
  /\ task[p].at = "bundle"
  /\ mem' = [mem EXCEPT ![p].certs = task[p].spec.certs, ![p].includes = task[p].spec.includes,
                        ![p].shipped = task[p].shipped]
  /\ trouble' = trouble \cup (IF p = Watcher /\ task[p].shipped # shipped THEN {"outdated"} ELSE {})
  /\ task' = [task EXCEPT ![p].at = IF Updates(p) THEN "authservice" ELSE "cidrs",
                          ![p].secret = IF Updates(p) THEN AuthserviceUpdate(mem'[p]) ELSE @]
  /\ UNCHANGED <<objects, events, certsTask, secretTask, write, cluster, authservice, changes, faults, done>>

(* Two callers at a time may be served in any order.                       *)
Tell(update) ==
  /\ authservice' = update
  /\ trouble' = (IF update = AuthserviceUpdate(mem[Watcher]) THEN trouble \ {"certs"} ELSE trouble)
       \cup (IF task[Watcher].at = secretTask.at THEN {"together"} ELSE {})

UpdateAuthservice ==
  /\ task[Watcher].at = "authservice"
  /\ Tell(task[Watcher].secret)
  /\ Goto(Watcher, "list")
  /\ UNCHANGED <<objects, events, mem, certsTask, secretTask, write, cluster, changes, faults, done>>

(* A bundle arrives after one that was made later.                         *)
Arrives(t, content) ==
  LET current == buildCABundleContent(mem[Watcher])
  IN  /\ bundle' = [bundle EXCEPT ![t] = content]
      /\ trouble' = trouble \cup
           (IF bundle[t] = current /\ content # current THEN {"late"} ELSE {})

(* updateAllCaBundleConfigMaps: every package listed is written what the   *)
(* bundle is now, Istio what it is once the namespace is there.            *)
List(w) ==
  write' = [write EXCEPT ![w] = [todo |-> packages \cup {"namespace"}, istio |-> {},
                                 content |-> buildCABundleContent(mem[Watcher])]]

ListPackages ==
  /\ task[Watcher].at = "list"
  /\ List("cfg")
  /\ Goto(Watcher, "cidrs")
  /\ UNCHANGED <<objects, events, mem, certsTask, secretTask, cluster, authservice, changes, faults, done, trouble>>

WriteBundle(w, k) ==
  /\ k \in write[w].todo \cap Package
  /\ Arrives(k, write[w].content)
  /\ write' = [write EXCEPT ![w].todo = @ \ {k}]
  /\ UNCHANGED <<objects, events, mem, task, certsTask, secretTask, packages, due, applying,
                 authservice, changes, faults, done>>

ApplyNamespace(w) ==
  /\ "namespace" \in write[w].todo
  /\ write' = [write EXCEPT ![w].todo = (@ \ {"namespace"}) \cup {"istio"},
                            ![w].istio = buildCABundleContent(mem[Watcher])]
  /\ UNCHANGED <<objects, events, mem, task, certsTask, secretTask, cluster, authservice,
                 changes, faults, done, trouble>>

WriteIstio(w) ==
  /\ "istio" \in write[w].todo
  /\ Arrives("istio", write[w].istio)
  /\ write' = [write EXCEPT ![w].todo = @ \ {"istio"}]
  /\ UNCHANGED <<objects, events, mem, task, certsTask, secretTask, packages, due, applying,
                 authservice, changes, faults, done>>

(* Once all are written, or given up: CIDRs, domain and exemptions. The    *)
(* node CIDRs come after the policies of the API server are rewritten.     *)
SetCidrs(p) ==
  /\ task[p].at = "cidrs" /\ (p = Watcher => write["cfg"].todo = {})
  /\ mem' = [mem EXCEPT ![p].cidrs.api = task[p].spec.cidrs.api]
  /\ Goto(p, "nodes")
  /\ UNCHANGED <<objects, events, certsTask, secretTask, write, cluster, authservice, changes,
                 faults, done, trouble>>

SetNodeCidrs(p) ==
  /\ task[p].at = "nodes"
  /\ mem' = [mem EXCEPT ![p].cidrs.nodes = task[p].spec.cidrs.nodes]
  /\ Goto(p, "rest")
  /\ UNCHANGED <<objects, events, certsTask, secretTask, write, cluster, authservice, changes,
                 faults, done, trouble>>

SetRest(p) ==
  /\ task[p].at = "rest"
  /\ mem' = [mem EXCEPT ![p].domain = DomainOf(task[p].spec), ![p].exemptAll = task[p].spec.exemptAll]
  /\ done' = [done EXCEPT ![p] = task[p].gen]
  /\ Goto(p, "ready")
  /\ UNCHANGED <<objects, events, certsTask, secretTask, write, cluster, authservice, changes,
                 faults, trouble>>

PatchReadyForCurrent(p) ==
  /\ task[p].at = "ready"
  /\ PatchStatus([phase |-> "Ready", observed |-> cfg.gen])
  /\ IF task[p].load THEN Goto(p, "secret") ELSE Finish(p)
  /\ UNCHANGED <<mem, certsTask, secretTask, write, cluster, authservice, changes, faults, done, trouble>>

(* The generation recorded is the one of the snapshot.                     *)
PatchReady(p) ==
  /\ task[p].at = "ready"
  /\ PatchStatus([phase |-> "Ready", observed |-> task[p].gen])
  /\ IF task[p].load THEN Goto(p, "secret") ELSE Finish(p)
  /\ UNCHANGED <<mem, certsTask, secretTask, write, cluster, authservice, changes, faults, done, trouble>>

(* A start that fails ends the process, which starts again.                *)
PatchFailed(p) ==
  /\ task[p].at = "failed"
  /\ PatchStatus([phase |-> "Failed", observed |-> task[p].gen])
  /\ IF task[p].load THEN Goto(p, "get") ELSE Finish(p)
  /\ UNCHANGED <<mem, certsTask, secretTask, write, cluster, authservice, changes, faults, done, trouble>>

----------------------------------------------------------------------------
StartCertsWithoutMemory ==
  /\ certsTask = "idle" /\ write["certs"].todo = {} /\ certsQueue # <<>>
  /\ certsTask' = "list"
  /\ certsQueue' = Tail(certsQueue)
  /\ UNCHANGED <<objects, queue, secretQueue, watching, mem, task, secretTask, write, cluster,
                 authservice, changes, faults, done, trouble>>

(* handleUDSCACertsConfigMapUpdate.                                        *)
StartCerts ==
  /\ certsTask = "idle" /\ write["certs"].todo = {} /\ certsQueue # <<>>
  /\ LET certs == Head(certsQueue)
         m == mem[Watcher]
     IN  IF \E o \in m.includes : m.shipped[o] # certs[o]
         THEN /\ mem' = [mem EXCEPT ![Watcher].shipped = certs] /\ certsTask' = "list"
              /\ trouble' = trouble \cup {"certs"}
         ELSE UNCHANGED <<mem, certsTask, trouble>>
  /\ certsQueue' = Tail(certsQueue)
  /\ UNCHANGED <<objects, queue, secretQueue, watching, task, secretTask, write, cluster,
                 authservice, changes, faults, done>>

ListForCerts ==
  /\ certsTask = "list"
  /\ List("certs")
  /\ certsTask' = "idle"
  /\ UNCHANGED <<objects, events, mem, task, secretTask, cluster, authservice, changes, faults, done, trouble>>

(* handleCfgSecret: the client mode waits for authservice.                 *)
StartSecret ==
  /\ secretTask = Idle /\ secretQueue # <<>>
  /\ LET s == Head(secretQueue)
         changed == mem[Watcher].redis # s.redis
     IN  /\ mem' = [mem EXCEPT ![Watcher].redis = s.redis,
                               ![Watcher].mode = IF changed THEN @ ELSE ModeOf(s)]
         /\ secretTask' = IF changed THEN [Idle EXCEPT !.at = "authservice", !.spec = s,
                                                       !.secret = AuthserviceUpdate(mem'[Watcher])]
                          ELSE Idle
  /\ secretQueue' = Tail(secretQueue)
  /\ UNCHANGED <<objects, queue, certsQueue, watching, task, certsTask, write, cluster,
                 authservice, changes, faults, done, trouble>>

UpdateForSecret ==
  /\ secretTask.at = "authservice"
  /\ Tell(secretTask.secret)
  /\ mem' = [mem EXCEPT ![Watcher].mode = ModeOf(secretTask.spec)]
  /\ secretTask' = Idle
  /\ UNCHANGED <<objects, events, task, certsTask, write, cluster, changes, faults, done>>

----------------------------------------------------------------------------
(* caBundleConfigMap on behalf of a package that is being reconciled.      *)
CreatePackage(k) ==
  /\ changes < MaxChanges /\ k \notin packages
  /\ packages' = packages \cup {k} /\ due' = due \cup {k}
  /\ changes' = changes + 1
  /\ UNCHANGED <<objects, events, mem, task, certsTask, secretTask, write, applying, bundle,
                 authservice, faults, done, trouble>>

BuildBundle(k) ==
  /\ k \in due /\ Watcher \in watching
  /\ applying' = [applying EXCEPT ![k] = buildCABundleContent(mem[Watcher])]
  /\ due' = due \ {k}
  /\ UNCHANGED <<objects, events, mem, task, certsTask, secretTask, write, packages, bundle,
                 authservice, changes, faults, done, trouble>>

ApplyBundle(k) ==
  /\ applying[k] # None
  /\ Arrives(k, applying[k])
  /\ applying' = [applying EXCEPT ![k] = None]
  /\ UNCHANGED <<objects, events, mem, task, certsTask, secretTask, write, packages, due,
                 authservice, changes, faults, done>>

----------------------------------------------------------------------------
(* A process starts: loadUDSConfig, then the watches. Reconciliation of    *)
(* every package starts with them. The first fetch of the certificates,    *)
(* repeated by handleCfg before anything uses it, is left out.             *)
Restart(p) ==
  /\ faults < MaxFaults
  /\ faults' = faults + 1 /\ trouble' = trouble \cup {"restart"}
  /\ watching' = watching \ {p}
  /\ mem' = [mem EXCEPT ![p] = UDSConfig]
  /\ task' = [task EXCEPT ![p] = [Idle EXCEPT !.at = "get"]]
  /\ queue' = [queue EXCEPT ![p] = <<>>]
  /\ IF p = Watcher
     THEN /\ certsQueue' = <<>> /\ secretQueue' = <<>> /\ certsTask' = "idle" /\ secretTask' = Idle
          /\ write' = [w \in Writer |-> NoWrites] /\ applying' = [k \in Package |-> None]
     ELSE UNCHANGED <<certsQueue, secretQueue, certsTask, secretTask, write, applying>>
  /\ UNCHANGED <<objects, packages, due, bundle, authservice, changes, done>>

Get(p) ==
  /\ task[p].at = "get"
  /\ Valid(cfg.spec)
  /\ task' = [task EXCEPT ![p] = [at |-> "pending", gen |-> cfg.gen, spec |-> cfg.spec,
                                  load |-> TRUE, shipped |-> None, secret |-> secret]]
  /\ mem' = [mem EXCEPT ![p] = UDSConfig]
  /\ UNCHANGED <<objects, events, certsTask, secretTask, write, cluster, authservice,
                 changes, faults, done, trouble>>

LoadSecret(p) ==
  /\ task[p].at = "secret"
  /\ mem' = [mem EXCEPT ![p].redis = task[p].secret.redis, ![p].mode = ModeOf(task[p].secret)]
  /\ write' = IF p = Watcher THEN [write EXCEPT !["cfg"].todo = {"namespace"}] ELSE write
  /\ Goto(p, "watch")
  /\ UNCHANGED <<objects, events, certsTask, secretTask, cluster, authservice, changes, faults, done, trouble>>

StartWatches(p) ==
  /\ task[p].at = "watch" /\ (p = Watcher => write["cfg"].todo = {})
  /\ watching' = watching \cup {p}
  /\ queue' = [queue EXCEPT ![p] = IF shouldSkip(cfg) THEN <<>> ELSE <<cfg>>]
  /\ IF p = Watcher THEN certsQueue' = <<shipped>> /\ secretQueue' = <<secret>> /\ due' = packages
     ELSE UNCHANGED <<certsQueue, secretQueue, due>>
  /\ Finish(p)
  /\ UNCHANGED <<objects, mem, certsTask, secretTask, write, packages, applying, bundle,
                 authservice, changes, faults, done, trouble>>

Waits(p) == \/ task[p].at \in {"pending", "fetch", "authservice", "list", "ready"}
            \/ task[p].at = "nodes" /\ Updates(p) /\ task[p].spec.cidrs.nodes # None

FailWithoutStatus(p) ==
  /\ faults < MaxFaults
  /\ Waits(p)
  /\ Finish(p)
  /\ faults' = faults + 1 /\ trouble' = trouble \cup {"request"}
  /\ UNCHANGED <<objects, events, mem, certsTask, secretTask, write, cluster, authservice, changes, done>>

(* A request fails. Before the last patch that is the outcome Failed; the  *)
(* last patch itself leaves the status as it is.                           *)
FailCfg(p) ==
  /\ faults < MaxFaults
  /\ \/ /\ Waits(p)
        /\ Goto(p, "failed")
        /\ trouble' = trouble \cup {"request"}
     \/ /\ task[p].at = "failed"
        /\ IF task[p].load THEN Goto(p, "get") ELSE Finish(p)
        /\ trouble' = trouble \cup {"request", "status"}
  /\ faults' = faults + 1
  /\ UNCHANGED <<objects, events, mem, certsTask, secretTask, write, cluster, authservice, changes, done>>

(* The failure of one bundle is logged, except when the process starts.    *)
FailWrite(w, t) ==
  /\ faults < MaxFaults /\ t \in write[w].todo
  /\ IF w = "cfg" /\ task[Watcher].at = "watch"
     THEN write' = [write EXCEPT ![w] = NoWrites] /\ Goto(Watcher, "get")
     ELSE write' = [write EXCEPT ![w].todo = @ \ {t}] /\ UNCHANGED task
  /\ faults' = faults + 1 /\ trouble' = trouble \cup {"request"}
  /\ UNCHANGED <<objects, events, mem, certsTask, secretTask, cluster, authservice, changes, done>>

FailOther ==
  /\ faults < MaxFaults
  /\ \/ certsTask = "list" /\ certsTask' = "idle" /\ UNCHANGED secretTask
     \/ secretTask # Idle /\ secretTask' = Idle /\ UNCHANGED certsTask
  /\ faults' = faults + 1 /\ trouble' = trouble \cup {"request"}
  /\ UNCHANGED <<objects, events, mem, task, write, cluster, authservice, changes, done>>

----------------------------------------------------------------------------
HandleCfg(p) ==
  \/ StartCfg(p) \/ PatchPending(p) \/ FetchCACerts(p) \/ HandleCABundle(p)
  \/ SetCidrs(p) \/ SetNodeCidrs(p) \/ SetRest(p) \/ PatchReady(p) \/ PatchFailed(p)

Load(p) == Get(p) \/ LoadSecret(p) \/ StartWatches(p)

Write(w) == (\E k \in Package : WriteBundle(w, k)) \/ ApplyNamespace(w) \/ WriteIstio(w)

WatcherOnly == UpdateAuthservice \/ ListPackages \/ StartCerts \/ ListForCerts
               \/ StartSecret \/ UpdateForSecret

Next ==
  \/ \E spec \in Specs : ChangeSpec(spec)
  \/ \E certs \in ShippedCerts : ChangeShipped(certs)
  \/ \E s \in Secrets : ChangeSecret(s)
  \/ \E p \in Proc : HandleCfg(p) \/ Load(p) \/ FailCfg(p) \/ Restart(p)
  \/ \E w \in Writer : Write(w) \/ \E t \in Package \cup {"namespace", "istio"} : FailWrite(w, t)
  \/ WatcherOnly \/ FailOther
  \/ \E k \in Package : CreatePackage(k) \/ BuildBundle(k) \/ ApplyBundle(k)

Spec == Init /\ [][Next]_vars

(* Requests are answered, handlers are called, processes come up again.    *)
Fairness ==
  /\ \A p \in Proc : WF_vars(HandleCfg(p)) /\ WF_vars(Load(p))
  /\ \A w \in Writer : WF_vars(Write(w))
  /\ WF_vars(UpdateAuthservice) /\ WF_vars(ListPackages)

FairSpec == Spec /\ Fairness

----------------------------------------------------------------------------
At == {"idle", "pending", "fetch", "bundle", "authservice", "list", "cidrs", "nodes", "rest",
       "ready", "failed", "get", "secret", "watch"}
Update == [ca : SUBSET Cert, redis : Uri \cup {None}]
Snapshot == [gen : Nat \ {0}, spec : Specs, phase : {"Pending", "Ready", "Failed"}, observed : Nat \ {0}]
Memory == [certs : Cert \cup {None}, includes : SUBSET Origin, shipped : Shipped,
           cidrs : [api : Cidr \cup {None}, nodes : Cidr \cup {None}], domain : Domain \cup {None, DefaultDomain},
           exemptAll : BOOLEAN, redis : Uri \cup {None}, mode : STRING \cup {DefaultMode}]
Task == [at : At, gen : Nat, spec : Specs \cup {None}, load : BOOLEAN,
         shipped : Shipped \cup {None}, secret : SecretData \cup Update \cup {None}]
Writes == [todo : SUBSET (Package \cup {"namespace", "istio"}), content : SUBSET Cert, istio : SUBSET Cert]

(* What the requests of a handler may rely on. A process without watches   *)
(* is starting, and only then; only the watcher is ever about to write.    *)
TaskOK(p) ==
  LET t == task[p]
  IN  /\ (p \notin watching) = (t.load \/ t.at = "get")
      /\ t.at = "idle" => t = Idle
      /\ t.at \in {"authservice", "list"} => p = Watcher /\ ~t.load
      /\ t.at \in {"secret", "watch"} => t.load
      /\ t.at \notin {"idle", "get"} => t.gen \in 1..cfg.gen /\ t.spec \in Specs
      /\ t.at = "bundle" => t.shipped \in Shipped
      /\ t.at = "authservice" => t.secret \in Update
      /\ t.load /\ t.at # "get" => t.secret \in SecretData

(* The status never runs ahead of the object, and nothing is queued that   *)
(* shouldSkip refuses.                                                     *)
StatusOK ==
  /\ cfg \in Snapshot /\ cfg.observed <= cfg.gen
  /\ queue \in [Proc -> Seq(Snapshot)]
  /\ \A p \in Proc : \A i \in 1..Len(queue[p]) : ~shouldSkip(queue[p][i]) /\ queue[p][i].gen <= cfg.gen

InputsOK ==
  /\ shipped \in Shipped /\ certsQueue \in Seq(Shipped)
  /\ secret \in SecretData /\ secretQueue \in Seq(SecretData)

ProcessesOK ==
  /\ watching \subseteq Proc /\ mem \in [Proc -> Memory] /\ task \in [Proc -> Task]
  /\ \A p \in Proc : TaskOK(p)

HandlersOK ==
  /\ certsTask \in {"idle", "list"}
  /\ \/ secretTask = Idle
     \/ secretTask.at = "authservice" /\ secretTask.spec \in SecretData /\ secretTask.secret \in Update
  /\ write \in [Writer -> Writes]

ClusterOK ==
  /\ packages \subseteq Package /\ due \subseteq packages /\ applying \in [Package -> {None} \cup SUBSET Cert]
  /\ bundle \in [Target -> SUBSET Cert] /\ authservice \in Update

BoundsOK ==
  /\ changes \in Nat /\ faults \in Nat /\ done \in [Proc -> Nat]
  /\ trouble \subseteq {"request", "restart", "status", "outdated", "late", "certs", "together"}

TypeOK == StatusOK /\ InputsOK /\ ProcessesOK /\ HandlersOK /\ ClusterOK /\ BoundsOK

(* When nothing is left to do every process has settled the newest         *)
(* generation and knows what it says, unless a request failed or a process *)
(* had to start again: edits made while the status is Pending are skipped  *)
(* by everyone and must come back with a later status.                     *)
Knows(p) ==
  /\ mem[p].certs = cfg.spec.certs /\ mem[p].includes = cfg.spec.includes
  /\ mem[p].cidrs = cfg.spec.cidrs /\ mem[p].domain = DomainOf(cfg.spec)
  /\ mem[p].exemptAll = cfg.spec.exemptAll

FollowsConfig ==
  Quiet /\ trouble \cap {"request", "restart"} = {} =>
    \A p \in Proc : done[p] = cfg.gen /\ Knows(p)

(* The same whatever starts again: "The current generation has already     *)
(* been processed", says shouldSkip of an object with this status.         *)
(* Does not hold and is in no run: see the README's divergences.            *)
EveryoneFollows == Quiet /\ "request" \notin trouble => \A p \in Proc : Knows(p)

(* When nothing is left to do, the trust bundles of Istio and of every     *)
(* package hold the watcher's certificates and the shipped ones as they    *)
(* are now, restarts included, unless handleCfg used an outdated answer or *)
(* an older bundle arrived last.                                           *)
BundlesCurrent ==
  Quiet /\ trouble \cap {"request", "outdated", "late"} = {} =>
    \A t \in packages \cup {"istio"} :
      bundle[t] = buildCABundleContent([mem[Watcher] EXCEPT !.shipped = shipped])

(* When nothing is left to do authservice has been told the bundle and the *)
(* Redis URI the watcher knows, unless the shipped certificates changed    *)
(* since or two handlers told it at a time.                                *)
AuthserviceFollows ==
  Quiet /\ trouble \cap {"request", "restart", "certs", "together"} = {} =>
    authservice = AuthserviceUpdate(mem[Watcher])

(* The same whenever certificates change: "Injects the bundle into         *)
(* Authservice for OIDC TLS verification" (manage-trust-bundles.mdx).      *)
(* Does not hold and is in no run: see the README's divergences.            *)
AuthserviceTrusts == Quiet /\ trouble \subseteq {"certs"} => authservice = AuthserviceUpdate(mem[Watcher])

(* The status comes to rest at the newest generation, whatever failed, if  *)
(* the patch that records a failure did not fail as well.                  *)
EventuallyProcessed ==
  <>[]("status" \in trouble \/ (cfg.phase # "Pending" /\ cfg.observed = cfg.gen))
=============================================================================
