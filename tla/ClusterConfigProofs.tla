------------------------- MODULE ClusterConfigProofs -------------------------
(***************************************************************************)
(* Proofs about ClusterConfig for any processes, packages, specs,          *)
(* certificates and bounds.                                                *)
(***************************************************************************)
EXTENDS ClusterConfig, TLAPS

-----------------------------------------------------------------------------
(* Type correctness.                                                       *)

(* What a process knows, edited.                                           *)
LEMMA MemoryEdited ==
  ASSUME NEW m \in Memory, NEW spec \in ClusterSpec, NEW certs \in Shipped, NEW s \in SecretData
  PROVE  /\ [m EXCEPT !.certs = spec.certs, !.includes = spec.includes, !.shipped = certs] \in Memory
         /\ [m EXCEPT !.shipped = certs] \in Memory
         /\ [m EXCEPT !.cidrs.api = spec.cidrs.api] \in Memory
         /\ [m EXCEPT !.cidrs.nodes = spec.cidrs.nodes] \in Memory
         /\ [m EXCEPT !.domain = DomainOf(spec), !.exemptAll = spec.exemptAll] \in Memory
         /\ [m EXCEPT !.redis = s.redis, !.mode = ModeOf(s)] \in Memory
         /\ [m EXCEPT !.redis = s.redis] \in Memory
         /\ [m EXCEPT !.mode = ModeOf(s)] \in Memory
         /\ UDSConfig \in Memory /\ Settled(spec, certs, s) \in Memory
         /\ buildCABundleContent(m) \in SUBSET Cert /\ AuthserviceUpdate(m) \in Update
<1>1. /\ [m EXCEPT !.certs = spec.certs, !.includes = spec.includes, !.shipped = certs] \in Memory
      /\ [m EXCEPT !.shipped = certs] \in Memory
      /\ [m EXCEPT !.cidrs.api = spec.cidrs.api] \in Memory
      /\ [m EXCEPT !.cidrs.nodes = spec.cidrs.nodes] \in Memory
  <2>1. [m EXCEPT !.certs = spec.certs, !.includes = spec.includes, !.shipped = certs] \in Memory
    BY DEF Memory, ClusterSpec
  <2>2. [m EXCEPT !.shipped = certs] \in Memory
    BY DEF Memory
  <2>3. [m EXCEPT !.cidrs.api = spec.cidrs.api] \in Memory
    BY DEF Memory, ClusterSpec
  <2>4. [m EXCEPT !.cidrs.nodes = spec.cidrs.nodes] \in Memory
    BY DEF Memory, ClusterSpec
  <2>5. QED
    BY <2>1, <2>2, <2>3, <2>4
<1>2. DomainOf(spec) \in Domain \cup {None, DefaultDomain}
  BY DEF DomainOf, ClusterSpec
<1>3. [m EXCEPT !.domain = DomainOf(spec), !.exemptAll = spec.exemptAll] \in Memory
  BY <1>2 DEF Memory, ClusterSpec
<1>4. ModeOf(s) \in STRING \cup {DefaultMode} /\ s.redis \in Uri \cup {None}
  BY DEF ModeOf, SecretData
<1>5. /\ [m EXCEPT !.redis = s.redis, !.mode = ModeOf(s)] \in Memory
      /\ [m EXCEPT !.redis = s.redis] \in Memory
      /\ [m EXCEPT !.mode = ModeOf(s)] \in Memory
  BY <1>4 DEF Memory
<1>6. UDSConfig \in Memory
  BY DEF UDSConfig, Memory, Shipped
<1>7. Settled(spec, certs, s) \in Memory
  BY <1>2, <1>4 DEF Settled, Memory, ClusterSpec
<1>8. buildCABundleContent(m) \in SUBSET Cert
  BY DEF buildCABundleContent, Memory, Shipped
<1>9. AuthserviceUpdate(m) \in Update
  BY <1>8 DEF AuthserviceUpdate, Update, Memory
<1>10. QED
  BY <1>1, <1>3, <1>5, <1>6, <1>7, <1>8, <1>9

(* A task, edited.                                                         *)
LEMMA TaskEdited ==
  ASSUME NEW t \in Task, NEW at \in At, NEW certs \in Shipped, NEW update \in Update
  PROVE  /\ [t EXCEPT !.at = at] \in Task
         /\ [t EXCEPT !.at = at, !.shipped = certs] \in Task /\ [t EXCEPT !.shipped = certs, !.at = at] \in Task
         /\ [t EXCEPT !.at = at, !.secret = update] \in Task
         /\ Idle \in Task /\ [Idle EXCEPT !.at = at] \in Task
         /\ Idle.at = "idle" /\ Idle.gen = 0 /\ ~Idle.load
<1>1. [t EXCEPT !.at = at] \in Task
  BY DEF Task
<1>2. [t EXCEPT !.at = at, !.shipped = certs] \in Task /\ [t EXCEPT !.shipped = certs, !.at = at] \in Task
  BY DEF Task
<1>3. [t EXCEPT !.at = at, !.secret = update] \in Task
  BY DEF Task
<1>4. Idle \in Task
  BY DEF Task, Idle, At
<1>5. Idle.at = "idle" /\ Idle.gen = 0 /\ ~Idle.load
  BY DEF Idle
<1>6. [Idle EXCEPT !.at = at] \in Task
  BY <1>4 DEF Task
<1>7. QED
  BY <1>1, <1>2, <1>3, <1>4, <1>5, <1>6

LEMMA TypeInit == Init => TypeOK
<1> SUFFICES ASSUME Init PROVE TypeOK
  OBVIOUS
<1>1. /\ InitialSpec \in ClusterSpec /\ InitialSpec \in Specs /\ InitialShipped \in Shipped /\ InitialSecret \in SecretData
      /\ Watcher \in Proc
  BY SpecsAssumption, ShippedAssumption, SecretsAssumption, WatcherAssumption
<1> DEFINE m == Settled(InitialSpec, InitialShipped, InitialSecret)
<1>2. m \in Memory
  <2>1. UDSConfig \in Memory
    BY <1>1 DEF UDSConfig, Memory, Shipped
  <2>2. QED
    BY <1>1, <2>1, MemoryEdited
<1>3. buildCABundleContent(m) \in SUBSET Cert /\ AuthserviceUpdate(m) \in Update
  BY <1>1, <1>2, MemoryEdited
<1> HIDE DEF m
<1>4. mem = [p \in Proc |-> m] /\ mem[Watcher] = m
  BY <1>1 DEF Init, m
<1>5. Idle \in Task /\ Idle.at = "idle" /\ ~Idle.load /\ Idle.at \notin {"authservice", "list", "secret", "watch", "get", "bundle"}
  BY DEF Idle, Task, At
<1>6. cfg \in Snapshot /\ cfg.observed <= cfg.gen /\ shipped \in Shipped /\ secret \in SecretData
  BY <1>1 DEF Init, Snapshot
<1>7. /\ queue \in [Proc -> Seq(Snapshot)] /\ certsQueue \in Seq(Shipped) /\ secretQueue \in Seq(SecretData)
      /\ watching = Proc /\ mem \in [Proc -> Memory] /\ task = [p \in Proc |-> Idle] /\ task \in [Proc -> Task]
      /\ certsTask \in {"idle", "list"} /\ secretTask = Idle
  BY <1>2, <1>4, <1>5 DEF Init
<1>8. /\ write \in [Writer -> Writes] /\ packages = {} /\ due = {}
      /\ applying \in [Package -> {None} \cup SUBSET Cert]
  BY DEF Init, NoWrites, Writes
<1>9. bundle \in [Target -> SUBSET Cert] /\ authservice \in Update
  BY <1>3, <1>4 DEF Init
<1>10. /\ changes \in Nat /\ faults \in Nat /\ done \in [Proc -> Nat] /\ trouble = {}
  BY DEF Init
<1>11. ASSUME NEW p \in Proc PROVE TaskOK(p) /\ queue[p] = <<>>
  BY <1>5, <1>7 DEF Init, TaskOK
<1>12. QED
  BY <1>5, <1>6, <1>7, <1>8, <1>9, <1>10, <1>11 DEF TypeOK, StatusOK, InputsOK, ProcessesOK, HandlersOK, ClusterOK, BoundsOK

(* What one process knows and does.                                        *)
LEMMA ProcessStep ==
  ASSUME ProcessesOK, NEW p \in Proc, task' \in [Proc -> Task], \A q \in Proc : q # p => task'[q] = task[q],
         cfg'.gen = cfg.gen, watching' \subseteq Proc, \A q \in Proc : q # p => (q \in watching' <=> q \in watching),
         mem' \in [Proc -> Memory], TaskOK(p)'
  PROVE  ProcessesOK'
<1>1. ASSUME NEW q \in Proc, q # p PROVE TaskOK(q)'
  BY <1>1 DEF ProcessesOK, TaskOK
<1>2. QED
  BY <1>1 DEF ProcessesOK

(* A request is answered and the handler goes on.                          *)
LEMMA TaskGoes ==
  ASSUME ProcessesOK, NEW p \in Proc, NEW at \in At, Goto(p, at)
  PROVE  /\ task' \in [Proc -> Task]
         /\ \A q \in Proc : q # p => task'[q] = task[q]
         /\ task'[p].at = at /\ task'[p].gen = task[p].gen /\ task'[p].spec = task[p].spec
         /\ task'[p].load = task[p].load /\ task'[p].shipped = task[p].shipped /\ task'[p].secret = task[p].secret
<1>1. task' = [task EXCEPT ![p] = [task[p] EXCEPT !.at = at]]
  BY DEF Goto
<1>2. task[p] \in Task /\ task \in [Proc -> Task]
  BY DEF ProcessesOK
<1>3. [task[p] EXCEPT !.at = at] \in Task
  BY <1>2, TaskEdited DEF Task
<1>4. QED
  BY <1>1, <1>2, <1>3 DEF Task

(* The parts of the type invariant that a step leaves alone.               *)
LEMMA Kept ==
  /\ StatusOK /\ UNCHANGED <<cfg, queue>> => StatusOK'
  /\ InputsOK /\ UNCHANGED <<shipped, certsQueue, secret, secretQueue>> => InputsOK'
  /\ ProcessesOK /\ UNCHANGED <<cfg, watching, mem, task>> => ProcessesOK'
  /\ HandlersOK /\ UNCHANGED <<certsTask, secretTask, write>> => HandlersOK'
  /\ ClusterOK /\ UNCHANGED <<packages, due, applying, bundle, authservice>> => ClusterOK'
  /\ BoundsOK /\ UNCHANGED <<changes, faults, done, trouble>> => BoundsOK'
<1>1. StatusOK /\ UNCHANGED <<cfg, queue>> => StatusOK'
  BY DEF StatusOK, shouldSkip
<1>2. InputsOK /\ UNCHANGED <<shipped, certsQueue, secret, secretQueue>> => InputsOK'
  BY DEF InputsOK
<1>3. ProcessesOK /\ UNCHANGED <<cfg, watching, mem, task>> => ProcessesOK'
  BY DEF ProcessesOK, TaskOK
<1>4. HandlersOK /\ UNCHANGED <<certsTask, secretTask, write>> => HandlersOK'
  BY DEF HandlersOK
<1>5. ClusterOK /\ UNCHANGED <<packages, due, applying, bundle, authservice>> => ClusterOK'
  BY DEF ClusterOK
<1>6. BoundsOK /\ UNCHANGED <<changes, faults, done, trouble>> => BoundsOK'
  BY DEF BoundsOK
<1>7. QED
  BY <1>1, <1>2, <1>3, <1>4, <1>5, <1>6

(* An event of the watch of the ClusterConfig.                             *)
LEMMA Notified ==
  ASSUME StatusOK, NEW c \in Snapshot, cfg' = c, cfg.gen <= c.gen, c.observed <= c.gen, Notify(c)
  PROVE  StatusOK'
<1>1. ASSUME NEW p \in Proc
      PROVE  /\ queue'[p] \in Seq(Snapshot)
             /\ \A i \in 1..Len(queue'[p]) : ~shouldSkip(queue'[p][i]) /\ queue'[p][i].gen <= c.gen
  <2>1. queue[p] \in Seq(Snapshot) /\ \A i \in 1..Len(queue[p]) : ~shouldSkip(queue[p][i]) /\ queue[p][i].gen <= cfg.gen
    BY DEF StatusOK
  <2>2. \A i \in 1..Len(queue[p]) : queue[p][i] \in Snapshot
    BY <2>1
  <2>3. cfg.gen \in Nat /\ c.gen \in Nat /\ \A i \in 1..Len(queue[p]) : queue[p][i].gen \in Nat
    BY <2>2 DEF StatusOK, Snapshot
  <2>4. CASE queue'[p] = queue[p]
    BY <2>1, <2>3, <2>4
  <2>5. CASE queue'[p] = Append(queue[p], c) /\ ~shouldSkip(c)
    <3>1. ASSUME NEW i \in 1..Len(queue'[p])
          PROVE  queue'[p][i] = c \/ (i \in 1..Len(queue[p]) /\ queue'[p][i] = queue[p][i])
      BY <2>1, <2>5
    <3>2. QED
      BY <2>1, <2>3, <2>5, <3>1
  <2>6. QED
    BY <2>4, <2>5 DEF Notify
<1>2. queue' \in [Proc -> Seq(Snapshot)]
  BY <1>1 DEF Notify
<1>3. QED
  BY <1>1, <1>2 DEF StatusOK, shouldSkip

(* Who uses the cluster, and the bundles of packages.                      *)
LEMMA TypeUsers ==
  ASSUME TypeOK,
         \/ \E spec \in Specs : ChangeSpec(spec)
         \/ \E certs \in ShippedCerts : ChangeShipped(certs)
         \/ \E s \in Secrets : ChangeSecret(s)
         \/ \E k \in Package : CreatePackage(k) \/ BuildBundle(k) \/ ApplyBundle(k)
  PROVE  TypeOK'
<1> USE DEF TypeOK
<1>1. ASSUME NEW spec \in Specs, ChangeSpec(spec) PROVE TypeOK'
  <2>1. PICK c : c = cfg'
    OBVIOUS
  <2>2. PICK n : n = cfg.gen + 1
    OBVIOUS
  <2>3. cfg \in Snapshot /\ cfg' = [cfg EXCEPT !.gen = n, !.spec = spec] /\ Notify(c) /\ cfg.observed <= cfg.gen
    BY <1>1, <2>1, <2>2 DEF ChangeSpec, StatusOK
  <2>4. n \in Nat \ {0} /\ cfg.gen < n /\ cfg.observed <= n /\ cfg.gen \in Nat
    BY <2>2, <2>3 DEF Snapshot
  <2>5. c \in Snapshot /\ cfg.gen <= c.gen /\ c.observed <= c.gen /\ cfg' = c /\ c.gen = n
    <3>1. c = [cfg EXCEPT !.gen = n, !.spec = spec] /\ cfg \in Snapshot
      BY <2>1, <2>3
    <3>2. c \in Snapshot /\ c.gen = n /\ c.observed = cfg.observed
      BY <2>4, <3>1 DEF Snapshot
    <3>3. QED
      BY <2>1, <2>4, <3>2
  <2>6. StatusOK'
    BY <2>3, <2>5, Notified
  <2>7. UNCHANGED <<shipped, secret, certsQueue, secretQueue, watching, mem, task, certsTask,
                    secretTask, write, packages, due, applying, bundle, authservice, faults, done, trouble>>
    BY <1>1 DEF ChangeSpec, cluster
  <2>8. ASSUME NEW p \in Proc PROVE TaskOK(p)'
    <3>1. TaskOK(p) /\ 1..cfg.gen \subseteq 1..cfg'.gen /\ task' = task /\ watching' = watching
      BY <2>4, <2>5, <2>7 DEF ProcessesOK
    <3>2. QED
      BY <3>1 DEF TaskOK
  <2>9. ProcessesOK'
    BY <2>7, <2>8 DEF ProcessesOK
  <2>10. BoundsOK'
    <3>1. changes' = changes + 1
      BY <1>1 DEF ChangeSpec
    <3>2. QED
      BY <2>7, <3>1 DEF BoundsOK
  <2>11. QED
    BY <2>6, <2>7, <2>9, <2>10, Kept
<1>2. ASSUME NEW certs \in ShippedCerts, ChangeShipped(certs) PROVE TypeOK'
  <2>1. certs \in Shipped
    BY ShippedAssumption
  <2>2. InputsOK'
    BY <1>2, <2>1 DEF ChangeShipped, InputsOK
  <2>3. BoundsOK'
    BY <1>2 DEF ChangeShipped, BoundsOK
  <2>4. QED
    BY <1>2, <2>2, <2>3, Kept DEF ChangeShipped, cluster
<1>3. ASSUME NEW s \in Secrets, ChangeSecret(s) PROVE TypeOK'
  <2>1. s \in SecretData
    BY SecretsAssumption
  <2>2. InputsOK'
    BY <1>3, <2>1 DEF ChangeSecret, InputsOK
  <2>3. BoundsOK'
    BY <1>3 DEF ChangeSecret, BoundsOK
  <2>4. QED
    BY <1>3, <2>2, <2>3, Kept DEF ChangeSecret, cluster
<1>4. buildCABundleContent(mem[Watcher]) \in SUBSET Cert
  <2>1. mem[Watcher] \in Memory
    BY WatcherAssumption DEF ProcessesOK
  <2>2. QED
    BY <2>1 DEF buildCABundleContent, Memory, Shipped
<1>5. ASSUME NEW k \in Package, CreatePackage(k) PROVE TypeOK'
  <2>1. ClusterOK' /\ BoundsOK'
    BY <1>5 DEF CreatePackage, ClusterOK, BoundsOK
  <2>2. QED
    BY <1>5, <2>1, Kept DEF CreatePackage, objects, events
<1>6. ASSUME NEW k \in Package, BuildBundle(k) PROVE TypeOK'
  <2>1. ClusterOK'
    BY <1>4, <1>6 DEF BuildBundle, ClusterOK
  <2>2. QED
    BY <1>6, <2>1, Kept DEF BuildBundle, objects, events
<1>7. ASSUME NEW k \in Package, ApplyBundle(k) PROVE TypeOK'
  <2>1. applying[k] \in SUBSET Cert
    BY <1>7 DEF ApplyBundle, ClusterOK
  <2>2. ClusterOK' /\ BoundsOK'
    BY <1>7, <2>1 DEF ApplyBundle, Arrives, ClusterOK, BoundsOK, Target
  <2>3. QED
    BY <1>7, <2>2, Kept DEF ApplyBundle, objects, events
<1>8. QED
  BY <1>1, <1>2, <1>3, <1>5, <1>6, <1>7

(* A patch of the status, and the ClusterConfig as it is then.             *)
LEMMA StatusStep ==
  ASSUME StatusOK, InputsOK, NEW phase \in {"Pending", "Ready", "Failed"}, NEW observed \in 1..cfg.gen,
         PatchStatus([phase |-> phase, observed |-> observed])
  PROVE  /\ StatusOK' /\ InputsOK' /\ cfg'.gen = cfg.gen /\ cfg'.spec = cfg.spec
         /\ cfg'.phase = phase /\ cfg'.observed = observed /\ UNCHANGED <<shipped, secret, certsQueue, secretQueue, watching>>
<1>1. PICK c : c = cfg'
  OBVIOUS
<1>2. cfg \in Snapshot /\ c = [cfg EXCEPT !.phase = phase, !.observed = observed] /\ Notify(c) /\ cfg' = c
  BY <1>1 DEF PatchStatus, StatusOK
<1>3. cfg.gen \in Nat \ {0} /\ observed \in Nat \ {0} /\ observed <= cfg.gen
  BY <1>2 DEF Snapshot
<1>4. c \in Snapshot /\ c.gen = cfg.gen /\ c.spec = cfg.spec /\ c.phase = phase /\ c.observed = observed
  BY <1>2, <1>3 DEF Snapshot
<1>5. cfg.gen <= c.gen /\ c.observed <= c.gen
  BY <1>3, <1>4
<1>6. StatusOK'
  BY <1>2, <1>4, <1>5, Notified
<1>7. QED
  BY <1>2, <1>4, <1>6, Kept DEF PatchStatus

(* The handler of the ClusterConfig.                                       *)
LEMMA TypeHandleCfg ==
  ASSUME TypeOK, NEW p \in Proc, HandleCfg(p)
  PROVE  TypeOK'
<1> USE DEF TypeOK
<1>1. /\ task \in [Proc -> Task] /\ mem \in [Proc -> Memory] /\ watching \subseteq Proc /\ TaskOK(p)
      /\ task[p] \in Task /\ mem[p] \in Memory /\ cfg \in Snapshot
  BY DEF ProcessesOK, StatusOK
<1>2. cfg.gen \in Nat \ {0} /\ cfg.observed \in 1..cfg.gen
  BY <1>1 DEF Snapshot, StatusOK
<1>3. ASSUME task[p].at \notin {"idle", "get"}
      PROVE  task[p].gen \in 1..cfg.gen /\ task[p].spec \in Specs /\ task[p].spec \in ClusterSpec
  BY <1>1, <1>3, SpecsAssumption DEF TaskOK
<1>4. ASSUME StartCfg(p) PROVE TypeOK'
  <2> DEFINE new == [Idle EXCEPT !.at = "pending", !.gen = Head(queue[p]).gen, !.spec = Head(queue[p]).spec]
  <2>1. queue \in [Proc -> Seq(Snapshot)] /\ queue[p] # <<>> /\ queue' = [queue EXCEPT ![p] = Tail(queue[p])]
    BY <1>4 DEF StartCfg, StatusOK
  <2>2. Head(queue[p]) \in Snapshot /\ Head(queue[p]).gen <= cfg.gen /\ Len(queue[p]) \in Nat /\ Len(queue[p]) >= 1
        /\ Head(queue[p]) = queue[p][1]
    BY <2>1 DEF StatusOK
  <2>3. Head(queue[p]).gen \in 1..cfg.gen /\ Head(queue[p]).spec \in Specs
    BY <1>2, <2>2 DEF Snapshot
  <2>4. /\ new \in Task /\ new.at = "pending" /\ new.gen = Head(queue[p]).gen /\ new.spec = Head(queue[p]).spec /\ ~new.load
    <3>1. PICK g, sp : g = Head(queue[p]).gen /\ sp = Head(queue[p]).spec
      OBVIOUS
    <3>2. g \in Nat /\ sp \in Specs
      BY <2>2, <2>3, <3>1 DEF Snapshot
    <3>3. new = [at |-> "pending", gen |-> g, spec |-> sp, load |-> FALSE, shipped |-> None, secret |-> None]
      <4>1. new = [Idle EXCEPT !.at = "pending", !.gen = g, !.spec = sp]
        BY <3>1, Zenon
      <4> HIDE DEF new
      <4>2. QED
        BY <4>1 DEF Idle
    <3>4. QED
      BY <3>1, <3>2, <3>3 DEF Task, At
  <2>5. task' = [task EXCEPT ![p] = new] /\ watching' = watching /\ mem' = mem /\ cfg' = cfg
    BY <1>4 DEF StartCfg, events, objects
  <2> HIDE DEF new
  <2>6. task[p] = Idle
    BY <1>4 DEF StartCfg
  <2>7. p \in watching
    BY <1>1, <2>6 DEF TaskOK, Idle
  <2>8. TaskOK(p)'
    BY <1>1, <2>3, <2>4, <2>5, <2>7 DEF TaskOK
  <2>9. ProcessesOK'
    BY <1>1, <2>4, <2>5, <2>8, ProcessStep
  <2>10. ASSUME NEW q \in Proc
         PROVE  /\ queue'[q] \in Seq(Snapshot)
                /\ \A i \in 1..Len(queue'[q]) : ~shouldSkip(queue'[q][i]) /\ queue'[q][i].gen <= cfg.gen
    <3>1. CASE q # p
      BY <2>1, <3>1 DEF StatusOK
    <3>2. CASE q = p
      <4>1. queue'[q] = Tail(queue[p]) /\ queue[p] \in Seq(Snapshot)
        BY <2>1, <3>2
      <4>2. ASSUME NEW i \in 1..Len(Tail(queue[p])) PROVE i + 1 \in 1..Len(queue[p]) /\ Tail(queue[p])[i] = queue[p][i + 1]
        BY <2>1, <4>1
      <4>3. QED
        BY <2>1, <4>1, <4>2 DEF StatusOK
    <3>3. QED
      BY <3>1, <3>2
  <2>11. queue' \in [Proc -> Seq(Snapshot)]
    BY <2>1, <2>10
  <2>12. StatusOK'
    BY <2>5, <2>10, <2>11 DEF StatusOK, shouldSkip
  <2>13. QED
    BY <1>4, <2>9, <2>12, Kept DEF StartCfg, objects, cluster
<1>5. ASSUME PatchPending(p) PROVE TypeOK'
  <2>1. StatusOK' /\ InputsOK' /\ cfg'.gen = cfg.gen /\ watching' = watching
    BY <1>2, <1>5, StatusStep DEF PatchPending
  <2>2. Goto(p, "fetch") /\ mem' = mem /\ "fetch" \in At /\ task[p].at = "pending"
    BY <1>5 DEF PatchPending, At
  <2>3. TaskOK(p)'
    BY <1>1, <1>3, <2>1, <2>2, TaskGoes DEF TaskOK
  <2>4. ProcessesOK'
    BY <1>1, <2>1, <2>2, <2>3, TaskGoes, ProcessStep
  <2>5. QED
    BY <1>5, <2>1, <2>4, Kept DEF PatchPending, cluster
<1>6. ASSUME FetchCACerts(p) PROVE TypeOK'
  <2> DEFINE new == [task[p] EXCEPT !.shipped = shipped, !.at = "bundle"]
  <2>1. new \in Task /\ new.at = "bundle" /\ new.shipped \in Shipped /\ new.gen = task[p].gen /\ new.spec = task[p].spec
        /\ new.load = task[p].load /\ new.secret = task[p].secret
    BY <1>1 DEF Task, At, InputsOK
  <2>2. task' = [task EXCEPT ![p] = new] /\ watching' = watching /\ mem' = mem /\ cfg' = cfg /\ task[p].at = "fetch"
    BY <1>6 DEF FetchCACerts, events, objects
  <2> HIDE DEF new
  <2>3. TaskOK(p)'
    BY <1>1, <1>3, <2>1, <2>2 DEF TaskOK
  <2>4. ProcessesOK'
    BY <1>1, <2>1, <2>2, <2>3, ProcessStep
  <2>5. QED
    BY <1>6, <2>4, Kept DEF FetchCACerts, objects, events, cluster
<1>7. ASSUME HandleCABundle(p) PROVE TypeOK'
  <2> DEFINE m == [mem[p] EXCEPT !.certs = task[p].spec.certs, !.includes = task[p].spec.includes,
                                 !.shipped = task[p].shipped]
  <2>1. task[p].at = "bundle" /\ task[p].shipped \in Shipped /\ watching' = watching /\ cfg' = cfg
    BY <1>1, <1>7 DEF HandleCABundle, TaskOK, events, objects
  <2>2. m \in Memory
    BY <1>1, <1>3, <2>1 DEF Memory, ClusterSpec
  <2>3. mem' = [mem EXCEPT ![p] = m] /\ mem'[p] = m
    BY <1>1, <1>7 DEF HandleCABundle
  <2> HIDE DEF m
  <2>4. AuthserviceUpdate(mem'[p]) \in Update
    <3>1. buildCABundleContent(m) \in SUBSET Cert
      BY <2>2 DEF buildCABundleContent, Memory, Shipped
    <3>2. QED
      BY <2>2, <2>3, <3>1 DEF AuthserviceUpdate, Update, Memory
  <2>5. PICK update \in Update : update = AuthserviceUpdate(mem'[p])
    BY <2>4
  <2>6. PICK new \in Task : /\ task' = [task EXCEPT ![p] = new] /\ new.gen = task[p].gen /\ new.spec = task[p].spec
                            /\ new.load = task[p].load
                            /\ IF Updates(p) THEN new.at = "authservice" /\ new.secret = update
                               ELSE new.at = "cidrs" /\ new.secret = task[p].secret
    <3>1. task' = [task EXCEPT ![p].at = IF Updates(p) THEN "authservice" ELSE "cidrs",
                               ![p].secret = IF Updates(p) THEN update ELSE @]
      BY <1>7, <2>5 DEF HandleCABundle
    <3>2. CASE Updates(p)
      <4>1. task' = [task EXCEPT ![p] = [task[p] EXCEPT !.at = "authservice", !.secret = update]]
        BY <1>1, <3>1, <3>2
      <4>2. [task[p] EXCEPT !.at = "authservice", !.secret = update] \in Task
        BY <1>1 DEF Task, At
      <4>3. QED
        BY <1>1, <3>2, <4>1, <4>2 DEF Task
    <3>3. CASE ~Updates(p)
      <4>1. task' = [task EXCEPT ![p] = [task[p] EXCEPT !.at = "cidrs"]]
        BY <1>1, <3>1, <3>3 DEF Task
      <4>2. [task[p] EXCEPT !.at = "cidrs"] \in Task
        BY <1>1 DEF Task, At
      <4>3. QED
        BY <1>1, <3>3, <4>1, <4>2 DEF Task
    <3>4. QED
      BY <3>2, <3>3
  <2>7. TaskOK(p)'
    BY <1>1, <1>3, <2>1, <2>6 DEF TaskOK, Updates
  <2>8. ProcessesOK'
    BY <1>1, <2>1, <2>2, <2>3, <2>6, <2>7, ProcessStep
  <2>9. BoundsOK'
    BY <1>7 DEF HandleCABundle, BoundsOK
  <2>10. QED
    BY <1>7, <2>8, <2>9, Kept DEF HandleCABundle, objects, events, cluster
<1>8. ASSUME NEW at \in At, Goto(p, at), NEW m \in Memory, mem' = [mem EXCEPT ![p] = m], UNCHANGED <<cfg, watching>>,
             <<task[p].at, at>> \in {<<"cidrs", "nodes">>, <<"nodes", "rest">>, <<"rest", "ready">>}
      PROVE  ProcessesOK'
  <2>1. TaskOK(p)'
    BY <1>1, <1>3, <1>8, TaskGoes DEF TaskOK
  <2>2. QED
    BY <1>1, <1>8, <2>1, TaskGoes, ProcessStep
<1>9. ASSUME SetCidrs(p) PROVE TypeOK'
  <2>1. PICK m : m = [mem[p] EXCEPT !.cidrs.api = task[p].spec.cidrs.api]
    OBVIOUS
  <2>2. mem' = [mem EXCEPT ![p] = m] /\ Goto(p, "nodes") /\ UNCHANGED <<cfg, watching>> /\ task[p].at = "cidrs"
    BY <1>9, <2>1 DEF SetCidrs, objects, events
  <2>3. m \in Memory
    BY <1>1, <1>3, <2>1, <2>2 DEF Memory, ClusterSpec
  <2>4. ProcessesOK'
    BY <1>8, <2>2, <2>3 DEF At
  <2>5. QED
    BY <1>9, <2>4, Kept DEF SetCidrs, objects, events, cluster
<1>10. ASSUME SetNodeCidrs(p) PROVE TypeOK'
  <2>1. PICK m : m = [mem[p] EXCEPT !.cidrs.nodes = task[p].spec.cidrs.nodes]
    OBVIOUS
  <2>2. mem' = [mem EXCEPT ![p] = m] /\ Goto(p, "rest") /\ UNCHANGED <<cfg, watching>> /\ task[p].at = "nodes"
    BY <1>10, <2>1 DEF SetNodeCidrs, objects, events
  <2>3. m \in Memory
    BY <1>1, <1>3, <2>1, <2>2 DEF Memory, ClusterSpec
  <2>4. ProcessesOK'
    BY <1>8, <2>2, <2>3 DEF At
  <2>5. QED
    BY <1>10, <2>4, Kept DEF SetNodeCidrs, objects, events, cluster
<1>11. ASSUME SetRest(p) PROVE TypeOK'
  <2>1. PICK m : m = [mem[p] EXCEPT !.domain = DomainOf(task[p].spec), !.exemptAll = task[p].spec.exemptAll]
    OBVIOUS
  <2>2. mem' = [mem EXCEPT ![p] = m] /\ Goto(p, "ready") /\ UNCHANGED <<cfg, watching>> /\ task[p].at = "rest"
    BY <1>11, <2>1 DEF SetRest, objects, events
  <2>3. m \in Memory
    BY <1>1, <1>3, <2>1, <2>2 DEF Memory, ClusterSpec, DomainOf
  <2>4. ProcessesOK'
    BY <1>8, <2>2, <2>3 DEF At
  <2>5. done' = [done EXCEPT ![p] = task[p].gen] /\ task[p].gen \in Nat
    BY <1>1, <1>11 DEF SetRest, Task
  <2>6. BoundsOK'
    BY <1>11, <2>5 DEF BoundsOK, SetRest
  <2>7. QED
    BY <1>11, <2>4, <2>6, Kept DEF SetRest, objects, events, cluster
<1>12. ASSUME PatchReady(p) \/ PatchFailed(p) PROVE TypeOK'
  <2>1. task[p].at \in {"ready", "failed"} /\ mem' = mem
    BY <1>12 DEF PatchReady, PatchFailed
  <2>2. PICK phase \in {"Ready", "Failed"} : PatchStatus([phase |-> phase, observed |-> task[p].gen])
    BY <1>12 DEF PatchReady, PatchFailed
  <2>3. StatusOK' /\ InputsOK' /\ cfg'.gen = cfg.gen /\ watching' = watching
    BY <1>3, <2>1, <2>2, StatusStep
  <2>4. (task[p].load /\ \E at \in {"secret", "get"} : Goto(p, at)) \/ (~task[p].load /\ Finish(p))
    BY <1>12 DEF PatchReady, PatchFailed
  <2>5. CASE task[p].load /\ \E at \in {"secret", "get"} : Goto(p, at)
    <3>1. PICK at \in {"secret", "get"} : Goto(p, at) /\ at \in At
      BY <2>5 DEF At
    <3>2. TaskOK(p)'
      BY <1>1, <1>3, <2>1, <2>3, <2>5, <3>1, TaskGoes DEF TaskOK
    <3>3. ProcessesOK'
      BY <1>1, <2>1, <2>3, <3>1, <3>2, TaskGoes, ProcessStep
    <3>4. QED
      BY <1>12, <2>3, <3>3, Kept DEF PatchReady, PatchFailed, cluster
  <2>6. CASE ~task[p].load /\ Finish(p)
    <3>1. task' = [task EXCEPT ![p] = Idle] /\ Idle \in Task /\ Idle.at = "idle" /\ ~Idle.load
      BY <2>6 DEF Finish, Idle, Task, At
    <3>2. TaskOK(p)'
      BY <1>1, <2>1, <2>3, <2>6, <3>1 DEF TaskOK
    <3>3. ProcessesOK'
      BY <1>1, <2>1, <2>3, <3>1, <3>2, ProcessStep
    <3>4. QED
      BY <1>12, <2>3, <3>3, Kept DEF PatchReady, PatchFailed, cluster
  <2>7. QED
    BY <2>4, <2>5, <2>6
<1>13. QED
  BY <1>4, <1>5, <1>6, <1>7, <1>9, <1>10, <1>11, <1>12 DEF HandleCfg

(* The start of a process, its restart and its failing requests.           *)
LEMMA TypeLoad ==
  ASSUME TypeOK, NEW p \in Proc, Load(p) \/ FailCfg(p) \/ Restart(p)
  PROVE  TypeOK'
<1> USE DEF TypeOK
<1>1. /\ task \in [Proc -> Task] /\ mem \in [Proc -> Memory] /\ watching \subseteq Proc /\ TaskOK(p)
      /\ task[p] \in Task /\ mem[p] \in Memory /\ cfg \in Snapshot /\ queue \in [Proc -> Seq(Snapshot)]
  BY DEF ProcessesOK, StatusOK
<1>2. cfg.gen \in Nat \ {0} /\ cfg.spec \in Specs
  BY <1>1 DEF Snapshot
<1>3. Idle \in Task /\ Idle.at = "idle" /\ ~Idle.load
  BY DEF Idle, Task, At
<1>4. UDSConfig \in Memory
  BY DEF UDSConfig, Memory, Shipped
<1>5. ASSUME Get(p) PROVE TypeOK'
  <2> DEFINE new == [at |-> "pending", gen |-> cfg.gen, spec |-> cfg.spec, load |-> TRUE, shipped |-> None, secret |-> secret]
  <2>1. new \in Task /\ secret \in SecretData
    BY <1>2 DEF Task, At, InputsOK
  <2>2. /\ task' = [task EXCEPT ![p] = new] /\ watching' = watching /\ mem' = [mem EXCEPT ![p] = UDSConfig] /\ cfg' = cfg
        /\ task[p].at = "get"
    BY <1>5 DEF Get, events, objects
  <2>3. new.at = "pending" /\ new.gen = cfg.gen /\ new.spec = cfg.spec /\ new.load /\ new.secret = secret
    OBVIOUS
  <2> HIDE DEF new
  <2>4. TaskOK(p)'
    BY <1>1, <1>2, <2>1, <2>2, <2>3 DEF TaskOK
  <2>5. ProcessesOK'
    BY <1>1, <1>4, <2>1, <2>2, <2>4, ProcessStep
  <2>6. QED
    BY <1>5, <2>5, Kept DEF Get, objects, events, cluster
<1>6. ASSUME LoadSecret(p) PROVE TypeOK'
  <2>1. PICK m : m = [mem[p] EXCEPT !.redis = task[p].secret.redis, !.mode = ModeOf(task[p].secret)]
    OBVIOUS
  <2>2. /\ mem' = [mem EXCEPT ![p] = m] /\ Goto(p, "watch") /\ UNCHANGED <<cfg, watching>> /\ task[p].at = "secret"
        /\ "watch" \in At
    BY <1>6, <2>1 DEF LoadSecret, objects, events, At
  <2>3. task[p].secret \in SecretData
    BY <1>1, <2>2 DEF TaskOK
  <2>4. m \in Memory
    BY <1>1, <2>1, <2>3 DEF Memory, SecretData, ModeOf
  <2>5. TaskOK(p)'
    BY <1>1, <1>2, <2>2, TaskGoes DEF TaskOK
  <2>6. ProcessesOK'
    BY <1>1, <2>2, <2>4, <2>5, TaskGoes, ProcessStep
  <2>7. HandlersOK'
    BY <1>6 DEF LoadSecret, HandlersOK, Writes, Writer
  <2>8. QED
    BY <1>6, <2>6, <2>7, Kept DEF LoadSecret, objects, events, cluster
<1>7. ASSUME StartWatches(p) PROVE TypeOK'
  <2>1. task' = [task EXCEPT ![p] = Idle] /\ watching' = watching \cup {p} /\ UNCHANGED <<cfg, mem>>
    BY <1>7 DEF StartWatches, Finish, objects
  <2>2. TaskOK(p)'
    BY <1>1, <1>3, <2>1 DEF TaskOK
  <2>3. ProcessesOK'
    BY <1>1, <1>3, <2>1, <2>2, ProcessStep
  <2>4. ClusterOK' /\ InputsOK'
    <3>1. <<shipped>> \in Seq(Shipped) /\ <<secret>> \in Seq(SecretData)
      BY DEF InputsOK
    <3>2. /\ UNCHANGED <<shipped, secret, packages, applying, bundle, authservice>>
          /\ certsQueue' \in {certsQueue, <<shipped>>} /\ secretQueue' \in {secretQueue, <<secret>>} /\ due' \in {due, packages}
      BY <1>7 DEF StartWatches, objects
    <3>3. InputsOK'
      BY <3>1, <3>2 DEF InputsOK
    <3>4. ClusterOK'
      BY <3>2 DEF ClusterOK
    <3>5. QED
      BY <3>3, <3>4
  <2>5. PICK new \in Seq(Snapshot) : /\ queue' = [queue EXCEPT ![p] = new]
                                     /\ \A i \in 1..Len(new) : ~shouldSkip(new[i]) /\ new[i].gen <= cfg.gen
    <3>1. queue' = [queue EXCEPT ![p] = IF shouldSkip(cfg) THEN <<>> ELSE <<cfg>>]
      BY <1>7 DEF StartWatches
    <3>2. CASE shouldSkip(cfg)
      <4>1. <<>> \in Seq(Snapshot) /\ 1..Len(<<>>) = {} /\ queue' = [queue EXCEPT ![p] = <<>>]
        BY <3>1, <3>2
      <4>2. QED
        BY <4>1
    <3>3. CASE ~shouldSkip(cfg)
      <4>1. <<cfg>> \in Seq(Snapshot) /\ Len(<<cfg>>) = 1 /\ <<cfg>>[1] = cfg
        BY <1>1
      <4>2. cfg.gen <= cfg.gen
        BY <1>2
      <4>3. QED
        <5>1. queue' = [queue EXCEPT ![p] = <<cfg>>]
          BY <3>1, <3>3
        <5>2. PICK new : new = <<cfg>>
          OBVIOUS
        <5>3. \A i \in 1..Len(new) : new[i] = cfg
          BY <4>1, <5>2
        <5>4. new \in Seq(Snapshot) /\ queue' = [queue EXCEPT ![p] = new]
          BY <4>1, <5>1, <5>2
        <5>5. QED
          BY <3>3, <4>2, <5>3, <5>4
    <3>4. QED
      BY <3>2, <3>3
  <2>6. StatusOK'
    BY <2>1, <2>5 DEF StatusOK, shouldSkip
  <2>7. QED
    BY <1>7, <2>3, <2>4, <2>6, Kept DEF StartWatches, objects
<1>8. ASSUME FailCfg(p) PROVE TypeOK'
  <2>1. task[p].at \notin {"idle", "get", "secret", "watch"} /\ UNCHANGED <<cfg, watching, mem>>
        /\ cfg'.gen = cfg.gen
    BY <1>8 DEF FailCfg, Waits, objects, events
  <2>2. \/ \E at \in {"failed", "get"} : Goto(p, at) /\ (at = "get" => task[p].load)
        \/ ~task[p].load /\ Finish(p)
    BY <1>8 DEF FailCfg
  <2>3. ASSUME \E at \in {"failed", "get"} : Goto(p, at) /\ (at = "get" => task[p].load) PROVE ProcessesOK'
    <3>1. PICK at \in {"failed", "get"} : Goto(p, at) /\ (at = "get" => task[p].load) /\ at \in At
      BY <2>3 DEF At
    <3>2. TaskOK(p)'
      BY <1>1, <2>1, <3>1, TaskGoes DEF TaskOK
    <3>3. /\ task' \in [Proc -> Task] /\ mem' \in [Proc -> Memory] /\ watching' = watching
          /\ \A q \in Proc : q # p => task'[q] = task[q]
      BY <1>1, <2>1, <3>1, TaskGoes
    <3>4. QED
      BY <1>1, <2>1, <3>2, <3>3, ProcessStep
  <2>4. ASSUME ~task[p].load, Finish(p) PROVE ProcessesOK'
    <3>1. task' = [task EXCEPT ![p] = Idle]
      BY <2>4 DEF Finish
    <3>2. TaskOK(p)'
      BY <1>1, <1>3, <2>1, <2>4, <3>1 DEF TaskOK
    <3>3. /\ task' \in [Proc -> Task] /\ mem' \in [Proc -> Memory] /\ watching' = watching
          /\ \A q \in Proc : q # p => task'[q] = task[q]
      BY <1>1, <1>3, <2>1, <3>1
    <3>4. QED
      BY <1>1, <2>1, <3>2, <3>3, ProcessStep
  <2>5. ProcessesOK'
    BY <2>2, <2>3, <2>4
  <2>6. faults' = faults + 1 /\ UNCHANGED <<changes, done>>
        /\ trouble' \subseteq trouble \cup {"request", "status"}
    BY <1>8 DEF FailCfg
  <2>7. BoundsOK'
    BY <2>6 DEF BoundsOK
  <2>8. QED
    BY <1>8, <2>5, <2>7, Kept DEF FailCfg, objects, events, cluster
<1>9. ASSUME Restart(p) PROVE TypeOK'
  <2> DEFINE new == [Idle EXCEPT !.at = "get"]
  <2>1. new \in Task /\ new.at = "get"
    BY DEF Idle, Task, At
  <2>2. /\ task' = [task EXCEPT ![p] = new] /\ watching' = watching \ {p} /\ mem' = [mem EXCEPT ![p] = UDSConfig]
        /\ UNCHANGED <<cfg, shipped, secret>> /\ queue' = [queue EXCEPT ![p] = <<>>]
    BY <1>9 DEF Restart, objects
  <2> HIDE DEF new
  <2>3. TaskOK(p)'
    BY <1>1, <2>1, <2>2 DEF TaskOK
  <2>4. ProcessesOK'
    BY <1>1, <1>4, <2>1, <2>2, <2>3, ProcessStep
  <2>5. StatusOK'
    BY <2>2 DEF StatusOK, shouldSkip
  <2>6. InputsOK'
    <3>1. /\ UNCHANGED <<shipped, secret>> /\ certsQueue' \in {certsQueue, <<>>} /\ secretQueue' \in {secretQueue, <<>>}
      BY <1>9 DEF Restart, objects
    <3>2. <<>> \in Seq(Shipped) /\ <<>> \in Seq(SecretData)
      OBVIOUS
    <3>3. QED
      BY <3>1, <3>2 DEF InputsOK
  <2>7. HandlersOK'
    <3>1. NoWrites \in Writes
      BY DEF NoWrites, Writes
    <3>2. QED
      BY <1>9, <3>1 DEF Restart, HandlersOK
  <2>8. ClusterOK'
    BY <1>9 DEF Restart, ClusterOK
  <2>9. faults' = faults + 1 /\ UNCHANGED <<changes, done>> /\ trouble' = trouble \cup {"restart"}
    BY <1>9 DEF Restart
  <2>10. BoundsOK'
    BY <2>9 DEF BoundsOK
  <2>11. QED
    BY <2>4, <2>5, <2>6, <2>7, <2>8, <2>10
<1>10. QED
  BY <1>5, <1>6, <1>7, <1>8, <1>9 DEF Load

(* The other handlers, and what is written.                                *)
LEMMA TypeWrites ==
  ASSUME TypeOK,
         \/ WatcherOnly \/ FailOther
         \/ \E h \in Writer : Write(h) \/ \E t \in Package \cup {"namespace", "istio"} : FailWrite(h, t)
  PROVE  TypeOK'
<1> USE DEF TypeOK
<1>1. /\ task \in [Proc -> Task] /\ mem \in [Proc -> Memory] /\ watching \subseteq Proc /\ Watcher \in Proc /\ TaskOK(Watcher)
      /\ task[Watcher] \in Task /\ mem[Watcher] \in Memory
  BY WatcherAssumption DEF ProcessesOK
<1>2. buildCABundleContent(mem[Watcher]) \in SUBSET Cert
  BY <1>1 DEF buildCABundleContent, Memory, Shipped
<1>3. ASSUME NEW h \in Writer, List(h) PROVE HandlersOK \/ HandlersOK' => write' \in [Writer -> Writes]
  <2>1. PICK content \in SUBSET Cert : content = buildCABundleContent(mem[Watcher])
    BY <1>2
  <2>2. [todo |-> packages \cup {"namespace"}, istio |-> {}, content |-> content] \in Writes
    BY DEF Writes, ClusterOK
  <2>3. QED
    BY <1>3, <2>1, <2>2 DEF List, HandlersOK
<1>4. ASSUME NEW update \in Update, Tell(update) PROVE authservice' \in Update /\ (BoundsOK /\ UNCHANGED <<changes, faults, done>> => BoundsOK')
  BY <1>4 DEF Tell, BoundsOK
<1>5. ASSUME NEW at \in At, Goto(Watcher, at), UNCHANGED <<cfg, watching, mem>>,
             <<task[Watcher].at, at>> \in {<<"authservice", "list">>, <<"list", "cidrs">>, <<"watch", "get">>}
      PROVE  ProcessesOK'
  <2>1. TaskOK(Watcher)'
    BY <1>1, <1>5, TaskGoes DEF TaskOK
  <2>2. QED
    BY <1>1, <1>5, <2>1, TaskGoes, ProcessStep
<1>6. ASSUME UpdateAuthservice PROVE TypeOK'
  <2>1. /\ Tell(task[Watcher].secret) /\ Goto(Watcher, "list") /\ UNCHANGED <<cfg, watching, mem>>
        /\ task[Watcher].at = "authservice"
    BY <1>6 DEF UpdateAuthservice, objects, events
  <2>2. task[Watcher].secret \in Update
    BY <1>1, <2>1 DEF TaskOK
  <2>3. ProcessesOK'
    BY <1>5, <2>1 DEF At
  <2>4. BoundsOK' /\ authservice' \in Update
    BY <1>4, <1>6, <2>1, <2>2 DEF UpdateAuthservice
  <2>5. ClusterOK'
    BY <1>6, <2>4 DEF UpdateAuthservice, ClusterOK, cluster
  <2>6. QED
    BY <1>6, <2>3, <2>4, <2>5, Kept DEF UpdateAuthservice, objects, events
<1>7. ASSUME ListPackages PROVE TypeOK'
  <2>1. ProcessesOK'
    BY <1>5, <1>7 DEF ListPackages, objects, events, At
  <2>2. HandlersOK'
    BY <1>3, <1>7 DEF ListPackages, HandlersOK, Writer
  <2>3. QED
    BY <1>7, <2>1, <2>2, Kept DEF ListPackages, objects, events, cluster
<1>8. ASSUME StartCerts PROVE TypeOK'
  <2>1. PICK certs : certs = Head(certsQueue)
    OBVIOUS
  <2>2. certs \in Shipped /\ certsQueue' \in Seq(Shipped)
    BY <1>8, <2>1 DEF StartCerts, InputsOK
  <2>3. \/ mem' = [mem EXCEPT ![Watcher].shipped = certs] /\ certsTask' = "list" /\ trouble' = trouble \cup {"certs"}
        \/ UNCHANGED <<mem, certsTask, trouble>>
    BY <1>8, <2>1 DEF StartCerts
  <2>4. mem' \in [Proc -> Memory]
    <3>1. PICK m : m = [mem[Watcher] EXCEPT !.shipped = certs]
      OBVIOUS
    <3>2. m \in Memory
      BY <1>1, <2>2, <3>1 DEF Memory
    <3>3. mem' = [mem EXCEPT ![Watcher] = m] \/ mem' = mem
      BY <1>1, <2>3, <3>1
    <3>4. QED
      BY <1>1, <3>2, <3>3
  <2>5. UNCHANGED <<cfg, watching, task, shipped, secret, queue, secretQueue, secretTask, write, packages, due, applying, bundle,
                    authservice, changes, faults, done>>
    BY <1>8 DEF StartCerts, objects, cluster
  <2>6. ProcessesOK'
    BY <2>4, <2>5 DEF ProcessesOK, TaskOK
  <2>7. InputsOK' /\ HandlersOK' /\ BoundsOK'
    BY <2>2, <2>3, <2>5 DEF InputsOK, HandlersOK, BoundsOK
  <2>8. QED
    BY <2>5, <2>6, <2>7, Kept
<1>9. ASSUME ListForCerts PROVE TypeOK'
  <2>1. HandlersOK'
    BY <1>3, <1>9 DEF ListForCerts, HandlersOK, Writer
  <2>2. QED
    BY <1>9, <2>1, Kept DEF ListForCerts, objects, events, cluster
<1>10. ASSUME StartSecret PROVE TypeOK'
  <2>1. PICK s : s = Head(secretQueue)
    OBVIOUS
  <2>2. s \in SecretData /\ secretQueue' \in Seq(SecretData)
    BY <1>10, <2>1 DEF StartSecret, InputsOK
  <2> DEFINE changed == mem[Watcher].redis # s.redis
  <2>3. mem' = [mem EXCEPT ![Watcher].redis = s.redis, ![Watcher].mode = IF changed THEN @ ELSE ModeOf(s)]
    BY <1>10, <2>1 DEF StartSecret
  <2>4. mem' \in [Proc -> Memory]
    BY <1>1, <2>2, <2>3 DEF Memory, SecretData, ModeOf
  <2>5. AuthserviceUpdate(mem'[Watcher]) \in Update
    <3>1. mem'[Watcher] \in Memory
      BY <1>1, <2>4
    <3>2. QED
      BY <3>1 DEF AuthserviceUpdate, buildCABundleContent, Memory, Shipped, Update
  <2>6. PICK update \in Update : update = AuthserviceUpdate(mem'[Watcher])
    BY <2>5
  <2>7. \/ secretTask' = [Idle EXCEPT !.at = "authservice", !.spec = s, !.secret = update]
        \/ secretTask' = Idle
    BY <1>10, <2>1, <2>6 DEF StartSecret
  <2>8. UNCHANGED <<cfg, watching, task, shipped, secret, queue, certsQueue, certsTask, write, packages, due, applying, bundle,
                    authservice, changes, faults, done, trouble>>
    BY <1>10 DEF StartSecret, objects, cluster
  <2>9. ProcessesOK'
    BY <2>4, <2>8 DEF ProcessesOK, TaskOK
  <2>10. InputsOK' /\ HandlersOK'
    BY <2>2, <2>7, <2>8 DEF InputsOK, HandlersOK, Idle
  <2>11. QED
    BY <2>8, <2>9, <2>10, Kept
<1>11. ASSUME UpdateForSecret PROVE TypeOK'
  <2>1. secretTask.spec \in SecretData /\ secretTask.secret \in Update /\ Tell(secretTask.secret)
    BY <1>11 DEF UpdateForSecret, HandlersOK, Idle
  <2>2. mem' = [mem EXCEPT ![Watcher].mode = ModeOf(secretTask.spec)]
    BY <1>11 DEF UpdateForSecret
  <2>3. mem' \in [Proc -> Memory]
    BY <1>1, <2>1, <2>2 DEF Memory, SecretData, ModeOf
  <2>4. UNCHANGED <<cfg, watching, task, shipped, secret, queue, certsQueue, secretQueue, certsTask, write, packages, due, applying,
                    bundle, changes, faults, done>>
    BY <1>11 DEF UpdateForSecret, objects, events, cluster
  <2>5. ProcessesOK'
    BY <2>3, <2>4 DEF ProcessesOK, TaskOK
  <2>6. HandlersOK'
    BY <1>11, <2>4 DEF UpdateForSecret, HandlersOK
  <2>7. BoundsOK' /\ authservice' \in Update
    BY <1>4, <2>1, <2>4
  <2>8. ClusterOK'
    BY <2>4, <2>7 DEF ClusterOK
  <2>9. QED
    BY <2>4, <2>5, <2>6, <2>7, <2>8, Kept
<1>12. ASSUME NEW h \in Writer, NEW todo \in SUBSET (Package \cup {"namespace", "istio"}), NEW istio \in SUBSET Cert,
              write' = [write EXCEPT ![h] = [write[h] EXCEPT !.todo = todo, !.istio = istio]]
       PROVE  write' \in [Writer -> Writes]
  <2>1. write[h] \in Writes /\ write \in [Writer -> Writes]
    BY DEF HandlersOK
  <2>2. [write[h] EXCEPT !.todo = todo, !.istio = istio] \in Writes
    BY <2>1 DEF Writes
  <2>3. QED
    BY <1>12, <2>1, <2>2
<1>13. ASSUME NEW h \in Writer PROVE write[h] \in Writes /\ write \in [Writer -> Writes]
  BY DEF HandlersOK
<1>14. ASSUME NEW h \in Writer, NEW x, write' = [write EXCEPT ![h].todo = @ \ {x}] PROVE write' \in [Writer -> Writes]
  <2>1. write' = [write EXCEPT ![h] = [write[h] EXCEPT !.todo = write[h].todo \ {x}, !.istio = write[h].istio]]
    BY <1>13, <1>14 DEF Writes
  <2>2. QED
    BY <1>12, <1>13, <2>1 DEF Writes
<1>15. ASSUME NEW t \in Target, NEW content \in SUBSET Cert, Arrives(t, content)
       PROVE  bundle' \in [Target -> SUBSET Cert] /\ (BoundsOK /\ UNCHANGED <<changes, faults, done>> => BoundsOK')
  BY <1>15 DEF Arrives, BoundsOK, ClusterOK
<1>16. ASSUME NEW h \in Writer, (\E k \in Package : WriteBundle(h, k)) \/ WriteIstio(h) PROVE TypeOK'
  <2>1. PICK t \in Target, content \in SUBSET Cert : Arrives(t, content) /\ write' = [write EXCEPT ![h].todo = @ \ {t}]
    BY <1>13, <1>16 DEF WriteBundle, WriteIstio, Target, Writes
  <2>2. UNCHANGED <<cfg, shipped, secret, queue, certsQueue, secretQueue, watching, mem, task, certsTask, secretTask,
                    packages, due, applying, authservice, changes, faults, done>>
    BY <1>16 DEF WriteBundle, WriteIstio, objects, events
  <2>3. write' \in [Writer -> Writes] /\ bundle' \in [Target -> SUBSET Cert] /\ BoundsOK'
    BY <1>14, <1>15, <2>1, <2>2
  <2>4. HandlersOK' /\ ClusterOK'
    BY <2>2, <2>3 DEF HandlersOK, ClusterOK
  <2>5. QED
    BY <2>2, <2>3, <2>4, Kept
<1>17. ASSUME NEW h \in Writer, ApplyNamespace(h) PROVE TypeOK'
  <2>1. PICK content \in SUBSET Cert : content = buildCABundleContent(mem[Watcher])
    BY <1>2
  <2>2. PICK todo : todo = (write[h].todo \ {"namespace"}) \cup {"istio"}
    OBVIOUS
  <2>3. write' = [write EXCEPT ![h] = [write[h] EXCEPT !.todo = todo, !.istio = content]]
    <3>1. write' = [write EXCEPT ![h].todo = (@ \ {"namespace"}) \cup {"istio"}, ![h].istio = content]
      BY <1>17, <2>1 DEF ApplyNamespace
    <3>2. QED
      BY <1>13, <2>2, <3>1 DEF Writes
  <2>4. todo \in SUBSET (Package \cup {"namespace", "istio"})
    BY <1>13, <2>2 DEF Writes
  <2>5. write' \in [Writer -> Writes]
    BY <1>12, <2>3, <2>4
  <2>6. HandlersOK'
    BY <1>17, <2>5 DEF ApplyNamespace, HandlersOK
  <2>7. QED
    BY <1>17, <2>6, Kept DEF ApplyNamespace, objects, events, cluster
<1>18. ASSUME NEW h \in Writer, NEW t, FailWrite(h, t) PROVE TypeOK'
  <2>1. NoWrites \in Writes
    BY DEF NoWrites, Writes
  <2>2. \/ task[Watcher].at = "watch" /\ write' = [write EXCEPT ![h] = NoWrites] /\ Goto(Watcher, "get")
        \/ write' = [write EXCEPT ![h].todo = @ \ {t}] /\ UNCHANGED task
    BY <1>18 DEF FailWrite
  <2>3. write' \in [Writer -> Writes]
    BY <1>13, <1>14, <2>1, <2>2
  <2>4. UNCHANGED <<cfg, shipped, secret, queue, certsQueue, secretQueue, watching, mem, certsTask, secretTask,
                    packages, due, applying, bundle, authservice, changes, done>>
    BY <1>18 DEF FailWrite, objects, events, cluster
  <2>5. ProcessesOK'
    <3>1. CASE UNCHANGED task
      BY <2>4, <3>1, Kept
    <3>2. CASE task[Watcher].at = "watch" /\ Goto(Watcher, "get")
      BY <1>5, <2>4, <3>2 DEF At
    <3>3. QED
      BY <2>2, <3>1, <3>2
  <2>6. HandlersOK'
    BY <2>3, <2>4 DEF HandlersOK
  <2>7. BoundsOK'
    BY <1>18, <2>4 DEF FailWrite, BoundsOK
  <2>8. QED
    BY <2>4, <2>5, <2>6, <2>7, Kept
<1>19. ASSUME FailOther PROVE TypeOK'
  <2>1. HandlersOK'
    BY <1>19 DEF FailOther, HandlersOK
  <2>2. BoundsOK'
    BY <1>19 DEF FailOther, BoundsOK
  <2>3. QED
    BY <1>19, <2>1, <2>2, Kept DEF FailOther, objects, events, cluster
<1>20. QED
  BY <1>6, <1>7, <1>8, <1>9, <1>10, <1>11, <1>16, <1>17, <1>18, <1>19 DEF WatcherOnly, Write

LEMMA TypeStep == TypeOK /\ [Next]_vars => TypeOK'
<1> SUFFICES ASSUME TypeOK, [Next]_vars PROVE TypeOK'
  OBVIOUS
<1>1. CASE UNCHANGED vars
  BY <1>1, Kept DEF TypeOK, vars
<1>2. CASE Next
  BY <1>2, TypeUsers, TypeHandleCfg, TypeLoad, TypeWrites DEF Next
<1>3. QED
  BY <1>1, <1>2

(* Objects, processes, handlers and bundles keep their types; a process    *)
(* without watches is starting, and only then.                             *)
THEOREM TypeCorrect == Spec => []TypeOK
  BY TypeInit, TypeStep, PTL DEF Spec

-----------------------------------------------------------------------------
(* Every process follows the configuration.                                *)

(* No request failed and no process had to start again.                    *)
Calm == trouble \cap {"request", "restart"} = {}

Working == {"fetch", "bundle", "authservice", "list", "cidrs", "nodes", "rest", "ready"}

(* The process has settled the newest generation, or still will.           *)
Fresh(p) ==
  \/ \E i \in 1..Len(queue[p]) : queue[p][i].gen = cfg.gen
  \/ task[p].at \in (Working \cup {"pending"}) \ {"ready"} /\ task[p].gen = cfg.gen
  \/ done[p] = cfg.gen

(* It has heard nothing of the newest generation.                          *)
Stale(p) == task[p].gen < cfg.gen /\ \A i \in 1..Len(queue[p]) : queue[p][i].gen < cfg.gen

(* Generations are handled in their order, and the newest is what it says. *)
OrderOK(p) ==
  /\ \A i, j \in 1..Len(queue[p]) : i <= j => queue[p][i].gen <= queue[p][j].gen
  /\ \A i \in 1..Len(queue[p]) :
       /\ task[p].gen <= queue[p][i].gen /\ done[p] <= queue[p][i].gen
       /\ queue[p][i].gen = cfg.gen => queue[p][i].spec = cfg.spec
  /\ task[p].at # "idle" => done[p] <= task[p].gen /\ (task[p].gen = cfg.gen => task[p].spec = cfg.spec)
  /\ done[p] <= cfg.gen

(* What the handler of the newest generation has set already.              *)
ProgressOK(p) ==
  /\ task[p].at \in Working \cup {"idle", "pending"}
  /\ done[p] = cfg.gen => Knows(p)
  /\ task[p].gen = cfg.gen =>
       /\ task[p].at \in {"authservice", "list", "cidrs", "nodes", "rest", "ready"} =>
            mem[p].certs = cfg.spec.certs /\ mem[p].includes = cfg.spec.includes
       /\ task[p].at \in {"nodes", "rest", "ready"} => mem[p].cidrs.api = cfg.spec.cidrs.api
       /\ task[p].at \in {"rest", "ready"} => mem[p].cidrs.nodes = cfg.spec.cidrs.nodes

(* Either everyone has or will have the newest generation, or everyone     *)
(* missed it: then the status is Pending, and the handler at work, of an   *)
(* older generation, notifies everyone when it sets Ready.                 *)
Following ==
  /\ watching = Proc
  /\ \A p \in Proc : OrderOK(p) /\ ProgressOK(p)
  /\ cfg.phase = "Pending" => \E p \in Proc : task[p].at \in Working
  /\ (\A p \in Proc : Fresh(p)) \/ (cfg.phase = "Pending" /\ \A p \in Proc : Stale(p))

FollowInv == Calm => Following

(* What the ClusterConfig says of a process's memory stays.                *)
SameKnown(p) ==
  /\ mem'[p].certs = mem[p].certs /\ mem'[p].includes = mem[p].includes /\ mem'[p].cidrs = mem[p].cidrs
  /\ mem'[p].domain = mem[p].domain /\ mem'[p].exemptAll = mem[p].exemptAll

LEMMA Elsewhere ==
  ASSUME NEW p \in Proc, task'[p] = task[p], queue'[p] = queue[p], done'[p] = done[p], SameKnown(p),
         cfg'.gen = cfg.gen, cfg'.spec = cfg.spec
  PROVE  /\ OrderOK(p) => OrderOK(p)'
         /\ ProgressOK(p) => ProgressOK(p)'
         /\ Fresh(p) => Fresh(p)'
         /\ Stale(p) => Stale(p)'
<1>1. OrderOK(p) => OrderOK(p)'
  BY DEF OrderOK
<1>2. ProgressOK(p) => ProgressOK(p)'
  BY DEF ProgressOK, Knows, SameKnown
<1>3. Fresh(p) => Fresh(p)'
  BY DEF Fresh
<1>4. Stale(p) => Stale(p)'
  BY DEF Stale
<1>5. QED
  BY <1>1, <1>2, <1>3, <1>4

(* Steps that are no business of the handlers of the ClusterConfig.        *)
LEMMA Aside ==
  ASSUME Following, UNCHANGED <<cfg, queue, watching, task, done>>, \A p \in Proc : SameKnown(p)
  PROVE  Following'
<1>1. ASSUME NEW p \in Proc
      PROVE  OrderOK(p)' /\ ProgressOK(p)' /\ (Fresh(p) => Fresh(p)') /\ (Stale(p) => Stale(p)')
  BY Elsewhere DEF Following
<1>2. QED
  BY <1>1 DEF Following

(* The handler of a process goes on.                                       *)
LEMMA Onward ==
  ASSUME TypeOK, Following, NEW p \in Proc,
         UNCHANGED <<queue, watching>>, cfg'.gen = cfg.gen, cfg'.spec = cfg.spec, cfg'.phase \in {cfg.phase, "Pending"},
         \A q \in Proc : q # p => task'[q] = task[q] /\ done'[q] = done[q] /\ SameKnown(q),
         task[p].at \in Working \cup {"pending"}, task'[p].at \in Working,
         task'[p].gen = task[p].gen, task'[p].spec = task[p].spec,
         done'[p] \in {done[p], task[p].gen}, task'[p].at = "ready" => done'[p] = task[p].gen,
         ProgressOK(p)'
  PROVE  Following'
<1>1. /\ task[p].gen \in Nat /\ cfg.gen \in Nat /\ task[p].gen <= cfg.gen /\ done[p] \in Nat /\ done'[p] \in Nat
      /\ OrderOK(p) /\ ProgressOK(p) /\ task[p].at # "idle" /\ done[p] <= task[p].gen
  <2>1. TaskOK(p) /\ cfg \in Snapshot /\ done[p] \in Nat
    BY DEF TypeOK, StatusOK, ProcessesOK, BoundsOK
  <2>2. task[p].at \notin {"idle", "get"}
    BY DEF Working
  <2>3. task[p].gen \in 1..cfg.gen /\ cfg.gen \in Nat
    BY <2>1, <2>2 DEF TaskOK, Snapshot
  <2>4. OrderOK(p) /\ ProgressOK(p)
    BY DEF Following
  <2>5. QED
    BY <2>1, <2>2, <2>3, <2>4 DEF OrderOK
<1>2. OrderOK(p)'
  <2>1. task'[p].at # "idle"
    BY DEF Working
  <2>2. QED
    BY <1>1, <2>1 DEF OrderOK
<1>3. Fresh(p) => Fresh(p)'
  BY <1>1 DEF Fresh, Working
<1>4. Stale(p) => Stale(p)'
  BY DEF Stale
<1>5. ASSUME NEW q \in Proc PROVE OrderOK(q)' /\ ProgressOK(q)' /\ (Fresh(q) => Fresh(q)') /\ (Stale(q) => Stale(q)')
  <2>1. CASE q = p
    BY <1>2, <1>3, <1>4, <2>1
  <2>2. CASE q # p
    BY <2>2, Elsewhere DEF Following
  <2>3. QED
    BY <2>1, <2>2
<1>6. (cfg.phase = "Pending" => cfg'.phase = "Pending") /\ watching' = Proc
  BY DEF Following
<1>7. QED
  BY <1>5, <1>6 DEF Following

(* The steps of the handler, while nothing failed.                         *)
LEMMA FollowHandler ==
  ASSUME TypeOK, Following, NEW p \in Proc,
         \/ PatchPending(p) \/ FetchCACerts(p) \/ HandleCABundle(p) \/ SetCidrs(p) \/ SetNodeCidrs(p) \/ SetRest(p)
         \/ p = Watcher /\ (UpdateAuthservice \/ ListPackages)
  PROVE  Following'
<1>1. /\ task \in [Proc -> Task] /\ mem \in [Proc -> Memory] /\ done \in [Proc -> Nat]
      /\ task[p] \in Task /\ mem[p] \in Memory /\ cfg \in Snapshot /\ TaskOK(p)
  BY DEF TypeOK, ProcessesOK, StatusOK, BoundsOK
<1>2. OrderOK(p) /\ ProgressOK(p) /\ p \in watching
  BY DEF Following
<1>3. task[p].at # "idle" => (task[p].gen = cfg.gen => task[p].spec = cfg.spec) /\ done[p] <= task[p].gen
  BY <1>2 DEF OrderOK
<1>4. ASSUME task[p].at \notin {"idle", "get"}
      PROVE  task[p].gen \in Nat /\ cfg.gen \in Nat /\ task[p].gen <= cfg.gen /\ task[p].spec \in ClusterSpec
  BY <1>1, <1>4, SpecsAssumption DEF TaskOK, Snapshot
<1>5. ASSUME PatchPending(p) PROVE Following'
  <2>1. /\ cfg' = [cfg EXCEPT !.phase = "Pending", !.observed = cfg.observed] /\ Notify(cfg')
        /\ Goto(p, "fetch") /\ UNCHANGED <<watching, mem, done>> /\ task[p].at = "pending"
    BY <1>5 DEF PatchPending, PatchStatus
  <2>2. cfg'.gen = cfg.gen /\ cfg'.spec = cfg.spec /\ cfg'.phase = "Pending"
    BY <1>1, <2>1 DEF Snapshot
  <2>3. queue' = queue
    BY <2>1, <2>2 DEF Notify, shouldSkip, TypeOK, StatusOK
  <2>4. /\ task'[p].at = "fetch" /\ task'[p].gen = task[p].gen /\ task'[p].spec = task[p].spec
        /\ \A q \in Proc : q # p => task'[q] = task[q]
    BY <2>1, TaskGoes DEF TypeOK, At
  <2>5. ProgressOK(p)'
    BY <1>2, <2>1, <2>2, <2>4 DEF ProgressOK, Working, Knows
  <2>6. \A q \in Proc : SameKnown(q)
    BY <2>1 DEF SameKnown
  <2>7. QED
    BY <2>1, <2>2, <2>3, <2>4, <2>5, <2>6, Onward DEF Working
<1>6. ASSUME FetchCACerts(p) PROVE Following'
  <2>1. /\ task' = [task EXCEPT ![p].shipped = shipped, ![p].at = "bundle"]
        /\ UNCHANGED <<cfg, queue, watching, mem, done>> /\ task[p].at = "fetch"
    BY <1>6 DEF FetchCACerts, objects, events
  <2>2. /\ task'[p].at = "bundle" /\ task'[p].gen = task[p].gen /\ task'[p].spec = task[p].spec
        /\ \A q \in Proc : q # p => task'[q] = task[q]
    BY <1>1, <2>1 DEF Task
  <2>3. ProgressOK(p)'
    BY <1>2, <2>1, <2>2 DEF ProgressOK, Working, Knows
  <2>4. \A q \in Proc : SameKnown(q)
    BY <2>1 DEF SameKnown
  <2>5. QED
    BY <2>1, <2>2, <2>3, <2>4, Onward DEF Working
<1>7. ASSUME HandleCABundle(p) PROVE Following'
  <2>1. /\ mem' = [mem EXCEPT ![p].certs = task[p].spec.certs, ![p].includes = task[p].spec.includes,
                              ![p].shipped = task[p].shipped]
        /\ UNCHANGED <<cfg, queue, watching, done>> /\ task[p].at = "bundle"
    BY <1>7 DEF HandleCABundle, objects, events
  <2>2. PICK at, s : task' = [task EXCEPT ![p].at = at, ![p].secret = s] /\ at \in {"authservice", "cidrs"}
    <3>1. CASE Updates(p)
      BY <1>7, <3>1 DEF HandleCABundle
    <3>2. CASE ~Updates(p)
      <4>1. task' = [task EXCEPT ![p].at = "cidrs", ![p].secret = task[p].secret]
        BY <1>1, <1>7, <3>2 DEF HandleCABundle
      <4>2. QED
        BY <4>1
    <3>3. QED
      BY <3>1, <3>2
  <2>3. /\ task'[p].at = at /\ task'[p].gen = task[p].gen /\ task'[p].spec = task[p].spec
        /\ \A q \in Proc : q # p => task'[q] = task[q]
    BY <1>1, <2>2 DEF Task
  <2>4. /\ mem'[p].certs = task[p].spec.certs /\ mem'[p].includes = task[p].spec.includes
        /\ mem'[p].cidrs = mem[p].cidrs /\ mem'[p].domain = mem[p].domain /\ mem'[p].exemptAll = mem[p].exemptAll
        /\ \A q \in Proc : q # p => SameKnown(q)
    BY <1>1, <2>1 DEF Memory, SameKnown
  <2>5. done[p] = cfg.gen => task[p].gen = cfg.gen
    BY <1>1, <1>3, <1>4, <2>1
  <2>6. ProgressOK(p)'
    BY <1>2, <1>3, <2>1, <2>2, <2>3, <2>4, <2>5 DEF ProgressOK, Working, Knows
  <2>7. task[p].at \in Working /\ task'[p].at \in Working /\ task'[p].at # "ready"
    BY <2>1, <2>2, <2>3 DEF Working
  <2>8. QED
    BY <2>1, <2>3, <2>4, <2>6, <2>7, Onward
<1>8. ASSUME p = Watcher, UpdateAuthservice \/ ListPackages PROVE Following'
  <2>1. PICK at \in {"list", "cidrs"} : Goto(p, at) /\ UNCHANGED <<cfg, queue, watching, mem, done>>
                                        /\ task[p].at \in {"authservice", "list"}
    BY <1>8 DEF UpdateAuthservice, ListPackages, objects, events
  <2>2. /\ task'[p].at = at /\ task'[p].gen = task[p].gen /\ task'[p].spec = task[p].spec
        /\ \A q \in Proc : q # p => task'[q] = task[q]
    BY <2>1, TaskGoes DEF TypeOK, At
  <2>3. ProgressOK(p)'
    BY <1>2, <2>1, <2>2 DEF ProgressOK, Working, Knows
  <2>4. (\A q \in Proc : SameKnown(q)) /\ task[p].at \in Working /\ task'[p].at \in Working /\ task'[p].at # "ready"
    BY <2>1, <2>2 DEF SameKnown, Working
  <2>5. QED
    BY <2>1, <2>2, <2>3, <2>4, Onward
<1>9. ASSUME SetCidrs(p) PROVE Following'
  <2>1. /\ mem' = [mem EXCEPT ![p].cidrs.api = task[p].spec.cidrs.api] /\ Goto(p, "nodes")
        /\ UNCHANGED <<cfg, queue, watching, done>> /\ task[p].at = "cidrs"
    BY <1>9 DEF SetCidrs, objects, events
  <2>2. /\ task'[p].at = "nodes" /\ task'[p].gen = task[p].gen /\ task'[p].spec = task[p].spec
        /\ \A q \in Proc : q # p => task'[q] = task[q]
    BY <2>1, TaskGoes DEF TypeOK, At
  <2>3. /\ mem'[p].certs = mem[p].certs /\ mem'[p].includes = mem[p].includes
        /\ mem'[p].domain = mem[p].domain /\ mem'[p].exemptAll = mem[p].exemptAll
        /\ mem'[p].cidrs = [mem[p].cidrs EXCEPT !.api = task[p].spec.cidrs.api]
        /\ \A q \in Proc : q # p => SameKnown(q)
    BY <1>1, <2>1 DEF Memory, SameKnown
  <2>4. mem'[p].cidrs.api = task[p].spec.cidrs.api
    BY <1>1, <2>3 DEF Memory
  <2>5. done[p] = cfg.gen => task[p].gen = cfg.gen
    BY <1>1, <1>3, <1>4, <2>1
  <2>6. done[p] = cfg.gen => mem'[p].cidrs = mem[p].cidrs
    <3>1. ASSUME done[p] = cfg.gen PROVE mem[p].cidrs.api = task[p].spec.cidrs.api
      BY <1>2, <1>3, <2>1, <2>5, <3>1 DEF ProgressOK, Knows
    <3>2. QED
      BY <1>1, <2>3, <3>1 DEF Memory
  <2>7. ProgressOK(p)'
    BY <1>2, <1>3, <2>1, <2>2, <2>3, <2>4, <2>6 DEF ProgressOK, Working, Knows
  <2>8. task[p].at \in Working /\ task'[p].at \in Working /\ task'[p].at # "ready"
    BY <2>1, <2>2 DEF Working
  <2>9. QED
    BY <2>1, <2>2, <2>3, <2>7, <2>8, Onward
<1>10. ASSUME SetNodeCidrs(p) PROVE Following'
  <2>1. /\ mem' = [mem EXCEPT ![p].cidrs.nodes = task[p].spec.cidrs.nodes] /\ Goto(p, "rest")
        /\ UNCHANGED <<cfg, queue, watching, done>> /\ task[p].at = "nodes"
    BY <1>10 DEF SetNodeCidrs, objects, events
  <2>2. /\ task'[p].at = "rest" /\ task'[p].gen = task[p].gen /\ task'[p].spec = task[p].spec
        /\ \A q \in Proc : q # p => task'[q] = task[q]
    BY <2>1, TaskGoes DEF TypeOK, At
  <2>3. /\ mem'[p].certs = mem[p].certs /\ mem'[p].includes = mem[p].includes
        /\ mem'[p].domain = mem[p].domain /\ mem'[p].exemptAll = mem[p].exemptAll
        /\ mem'[p].cidrs = [mem[p].cidrs EXCEPT !.nodes = task[p].spec.cidrs.nodes]
        /\ \A q \in Proc : q # p => SameKnown(q)
    BY <1>1, <2>1 DEF Memory, SameKnown
  <2>4. mem'[p].cidrs.nodes = task[p].spec.cidrs.nodes /\ mem'[p].cidrs.api = mem[p].cidrs.api
    BY <1>1, <2>3 DEF Memory
  <2>5. done[p] = cfg.gen => task[p].gen = cfg.gen
    BY <1>1, <1>3, <1>4, <2>1
  <2>6. done[p] = cfg.gen => mem'[p].cidrs = mem[p].cidrs
    <3>1. ASSUME done[p] = cfg.gen PROVE mem[p].cidrs.nodes = task[p].spec.cidrs.nodes
      BY <1>2, <1>3, <2>1, <2>5, <3>1 DEF ProgressOK, Knows
    <3>2. QED
      BY <1>1, <2>3, <3>1 DEF Memory
  <2>7. ProgressOK(p)'
    BY <1>2, <1>3, <2>1, <2>2, <2>3, <2>4, <2>6 DEF ProgressOK, Working, Knows
  <2>8. task[p].at \in Working /\ task'[p].at \in Working /\ task'[p].at # "ready"
    BY <2>1, <2>2 DEF Working
  <2>9. QED
    BY <2>1, <2>2, <2>3, <2>7, <2>8, Onward
<1>11. ASSUME SetRest(p) PROVE Following'
  <2>1. /\ mem' = [mem EXCEPT ![p].domain = DomainOf(task[p].spec), ![p].exemptAll = task[p].spec.exemptAll]
        /\ Goto(p, "ready") /\ done' = [done EXCEPT ![p] = task[p].gen]
        /\ UNCHANGED <<cfg, queue, watching>> /\ task[p].at = "rest"
    BY <1>11 DEF SetRest, objects, events
  <2>2. /\ task'[p].at = "ready" /\ task'[p].gen = task[p].gen /\ task'[p].spec = task[p].spec
        /\ \A q \in Proc : q # p => task'[q] = task[q] /\ done'[q] = done[q]
    BY <1>1, <2>1, TaskGoes DEF TypeOK, At
  <2>3. /\ mem'[p].certs = mem[p].certs /\ mem'[p].includes = mem[p].includes /\ mem'[p].cidrs = mem[p].cidrs
        /\ mem'[p].domain = DomainOf(task[p].spec) /\ mem'[p].exemptAll = task[p].spec.exemptAll
        /\ done'[p] = task[p].gen
        /\ \A q \in Proc : q # p => SameKnown(q)
    BY <1>1, <2>1 DEF Memory, SameKnown
  <2>4. ASSUME task[p].gen = cfg.gen PROVE Knows(p)' /\ mem'[p].cidrs = cfg.spec.cidrs
    <3>1. /\ mem[p].certs = cfg.spec.certs /\ mem[p].includes = cfg.spec.includes
          /\ mem[p].cidrs.api = cfg.spec.cidrs.api /\ mem[p].cidrs.nodes = cfg.spec.cidrs.nodes
          /\ task[p].spec = cfg.spec
      BY <1>2, <1>3, <2>1, <2>4 DEF ProgressOK
    <3>2. mem[p].cidrs = cfg.spec.cidrs
      <4>1. mem[p].cidrs \in [api : Cidr \cup {None}, nodes : Cidr \cup {None}]
        BY <1>1 DEF Memory
      <4>2. cfg.spec.cidrs \in [api : Cidr \cup {None}, nodes : Cidr \cup {None}]
        BY <1>4, <2>1, <3>1 DEF ClusterSpec
      <4>3. QED
        BY <3>1, <4>1, <4>2
    <3>3. QED
      BY <2>1, <2>3, <3>1, <3>2 DEF Knows
  <2>5. ProgressOK(p)'
    BY <1>2, <2>1, <2>2, <2>3, <2>4 DEF ProgressOK, Working, Knows
  <2>6. task[p].at \in Working /\ task'[p].at \in Working
    BY <2>1, <2>2 DEF Working
  <2>7. QED
    BY <2>1, <2>2, <2>3, <2>5, <2>6, Onward
<1>12. QED
  BY <1>5, <1>6, <1>7, <1>8, <1>9, <1>10, <1>11

(* A handler takes the next snapshot of its queue.                         *)
LEMMA FollowStart ==
  ASSUME TypeOK, Following, NEW p \in Proc, StartCfg(p)
  PROVE  Following'
<1>1. /\ task \in [Proc -> Task] /\ queue \in [Proc -> Seq(Snapshot)] /\ cfg \in Snapshot
      /\ queue[p] \in Seq(Snapshot) /\ queue[p] # <<>>
      /\ \A i \in 1..Len(queue[p]) : queue[p][i].gen <= cfg.gen
  BY DEF TypeOK, ProcessesOK, StatusOK, StartCfg
<1>2. OrderOK(p) /\ ProgressOK(p)
  BY DEF Following
<1>3. PICK head : head = Head(queue[p])
  OBVIOUS
<1>4. PICK rest : rest = Tail(queue[p])
  OBVIOUS
<1>5. /\ head = queue[p][1] /\ 1 \in 1..Len(queue[p]) /\ head \in Snapshot /\ rest \in Seq(Snapshot)
      /\ Len(rest) = Len(queue[p]) - 1 /\ Len(rest) \in Nat /\ Len(queue[p]) \in Nat
  BY <1>1, <1>3, <1>4
<1>6. ASSUME NEW i \in 1..Len(rest) PROVE i + 1 \in 1..Len(queue[p]) /\ rest[i] = queue[p][i + 1]
  BY <1>1, <1>4, <1>5
<1>7. \A i \in 1..Len(queue[p]) : i = 1 \/ (i - 1 \in 1..Len(rest) /\ queue[p][i] = rest[i - 1])
  BY <1>1, <1>4, <1>5
<1>8. /\ task' = [task EXCEPT ![p] = [Idle EXCEPT !.at = "pending", !.gen = head.gen, !.spec = head.spec]]
      /\ queue' = [queue EXCEPT ![p] = rest] /\ UNCHANGED <<cfg, watching, mem, done>> /\ task[p] = Idle
  BY <1>3, <1>4 DEF StartCfg, objects
<1>9. /\ task'[p].at = "pending" /\ task'[p].gen = head.gen /\ task'[p].spec = head.spec /\ queue'[p] = rest
      /\ \A q \in Proc : q # p => task'[q] = task[q] /\ queue'[q] = queue[q]
  BY <1>1, <1>8 DEF Idle
<1>10. OrderOK(p)'
  <2>1. done[p] <= head.gen /\ (head.gen = cfg.gen => head.spec = cfg.spec)
    BY <1>2, <1>5 DEF OrderOK
  <2>2. ASSUME NEW i \in 1..Len(rest), NEW j \in 1..Len(rest), i <= j PROVE rest[i].gen <= rest[j].gen
    <3>1. i + 1 <= j + 1 /\ i \in Nat /\ j \in Nat
      BY <1>5, <2>2
    <3>2. QED
      BY <1>2, <1>6, <3>1 DEF OrderOK
  <2>3. ASSUME NEW i \in 1..Len(rest)
        PROVE  head.gen <= rest[i].gen /\ done[p] <= rest[i].gen /\ (rest[i].gen = cfg.gen => rest[i].spec = cfg.spec)
    <3>1. i + 1 \in 1..Len(queue[p]) /\ 1 <= i + 1 /\ rest[i] = queue[p][i + 1]
      BY <1>5, <1>6
    <3>2. QED
      BY <1>2, <1>5, <3>1 DEF OrderOK
  <2>4. done[p] <= cfg.gen
    BY <1>2 DEF OrderOK
  <2>5. QED
    BY <1>8, <1>9, <2>1, <2>2, <2>3, <2>4 DEF OrderOK
<1>11. ProgressOK(p)'
  BY <1>2, <1>8, <1>9 DEF ProgressOK, Working, Knows
<1>12. Fresh(p) => Fresh(p)'
  <2>1. CASE \E i \in 1..Len(queue[p]) : queue[p][i].gen = cfg.gen
    <3>1. PICK i \in 1..Len(queue[p]) : queue[p][i].gen = cfg.gen
      BY <2>1
    <3>2. CASE i = 1
      BY <1>5, <1>8, <1>9, <3>1, <3>2 DEF Fresh
    <3>3. CASE i # 1
      BY <1>7, <1>8, <1>9, <3>1, <3>3 DEF Fresh
    <3>4. QED
      BY <3>2, <3>3
  <2>2. CASE done[p] = cfg.gen
    BY <1>8, <2>2 DEF Fresh
  <2>3. task[p].at = "idle"
    BY <1>8 DEF Idle
  <2>4. QED
    BY <2>1, <2>2, <2>3 DEF Fresh, Working
<1>13. Stale(p) => Stale(p)'
  BY <1>5, <1>6, <1>8, <1>9 DEF Stale
<1>14. \A q \in Proc : SameKnown(q)
  BY <1>8 DEF SameKnown
<1>15. ASSUME NEW q \in Proc PROVE OrderOK(q)' /\ ProgressOK(q)' /\ (Fresh(q) => Fresh(q)') /\ (Stale(q) => Stale(q)')
  <2>1. CASE q = p
    BY <1>10, <1>11, <1>12, <1>13, <2>1
  <2>2. CASE q # p
    <3>1. done'[q] = done[q] /\ cfg'.gen = cfg.gen /\ cfg'.spec = cfg.spec /\ SameKnown(q)
      BY <1>8, <1>14
    <3>2. QED
      BY <1>9, <2>2, <3>1, Elsewhere DEF Following
  <2>3. QED
    BY <2>1, <2>2
<1>16. ASSUME cfg'.phase = "Pending" PROVE \E q \in Proc : task'[q].at \in Working
  <2>1. PICK q \in Proc : task[q].at \in Working
    BY <1>8, <1>16 DEF Following
  <2>2. q # p
    BY <1>8, <2>1 DEF Idle, Working
  <2>3. QED
    BY <1>9, <2>1, <2>2
<1>17. QED
  BY <1>8, <1>15, <1>16 DEF Following

(* An edit that is notified, or a status, reaches everyone.                *)
LEMMA Reached ==
  ASSUME TypeOK, Following, NEW p \in Proc, cfg' \in Snapshot, cfg.gen <= cfg'.gen, cfg'.gen = cfg.gen => cfg'.spec = cfg.spec,
         ~shouldSkip(cfg'), Notify(cfg'), UNCHANGED <<watching, mem, done>>,
         task'[p] \in {task[p], Idle}
  PROVE  OrderOK(p)' /\ ProgressOK(p)' /\ Fresh(p)'
<1>1. /\ queue[p] \in Seq(Snapshot) /\ Len(queue[p]) \in Nat /\ cfg \in Snapshot /\ done[p] \in Nat
      /\ \A i \in 1..Len(queue[p]) : queue[p][i].gen <= cfg.gen /\ queue[p][i].gen \in Nat
  <2>1. queue[p] \in Seq(Snapshot) /\ cfg \in Snapshot /\ done[p] \in Nat
        /\ \A i \in 1..Len(queue[p]) : queue[p][i].gen <= cfg.gen
    BY DEF TypeOK, StatusOK, BoundsOK
  <2>2. \A i \in 1..Len(queue[p]) : queue[p][i] \in Snapshot
    BY <2>1
  <2>3. QED
    BY <2>1, <2>2 DEF Snapshot
<1>2. cfg.gen \in Nat /\ cfg'.gen \in Nat /\ task[p].gen \in Nat /\ task[p].gen <= cfg.gen /\ task'[p].gen <= task[p].gen
      /\ task'[p].gen \in Nat /\ (task'[p].at # "idle" => task'[p] = task[p]) /\ cfg.gen # 0
  <2>1. TaskOK(p) /\ cfg.gen \in Nat \ {0} /\ cfg'.gen \in Nat
    BY <1>1 DEF TypeOK, ProcessesOK, Snapshot
  <2>2. task[p].at # "get"
    BY DEF Following, ProgressOK, Working
  <2>3. Idle.at = "idle" /\ Idle.gen = 0
    BY DEF Idle
  <2>4. task[p].gen \in 0..cfg.gen
    BY <2>1, <2>2, <2>3 DEF TaskOK
  <2>5. QED
    BY <2>1, <2>3, <2>4
<1>3. OrderOK(p) /\ ProgressOK(p) /\ p \in watching
  BY DEF Following
<1>4. PICK new : new = Append(queue[p], cfg')
  OBVIOUS
<1>5. queue'[p] = new
  BY <1>3, <1>4 DEF Notify
<1>6. /\ Len(new) = Len(queue[p]) + 1 /\ new[Len(new)] = cfg' /\ Len(new) \in 1..Len(new)
      /\ \A i \in 1..Len(new) : (i \in 1..Len(queue[p]) /\ new[i] = queue[p][i]) \/ (i = Len(new) /\ new[i] = cfg')
  BY <1>1, <1>4
<1>7. Fresh(p)'
  BY <1>5, <1>6 DEF Fresh
<1>8. OrderOK(p)'
  <2>1. ASSUME NEW i \in 1..Len(new), NEW j \in 1..Len(new), i <= j PROVE new[i].gen <= new[j].gen
    <3>1. CASE new[j] = cfg' /\ j = Len(new)
      <4>1. new[i].gen <= cfg'.gen
        <5>1. CASE i \in 1..Len(queue[p]) /\ new[i] = queue[p][i]
          <6>1. queue[p][i].gen <= cfg.gen /\ queue[p][i].gen \in Nat
            BY <1>1, <5>1
          <6>2. QED
            BY <1>2, <5>1, <6>1
        <5>2. CASE new[i] = cfg'
          BY <1>2, <5>2
        <5>3. QED
          BY <1>6, <5>1, <5>2
      <4>2. QED
        BY <3>1, <4>1
    <3>2. CASE j \in 1..Len(queue[p]) /\ new[j] = queue[p][j]
      <4>1. i \in 1..Len(queue[p]) /\ new[i] = queue[p][i]
        BY <1>1, <1>6, <2>1, <3>2
      <4>2. QED
        BY <1>3, <2>1, <3>2, <4>1 DEF OrderOK
    <3>3. QED
      BY <1>6, <3>1, <3>2
  <2>2. ASSUME NEW i \in 1..Len(new)
        PROVE  task'[p].gen <= new[i].gen /\ done[p] <= new[i].gen /\ (new[i].gen = cfg'.gen => new[i].spec = cfg'.spec)
    <3>1. CASE new[i] = cfg'
      <4>1. done[p] <= cfg.gen
        BY <1>3 DEF OrderOK
      <4>2. task'[p].gen <= cfg'.gen /\ done[p] <= cfg'.gen
        BY <1>1, <1>2, <4>1
      <4>3. QED
        BY <3>1, <4>2
    <3>2. CASE i \in 1..Len(queue[p]) /\ new[i] = queue[p][i]
      <4>1. task[p].gen <= new[i].gen /\ done[p] <= new[i].gen /\ (new[i].gen = cfg.gen => new[i].spec = cfg.spec)
            /\ new[i].gen \in Nat /\ new[i].gen <= cfg.gen
        BY <1>1, <1>3, <3>2 DEF OrderOK
      <4>2. new[i].gen = cfg'.gen => cfg'.gen = cfg.gen
        BY <1>2, <4>1
      <4>3. task'[p].gen <= new[i].gen
        BY <1>2, <4>1
      <4>4. QED
        BY <4>1, <4>2, <4>3
    <3>3. QED
      BY <1>6, <3>1, <3>2
  <2>3. ASSUME task'[p].at # "idle" PROVE done[p] <= task'[p].gen /\ (task'[p].gen = cfg'.gen => task'[p].spec = cfg'.spec)
    BY <1>2, <1>3, <2>3 DEF OrderOK
  <2>4. done[p] <= cfg'.gen
    BY <1>1, <1>2, <1>3 DEF OrderOK
  <2>5. QED
    BY <1>5, <2>1, <2>2, <2>3, <2>4 DEF OrderOK
<1>9. ProgressOK(p)'
  <2>1. CASE cfg'.gen = cfg.gen
    <3>1. cfg'.spec = cfg.spec
      BY <2>1
    <3>2. Idle.at = "idle"
      BY DEF Idle
    <3>3. QED
      BY <1>2, <1>3, <2>1, <3>1, <3>2 DEF ProgressOK, Working, Knows
  <2>2. CASE cfg'.gen # cfg.gen
    <3>1. done[p] # cfg'.gen /\ task'[p].gen # cfg'.gen
      BY <1>1, <1>2, <1>3, <2>2 DEF OrderOK
    <3>2. task'[p].at \in Working \cup {"idle", "pending"}
      BY <1>3 DEF ProgressOK, Idle
    <3>3. QED
      BY <3>1, <3>2 DEF ProgressOK
  <2>3. QED
    BY <2>1, <2>2
<1>10. QED
  BY <1>7, <1>8, <1>9

LEMMA FollowChange ==
  ASSUME TypeOK, TypeOK', Following, NEW spec \in Specs, ChangeSpec(spec)
  PROVE  Following'
<1>1. /\ cfg \in Snapshot /\ cfg' \in Snapshot /\ cfg.observed <= cfg.gen /\ cfg' = [cfg EXCEPT !.gen = @ + 1, !.spec = spec]
      /\ Notify(cfg') /\ UNCHANGED <<watching, mem, task, done>> /\ queue \in [Proc -> Seq(Snapshot)]
  BY DEF ChangeSpec, TypeOK, StatusOK
<1>2. PICK gen \in Nat : gen = cfg.gen
  BY <1>1 DEF Snapshot
<1>3. cfg'.gen = gen + 1 /\ cfg'.phase = cfg.phase /\ cfg'.observed = cfg.observed
  BY <1>1, <1>2 DEF Snapshot
<1>4. cfg.observed \in Nat /\ cfg'.observed # cfg'.gen
  BY <1>1, <1>2, <1>3 DEF Snapshot
<1>5. CASE cfg.phase # "Pending"
  <2>1. ~shouldSkip(cfg') /\ cfg.gen <= cfg'.gen /\ cfg'.gen # cfg.gen
    BY <1>2, <1>3, <1>4, <1>5 DEF shouldSkip
  <2>2. ASSUME NEW p \in Proc PROVE OrderOK(p)' /\ ProgressOK(p)' /\ Fresh(p)'
    <3>1. task'[p] \in {task[p], Idle}
      BY <1>1
    <3>2. QED
      BY <1>1, <2>1, <3>1, Reached
  <2>3. QED
    BY <1>1, <1>3, <1>5, <2>2 DEF Following
<1>6. CASE cfg.phase = "Pending"
  <2>1. queue' = queue
    BY <1>1, <1>3, <1>6 DEF Notify, shouldSkip
  <2>2. ASSUME NEW p \in Proc PROVE OrderOK(p)' /\ ProgressOK(p)' /\ Stale(p)'
    <3>1. /\ \A i \in 1..Len(queue[p]) : queue[p][i].gen < cfg'.gen /\ queue[p][i].gen # cfg'.gen
      <4>1. queue[p] \in Seq(Snapshot) /\ \A i \in 1..Len(queue[p]) : queue[p][i].gen <= cfg.gen
        BY DEF TypeOK, StatusOK
      <4>2. \A i \in 1..Len(queue[p]) : queue[p][i] \in Snapshot
        BY <4>1
      <4>3. \A i \in 1..Len(queue[p]) : queue[p][i].gen \in Nat
        BY <4>2 DEF Snapshot
      <4>4. QED
        BY <1>2, <1>3, <4>1, <4>3
    <3>2. OrderOK(p) /\ ProgressOK(p)
      BY DEF Following
    <3>3. task[p].gen < cfg'.gen /\ task[p].gen # cfg'.gen /\ task[p].gen \in Nat
      <4>1. TaskOK(p) /\ task[p].at # "get"
        BY <3>2 DEF TypeOK, ProcessesOK, ProgressOK, Working
      <4>2. task[p].gen \in 0..cfg.gen
        BY <1>2, <4>1 DEF TaskOK, Idle
      <4>3. QED
        BY <1>2, <1>3, <4>2
    <3>4. done[p] <= cfg'.gen /\ done[p] # cfg'.gen
      <4>1. done[p] \in Nat /\ done[p] <= cfg.gen
        BY <3>2 DEF OrderOK, TypeOK, BoundsOK
      <4>2. QED
        BY <1>2, <1>3, <4>1
    <3>5. QED
      BY <1>1, <2>1, <3>1, <3>2, <3>3, <3>4 DEF OrderOK, ProgressOK, Stale
  <2>3. QED
    BY <1>1, <1>3, <1>6, <2>2 DEF Following
<1>7. QED
  BY <1>5, <1>6

LEMMA FollowReady ==
  ASSUME TypeOK, TypeOK', Following, NEW p \in Proc, PatchReady(p)
  PROVE  Following'
<1>1. /\ task \in [Proc -> Task] /\ cfg \in Snapshot /\ cfg' \in Snapshot /\ TaskOK(p) /\ OrderOK(p) /\ ProgressOK(p)
      /\ queue \in [Proc -> Seq(Snapshot)] /\ p \in watching
  BY DEF TypeOK, ProcessesOK, StatusOK, Following
<1>2. /\ cfg' = [cfg EXCEPT !.phase = "Ready", !.observed = task[p].gen] /\ Notify(cfg')
      /\ task[p].at = "ready" /\ task' = [task EXCEPT ![p] = Idle] /\ UNCHANGED <<watching, mem, done>>
  BY <1>1 DEF PatchReady, PatchStatus, Finish, TaskOK
<1>3. cfg'.gen = cfg.gen /\ cfg'.spec = cfg.spec /\ cfg'.phase = "Ready" /\ cfg'.observed = task[p].gen
  BY <1>1, <1>2 DEF Snapshot
<1>4. cfg.gen \in Nat /\ cfg.gen # 0 /\ task[p].gen \in 1..cfg.gen
  BY <1>1, <1>2 DEF TaskOK, Snapshot
<1>5. CASE task[p].gen # cfg.gen
  <2>1. ~shouldSkip(cfg') /\ cfg.gen <= cfg'.gen
    BY <1>3, <1>4, <1>5 DEF shouldSkip
  <2>2. ASSUME NEW q \in Proc PROVE OrderOK(q)' /\ ProgressOK(q)' /\ Fresh(q)'
    <3>1. task'[q] \in {task[q], Idle}
      BY <1>1, <1>2
    <3>2. QED
      BY <1>1, <1>2, <1>3, <2>1, <3>1, Reached
  <2>3. QED
    BY <1>2, <1>3, <2>2 DEF Following
<1>6. CASE task[p].gen = cfg.gen
  <2>1. queue' = queue
    BY <1>1, <1>2, <1>3, <1>6 DEF Notify, shouldSkip
  <2>2. \A q \in Proc : Fresh(q)
    BY <1>4, <1>6 DEF Following, Stale
  <2>3. task'[p] = Idle /\ Idle.at = "idle" /\ Idle.gen = 0 /\ \A q \in Proc : q # p => task'[q] = task[q]
    BY <1>1, <1>2 DEF Idle
  <2>4. OrderOK(p)'
    <3>1. \A i \in 1..Len(queue[p]) : 0 <= queue[p][i].gen
      <4>1. queue[p] \in Seq(Snapshot)
        BY <1>1
      <4>2. \A i \in 1..Len(queue[p]) : queue[p][i] \in Snapshot
        BY <4>1
      <4>3. \A i \in 1..Len(queue[p]) : queue[p][i].gen \in Nat
        BY <4>2 DEF Snapshot
      <4>4. QED
        BY <4>3
    <3>2. QED
      BY <1>1, <1>2, <1>3, <2>1, <2>3, <3>1 DEF OrderOK
  <2>5. ProgressOK(p)'
    BY <1>1, <1>2, <1>3, <1>4, <2>3 DEF ProgressOK, Working, Knows
  <2>6. Fresh(p)'
    BY <1>2, <1>3, <2>1, <2>2 DEF Fresh
  <2>7. ASSUME NEW q \in Proc PROVE OrderOK(q)' /\ ProgressOK(q)' /\ Fresh(q)'
    <3>1. CASE q = p
      BY <2>4, <2>5, <2>6, <3>1
    <3>2. CASE q # p
      <4>1. done'[q] = done[q] /\ SameKnown(q) /\ task'[q] = task[q] /\ queue'[q] = queue[q]
        BY <1>2, <2>1, <2>3, <3>2 DEF SameKnown
      <4>2. OrderOK(q) /\ ProgressOK(q) /\ Fresh(q)
        BY <2>2 DEF Following
      <4>3. QED
        BY <1>3, <4>1, <4>2, Elsewhere
    <3>3. QED
      BY <3>1, <3>2
  <2>8. QED
    BY <1>2, <1>3, <2>7 DEF Following
<1>7. QED
  BY <1>5, <1>6

(* Trouble but for "certs" is not forgotten.                               *)
LEMMA Remembered == [Next]_vars => trouble \ {"certs"} \subseteq trouble'
<1> SUFFICES ASSUME [Next]_vars PROVE trouble \ {"certs"} \subseteq trouble'
  OBVIOUS
<1>1. CASE UNCHANGED vars
  BY <1>1 DEF vars
<1>2. ASSUME \/ \E spec \in Specs : ChangeSpec(spec)
             \/ \E certs \in ShippedCerts : ChangeShipped(certs)
             \/ \E s \in Secrets : ChangeSecret(s)
             \/ \E k \in Package : CreatePackage(k) \/ BuildBundle(k) \/ ApplyBundle(k)
      PROVE  trouble \ {"certs"} \subseteq trouble'
  BY <1>2 DEF ChangeSpec, ChangeShipped, ChangeSecret, CreatePackage, BuildBundle, ApplyBundle, Arrives
<1>3. ASSUME NEW p \in Proc, HandleCfg(p) PROVE trouble \ {"certs"} \subseteq trouble'
  BY <1>3 DEF HandleCfg, StartCfg, PatchPending, FetchCACerts, HandleCABundle, SetCidrs, SetNodeCidrs, SetRest, PatchReady,
              PatchFailed
<1>4. ASSUME NEW p \in Proc, Load(p) \/ FailCfg(p) \/ Restart(p) PROVE trouble \ {"certs"} \subseteq trouble'
  BY <1>4 DEF Load, Get, LoadSecret, StartWatches, FailCfg, Restart
<1>5. ASSUME NEW h \in Writer, Write(h) \/ \E t \in Package \cup {"namespace", "istio"} : FailWrite(h, t)
      PROVE  trouble \ {"certs"} \subseteq trouble'
  BY <1>5 DEF Write, WriteBundle, ApplyNamespace, WriteIstio, FailWrite, Arrives
<1>6. ASSUME WatcherOnly \/ FailOther PROVE trouble \ {"certs"} \subseteq trouble'
  BY <1>6 DEF WatcherOnly, UpdateAuthservice, ListPackages, StartCerts, ListForCerts, StartSecret, UpdateForSecret, Tell, FailOther
<1>7. QED
  BY <1>1, <1>2, <1>3, <1>4, <1>5, <1>6 DEF Next

(* Failing requests and restarts are troubles.                             *)
LEMMA Failing ==
  /\ \A p \in Proc : FailCfg(p) => "request" \in trouble'
  /\ \A p \in Proc : Restart(p) => "restart" \in trouble'
  /\ \A h \in Writer, t \in Package \cup {"namespace", "istio"} : FailWrite(h, t) => "request" \in trouble'
  /\ FailOther => "request" \in trouble'
  BY DEF FailCfg, Restart, FailWrite, FailOther

LEMMA FollowStep == TypeOK /\ TypeOK' /\ FollowInv /\ [Next]_vars => FollowInv'
<1> SUFFICES ASSUME TypeOK, TypeOK', FollowInv, [Next]_vars, Calm' PROVE Following'
  BY DEF FollowInv
<1>1. Following
  BY Remembered DEF FollowInv, Calm
<1>2. ASSUME UNCHANGED <<cfg, queue, watching, task, mem, done>> PROVE Following'
  BY <1>1, <1>2, Aside DEF SameKnown
<1>3. CASE UNCHANGED vars
  BY <1>2, <1>3 DEF vars
<1>4. ASSUME \/ \E certs \in ShippedCerts : ChangeShipped(certs)
             \/ \E s \in Secrets : ChangeSecret(s)
             \/ \E k \in Package : CreatePackage(k) \/ BuildBundle(k) \/ ApplyBundle(k)
             \/ \E h \in Writer : Write(h)
             \/ ListForCerts
      PROVE  Following'
  <2>1. UNCHANGED <<cfg, queue, watching, task, mem, done>>
    BY <1>4 DEF ChangeShipped, ChangeSecret, CreatePackage, BuildBundle, ApplyBundle, Write, WriteBundle, ApplyNamespace,
                WriteIstio, ListForCerts, objects, events
  <2>2. QED
    BY <1>2, <2>1
<1>5. CASE StartCerts \/ StartSecret \/ UpdateForSecret
  <2>1. UNCHANGED <<cfg, queue, watching, task, done>>
    BY <1>5 DEF StartCerts, StartSecret, UpdateForSecret, objects, events
  <2>2. mem \in [Proc -> Memory]
    BY DEF TypeOK, ProcessesOK
  <2>3. \/ mem' = mem
        \/ \E certs : mem' = [mem EXCEPT ![Watcher].shipped = certs]
        \/ \E redis, mode : mem' = [mem EXCEPT ![Watcher].redis = redis, ![Watcher].mode = mode]
        \/ \E mode : mem' = [mem EXCEPT ![Watcher].mode = mode]
    <3>1. CASE StartCerts
      BY <3>1 DEF StartCerts
    <3>2. CASE StartSecret
      BY <3>2 DEF StartSecret
    <3>3. CASE UpdateForSecret
      BY <3>3 DEF UpdateForSecret
    <3>4. QED
      BY <1>5, <3>1, <3>2, <3>3
  <2>4. ASSUME NEW p \in Proc PROVE SameKnown(p)
    <3>1. CASE mem' = mem
      BY <3>1 DEF SameKnown
    <3>2. CASE \E certs : mem' = [mem EXCEPT ![Watcher].shipped = certs]
      BY <2>2, <3>2 DEF SameKnown, Memory
    <3>3. CASE \E redis, mode : mem' = [mem EXCEPT ![Watcher].redis = redis, ![Watcher].mode = mode]
      BY <2>2, <3>3 DEF SameKnown, Memory
    <3>4. CASE \E mode : mem' = [mem EXCEPT ![Watcher].mode = mode]
      BY <2>2, <3>4 DEF SameKnown, Memory
    <3>5. QED
      BY <2>3, <3>1, <3>2, <3>3, <3>4
  <2>5. QED
    BY <1>1, <2>1, <2>4, Aside
<1>6. ASSUME NEW spec \in Specs, ChangeSpec(spec) PROVE Following'
  BY <1>1, <1>6, FollowChange
<1>7. CASE UpdateAuthservice \/ ListPackages
  BY <1>1, <1>7, FollowHandler, WatcherAssumption
<1>8. ASSUME NEW p \in Proc, HandleCfg(p) PROVE Following'
  <2>1. ~PatchFailed(p)
    BY <1>1 DEF PatchFailed, Following, ProgressOK, Working
  <2>2. QED
    BY <1>1, <1>8, <2>1, FollowHandler, FollowStart, FollowReady DEF HandleCfg
<1>9. ASSUME NEW p \in Proc, Load(p) PROVE FALSE
  BY <1>1, <1>9 DEF Load, Get, LoadSecret, StartWatches, Following, ProgressOK, Working
<1>10. /\ \A p \in Proc : ~FailCfg(p) /\ ~Restart(p)
       /\ \A h \in Writer, t \in Package \cup {"namespace", "istio"} : ~FailWrite(h, t)
       /\ ~FailOther
  BY Failing DEF Calm
<1>11. QED
  BY <1>3, <1>4, <1>5, <1>6, <1>7, <1>8, <1>9, <1>10 DEF Next, WatcherOnly

LEMMA FollowInit == Init => FollowInv
<1> SUFFICES ASSUME Init PROVE Following
  BY DEF FollowInv
<1>1. InitialSpec \in ClusterSpec /\ Idle.at = "idle" /\ Idle.gen = 0 /\ Watcher \in Proc
  BY SpecsAssumption, WatcherAssumption DEF Idle
<1>2. cfg.gen = 1 /\ cfg.spec = InitialSpec /\ cfg.phase = "Ready" /\ watching = Proc
  BY DEF Init
<1>3. ASSUME NEW p \in Proc PROVE OrderOK(p) /\ ProgressOK(p) /\ Fresh(p)
  <2>1. queue[p] = <<>> /\ task[p] = Idle /\ done[p] = 1 /\ mem[p] = Settled(InitialSpec, InitialShipped, InitialSecret)
    BY DEF Init
  <2>2. 1..Len(queue[p]) = {}
    BY <2>1
  <2>3. OrderOK(p)
    BY <1>1, <1>2, <2>1, <2>2 DEF OrderOK
  <2>4. ProgressOK(p)
    BY <1>1, <1>2, <2>1 DEF ProgressOK, Working, Knows, Settled
  <2>5. Fresh(p)
    BY <1>2, <2>1 DEF Fresh
  <2>6. QED
    BY <2>3, <2>4, <2>5
<1>4. QED
  BY <1>2, <1>3 DEF Following

(* When nothing is left to do every process has settled the newest         *)
(* generation and knows what it says, unless a request failed or a process *)
(* had to start again.                                                     *)
THEOREM EveryoneSettles == Spec => []FollowsConfig
<1>1. TypeOK /\ FollowInv => FollowsConfig
  <2> SUFFICES ASSUME TypeOK, FollowInv, Quiet, trouble \cap {"request", "restart"} = {}, NEW p \in Proc
               PROVE  done[p] = cfg.gen /\ Knows(p)
    BY DEF FollowsConfig
  <2>1. Following
    BY DEF FollowInv, Calm
  <2>2. \A q \in Proc : task[q] = Idle /\ queue[q] = <<>>
    BY DEF Quiet
  <2>3. Idle.at = "idle" /\ Idle.at \notin Working
    BY DEF Idle, Working
  <2>4. Fresh(p)
    BY <2>1, <2>2, <2>3 DEF Following
  <2>5. 1..Len(queue[p]) = {}
    BY <2>2
  <2>6. done[p] = cfg.gen
    BY <2>2, <2>3, <2>4, <2>5 DEF Fresh, Working
  <2>7. QED
    BY <2>1, <2>6 DEF Following, ProgressOK
<1>2. QED
  BY <1>1, TypeInit, TypeStep, FollowInit, FollowStep, PTL DEF Spec

-----------------------------------------------------------------------------
(* The trust bundles.                                                      *)

Current == buildCABundleContent(mem[Watcher])

(* While the watcher starts nothing else of it is under way.               *)
StartOK ==
  Watcher \notin watching =>
    /\ certsQueue = <<>> /\ secretQueue = <<>> /\ certsTask = "idle" /\ secretTask = Idle
    /\ write["certs"].todo = {} /\ \A k \in Package : applying[k] = None

(* A handler still has to list the packages and write to them all.         *)
Asked == task[Watcher].at \in {"authservice", "list"} \/ certsTask = "list"

(* Istio, or a package, has what is current or it is on its way.           *)
IstioComing ==
  \E h \in Writer : "namespace" \in write[h].todo \/ ("istio" \in write[h].todo /\ write[h].istio = Current)

Coming(k) == k \in due \/ applying[k] = Current \/ \E h \in Writer : k \in write[h].todo /\ write[h].content = Current

IstioOK == bundle["istio"] = Current \/ IstioComing
PackagesOK == \A k \in packages : bundle[k] = Current \/ Coming(k)

(* A watcher that starts sees to Istio first, and reconciles every package *)
(* once its watches run.                                                   *)
Served ==
  /\ Watcher \in watching => Asked \/ (IstioOK /\ PackagesOK)
  /\ task[Watcher].at = "watch" => IstioOK

ServedInv == trouble \cap {"request", "late"} = {} => Served

(* The watcher knows the shipped certificates, or the newest are queued.   *)
ShippedInv ==
  /\ certsQueue # <<>> => certsQueue[Len(certsQueue)] = shipped
  /\ "outdated" \notin trouble /\ Watcher \in watching /\ certsQueue = <<>> =>
       \A o \in mem[Watcher].includes : mem[Watcher].shipped[o] = shipped[o]

(* What another process does is nothing to the watcher.                    *)
LEMMA Others ==
  ASSUME TypeOK, NEW p \in Proc, p # Watcher, HandleCfg(p) \/ Load(p) \/ FailCfg(p) \/ Restart(p)
  PROVE  /\ task'[Watcher] = task[Watcher] /\ mem'[Watcher] = mem[Watcher] /\ (Watcher \in watching' <=> Watcher \in watching)
         /\ UNCHANGED <<shipped, secret, certsQueue, secretQueue, certsTask, secretTask, write, packages, due, applying,
                        bundle, authservice>>
<1>1. task \in [Proc -> Task] /\ mem \in [Proc -> Memory] /\ Watcher \in Proc
  BY WatcherAssumption DEF TypeOK, ProcessesOK
<1>2. CASE StartCfg(p)
  BY <1>1, <1>2 DEF StartCfg, objects, cluster
<1>3. CASE PatchPending(p)
  BY <1>1, <1>3 DEF PatchPending, PatchStatus, Goto, cluster
<1>4. CASE FetchCACerts(p)
  BY <1>1, <1>4 DEF FetchCACerts, objects, events, cluster
<1>5. CASE HandleCABundle(p)
  BY <1>1, <1>5 DEF HandleCABundle, objects, events, cluster
<1>6. CASE SetCidrs(p) \/ SetNodeCidrs(p) \/ SetRest(p)
  BY <1>1, <1>6 DEF SetCidrs, SetNodeCidrs, SetRest, Goto, objects, events, cluster
<1>7. CASE PatchReady(p) \/ PatchFailed(p)
  BY <1>1, <1>7 DEF PatchReady, PatchFailed, PatchStatus, Goto, Finish, cluster
<1>8. CASE Load(p)
  BY <1>1, <1>8 DEF Load, Get, LoadSecret, StartWatches, Goto, Finish, objects, events, cluster
<1>9. CASE FailCfg(p)
  BY <1>1, <1>9 DEF FailCfg, Goto, Finish, objects, events, cluster
<1>10. CASE Restart(p)
  BY <1>1, <1>10 DEF Restart, objects
<1>11. QED
  BY <1>2, <1>3, <1>4, <1>5, <1>6, <1>7, <1>8, <1>9, <1>10 DEF HandleCfg

(* What the handler does in the watcher.                                   *)
LEMMA WatcherHandles ==
  ASSUME TypeOK, HandleCfg(Watcher) \/ FailCfg(Watcher)
  PROVE  /\ UNCHANGED <<shipped, secret, certsQueue, secretQueue, certsTask, secretTask, write, packages, due, applying,
                        bundle, authservice, watching>>
         /\ task[Watcher].at # "watch" /\ task'[Watcher].at # "watch"
         /\ HandleCfg(Watcher) => task[Watcher].at \notin {"authservice", "list"}
         /\ \/ HandleCABundle(Watcher)
            \/ /\ mem'[Watcher].certs = mem[Watcher].certs /\ mem'[Watcher].includes = mem[Watcher].includes
               /\ mem'[Watcher].shipped = mem[Watcher].shipped /\ mem'[Watcher].redis = mem[Watcher].redis
               /\ HandleCfg(Watcher) => task'[Watcher].at \notin {"authservice", "list"}
<1> DEFINE p == Watcher
<1>1. task \in [Proc -> Task] /\ mem \in [Proc -> Memory] /\ p \in Proc /\ task[p] \in Task /\ mem[p] \in Memory
      /\ Idle.at = "idle"
  BY WatcherAssumption DEF TypeOK, ProcessesOK, Idle
<1> DEFINE Same == /\ mem'[p].certs = mem[p].certs /\ mem'[p].includes = mem[p].includes
                   /\ mem'[p].shipped = mem[p].shipped /\ mem'[p].redis = mem[p].redis
           All == UNCHANGED <<shipped, secret, certsQueue, secretQueue, certsTask, secretTask, write, packages, due, applying,
                              bundle, authservice, watching>>
<1> HIDE DEF p
<1>2. ASSUME StartCfg(p) PROVE All /\ Same /\ task[p].at = "idle" /\ task'[p].at = "pending"
  BY <1>1, <1>2 DEF StartCfg, Idle, objects, cluster
<1>3. ASSUME PatchPending(p) PROVE All /\ Same /\ task[p].at = "pending" /\ task'[p].at = "fetch"
  BY <1>1, <1>3 DEF PatchPending, PatchStatus, Goto, Task, cluster
<1>4. ASSUME FetchCACerts(p) PROVE All /\ Same /\ task[p].at = "fetch" /\ task'[p].at = "bundle"
  BY <1>1, <1>4 DEF FetchCACerts, Task, objects, events, cluster
<1>5. ASSUME HandleCABundle(p) PROVE All /\ task[p].at = "bundle" /\ task'[p].at # "watch"
  <2>1. PICK at, s : task' = [task EXCEPT ![p].at = at, ![p].secret = s] /\ at \in {"authservice", "cidrs"}
    <3>1. CASE Updates(p)
      BY <1>5, <3>1 DEF HandleCABundle
    <3>2. CASE ~Updates(p)
      <4>1. task' = [task EXCEPT ![p].at = "cidrs", ![p].secret = task[p].secret]
        BY <1>1, <1>5, <3>2 DEF HandleCABundle
      <4>2. QED
        BY <4>1
    <3>3. QED
      BY <3>1, <3>2
  <2>2. task'[p].at = at
    BY <1>1, <2>1 DEF Task
  <2>3. All /\ task[p].at = "bundle"
    BY <1>5 DEF HandleCABundle, objects, events, cluster
  <2>4. QED
    BY <2>1, <2>2, <2>3
<1>6. ASSUME SetCidrs(p) PROVE All /\ Same /\ task[p].at = "cidrs" /\ task'[p].at = "nodes"
  BY <1>1, <1>6 DEF SetCidrs, Goto, Task, Memory, objects, events, cluster
<1>7. ASSUME SetNodeCidrs(p) PROVE All /\ Same /\ task[p].at = "nodes" /\ task'[p].at = "rest"
  BY <1>1, <1>7 DEF SetNodeCidrs, Goto, Task, Memory, objects, events, cluster
<1>8. ASSUME SetRest(p) PROVE All /\ Same /\ task[p].at = "rest" /\ task'[p].at = "ready"
  BY <1>1, <1>8 DEF SetRest, Goto, Task, Memory, objects, events, cluster
<1>9. ASSUME PatchReady(p) \/ PatchFailed(p)
      PROVE  All /\ Same /\ task[p].at \in {"ready", "failed"} /\ task'[p].at \in {"secret", "get", "idle"}
  BY <1>1, <1>9 DEF PatchReady, PatchFailed, PatchStatus, Goto, Finish, Task, cluster
<1>10. ASSUME FailCfg(p) PROVE All /\ Same /\ task[p].at # "watch" /\ task'[p].at # "watch"
  BY <1>1, <1>10 DEF FailCfg, Waits, Goto, Finish, Task, objects, events, cluster
<1>11. CASE HandleCfg(p)
  BY <1>2, <1>3, <1>4, <1>5, <1>6, <1>7, <1>8, <1>9, <1>11 DEF HandleCfg, p
<1>12. CASE FailCfg(p) /\ ~HandleCfg(p)
  BY <1>10, <1>12 DEF p
<1>13. QED
  BY <1>11, <1>12 DEF p

LEMMA StartStep == TypeOK /\ StartOK /\ [Next]_vars => StartOK'
<1> SUFFICES ASSUME TypeOK, StartOK, [Next]_vars PROVE StartOK'
  OBVIOUS
<1>1. task \in [Proc -> Task] /\ Watcher \in Proc /\ TaskOK(Watcher) /\ Idle.at = "idle" /\ write \in [Writer -> Writes]
      /\ applying \in [Package -> {None} \cup SUBSET Cert]
  BY WatcherAssumption DEF TypeOK, ProcessesOK, HandlersOK, ClusterOK, Idle
<1>2. ASSUME UNCHANGED <<certsQueue, secretQueue, certsTask, secretTask, write, applying>>,
             Watcher \in watching' <=> Watcher \in watching
      PROVE  StartOK'
  BY <1>2 DEF StartOK
<1>3. CASE UNCHANGED vars
  BY <1>2, <1>3 DEF vars
<1>4. CASE \E spec \in Specs : ChangeSpec(spec)
  BY <1>2, <1>4 DEF ChangeSpec, cluster
<1>5. CASE \E certs \in ShippedCerts : ChangeShipped(certs)
  BY <1>5 DEF ChangeShipped, StartOK, cluster
<1>6. CASE \E s \in Secrets : ChangeSecret(s)
  BY <1>6 DEF ChangeSecret, StartOK, cluster
<1>7. ASSUME NEW p \in Proc, HandleCfg(p) \/ FailCfg(p) PROVE StartOK'
  BY <1>2, <1>7, Others, WatcherHandles
<1>8. ASSUME NEW p \in Proc, Load(p) \/ Restart(p) PROVE StartOK'
  <2>1. CASE p # Watcher
    BY <1>2, <1>8, <2>1, Others
  <2>2. CASE p = Watcher /\ Restart(p)
    BY <2>2 DEF Restart, StartOK, NoWrites, Writer
  <2>3. CASE p = Watcher /\ Get(p)
    BY <1>2, <2>3 DEF Get, events, cluster
  <2>4. CASE p = Watcher /\ LoadSecret(p)
    BY <1>1, <2>4 DEF LoadSecret, StartOK, events, cluster, Writes, Writer
  <2>5. CASE p = Watcher /\ StartWatches(p)
    BY <2>5 DEF StartWatches, StartOK
  <2>6. QED
    BY <1>8, <2>1, <2>2, <2>3, <2>4, <2>5 DEF Load
<1>9. ASSUME NEW h \in Writer, Write(h) \/ \E t \in Package \cup {"namespace", "istio"} : FailWrite(h, t)
      PROVE  StartOK'
  <2>1. UNCHANGED <<certsQueue, secretQueue, certsTask, secretTask, applying, watching>>
    BY <1>9 DEF Write, WriteBundle, ApplyNamespace, WriteIstio, FailWrite, events, cluster
  <2>2. ASSUME write["certs"].todo = {} PROVE write'["certs"].todo = {}
    <3>1. write'["certs"] = write["certs"] \/ (h = "certs" /\ write'["certs"].todo \subseteq {})
      BY <1>1, <1>9, <2>2 DEF Write, WriteBundle, ApplyNamespace, WriteIstio, FailWrite, Writer, Writes, NoWrites
    <3>2. QED
      BY <2>2, <3>1
  <2>3. QED
    BY <2>1, <2>2 DEF StartOK
<1>10. CASE UpdateAuthservice \/ ListPackages
  <2>1. Watcher \in watching /\ watching' = watching
    BY <1>1, <1>10 DEF UpdateAuthservice, ListPackages, TaskOK, events
  <2>2. QED
    BY <2>1 DEF StartOK
<1>11. CASE StartCerts \/ ListForCerts \/ StartSecret \/ UpdateForSecret
  <2>1. watching' = watching
    BY <1>11 DEF StartCerts, ListForCerts, StartSecret, UpdateForSecret, events
  <2>2. Watcher \in watching
    BY <1>1, <1>11 DEF StartCerts, ListForCerts, StartSecret, UpdateForSecret, StartOK
  <2>3. QED
    BY <2>1, <2>2 DEF StartOK
<1>12. CASE FailOther
  BY <1>12 DEF FailOther, StartOK, events, cluster
<1>13. ASSUME NEW k \in Package, CreatePackage(k) \/ BuildBundle(k) \/ ApplyBundle(k) PROVE StartOK'
  <2>1. UNCHANGED <<certsQueue, secretQueue, certsTask, secretTask, write, watching>>
    BY <1>13 DEF CreatePackage, BuildBundle, ApplyBundle, events
  <2>2. Watcher \in watching \/ applying' = applying \/ applying' = [applying EXCEPT ![k] = None]
    BY <1>13 DEF CreatePackage, BuildBundle, ApplyBundle
  <2>3. QED
    BY <1>1, <2>1, <2>2 DEF StartOK
<1>14. QED
  BY <1>3, <1>4, <1>5, <1>6, <1>7, <1>8, <1>9, <1>10, <1>11, <1>12, <1>13 DEF Next, WatcherOnly

LEMMA ShippedStep == TypeOK /\ StartOK /\ ShippedInv /\ [Next]_vars => ShippedInv'
<1> SUFFICES ASSUME TypeOK, StartOK, ShippedInv, [Next]_vars PROVE ShippedInv'
  OBVIOUS
<1>1. /\ task \in [Proc -> Task] /\ mem \in [Proc -> Memory] /\ mem[Watcher] \in Memory /\ Watcher \in Proc
      /\ TaskOK(Watcher) /\ certsQueue \in Seq(Shipped)
  BY WatcherAssumption DEF TypeOK, ProcessesOK, InputsOK
<1>2. "outdated" \in trouble => "outdated" \in trouble'
  BY Remembered
<1>3. ASSUME UNCHANGED <<certsQueue, shipped>>, Watcher \in watching' => Watcher \in watching,
             mem'[Watcher].includes = mem[Watcher].includes, mem'[Watcher].shipped = mem[Watcher].shipped
      PROVE  ShippedInv'
  BY <1>2, <1>3 DEF ShippedInv
<1>4. CASE UNCHANGED vars
  BY <1>3, <1>4 DEF vars
<1>5. CASE \/ \E spec \in Specs : ChangeSpec(spec)
           \/ \E s \in Secrets : ChangeSecret(s)
           \/ \E k \in Package : CreatePackage(k) \/ BuildBundle(k) \/ ApplyBundle(k)
           \/ \E h \in Writer : Write(h) \/ \E t \in Package \cup {"namespace", "istio"} : FailWrite(h, t)
           \/ UpdateAuthservice \/ ListPackages \/ ListForCerts \/ FailOther
  <2>1. UNCHANGED <<certsQueue, shipped, watching, mem>>
    BY <1>5 DEF ChangeSpec, ChangeSecret, CreatePackage, BuildBundle, ApplyBundle, Write, WriteBundle, ApplyNamespace, WriteIstio,
                FailWrite, UpdateAuthservice, ListPackages, ListForCerts, FailOther, objects, events
  <2>2. QED
    BY <1>3, <2>1
<1>6. ASSUME NEW certs \in ShippedCerts, ChangeShipped(certs) PROVE ShippedInv'
  <2>1. certs \in Shipped /\ shipped' = certs
    BY <1>6, ShippedAssumption DEF ChangeShipped
  <2>2. CASE Watcher \in watching
    <3>1. certsQueue' = Append(certsQueue, certs)
      BY <1>6, <2>2 DEF ChangeShipped
    <3>2. certsQueue' # <<>> /\ certsQueue'[Len(certsQueue')] = certs
      BY <1>1, <2>1, <3>1
    <3>3. QED
      BY <2>1, <3>2 DEF ShippedInv
  <2>3. CASE Watcher \notin watching
    <3>1. certsQueue' = <<>> /\ watching' = watching
      BY <1>6, <2>3 DEF ChangeShipped, StartOK
    <3>2. QED
      BY <2>3, <3>1 DEF ShippedInv
  <2>4. QED
    BY <2>2, <2>3
<1>7. ASSUME NEW p \in Proc, p # Watcher, HandleCfg(p) \/ Load(p) \/ FailCfg(p) \/ Restart(p) PROVE ShippedInv'
  BY <1>3, <1>7, Others
<1>8. CASE HandleCABundle(Watcher)
  <2>1. mem'[Watcher].shipped = task[Watcher].shipped
    BY <1>1, <1>8 DEF HandleCABundle, Memory
  <2>2. UNCHANGED <<certsQueue, shipped>>
    BY <1>8 DEF HandleCABundle, objects, events
  <2>3. task[Watcher].shipped # shipped => "outdated" \in trouble'
    BY <1>8 DEF HandleCABundle
  <2>4. QED
    BY <2>1, <2>2, <2>3 DEF ShippedInv
<1>9. CASE (HandleCfg(Watcher) \/ FailCfg(Watcher)) /\ ~HandleCABundle(Watcher)
  BY <1>3, <1>9, WatcherHandles
<1>10. CASE Restart(Watcher)
  BY <1>10 DEF Restart, ShippedInv, objects
<1>11. CASE Get(Watcher) \/ LoadSecret(Watcher)
  <2>1. Watcher \notin watching' /\ UNCHANGED <<certsQueue, shipped>>
    BY <1>1, <1>11 DEF Get, LoadSecret, TaskOK, objects, events
  <2>2. QED
    BY <2>1 DEF ShippedInv
<1>12. CASE StartWatches(Watcher)
  <2>1. certsQueue' = <<shipped>> /\ shipped' = shipped
    BY <1>12 DEF StartWatches, objects
  <2>2. <<shipped>> # <<>> /\ <<shipped>>[Len(<<shipped>>)] = shipped
    OBVIOUS
  <2>3. QED
    BY <2>1, <2>2 DEF ShippedInv
<1>13. CASE StartCerts
  <2>1. PICK certs : certs = Head(certsQueue)
    OBVIOUS
  <2>2. PICK rest : rest = Tail(certsQueue)
    OBVIOUS
  <2>3. /\ certsQueue # <<>> /\ certs = certsQueue[1] /\ Len(rest) = Len(certsQueue) - 1 /\ Len(certsQueue) \in Nat \ {0}
        /\ rest # <<>> => rest[Len(rest)] = certsQueue[Len(certsQueue)]
        /\ rest = <<>> => Len(certsQueue) = 1
    <3>1. certsQueue # <<>> /\ certsQueue \in Seq(Shipped)
      BY <1>1, <1>13 DEF StartCerts
    <3>2. Len(certsQueue) \in Nat \ {0} /\ certs = certsQueue[1] /\ Len(rest) = Len(certsQueue) - 1 /\ rest \in Seq(Shipped)
      BY <2>1, <2>2, <3>1
    <3>3. \A i \in 1..Len(rest) : rest[i] = certsQueue[i + 1]
      BY <2>2, <3>1, <3>2
    <3>4. ASSUME rest # <<>> PROVE rest[Len(rest)] = certsQueue[Len(certsQueue)]
      <4>1. Len(rest) \in 1..Len(rest) /\ Len(rest) + 1 = Len(certsQueue)
        BY <3>2, <3>4
      <4>2. QED
        BY <3>3, <4>1
    <3>5. rest = <<>> => Len(certsQueue) = 1
      BY <3>2
    <3>6. QED
      BY <3>1, <3>2, <3>4, <3>5
  <2>4. certsQueue' = rest /\ UNCHANGED <<shipped, watching>>
    BY <1>13, <2>2 DEF StartCerts, objects
  <2>5. rest = <<>> => certs = shipped
    BY <2>3 DEF ShippedInv
  <2>6. \A o \in mem'[Watcher].includes : mem'[Watcher].shipped[o] = certs[o]
    <3>1. CASE \E o \in mem[Watcher].includes : mem[Watcher].shipped[o] # certs[o]
      <4>1. mem' = [mem EXCEPT ![Watcher].shipped = certs]
        BY <1>13, <2>1, <3>1 DEF StartCerts
      <4>2. mem'[Watcher].shipped = certs
        BY <1>1, <4>1 DEF Memory
      <4>3. QED
        BY <4>2
    <3>2. CASE ~\E o \in mem[Watcher].includes : mem[Watcher].shipped[o] # certs[o]
      <4>1. mem' = mem
        BY <1>13, <2>1, <3>2 DEF StartCerts
      <4>2. QED
        BY <3>2, <4>1
    <3>3. QED
      BY <3>1, <3>2
  <2>7. QED
    BY <2>3, <2>4, <2>5, <2>6 DEF ShippedInv
<1>14. CASE StartSecret \/ UpdateForSecret
  <2>1. UNCHANGED <<certsQueue, shipped, watching>>
    BY <1>14 DEF StartSecret, UpdateForSecret, objects, events
  <2>2. \/ \E redis, mode : mem' = [mem EXCEPT ![Watcher].redis = redis, ![Watcher].mode = mode]
        \/ \E mode : mem' = [mem EXCEPT ![Watcher].mode = mode]
    BY <1>14 DEF StartSecret, UpdateForSecret
  <2>3. mem'[Watcher].includes = mem[Watcher].includes /\ mem'[Watcher].shipped = mem[Watcher].shipped
    <3>1. CASE \E redis, mode : mem' = [mem EXCEPT ![Watcher].redis = redis, ![Watcher].mode = mode]
      BY <1>1, <3>1 DEF Memory
    <3>2. CASE \E mode : mem' = [mem EXCEPT ![Watcher].mode = mode]
      BY <1>1, <3>2 DEF Memory
    <3>3. QED
      BY <2>2, <3>1, <3>2
  <2>4. QED
    BY <1>3, <2>1, <2>3
<1>15. QED
  BY <1>4, <1>5, <1>6, <1>7, <1>8, <1>9, <1>10, <1>11, <1>12, <1>13, <1>14 DEF Next, WatcherOnly, Load

(* What the bundle is made from stays.                                     *)
SameMade ==
  /\ mem'[Watcher].certs = mem[Watcher].certs /\ mem'[Watcher].includes = mem[Watcher].includes
  /\ mem'[Watcher].shipped = mem[Watcher].shipped

LEMMA SameCurrent == SameMade => Current' = Current
  BY DEF SameMade, Current, buildCABundleContent

(* Steps that leave the bundles, and what is on its way, as they are.      *)
LEMMA ServedAside ==
  ASSUME Served, SameMade, UNCHANGED <<write, packages, due, applying, bundle>>,
         Watcher \in watching' => Watcher \in watching, Asked => Asked',
         task'[Watcher].at = "watch" => task[Watcher].at = "watch"
  PROVE  Served'
<1>1. (IstioOK => IstioOK') /\ (PackagesOK => PackagesOK')
  BY SameCurrent DEF IstioOK, IstioComing, PackagesOK, Coming
<1>2. QED
  BY <1>1 DEF Served

(* A bundle is written: what arrives is current, or is not the last.       *)
LEMMA ServedWrite ==
  ASSUME TypeOK, Served, NEW h \in Writer, Write(h), "late" \notin trouble'
  PROVE  Served'
<1>1. /\ write \in [Writer -> Writes] /\ write[h] \in Writes /\ bundle \in [Target -> SUBSET Cert] /\ packages \subseteq Package
      /\ Package \cap {"namespace", "istio"} = {}
  BY WatcherAssumption DEF TypeOK, HandlersOK, ClusterOK
<1>2. UNCHANGED <<mem, task, certsTask, watching, packages, due, applying>> /\ Current' = Current /\ (Asked => Asked')
  <2>1. UNCHANGED <<mem, task, certsTask, watching, packages, due, applying>>
    BY DEF Write, WriteBundle, ApplyNamespace, WriteIstio, events, cluster
  <2>2. QED
    BY <2>1 DEF Current, buildCABundleContent, Asked
<1>3. ASSUME NEW k \in Package, WriteBundle(h, k) PROVE Served'
  <2>1. /\ bundle' = [bundle EXCEPT ![k] = write[h].content] /\ write' = [write EXCEPT ![h].todo = @ \ {k}]
        /\ k \in write[h].todo /\ (bundle[k] = Current => write[h].content = Current)
    BY <1>3 DEF WriteBundle, Arrives, Current
  <2>2. bundle'[k] = write[h].content /\ \A t \in Target : t # k => bundle'[t] = bundle[t]
    BY <1>1, <2>1 DEF Target
  <2>3. /\ \A g \in Writer : g # h => write'[g] = write[g]
        /\ write'[h].todo = write[h].todo \ {k} /\ write'[h].content = write[h].content /\ write'[h].istio = write[h].istio
    BY <1>1, <2>1 DEF Writes
  <2>4. IstioComing => IstioComing'
    <3>1. ASSUME NEW g \in Writer
          PROVE  write'[g].istio = write[g].istio /\ ("istio" \in write[g].todo => "istio" \in write'[g].todo)
                 /\ ("namespace" \in write[g].todo => "namespace" \in write'[g].todo)
      BY <1>1, <2>3
    <3>2. QED
      BY <1>2, <3>1 DEF IstioComing
  <2>5. IstioOK => IstioOK'
    BY <1>1, <1>2, <2>2, <2>4 DEF IstioOK, Target
  <2>6. ASSUME NEW j \in packages, bundle[j] = Current \/ Coming(j) PROVE bundle'[j] = Current' \/ Coming(j)'
    <3>1. CASE j = k /\ write[h].content = Current
      BY <1>2, <2>2, <3>1
    <3>2. CASE j = k /\ write[h].content # Current
      BY <1>2, <2>1, <2>3, <2>6, <3>2 DEF Coming
    <3>3. CASE j # k
      <4>1. bundle'[j] = bundle[j]
        BY <1>1, <2>2, <3>3 DEF Target
      <4>2. Coming(j) => Coming(j)'
        BY <1>2, <2>3, <3>3 DEF Coming
      <4>3. QED
        BY <1>2, <2>6, <4>1, <4>2
    <3>4. QED
      BY <3>1, <3>2, <3>3
  <2>7. PackagesOK => PackagesOK'
    BY <1>2, <2>6 DEF PackagesOK
  <2>8. QED
    BY <1>2, <2>5, <2>7 DEF Served
<1>4. CASE ApplyNamespace(h)
  <2>1. /\ write' = [write EXCEPT ![h].todo = (@ \ {"namespace"}) \cup {"istio"}, ![h].istio = Current] /\ bundle' = bundle
    BY <1>4 DEF ApplyNamespace, Current, cluster
  <2>2. /\ \A g \in Writer : g # h => write'[g] = write[g]
        /\ write'[h].todo = (write[h].todo \ {"namespace"}) \cup {"istio"} /\ write'[h].content = write[h].content
        /\ write'[h].istio = Current
    BY <1>1, <2>1 DEF Writes
  <2>3. IstioOK'
    BY <1>2, <2>2 DEF IstioOK, IstioComing
  <2>4. ASSUME NEW j \in packages, Coming(j) PROVE Coming(j)'
    <3>1. j # "namespace"
      BY <1>1
    <3>2. QED
      BY <1>2, <2>2, <2>4, <3>1 DEF Coming
  <2>5. PackagesOK => PackagesOK'
    BY <1>2, <2>1, <2>4 DEF PackagesOK
  <2>6. QED
    BY <1>2, <2>3, <2>5 DEF Served
<1>5. CASE WriteIstio(h)
  <2>1. /\ bundle' = [bundle EXCEPT !["istio"] = write[h].istio] /\ write' = [write EXCEPT ![h].todo = @ \ {"istio"}]
        /\ "istio" \in write[h].todo /\ (bundle["istio"] = Current => write[h].istio = Current)
    BY <1>5 DEF WriteIstio, Arrives, Current
  <2>2. bundle'["istio"] = write[h].istio /\ \A k \in Package : bundle'[k] = bundle[k]
    BY <1>1, <2>1 DEF Target
  <2>3. /\ \A g \in Writer : g # h => write'[g] = write[g]
        /\ write'[h].todo = write[h].todo \ {"istio"} /\ write'[h].content = write[h].content /\ write'[h].istio = write[h].istio
    BY <1>1, <2>1 DEF Writes
  <2>4. IstioOK => IstioOK'
    BY <1>2, <2>1, <2>2, <2>3 DEF IstioOK, IstioComing
  <2>5. ASSUME NEW j \in packages, Coming(j) PROVE Coming(j)'
    <3>1. j # "istio"
      BY <1>1
    <3>2. QED
      BY <1>2, <2>3, <2>5, <3>1 DEF Coming
  <2>6. PackagesOK => PackagesOK'
    BY <1>1, <1>2, <2>2, <2>5 DEF PackagesOK
  <2>7. QED
    BY <1>2, <2>4, <2>6 DEF Served
<1>6. QED
  BY <1>3, <1>4, <1>5 DEF Write

LEMMA ServedPackage ==
  ASSUME TypeOK, Served, NEW k \in Package, CreatePackage(k) \/ BuildBundle(k) \/ ApplyBundle(k), "late" \notin trouble'
  PROVE  Served'
<1>1. /\ bundle \in [Target -> SUBSET Cert] /\ packages \subseteq Package /\ applying \in [Package -> {None} \cup SUBSET Cert]
      /\ Package \cap {"namespace", "istio"} = {}
  BY WatcherAssumption DEF TypeOK, ClusterOK
<1>2. UNCHANGED <<mem, task, certsTask, watching, write>> /\ Current' = Current /\ (Asked => Asked')
  <2>1. UNCHANGED <<mem, task, certsTask, watching, write>>
    BY DEF CreatePackage, BuildBundle, ApplyBundle, events
  <2>2. QED
    BY <2>1 DEF Current, buildCABundleContent, Asked
<1>3. bundle'["istio"] = bundle["istio"]
  BY <1>1 DEF CreatePackage, BuildBundle, ApplyBundle, Arrives, Target
<1>4. IstioOK => IstioOK'
  BY <1>2, <1>3 DEF IstioOK, IstioComing
<1>5. ASSUME NEW j \in packages', PackagesOK PROVE bundle'[j] = Current' \/ Coming(j)'
  <2>1. CASE CreatePackage(k)
    BY <1>2, <1>5, <2>1 DEF CreatePackage, PackagesOK, Coming
  <2>2. CASE BuildBundle(k)
    <3>1. UNCHANGED <<packages, bundle>> /\ due' = due \ {k} /\ applying' = [applying EXCEPT ![k] = Current]
      BY <2>2 DEF BuildBundle, Current
    <3>2. j \in Package /\ (j = k => applying'[j] = Current) /\ (j # k => applying'[j] = applying[j])
      BY <1>1, <1>5, <3>1
    <3>3. QED
      BY <1>2, <1>5, <3>1, <3>2 DEF PackagesOK, Coming
  <2>3. CASE ApplyBundle(k)
    <3>1. /\ UNCHANGED <<packages, due>> /\ applying' = [applying EXCEPT ![k] = None]
          /\ bundle' = [bundle EXCEPT ![k] = applying[k]] /\ (bundle[k] = Current => applying[k] = Current)
      BY <2>3 DEF ApplyBundle, Arrives, Current
    <3>2. j \in Package /\ (j = k => bundle'[j] = applying[k]) /\ (j # k => bundle'[j] = bundle[j] /\ applying'[j] = applying[j])
      BY <1>1, <1>5, <3>1 DEF Target
    <3>3. QED
      BY <1>2, <1>5, <3>1, <3>2 DEF PackagesOK, Coming
  <2>4. QED
    BY <2>1, <2>2, <2>3
<1>6. QED
  BY <1>2, <1>4, <1>5 DEF Served, PackagesOK

(* Once the packages are listed everything is on its way.                  *)
LEMMA Listed ==
  ASSUME TypeOK, NEW h \in Writer, List(h), UNCHANGED <<mem, packages>>
  PROVE  IstioOK' /\ PackagesOK'
<1>1. PICK content : content = Current
  OBVIOUS
<1>2. write' = [write EXCEPT ![h] = [todo |-> packages \cup {"namespace"}, istio |-> {}, content |-> content]]
  BY <1>1 DEF List, Current
<1>3. write'[h].todo = packages \cup {"namespace"} /\ write'[h].content = content
  BY <1>2 DEF TypeOK, HandlersOK
<1>4. Current' = content
  BY <1>1 DEF Current, buildCABundleContent
<1>5. QED
  BY <1>3, <1>4 DEF IstioOK, IstioComing, PackagesOK, Coming

LEMMA ServedStep == TypeOK /\ StartOK /\ ServedInv /\ [Next]_vars => ServedInv'
<1> SUFFICES ASSUME TypeOK, StartOK, ServedInv, [Next]_vars, "request" \notin trouble', "late" \notin trouble'
             PROVE  Served'
  BY DEF ServedInv
<1>1. /\ task \in [Proc -> Task] /\ mem \in [Proc -> Memory] /\ mem[Watcher] \in Memory /\ Watcher \in Proc /\ task[Watcher] \in Task
      /\ TaskOK(Watcher) /\ write \in [Writer -> Writes] /\ Idle.at = "idle"
  BY WatcherAssumption DEF TypeOK, ProcessesOK, HandlersOK, Idle
<1>2. Served
  BY Remembered DEF ServedInv
<1>3. CASE UNCHANGED vars
  BY <1>2, <1>3, ServedAside DEF vars, SameMade, Asked
<1>4. CASE \/ \E spec \in Specs : ChangeSpec(spec)
           \/ \E certs \in ShippedCerts : ChangeShipped(certs)
           \/ \E s \in Secrets : ChangeSecret(s)
  <2>1. UNCHANGED <<mem, task, certsTask, watching, write, packages, due, applying, bundle>>
    BY <1>4 DEF ChangeSpec, ChangeShipped, ChangeSecret, cluster
  <2>2. QED
    BY <1>2, <2>1, ServedAside DEF SameMade, Asked
<1>5. ASSUME NEW p \in Proc, p # Watcher, HandleCfg(p) \/ Load(p) \/ Restart(p) PROVE Served'
  BY <1>2, <1>5, Others, ServedAside DEF SameMade, Asked
<1>6. CASE HandleCABundle(Watcher)
  <2>1. watching' = watching /\ task[Watcher].at = "bundle" /\ task'[Watcher].at # "watch"
    BY <1>6, WatcherHandles DEF HandleCfg, HandleCABundle
  <2>2. CASE Updates(Watcher)
    <3>1. PICK s : task' = [task EXCEPT ![Watcher].at = "authservice", ![Watcher].secret = s]
      BY <1>6, <2>2 DEF HandleCABundle
    <3>2. task'[Watcher].at = "authservice"
      BY <1>1, <3>1 DEF Task
    <3>3. QED
      BY <2>1, <3>2 DEF Served, Asked
  <2>3. CASE ~Updates(Watcher)
    <3>1. Watcher \notin watching'
      BY <1>1, <2>1, <2>3 DEF Updates, TaskOK
    <3>2. QED
      BY <2>1, <3>1 DEF Served
  <2>4. QED
    BY <2>2, <2>3
<1>7. CASE HandleCfg(Watcher) /\ ~HandleCABundle(Watcher)
  BY <1>2, <1>7, WatcherHandles, ServedAside DEF SameMade, Asked
<1>8. CASE Restart(Watcher) \/ Get(Watcher)
  <2>1. Watcher \notin watching' /\ task'[Watcher].at # "watch"
    BY <1>1, <1>8 DEF Restart, Get, TaskOK, events, Idle
  <2>2. QED
    BY <2>1 DEF Served
<1>9. CASE LoadSecret(Watcher)
  <2>1. Watcher \notin watching'
    BY <1>1, <1>9 DEF LoadSecret, TaskOK, events
  <2>2. write'["cfg"].todo = {"namespace"}
    BY <1>1, <1>9 DEF LoadSecret, Writes, Writer
  <2>3. IstioOK'
    BY <2>2 DEF IstioOK, IstioComing, Writer
  <2>4. QED
    BY <2>1, <2>3 DEF Served
<1>10. CASE StartWatches(Watcher)
  <2>1. /\ task[Watcher].at = "watch" /\ write["cfg"].todo = {} /\ task' = [task EXCEPT ![Watcher] = Idle]
        /\ UNCHANGED <<mem, write, packages, bundle>> /\ due' = packages
    BY <1>10 DEF StartWatches, Finish
  <2>2. Watcher \notin watching
    BY <1>1, <2>1 DEF TaskOK
  <2>3. write["certs"].todo = {}
    BY <2>2 DEF StartOK
  <2>4. bundle["istio"] = Current
    BY <1>2, <2>1, <2>3 DEF Served, IstioOK, IstioComing, Writer
  <2>5. Current' = Current
    BY <2>1 DEF Current, buildCABundleContent
  <2>6. IstioOK' /\ PackagesOK' /\ task'[Watcher].at # "watch"
    BY <1>1, <2>1, <2>4, <2>5 DEF IstioOK, PackagesOK, Coming
  <2>7. QED
    BY <2>6 DEF Served
<1>11. ASSUME NEW h \in Writer, Write(h) PROVE Served'
  BY <1>2, <1>11, ServedWrite
<1>12. ASSUME NEW k \in Package, CreatePackage(k) \/ BuildBundle(k) \/ ApplyBundle(k) PROVE Served'
  BY <1>2, <1>12, ServedPackage
<1>13. CASE UpdateAuthservice
  <2>1. UNCHANGED <<mem, write, packages, due, applying, bundle, watching, certsTask>> /\ Goto(Watcher, "list")
    BY <1>13 DEF UpdateAuthservice, events, cluster
  <2>2. task'[Watcher].at = "list"
    BY <1>1, <2>1 DEF Goto, Task
  <2>3. QED
    BY <1>2, <2>1, <2>2, ServedAside DEF SameMade, Asked
<1>14. CASE ListPackages \/ ListForCerts
  <2>1. PICK h \in Writer : List(h) /\ UNCHANGED <<mem, packages>>
    BY <1>14 DEF ListPackages, ListForCerts, Writer, cluster
  <2>2. IstioOK' /\ PackagesOK'
    BY <2>1, Listed
  <2>3. QED
    BY <2>2 DEF Served
<1>15. CASE StartCerts
  <2>1. UNCHANGED <<task, write, packages, due, applying, bundle, watching>>
    BY <1>15 DEF StartCerts, cluster
  <2>2. (mem' = mem /\ certsTask' = certsTask) \/ certsTask' = "list"
    BY <1>15 DEF StartCerts
  <2>3. CASE mem' = mem /\ certsTask' = certsTask
    BY <1>2, <2>1, <2>3, ServedAside DEF SameMade, Asked
  <2>4. CASE certsTask' = "list"
    <3>1. task'[Watcher].at # "watch"
      BY <1>1, <1>15, <2>1 DEF StartCerts, StartOK, TaskOK
    <3>2. QED
      BY <2>4, <3>1 DEF Served, Asked
  <2>5. QED
    BY <2>2, <2>3, <2>4
<1>16. CASE StartSecret \/ UpdateForSecret
  <2>1. UNCHANGED <<task, certsTask, write, packages, due, applying, bundle, watching>>
    BY <1>16 DEF StartSecret, UpdateForSecret, events, cluster
  <2>2. \/ \E redis, mode : mem' = [mem EXCEPT ![Watcher].redis = redis, ![Watcher].mode = mode]
        \/ \E mode : mem' = [mem EXCEPT ![Watcher].mode = mode]
    BY <1>16 DEF StartSecret, UpdateForSecret
  <2>3. SameMade
    <3>1. CASE \E redis, mode : mem' = [mem EXCEPT ![Watcher].redis = redis, ![Watcher].mode = mode]
      BY <1>1, <3>1 DEF Memory, SameMade
    <3>2. CASE \E mode : mem' = [mem EXCEPT ![Watcher].mode = mode]
      BY <1>1, <3>2 DEF Memory, SameMade
    <3>3. QED
      BY <2>2, <3>1, <3>2
  <2>4. QED
    BY <1>2, <2>1, <2>3, ServedAside DEF Asked
<1>17. /\ \A p \in Proc : ~FailCfg(p)
       /\ \A h \in Writer, t \in Package \cup {"namespace", "istio"} : ~FailWrite(h, t)
       /\ ~FailOther
  BY Failing
<1>18. QED
  BY <1>3, <1>4, <1>5, <1>6, <1>7, <1>8, <1>9, <1>10, <1>11, <1>12, <1>13, <1>14, <1>15, <1>16, <1>17 DEF Next, WatcherOnly, Load

LEMMA BundleInit == Init => StartOK /\ ShippedInv /\ ServedInv
<1> SUFFICES ASSUME Init PROVE StartOK /\ ShippedInv /\ ServedInv
  OBVIOUS
<1>1. Watcher \in Proc /\ watching = Proc /\ certsQueue = <<>> /\ packages = {} /\ task[Watcher] = Idle /\ Idle.at = "idle"
  BY WatcherAssumption DEF Init, Idle
<1>2. bundle["istio"] = Current
  BY DEF Init, Target, Current
<1>3. \A o \in mem[Watcher].includes : mem[Watcher].shipped[o] = shipped[o]
  BY <1>1 DEF Init, Settled
<1>4. QED
  BY <1>1, <1>2, <1>3 DEF StartOK, ShippedInv, ServedInv, Served, IstioOK, PackagesOK

(* When nothing is left to do the trust bundles of Istio and of every      *)
(* package hold the watcher's certificates and the shipped ones as they    *)
(* are now, restarts included, unless a request failed, handleCfg used an  *)
(* outdated answer, or an older bundle arrived last.                       *)
THEOREM BundlesFollow == Spec => []BundlesCurrent
<1>1. TypeOK /\ ShippedInv /\ ServedInv => BundlesCurrent
  <2> SUFFICES ASSUME TypeOK, ShippedInv, ServedInv, Quiet, trouble \cap {"request", "outdated", "late"} = {},
                      NEW t \in packages \cup {"istio"}
               PROVE  bundle[t] = buildCABundleContent([mem[Watcher] EXCEPT !.shipped = shipped])
    BY DEF BundlesCurrent
  <2>1. /\ Watcher \in watching /\ task[Watcher] = Idle /\ certsTask = "idle" /\ certsQueue = <<>> /\ due = {}
        /\ \A h \in Writer : write[h].todo = {}
        /\ \A k \in Package : applying[k] = None
        /\ mem[Watcher] \in Memory /\ packages \subseteq Package /\ Idle.at = "idle"
    BY WatcherAssumption DEF Quiet, TypeOK, ProcessesOK, ClusterOK, Idle
  <2>2. Current # None
    <3>1. Current \in SUBSET Cert
      BY <2>1 DEF Current, buildCABundleContent, Memory, Shipped
    <3>2. QED
      BY <3>1, NoneAssumption
  <2>3. IstioOK /\ PackagesOK
    BY <2>1 DEF ServedInv, Served, Asked
  <2>4. bundle[t] = Current
    <3>1. \A k \in packages : ~Coming(k)
      BY <2>1, <2>2 DEF Coming
    <3>2. ~IstioComing
      BY <2>1 DEF IstioComing
    <3>3. QED
      BY <2>3, <3>1, <3>2 DEF IstioOK, PackagesOK
  <2>5. \A o \in mem[Watcher].includes : mem[Watcher].shipped[o] = shipped[o]
    BY <2>1 DEF ShippedInv
  <2>6. PICK m : m = [mem[Watcher] EXCEPT !.shipped = shipped]
    OBVIOUS
  <2>7. m.certs = mem[Watcher].certs /\ m.includes = mem[Watcher].includes /\ m.shipped = shipped
    BY <2>1, <2>6 DEF Memory
  <2>8. buildCABundleContent(m) = Current
    BY <2>5, <2>7 DEF Current, buildCABundleContent
  <2>9. QED
    BY <2>4, <2>6, <2>8
<1>2. QED
  BY <1>1, TypeInit, TypeStep, BundleInit, StartStep, ShippedStep, ServedStep, PTL DEF Spec

-----------------------------------------------------------------------------
(* What authservice is told.                                               *)

Telling == task[Watcher].at = "authservice"

(* The last to tell authservice tells it what the watcher knows.           *)
AuthInv ==
  trouble \cap {"request", "restart", "certs", "together"} = {} =>
    /\ secretTask = Idle /\ Telling => task[Watcher].secret = AuthserviceUpdate(mem[Watcher])
    /\ secretTask = Idle /\ ~Telling => authservice = AuthserviceUpdate(mem[Watcher])
    /\ secretTask # Idle /\ ~Telling => secretTask.secret = AuthserviceUpdate(mem[Watcher])

LEMMA AuthAside ==
  ASSUME AuthInv, trouble' = trouble \/ trouble \subseteq trouble', UNCHANGED <<secretTask, authservice>>,
         SameMade, mem'[Watcher].redis = mem[Watcher].redis,
         Telling <=> Telling', Telling => task'[Watcher] = task[Watcher]
  PROVE  AuthInv'
<1>1. AuthserviceUpdate(mem[Watcher])' = AuthserviceUpdate(mem[Watcher])
  BY DEF AuthserviceUpdate, buildCABundleContent, SameMade
<1>2. QED
  BY <1>1 DEF AuthInv, Telling

LEMMA AuthStep == TypeOK /\ FollowInv /\ AuthInv /\ [Next]_vars => AuthInv'
<1> SUFFICES ASSUME TypeOK, FollowInv, AuthInv, [Next]_vars, trouble' \cap {"request", "restart", "certs", "together"} = {}
             PROVE  AuthInv'
  BY DEF AuthInv
<1>1. /\ task \in [Proc -> Task] /\ mem \in [Proc -> Memory] /\ mem[Watcher] \in Memory /\ Watcher \in Proc /\ task[Watcher] \in Task
      /\ TaskOK(Watcher) /\ Idle.at = "idle" /\ (secretTask # Idle => secretTask.at = "authservice")
  BY WatcherAssumption DEF TypeOK, ProcessesOK, HandlersOK, Idle
<1>2. Following
  BY Remembered DEF FollowInv, Calm
<1>3. ASSUME NEW p \in Proc PROVE ~Load(p) /\ p \in watching
  BY <1>2 DEF Load, Get, LoadSecret, StartWatches, Following, ProgressOK, Working
<1>4. ASSUME UNCHANGED <<trouble, mem, task, secretTask, authservice>> PROVE AuthInv'
  BY <1>4 DEF AuthInv, Telling
<1>5. CASE UNCHANGED vars
  BY <1>4, <1>5 DEF vars
<1>6. CASE \/ \E spec \in Specs : ChangeSpec(spec)
           \/ \E certs \in ShippedCerts : ChangeShipped(certs)
           \/ \E s \in Secrets : ChangeSecret(s)
           \/ ListForCerts
  BY <1>4, <1>6 DEF ChangeSpec, ChangeShipped, ChangeSecret, ListForCerts
<1>7. CASE \/ \E k \in Package : CreatePackage(k) \/ BuildBundle(k) \/ ApplyBundle(k)
           \/ \E h \in Writer : Write(h)
  <2>1. UNCHANGED <<mem, task, secretTask, authservice>>
    BY <1>7 DEF CreatePackage, BuildBundle, ApplyBundle, Write, WriteBundle, ApplyNamespace, WriteIstio, events, cluster
  <2>2. trouble \subseteq trouble'
    BY <1>7 DEF CreatePackage, BuildBundle, ApplyBundle, Write, WriteBundle, ApplyNamespace, WriteIstio, Arrives
  <2>3. QED
    BY <2>1, <2>2, AuthAside DEF SameMade, Telling
<1>8. ASSUME NEW p \in Proc, HandleCfg(p) PROVE trouble \subseteq trouble'
  BY <1>8 DEF HandleCfg, StartCfg, PatchPending, FetchCACerts, HandleCABundle, SetCidrs, SetNodeCidrs, SetRest, PatchReady,
              PatchFailed
<1>9. ASSUME NEW p \in Proc, p # Watcher, HandleCfg(p) PROVE AuthInv'
  BY <1>8, <1>9, Others, AuthAside DEF SameMade, Telling
<1>10. CASE HandleCfg(Watcher) /\ ~HandleCABundle(Watcher)
  BY <1>1, <1>8, <1>10, WatcherHandles, AuthAside DEF SameMade, Telling
<1>11. CASE HandleCABundle(Watcher)
  <2>1. Updates(Watcher)
    BY <1>1, <1>3, <1>11 DEF Updates, TaskOK, HandleCABundle
  <2>2. PICK update : update = AuthserviceUpdate(mem'[Watcher])
    OBVIOUS
  <2>3. task' = [task EXCEPT ![Watcher].at = "authservice", ![Watcher].secret = update] /\ UNCHANGED secretTask
    BY <1>11, <2>1, <2>2 DEF HandleCABundle
  <2>4. task'[Watcher].at = "authservice" /\ task'[Watcher].secret = update
    BY <1>1, <2>3 DEF Task
  <2>5. QED
    BY <2>2, <2>3, <2>4 DEF AuthInv, Telling
<1>12. ASSUME NEW update, Tell(update),
              \/ Telling /\ update = task[Watcher].secret
              \/ secretTask # Idle /\ update = secretTask.secret
       PROVE  /\ update = AuthserviceUpdate(mem[Watcher]) /\ authservice' = update
              /\ ~(Telling /\ secretTask # Idle)
  <2>1. ~(Telling /\ secretTask # Idle)
    BY <1>1, <1>12 DEF Tell, Telling
  <2>2. authservice' = update
    BY <1>12 DEF Tell
  <2>3. CASE "certs" \in trouble
    BY <1>12, <2>1, <2>2, <2>3 DEF Tell
  <2>4. CASE "certs" \notin trouble
    <3>1. trouble \cap {"request", "restart", "certs", "together"} = {}
      BY <2>4, Remembered
    <3>2. QED
      BY <1>12, <2>1, <2>2, <3>1 DEF AuthInv
  <2>5. QED
    BY <2>1, <2>2, <2>3, <2>4
<1>13. CASE UpdateAuthservice
  <2>1. /\ Telling /\ Tell(task[Watcher].secret) /\ UNCHANGED <<mem, secretTask>> /\ Goto(Watcher, "list")
    BY <1>13 DEF UpdateAuthservice, Telling
  <2>2. secretTask = Idle /\ authservice' = AuthserviceUpdate(mem[Watcher])
    BY <1>12, <2>1
  <2>3. task'[Watcher].at = "list"
    BY <1>1, <2>1 DEF Goto, Task
  <2>4. QED
    BY <2>1, <2>2, <2>3 DEF AuthInv, Telling
<1>14. CASE UpdateForSecret
  <2>1. /\ secretTask # Idle /\ Tell(secretTask.secret) /\ task' = task /\ secretTask' = Idle
        /\ mem' = [mem EXCEPT ![Watcher].mode = ModeOf(secretTask.spec)]
    BY <1>1, <1>14 DEF UpdateForSecret
  <2>2. ~Telling /\ authservice' = AuthserviceUpdate(mem[Watcher])
    BY <1>12, <2>1
  <2>3. /\ mem'[Watcher].certs = mem[Watcher].certs /\ mem'[Watcher].includes = mem[Watcher].includes
        /\ mem'[Watcher].shipped = mem[Watcher].shipped /\ mem'[Watcher].redis = mem[Watcher].redis
    BY <1>1, <2>1 DEF Memory
  <2>4. AuthserviceUpdate(mem'[Watcher]) = AuthserviceUpdate(mem[Watcher])
    BY <2>3 DEF AuthserviceUpdate, buildCABundleContent
  <2>5. QED
    BY <2>1, <2>2, <2>4 DEF AuthInv, Telling
<1>15. CASE ListPackages
  <2>1. UNCHANGED <<mem, secretTask, authservice, trouble>> /\ Goto(Watcher, "cidrs") /\ task[Watcher].at = "list"
    BY <1>15 DEF ListPackages
  <2>2. task'[Watcher].at = "cidrs"
    BY <1>1, <2>1 DEF Goto, Task
  <2>3. QED
    BY <2>1, <2>2, AuthAside DEF SameMade, Telling
<1>16. CASE StartCerts
  <2>1. "certs" \in trouble' \/ UNCHANGED <<mem, trouble>>
    BY <1>16 DEF StartCerts
  <2>2. UNCHANGED <<task, secretTask, authservice>>
    BY <1>16 DEF StartCerts
  <2>3. QED
    BY <1>4, <2>1, <2>2
<1>17. CASE StartSecret
  <2>1. PICK s : s = Head(secretQueue)
    OBVIOUS
  <2>2. PICK mode : mem' = [mem EXCEPT ![Watcher].redis = s.redis, ![Watcher].mode = mode]
    BY <1>17, <2>1 DEF StartSecret
  <2>3. /\ mem'[Watcher].certs = mem[Watcher].certs /\ mem'[Watcher].includes = mem[Watcher].includes
        /\ mem'[Watcher].shipped = mem[Watcher].shipped /\ mem'[Watcher].redis = s.redis
    BY <1>1, <2>2 DEF Memory
  <2>4. PICK update : update = AuthserviceUpdate(mem'[Watcher])
    OBVIOUS
  <2>5. UNCHANGED <<task, authservice, trouble>> /\ secretTask = Idle
    BY <1>17 DEF StartSecret
  <2>6. CASE mem[Watcher].redis # s.redis
    <3>1. secretTask' = [Idle EXCEPT !.at = "authservice", !.spec = s, !.secret = update]
      BY <1>17, <2>1, <2>4, <2>6 DEF StartSecret
    <3>2. secretTask'.at = "authservice" /\ secretTask'.secret = update
      BY <3>1 DEF Idle
    <3>3. QED
      BY <1>1, <2>4, <3>2 DEF AuthInv, Telling
  <2>7. CASE mem[Watcher].redis = s.redis
    <3>1. secretTask' = Idle
      BY <1>17, <2>1, <2>7 DEF StartSecret
    <3>2. QED
      BY <2>3, <2>5, <2>7, <3>1, AuthAside DEF SameMade, Telling
  <2>8. QED
    BY <2>6, <2>7
<1>18. /\ \A p \in Proc : ~FailCfg(p) /\ ~Restart(p)
       /\ \A h \in Writer, t \in Package \cup {"namespace", "istio"} : ~FailWrite(h, t)
       /\ ~FailOther
  BY Failing
<1>19. QED
  BY <1>3, <1>5, <1>6, <1>7, <1>9, <1>10, <1>11, <1>13, <1>14, <1>15, <1>16, <1>17, <1>18 DEF Next, WatcherOnly

(* When nothing is left to do authservice has been told the bundle and the *)
(* Redis URI the watcher knows, unless a request failed, a process         *)
(* restarted, the shipped certificates changed since or two handlers told  *)
(* it at a time.                                                           *)
THEOREM AuthserviceKnows == Spec => []AuthserviceFollows
<1>1. Init => AuthInv
  <2> SUFFICES ASSUME Init PROVE AuthInv
    OBVIOUS
  <2>1. task[Watcher] = Idle /\ Idle.at = "idle" /\ secretTask = Idle /\ authservice = AuthserviceUpdate(mem[Watcher])
    BY WatcherAssumption DEF Init, Idle
  <2>2. QED
    BY <2>1 DEF AuthInv, Telling
<1>2. TypeOK /\ AuthInv => AuthserviceFollows
  BY WatcherAssumption DEF AuthInv, AuthserviceFollows, Quiet, Telling, Idle
<1>3. QED
  BY <1>1, <1>2, TypeInit, TypeStep, FollowInit, FollowStep, AuthStep, PTL DEF Spec


=============================================================================
