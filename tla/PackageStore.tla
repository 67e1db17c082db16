---------------------------- MODULE PackageStore ----------------------------
(***************************************************************************)
(* The packages of the cluster, the store each admission replica builds    *)
(* from its own watch of them (controllers/packages), and the webhook that *)
(* answers from that store. Validation and persistence are two steps: the  *)
(* API server writes a package some time after a replica approved it.      *)
(***************************************************************************)
EXTENDS PackageRules

CONSTANTS Replica,   \* the admission pods
          Draft,     \* packages users submit
          MaxRaces   \* bound: approvals given without knowing everything

ASSUME DraftAssumption ==
  /\ Draft \subseteq Package /\ None \notin Package
  /\ \A d \in Draft : d.deleting = FALSE

ASSUME RacesAssumption == MaxRaces \in Nat

VARIABLES cluster,              \* <<namespace, name>> -> package, or None
          approved,             \* packages the webhook let pass, not yet written
          packageNamespaceMap,  \* replica -> namespace -> its packages, oldest first
          ssoIndex,             \* replica -> client id -> namespaces
          udpGatewayPortIndex,  \* replica -> <<gateway, port>> -> namespaces
          races,                \* history: approvals given by a replica whose store
                                \* was behind, or while another approval was pending
          overtaken             \* history: a relist handed over a new package of a
                                \* namespace before the deletion of an older one

storeVars == <<packageNamespaceMap, ssoIndex, udpGatewayPortIndex>>
vars == <<cluster, approved, storeVars, races, overtaken>>

KeyOf(pkg) == <<pkg.namespace, pkg.name>>
Keys == {KeyOf(d) : d \in Draft}
Namespaces == {d.namespace : d \in Draft}

ClientsOf(pkg) == {pkg.sso[i].clientId : i \in DOMAIN pkg.sso}

PortsOf(pkg) ==
  {UDPGatewayPortKey(pkg.expose[i].gateway, pkg.expose[i].port) :
     i \in {j \in DOMAIN pkg.expose : IsUDP(pkg.expose[j]) /\ pkg.expose[j].port # None}}

Clients == UNION {ClientsOf(d) : d \in Draft}
Ports == UNION {PortsOf(d) : d \in Draft}

EmptyMap == [n \in Namespaces |-> <<>>]
EmptyIndex(S) == [s \in S |-> {}]

Init ==
  /\ cluster = [k \in Keys |-> None]
  /\ approved = {}
  /\ packageNamespaceMap = [r \in Replica |-> EmptyMap]
  /\ ssoIndex = [r \in Replica |-> EmptyIndex(Clients)]
  /\ udpGatewayPortIndex = [r \in Replica |-> EmptyIndex(Ports)]
  /\ races = 0
  /\ overtaken = FALSE

----------------------------------------------------------------------------
(* Operations of the store.                                                *)
Existing(map, key) ==
  {i \in DOMAIN map[key[1]] : map[key[1]][i].name = key[2]}

(* Setting a key that is there keeps its place, a new one goes last.       *)
SetPackage(map, pkg) ==
  [map EXCEPT ![pkg.namespace] =
     LET at == Existing(map, KeyOf(pkg))
     IN  IF at = {} THEN Append(@, pkg)
         ELSE [i \in DOMAIN @ |-> IF i \in at THEN pkg ELSE @[i]]]

DeletePackage(map, key) ==
  [map EXCEPT ![key[1]] =
     LET at == Existing(map, key)
     IN  IF at = {} THEN @ ELSE RemoveAt(@, CHOOSE i \in at : TRUE)]

AddIndex(index, entries, ns) ==
  [k \in DOMAIN index |-> IF k \in entries THEN index[k] \cup {ns} ELSE index[k]]

RemoveIndex(index, entries, ns) ==
  [k \in DOMAIN index |-> IF k \in entries THEN index[k] \ {ns} ELSE index[k]]

AddKeepingIndexes(r, pkg) ==
  /\ packageNamespaceMap' = [packageNamespaceMap EXCEPT ![r] = SetPackage(@, pkg)]
  /\ ssoIndex' = [ssoIndex EXCEPT ![r] = AddIndex(@, ClientsOf(pkg), pkg.namespace)]
  /\ udpGatewayPortIndex' =
       [udpGatewayPortIndex EXCEPT ![r] = AddIndex(@, PortsOf(pkg), pkg.namespace)]

AddPackage(r, pkg) ==
  LET map == packageNamespaceMap[r]
      old == {map[pkg.namespace][i] : i \in Existing(map, KeyOf(pkg))}
      Replaced(index, of(_)) ==
        AddIndex(RemoveIndex(index, UNION {of(o) : o \in old}, pkg.namespace),
                 of(pkg), pkg.namespace)
  IN  /\ packageNamespaceMap' = [packageNamespaceMap EXCEPT ![r] = SetPackage(@, pkg)]
      /\ ssoIndex' = [ssoIndex EXCEPT ![r] = Replaced(@, ClientsOf)]
      /\ udpGatewayPortIndex' = [udpGatewayPortIndex EXCEPT ![r] = Replaced(@, PortsOf)]

RemoveFromMapOnly(r, pkg) ==
  /\ packageNamespaceMap' = [packageNamespaceMap EXCEPT ![r] = DeletePackage(@, KeyOf(pkg))]
  /\ UNCHANGED <<ssoIndex, udpGatewayPortIndex>>

(* The namespace leaves the indexes of the deleted package's entries, even  *)
(* when another package of the namespace has the same ones.                *)
RemovePackage(r, pkg) ==
  /\ packageNamespaceMap' = [packageNamespaceMap EXCEPT ![r] = DeletePackage(@, KeyOf(pkg))]
  /\ ssoIndex' = [ssoIndex EXCEPT ![r] = RemoveIndex(@, ClientsOf(pkg), pkg.namespace)]
  /\ udpGatewayPortIndex' =
       [udpGatewayPortIndex EXCEPT ![r] = RemoveIndex(@, PortsOf(pkg), pkg.namespace)]

GetPkgName(r, ns) ==
  IF packageNamespaceMap[r][ns] = <<>> THEN None ELSE packageNamespaceMap[r][ns][1].name

FindPackagesWithSsoClientId(r, c) == ssoIndex[r][c]
FindPackagesWithUdpGatewayPort(r, key) == udpGatewayPortIndex[r][key]

----------------------------------------------------------------------------
(* What replica r has seen of a package.                                   *)
SeenBy(r, key) ==
  LET ps == packageNamespaceMap[r][key[1]]
      at == Existing(packageNamespaceMap[r], key)
  IN  IF at = {} THEN None ELSE ps[CHOOSE i \in at : TRUE]

UpToDate(r) == \A k \in Keys : SeenBy(r, k) = cluster[k]

Approves(r, pkg) ==
  LET clients == [c \in DOMAIN ssoIndex[r] |-> FindPackagesWithSsoClientId(r, c)]
      ports == [k \in DOMAIN udpGatewayPortIndex[r] |-> FindPackagesWithUdpGatewayPort(r, k)]
  IN  Validator(pkg, GetPkgName(r, pkg.namespace), clients, ports)

(* The API server keeps the mark of an object that is being deleted.       *)
Submitted(pkg) ==
  LET now == cluster[KeyOf(pkg)]
  IN  [pkg EXCEPT !.deleting = now # None /\ now.deleting = TRUE]

(* A user submits a package, new or changed, and replica r approves it.     *)
Admit(r, pkg) ==
  LET racing == ~UpToDate(r) \/ approved # {}
  IN  /\ racing => races < MaxRaces
      /\ cluster[KeyOf(pkg)] # Submitted(pkg)
      /\ Approves(r, Submitted(pkg))
      /\ approved' = approved \cup {pkg}
      /\ races' = IF racing THEN races + 1 ELSE races
      /\ UNCHANGED <<cluster, storeVars, overtaken>>

Persist(pkg) ==
  /\ pkg \in approved
  /\ approved' = approved \ {pkg}
  /\ cluster' = [cluster EXCEPT ![KeyOf(pkg)] = Submitted(pkg)]
  /\ UNCHANGED <<storeVars, races, overtaken>>

(* A deletion is not validated; the object stays, marked as deleting, until *)
(* its finalizer is done.                                                  *)
MarkDeleted(k) ==
  /\ cluster[k] # None /\ cluster[k].deleting = FALSE
  /\ cluster' = [cluster EXCEPT ![k].deleting = TRUE]
  /\ UNCHANGED <<approved, storeVars, races, overtaken>>

Finalized(k) ==
  /\ cluster[k] # None /\ cluster[k].deleting = TRUE
  /\ cluster' = [cluster EXCEPT ![k] = None]
  /\ UNCHANGED <<approved, storeVars, races, overtaken>>

Overtakes(r, k) ==
  /\ cluster[k] # None
  /\ \E i \in DOMAIN packageNamespaceMap[r][k[1]] :
       cluster[KeyOf(packageNamespaceMap[r][k[1]][i])] = None

(* The watch of replica r hands over the present state of one package; for *)
(* one that is gone, the object it last had. A watch that listed again      *)
(* after an interruption hands over what it missed in any order.            *)
ProcessPackages(r, k) ==
  /\ SeenBy(r, k) # cluster[k]
  /\ IF cluster[k] # None THEN AddPackage(r, cluster[k]) ELSE RemovePackage(r, SeenBy(r, k))
  /\ overtaken' = (overtaken \/ Overtakes(r, k))
  /\ UNCHANGED <<cluster, approved, races>>

StartPackageWatch(r) ==
  /\ packageNamespaceMap' = [packageNamespaceMap EXCEPT ![r] = EmptyMap]
  /\ ssoIndex' = [ssoIndex EXCEPT ![r] = EmptyIndex(Clients)]
  /\ udpGatewayPortIndex' = [udpGatewayPortIndex EXCEPT ![r] = EmptyIndex(Ports)]
  /\ UNCHANGED <<cluster, approved, races, overtaken>>

Next ==
  \/ \E r \in Replica, d \in Draft : Admit(r, d)
  \/ \E d \in Draft : Persist(d)
  \/ \E k \in Keys : MarkDeleted(k) \/ Finalized(k)
  \/ \E r \in Replica, k \in Keys : ProcessPackages(r, k)
  \/ \E r \in Replica : StartPackageWatch(r)

Spec == Init /\ [][Next]_vars

(* A watch that has something to hand over does so, and an approved        *)
(* package is written.                                                     *)
Fairness ==
  /\ \A r \in Replica, k \in Keys : WF_vars(ProcessPackages(r, k))
  /\ \A d \in Draft : WF_vars(Persist(d))

FairSpec == Spec /\ Fairness

----------------------------------------------------------------------------
Packages == {p \in Package : [p EXCEPT !.deleting = FALSE] \in Draft}

(* A map lists the packages of each namespace, no name twice.              *)
MapTyped(map) ==
  /\ map \in [Namespaces -> Seq(Packages)]
  /\ \A n \in Namespaces :
       /\ \A i \in DOMAIN map[n] : map[n][i].namespace = n
       /\ \A i, j \in DOMAIN map[n] : map[n][i].name = map[n][j].name => i = j

StoreTyped ==
  /\ packageNamespaceMap \in [Replica -> [Namespaces -> Seq(Packages)]]
  /\ \A r \in Replica : MapTyped(packageNamespaceMap[r])
  /\ ssoIndex \in [Replica -> [Clients -> SUBSET Namespaces]]
  /\ udpGatewayPortIndex \in [Replica -> [Ports -> SUBSET Namespaces]]

ClusterTyped ==
  /\ cluster \in [Keys -> Packages \cup {None}]
  /\ \A k \in Keys : cluster[k] # None => KeyOf(cluster[k]) = k
  /\ approved \subseteq Draft /\ races \in 0..MaxRaces /\ overtaken \in BOOLEAN

(* The cluster holds packages, and every replica lists each of them once.  *)
TypeOK == StoreTyped /\ ClusterTyped

Live == {cluster[k] : k \in Keys} \ {None}

Exclusive ==
  \A p, q \in Live :
    p # q => /\ p.namespace # q.namespace
             /\ ClientsOf(p) \cap ClientsOf(q) = {}
             /\ PortsOf(p) \cap PortsOf(q) = {}

(* As long as every approval was given by a replica that had seen the whole *)
(* cluster, with no other approval pending, and deletions were seen before  *)
(* the packages that took their place, a namespace holds one package and no *)
(* two packages share a client id or a UDP gateway port: the checks of the  *)
(* webhook compose over any sequence of creations, edits, deletions and     *)
(* restarts of replicas.                                                    *)
OneOwner == races = 0 /\ ~overtaken => Exclusive

(* The same without the condition on the order in which a watch hands over  *)
(* a deletion and a creation ("Check for global uniqueness (across all      *)
(* packages/namespaces)", package-validator.ts).                            *)
(* Does not hold and is in no run: see the README's divergences.            *)
OneOwnerInAnyOrder == races = 0 => Exclusive

(* The answers a replica gives on client ids and ports are those of the    *)
(* packages it has seen, as long as approvals did not race and deletions    *)
(* were seen in order.                                                     *)
IndexesMatchMap ==
  races = 0 /\ ~overtaken =>
    \A r \in Replica :
      LET seen == UNION {ToSet(packageNamespaceMap[r][n]) : n \in Namespaces}
          Owners(of(_), e) == {p.namespace : p \in {q \in seen : e \in of(q)}}
      IN  /\ \A c \in Clients : ssoIndex[r][c] = Owners(ClientsOf, c)
          /\ \A k \in Ports : udpGatewayPortIndex[r][k] = Owners(PortsOf, k)

(* Once a client id is in no package for good, every replica comes to       *)
(* offer it again, whatever races and restarts there were.                  *)
FreedClientsReturn ==
  \A r \in Replica, c \in Clients :
    <>[](\A p \in Live : c \notin ClientsOf(p)) => <>[](FindPackagesWithSsoClientId(r, c) = {})
=============================================================================
