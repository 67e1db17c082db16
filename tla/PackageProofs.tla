---------------------------- MODULE PackageProofs ---------------------------
(***************************************************************************)
(* Proofs about PackageStore for any packages, namespaces and replicas:    *)
(* as long as no approval raced and deletions were seen before the         *)
(* packages that took their place, a namespace has one package, a client   *)
(* id and a UDP gateway port one owner, and every replica answers from     *)
(* exactly the packages it has seen.                                       *)
(*                                                                         *)
(* Proofs about PackageNetwork for any specs of a package: what is left of *)
(* earlier generations, that nobody passes a protected workload's SSO      *)
(* without a token, and that what the package exposes, allows or monitors  *)
(* gets through all of its policies. The sequences of policies are         *)
(* concatenations over the entries: FlattenSeq is reasoned about by        *)
(* induction over its recursion.                                           *)
(***************************************************************************)
EXTENDS PackageStore, PackageNetwork, SequenceTheorems, WellFoundedInduction, TLAPS

(* The condition of the properties.                                        *)
Calm == races = 0 /\ ~overtaken

Apart(p, q) ==
  /\ p.namespace # q.namespace
  /\ ClientsOf(p) \cap ClientsOf(q) = {} /\ PortsOf(p) \cap PortsOf(q) = {}

(* A package that was approved stays apart from what the cluster holds:    *)
(* until it is written, the cluster can only lose packages.                *)
ClusterInv ==
  Calm =>
    /\ \A k, l \in Keys : k # l /\ cluster[k] # None /\ cluster[l] # None => Apart(cluster[k], cluster[l])
    /\ \A p \in approved :
         /\ approved = {p}
         /\ \A k \in Keys \ {KeyOf(p)} : cluster[k] # None => Apart(p, cluster[k])

(* A store holds at most one package of a namespace, so that removing the  *)
(* namespace from the indexes never removes what another package put there. *)
StoreInv ==
  Calm => \A r \in Replica :
    /\ \A n \in Namespaces : Len(packageNamespaceMap[r][n]) <= 1
    /\ \A c \in Clients : ssoIndex[r][c] =
         {n \in Namespaces : \E i \in DOMAIN packageNamespaceMap[r][n] :
                                c \in ClientsOf(packageNamespaceMap[r][n][i])}
    /\ \A k \in Ports : udpGatewayPortIndex[r][k] =
         {n \in Namespaces : \E i \in DOMAIN packageNamespaceMap[r][n] :
                                k \in PortsOf(packageNamespaceMap[r][n][i])}

-----------------------------------------------------------------------------
(* Packages.                                                               *)

(* Packages that differ in nothing the checks of the webhook look at.      *)
SameSpec(p, q) ==
  p.namespace = q.namespace /\ p.name = q.name /\ p.sso = q.sso /\ p.expose = q.expose

LEMMA SameKeys ==
  ASSUME NEW p, NEW q, SameSpec(p, q)
  PROVE  KeyOf(p) = KeyOf(q) /\ ClientsOf(p) = ClientsOf(q) /\ PortsOf(p) = PortsOf(q)
BY DEF SameSpec, KeyOf, ClientsOf, PortsOf

LEMMA MarksPackage ==
  ASSUME NEW p \in Package, NEW b \in BOOLEAN, NEW q, q = [p EXCEPT !.deleting = b]
  PROVE  q \in Package /\ SameSpec(q, p) /\ q.deleting = b
BY DEF Package, SameSpec

LEMMA PackagesTyped ==
  ASSUME NEW p \in Packages
  PROVE  /\ p \in Package /\ p # None /\ KeyOf(p) \in Keys /\ p.namespace \in Namespaces
         /\ ClientsOf(p) \subseteq Clients /\ PortsOf(p) \subseteq Ports
<1> DEFINE d == [p EXCEPT !.deleting = FALSE]
<1>1. p \in Package /\ d \in Draft
  BY DEF Packages
<1>2. SameSpec(d, p)
  BY <1>1, MarksPackage
<1> HIDE DEF d
<1>3. KeyOf(p) = KeyOf(d) /\ ClientsOf(p) = ClientsOf(d) /\ PortsOf(p) = PortsOf(d)
  BY <1>2, SameKeys
<1>4. p.namespace = d.namespace
  BY <1>2 DEF SameSpec
<1>5. p # None
  BY <1>1, DraftAssumption
<1>6. QED
  BY <1>1, <1>3, <1>4, <1>5 DEF Keys, Namespaces, Clients, Ports

LEMMA MarkedTyped ==
  ASSUME NEW p \in Packages, NEW b \in BOOLEAN, NEW q, q = [p EXCEPT !.deleting = b]
  PROVE  q \in Packages /\ SameSpec(q, p)
<1>1. p \in Package /\ [p EXCEPT !.deleting = FALSE] \in Draft
  BY DEF Packages
<1>2. q \in Package /\ SameSpec(q, p)
  BY <1>1, MarksPackage
<1>3. [q EXCEPT !.deleting = FALSE] = [p EXCEPT !.deleting = FALSE]
  BY <1>1 DEF Package
<1>4. QED
  BY <1>1, <1>2, <1>3 DEF Packages

LEMMA DraftsTyped == Draft \subseteq Packages
<1> SUFFICES ASSUME NEW d \in Draft
             PROVE  d \in Packages
  OBVIOUS
<1>1. d \in Package /\ d.deleting = FALSE
  BY DraftAssumption
<1>2. d = [d EXCEPT !.deleting = FALSE]
  BY <1>1 DEF Package
<1>3. QED
  BY <1>1, <1>2 DEF Packages

LEMMA SubmittedTyped ==
  ASSUME NEW d \in Draft
  PROVE  Submitted(d) \in Packages /\ SameSpec(Submitted(d), d)
<1> DEFINE b == cluster[KeyOf(d)] # None /\ cluster[KeyOf(d)].deleting = TRUE
<1>1. Submitted(d) = [d EXCEPT !.deleting = b] /\ b \in BOOLEAN
  BY DEF Submitted
<1>2. QED
  BY <1>1, DraftsTyped, MarkedTyped

-----------------------------------------------------------------------------
(* The maps and indexes of a store.                                        *)

LEMMA RemovesAt ==
  ASSUME NEW S, NEW s \in Seq(S), NEW i \in 1..Len(s)
  PROVE  /\ RemoveAt(s, i) \in Seq(S) /\ Len(RemoveAt(s, i)) = Len(s) - 1
         /\ \A j \in 1..(Len(s) - 1) : RemoveAt(s, i)[j] = IF j < i THEN s[j] ELSE s[j + 1]
<1> DEFINE a == SubSeq(s, 1, i - 1)
           b == SubSeq(s, i + 1, Len(s))
<1>1. Len(s) \in Nat /\ \A j \in 1..Len(s) : s[j] \in S
  OBVIOUS
<1>2. a \in Seq(S) /\ Len(a) = i - 1 /\ \A j \in 1..(i - 1) : a[j] = s[j]
  BY <1>1, SubSeqProperties
<1>3. b \in Seq(S) /\ Len(b) = Len(s) - i /\ \A j \in 1..(Len(s) - i) : b[j] = s[j + i]
  BY <1>1, SubSeqProperties
<1> HIDE DEF a, b
<1>4. /\ a \o b \in Seq(S) /\ Len(a \o b) = Len(s) - 1
      /\ \A j \in 1..(Len(s) - 1) : (a \o b)[j] = IF j <= i - 1 THEN a[j] ELSE b[j - (i - 1)]
  <2>1. a \in Seq(S) /\ b \in Seq(S)
    BY <1>2, <1>3
  <2>2. /\ a \o b \in Seq(S) /\ Len(a \o b) = Len(a) + Len(b)
        /\ \A j \in 1..(Len(a) + Len(b)) : (a \o b)[j] = IF j <= Len(a) THEN a[j] ELSE b[j - Len(a)]
    BY <2>1, ConcatProperties, Zenon
  <2>3. Len(a) = i - 1 /\ Len(a) + Len(b) = Len(s) - 1
    BY <1>1, <1>2, <1>3
  <2>4. QED
    BY <2>2, <2>3
<1>7. ASSUME NEW j \in 1..(Len(s) - 1)
      PROVE  (a \o b)[j] = IF j < i THEN s[j] ELSE s[j + 1]
  <2>1. CASE j < i
    BY <1>1, <1>2, <1>4, <2>1
  <2>2. CASE ~(j < i)
    <3>1. j - (i - 1) \in 1..(Len(s) - i)
      BY <1>1, <2>2
    <3>2. b[j - (i - 1)] = s[j - (i - 1) + i]
      BY <1>3, <3>1
    <3>3. j - (i - 1) + i = j + 1
      OBVIOUS
    <3>4. QED
      BY <1>1, <1>4, <2>2, <3>2, <3>3
  <2>3. QED
    BY <2>1, <2>2
<1>5. RemoveAt(s, i) = a \o b
  BY DEF RemoveAt, a, b
<1>6. QED
  BY <1>4, <1>5, <1>7

LEMMA SetsPackage ==
  ASSUME NEW map, MapTyped(map), NEW pk \in Packages
  PROVE  /\ MapTyped(SetPackage(map, pk))
         /\ \A n \in Namespaces \ {pk.namespace} : SetPackage(map, pk)[n] = map[n]
         /\ (\A i \in DOMAIN map[pk.namespace] : map[pk.namespace][i].name = pk.name)
              => SetPackage(map, pk)[pk.namespace] = <<pk>>
<1> DEFINE ns == pk.namespace
           old == map[ns]
           at == Existing(map, KeyOf(pk))
           new == IF at = {} THEN Append(old, pk) ELSE [i \in DOMAIN old |-> IF i \in at THEN pk ELSE old[i]]
<1>1. ns \in Namespaces /\ old \in Seq(Packages) /\ Len(old) \in Nat /\ DOMAIN old = 1..Len(old)
  BY PackagesTyped DEF MapTyped
<1>2. at = {i \in DOMAIN old : old[i].name = pk.name}
  BY DEF Existing, KeyOf
<1>3. SetPackage(map, pk) = [map EXCEPT ![ns] = new]
  BY DEF SetPackage
<1>4. /\ \A i \in DOMAIN old : old[i].namespace = ns
      /\ \A i, j \in DOMAIN old : old[i].name = old[j].name => i = j
  BY <1>1 DEF MapTyped
<1> HIDE DEF ns, old, at
<1>5. /\ new \in Seq(Packages)
      /\ \A i \in DOMAIN new : new[i].namespace = ns
      /\ \A i, j \in DOMAIN new : new[i].name = new[j].name => i = j
      /\ (\A i \in DOMAIN old : old[i].name = pk.name) => new = <<pk>>
  <2>1. CASE at = {}
    <3>1. new = Append(old, pk)
      BY <2>1
    <3>2. /\ new \in Seq(Packages) /\ Len(new) = Len(old) + 1
          /\ \A i \in 1..Len(old) : new[i] = old[i]
          /\ new[Len(old) + 1] = pk
      <4> HIDE DEF new
      <4>1. /\ Append(old, pk) \in Seq(Packages) /\ Len(Append(old, pk)) = Len(old) + 1
            /\ \A i \in 1..Len(old) : Append(old, pk)[i] = old[i]
            /\ Append(old, pk)[Len(old) + 1] = pk
        BY <1>1, AppendProperties
      <4>2. QED
        BY <3>1, <4>1
    <3>3. \A i \in DOMAIN old : old[i].name # pk.name
      BY <1>2, <2>1
    <3> HIDE DEF new
    <3>4. DOMAIN new = 1..(Len(old) + 1)
      BY <3>2
    <3>5. \A i \in DOMAIN new : new[i].namespace = ns
      BY <1>1, <1>4, <3>2, <3>4 DEF ns
    <3>6. \A i, j \in DOMAIN new : new[i].name = new[j].name => i = j
      BY <1>1, <1>4, <3>2, <3>3, <3>4
    <3>7. ASSUME \A i \in DOMAIN old : old[i].name = pk.name
          PROVE  new = <<pk>>
      <4>1. Len(old) = 0
        BY <1>1, <3>3, <3>7
      <4>2. QED
        BY <3>2, <4>1
    <3>8. QED
      BY <3>2, <3>5, <3>6, <3>7
  <2>2. CASE at # {}
    <3>1. new = [i \in DOMAIN old |-> IF i \in at THEN pk ELSE old[i]]
      BY <2>2
    <3>2. /\ DOMAIN new = 1..Len(old)
          /\ \A i \in DOMAIN old : new[i] = IF old[i].name = pk.name THEN pk ELSE old[i]
      BY <1>1, <1>2, <3>1
    <3> HIDE DEF new
    <3>3. new \in Seq(Packages)
      <4>1. \A i \in 1..Len(old) : new[i] \in Packages
        BY <1>1, <3>2
      <4>2. new = [i \in 1..Len(old) |-> new[i]]
        BY <1>1, <3>1, <3>2
      <4>3. QED
        BY <1>1, <4>1, <4>2, IsASeq
    <3>4. Len(new) = Len(old)
      BY <1>1, <3>2, <3>3
    <3>5. \A i \in DOMAIN new : new[i].namespace = ns
      BY <1>1, <1>4, <3>2 DEF ns
    <3>6. \A i \in DOMAIN old : new[i].name = old[i].name
      BY <3>2
    <3>7. \A i, j \in DOMAIN new : new[i].name = new[j].name => i = j
      BY <1>1, <1>4, <3>2, <3>6
    <3>8. ASSUME \A i \in DOMAIN old : old[i].name = pk.name
          PROVE  new = <<pk>>
      <4>1. Len(old) # 0
        BY <1>1, <1>2, <2>2
      <4>2. \A i, j \in 1..Len(old) : i = j
        BY <1>1, <1>4, <3>8
      <4>3. Len(old) = 1
        BY <1>1, <4>1, <4>2
      <4>4. new[1] = pk
        BY <1>1, <3>2, <3>8, <4>3
      <4>5. QED
        BY <3>3, <3>4, <4>3, <4>4
    <3>9. QED
      BY <3>3, <3>5, <3>7, <3>8
  <2>3. QED
    BY <2>1, <2>2
<1> HIDE DEF new
<1>6. QED
  BY <1>1, <1>3, <1>5 DEF MapTyped, ns, old

LEMMA DeletesPackage ==
  ASSUME NEW map, MapTyped(map), NEW key, key[1] \in Namespaces
  PROVE  /\ MapTyped(DeletePackage(map, key))
         /\ \A n \in Namespaces \ {key[1]} : DeletePackage(map, key)[n] = map[n]
         /\ Existing(map, key) # {} /\ Len(map[key[1]]) <= 1 => DeletePackage(map, key)[key[1]] = <<>>
<1> DEFINE ns == key[1]
           old == map[ns]
           at == Existing(map, key)
           new == IF at = {} THEN old ELSE RemoveAt(old, CHOOSE i \in at : TRUE)
<1>1. old \in Seq(Packages) /\ Len(old) \in Nat /\ DOMAIN old = 1..Len(old)
  BY DEF MapTyped
<1>2. at \subseteq DOMAIN old
  BY DEF Existing
<1>3. DeletePackage(map, key) = [map EXCEPT ![ns] = new]
  BY DEF DeletePackage
<1>4. /\ \A i \in DOMAIN old : old[i].namespace = ns
      /\ \A i, j \in DOMAIN old : old[i].name = old[j].name => i = j
  BY DEF MapTyped
<1>5. /\ new \in Seq(Packages)
      /\ \A i \in DOMAIN new : new[i].namespace = ns
      /\ \A i, j \in DOMAIN new : new[i].name = new[j].name => i = j
      /\ at # {} /\ Len(old) <= 1 => new = <<>>
  <2>1. CASE at = {}
    BY <1>1, <1>4, <2>1
  <2>2. CASE at # {}
    <3> DEFINE i == CHOOSE x \in at : TRUE
    <3>1. i \in 1..Len(old)
      BY <1>1, <1>2, <2>2
    <3>2. new = RemoveAt(old, i)
      BY <2>2
    <3> HIDE DEF i, new, old, at
    <3>3. /\ new \in Seq(Packages) /\ Len(new) = Len(old) - 1
          /\ \A j \in 1..(Len(old) - 1) : new[j] = IF j < i THEN old[j] ELSE old[j + 1]
      BY <1>1, <3>1, <3>2, RemovesAt
    <3>4. DOMAIN new = 1..(Len(old) - 1)
      BY <3>3
    <3>5. \A j \in DOMAIN new : new[j].namespace = ns
      BY <1>1, <1>4, <3>1, <3>3, <3>4
    <3>6. ASSUME NEW j \in DOMAIN new, NEW k \in DOMAIN new, new[j].name = new[k].name
          PROVE  j = k
      <4>1. PICK x \in 1..Len(old) : new[j] = old[x] /\ x = IF j < i THEN j ELSE j + 1
        BY <1>1, <3>3, <3>4
      <4>2. PICK y \in 1..Len(old) : new[k] = old[y] /\ y = IF k < i THEN k ELSE k + 1
        BY <1>1, <3>3, <3>4
      <4>3. x = y
        BY <1>1, <1>4, <3>6, <4>1, <4>2
      <4>4. j \in Int /\ k \in Int
        BY <1>1, <3>4
      <4>5. QED
        BY <3>1, <4>1, <4>2, <4>3, <4>4
    <3>7. Len(old) <= 1 => new = <<>>
      BY <1>1, <3>1, <3>3
    <3>8. QED
      BY <3>3, <3>5, <3>6, <3>7
  <2>3. QED
    BY <2>1, <2>2
<1> HIDE DEF new
<1>6. QED
  BY <1>1, <1>3, <1>5 DEF MapTyped

-----------------------------------------------------------------------------
(* Types.                                                                  *)

LEMMA KeysTyped ==
  ASSUME NEW k \in Keys
  PROVE  k[1] \in Namespaces /\ k = <<k[1], k[2]>>
BY DEF Keys, KeyOf, Namespaces

LEMMA SeenTyped ==
  ASSUME StoreTyped, NEW r \in Replica, NEW k \in Keys, SeenBy(r, k) # None
  PROVE  /\ SeenBy(r, k) \in Packages /\ KeyOf(SeenBy(r, k)) = k
         /\ Existing(packageNamespaceMap[r], k) # {}
         /\ \E i \in DOMAIN packageNamespaceMap[r][k[1]] : packageNamespaceMap[r][k[1]][i] = SeenBy(r, k)
<1> DEFINE ps == packageNamespaceMap[r][k[1]]
           at == Existing(packageNamespaceMap[r], k)
           i == CHOOSE x \in at : TRUE
<1>1. at # {} /\ SeenBy(r, k) = ps[i]
  BY DEF SeenBy
<1>2. i \in at
  BY <1>1
<1>3. at = {x \in DOMAIN ps : ps[x].name = k[2]}
  BY DEF Existing
<1> HIDE DEF at, i
<1>4. i \in DOMAIN ps /\ ps[i].name = k[2]
  BY <1>2, <1>3
<1>5. k[1] \in Namespaces /\ k = <<k[1], k[2]>>
  BY KeysTyped
<1>6. ps[i] \in Packages /\ ps[i].namespace = k[1]
  BY <1>4, <1>5 DEF StoreTyped, MapTyped
<1>7. KeyOf(ps[i]) = k
  BY <1>4, <1>5, <1>6 DEF KeyOf
<1>8. QED
  BY <1>1, <1>4, <1>6, <1>7 DEF at

(* What add() and remove() do to the store of a replica.                   *)
LEMMA AddsPackage ==
  ASSUME StoreTyped, NEW r \in Replica, NEW pk \in Packages, AddPackage(r, pk)
  PROVE  /\ StoreTyped'
         /\ packageNamespaceMap' = [packageNamespaceMap EXCEPT ![r] = SetPackage(packageNamespaceMap[r], pk)]
         /\ \A q \in Replica \ {r} : /\ ssoIndex'[q] = ssoIndex[q]
                                     /\ udpGatewayPortIndex'[q] = udpGatewayPortIndex[q]
         /\ \A c \in Clients : ssoIndex'[r][c] =
              IF c \in ClientsOf(pk) THEN ssoIndex[r][c] \cup {pk.namespace}
              ELSE IF \E i \in Existing(packageNamespaceMap[r], KeyOf(pk)) :
                        c \in ClientsOf(packageNamespaceMap[r][pk.namespace][i])
                   THEN ssoIndex[r][c] \ {pk.namespace} ELSE ssoIndex[r][c]
         /\ \A k \in Ports : udpGatewayPortIndex'[r][k] =
              IF k \in PortsOf(pk) THEN udpGatewayPortIndex[r][k] \cup {pk.namespace}
              ELSE IF \E i \in Existing(packageNamespaceMap[r], KeyOf(pk)) :
                        k \in PortsOf(packageNamespaceMap[r][pk.namespace][i])
                   THEN udpGatewayPortIndex[r][k] \ {pk.namespace} ELSE udpGatewayPortIndex[r][k]
<1> DEFINE map == packageNamespaceMap[r]
           ns == pk.namespace
           old == {map[ns][i] : i \in Existing(map, KeyOf(pk))}
           oldClients == UNION {ClientsOf(o) : o \in old}
           oldPorts == UNION {PortsOf(o) : o \in old}
           sso == AddIndex(RemoveIndex(ssoIndex[r], oldClients, ns), ClientsOf(pk), ns)
           udp == AddIndex(RemoveIndex(udpGatewayPortIndex[r], oldPorts, ns), PortsOf(pk), ns)
           new == SetPackage(map, pk)
<1>1. /\ packageNamespaceMap' = [packageNamespaceMap EXCEPT ![r] = new]
      /\ ssoIndex' = [ssoIndex EXCEPT ![r] = sso]
      /\ udpGatewayPortIndex' = [udpGatewayPortIndex EXCEPT ![r] = udp]
  BY DEF AddPackage
<1>2. \A c : c \in oldClients <=> \E i \in Existing(map, KeyOf(pk)) : c \in ClientsOf(map[ns][i])
  OBVIOUS
<1>3. \A k : k \in oldPorts <=> \E i \in Existing(map, KeyOf(pk)) : k \in PortsOf(map[ns][i])
  OBVIOUS
<1> HIDE DEF old, oldClients, oldPorts
<1>4. ns \in Namespaces
  BY PackagesTyped
<1>5. /\ sso \in [Clients -> SUBSET Namespaces]
      /\ \A c \in Clients : sso[c] = IF c \in ClientsOf(pk) THEN ssoIndex[r][c] \cup {ns}
                                     ELSE IF c \in oldClients THEN ssoIndex[r][c] \ {ns}
                                     ELSE ssoIndex[r][c]
  <2>1. ssoIndex[r] \in [Clients -> SUBSET Namespaces]
    BY DEF StoreTyped
  <2>2. QED
    <3> DEFINE left == RemoveIndex(ssoIndex[r], oldClients, ns)
    <3>1. /\ left \in [Clients -> SUBSET Namespaces]
          /\ \A k \in Clients : left[k] = IF k \in oldClients THEN ssoIndex[r][k] \ {ns} ELSE ssoIndex[r][k]
      BY <2>1 DEF RemoveIndex
    <3>2. sso = AddIndex(left, ClientsOf(pk), ns)
      OBVIOUS
    <3> HIDE DEF left, sso
    <3>3. /\ sso \in [Clients -> SUBSET Namespaces]
          /\ \A k \in Clients : sso[k] = IF k \in ClientsOf(pk) THEN left[k] \cup {ns} ELSE left[k]
      BY <1>4, <3>1, <3>2 DEF AddIndex
    <3>4. QED
      BY <3>1, <3>3
<1>6. /\ udp \in [Ports -> SUBSET Namespaces]
      /\ \A k \in Ports : udp[k] = IF k \in PortsOf(pk) THEN udpGatewayPortIndex[r][k] \cup {ns}
                                   ELSE IF k \in oldPorts THEN udpGatewayPortIndex[r][k] \ {ns}
                                   ELSE udpGatewayPortIndex[r][k]
  <2>1. udpGatewayPortIndex[r] \in [Ports -> SUBSET Namespaces]
    BY DEF StoreTyped
  <2>2. QED
    <3> DEFINE left == RemoveIndex(udpGatewayPortIndex[r], oldPorts, ns)
    <3>1. /\ left \in [Ports -> SUBSET Namespaces]
          /\ \A k \in Ports : left[k] = IF k \in oldPorts THEN udpGatewayPortIndex[r][k] \ {ns} ELSE udpGatewayPortIndex[r][k]
      BY <2>1 DEF RemoveIndex
    <3>2. udp = AddIndex(left, PortsOf(pk), ns)
      OBVIOUS
    <3> HIDE DEF left, udp
    <3>3. /\ udp \in [Ports -> SUBSET Namespaces]
          /\ \A k \in Ports : udp[k] = IF k \in PortsOf(pk) THEN left[k] \cup {ns} ELSE left[k]
      BY <1>4, <3>1, <3>2 DEF AddIndex
    <3>4. QED
      BY <3>1, <3>3
<1>7. MapTyped(new) /\ new \in [Namespaces -> Seq(Packages)]
  <2>1. MapTyped(map)
    BY DEF StoreTyped
  <2>2. QED
    BY <2>1, SetsPackage DEF MapTyped
<1> HIDE DEF sso, udp, new
<1>8. StoreTyped'
  BY <1>1, <1>5, <1>6, <1>7 DEF StoreTyped
<1>9. /\ \A q \in Replica \ {r} : /\ ssoIndex'[q] = ssoIndex[q]
                                  /\ udpGatewayPortIndex'[q] = udpGatewayPortIndex[q]
      /\ ssoIndex'[r] = sso /\ udpGatewayPortIndex'[r] = udp
  BY <1>1 DEF StoreTyped
<1>10. ASSUME NEW c \in Clients
       PROVE  ssoIndex'[r][c] =
                IF c \in ClientsOf(pk) THEN ssoIndex[r][c] \cup {ns}
                ELSE IF \E i \in Existing(map, KeyOf(pk)) : c \in ClientsOf(map[ns][i])
                     THEN ssoIndex[r][c] \ {ns} ELSE ssoIndex[r][c]
  BY <1>2, <1>5, <1>9, Zenon
<1>11. ASSUME NEW k \in Ports
       PROVE  udpGatewayPortIndex'[r][k] =
                IF k \in PortsOf(pk) THEN udpGatewayPortIndex[r][k] \cup {ns}
                ELSE IF \E i \in Existing(map, KeyOf(pk)) : k \in PortsOf(map[ns][i])
                     THEN udpGatewayPortIndex[r][k] \ {ns} ELSE udpGatewayPortIndex[r][k]
  BY <1>3, <1>6, <1>9, Zenon
<1>12. QED
  BY <1>1, <1>8, <1>9, <1>10, <1>11 DEF new

LEMMA RemovesPackage ==
  ASSUME StoreTyped, NEW r \in Replica, NEW pk \in Packages, RemovePackage(r, pk)
  PROVE  /\ StoreTyped'
         /\ packageNamespaceMap' = [packageNamespaceMap EXCEPT ![r] = DeletePackage(packageNamespaceMap[r], KeyOf(pk))]
         /\ \A q \in Replica \ {r} : /\ ssoIndex'[q] = ssoIndex[q]
                                     /\ udpGatewayPortIndex'[q] = udpGatewayPortIndex[q]
         /\ \A c \in Clients : ssoIndex'[r][c] =
              IF c \in ClientsOf(pk) THEN ssoIndex[r][c] \ {pk.namespace} ELSE ssoIndex[r][c]
         /\ \A k \in Ports : udpGatewayPortIndex'[r][k] =
              IF k \in PortsOf(pk) THEN udpGatewayPortIndex[r][k] \ {pk.namespace} ELSE udpGatewayPortIndex[r][k]
<1> DEFINE map == packageNamespaceMap[r]
           ns == pk.namespace
           sso == RemoveIndex(ssoIndex[r], ClientsOf(pk), ns)
           udp == RemoveIndex(udpGatewayPortIndex[r], PortsOf(pk), ns)
           new == DeletePackage(map, KeyOf(pk))
<1>1. /\ packageNamespaceMap' = [packageNamespaceMap EXCEPT ![r] = new]
      /\ ssoIndex' = [ssoIndex EXCEPT ![r] = sso]
      /\ udpGatewayPortIndex' = [udpGatewayPortIndex EXCEPT ![r] = udp]
  BY DEF RemovePackage
<1>2. ns \in Namespaces /\ KeyOf(pk)[1] = ns
  BY PackagesTyped DEF KeyOf
<1>3. /\ sso \in [Clients -> SUBSET Namespaces]
      /\ \A c \in Clients : sso[c] = IF c \in ClientsOf(pk) THEN ssoIndex[r][c] \ {ns} ELSE ssoIndex[r][c]
  <2>1. ssoIndex[r] \in [Clients -> SUBSET Namespaces]
    BY DEF StoreTyped
  <2>2. QED
    BY <2>1 DEF RemoveIndex
<1>4. /\ udp \in [Ports -> SUBSET Namespaces]
      /\ \A k \in Ports : udp[k] = IF k \in PortsOf(pk) THEN udpGatewayPortIndex[r][k] \ {ns}
                                   ELSE udpGatewayPortIndex[r][k]
  <2>1. udpGatewayPortIndex[r] \in [Ports -> SUBSET Namespaces]
    BY DEF StoreTyped
  <2>2. QED
    BY <2>1 DEF RemoveIndex
<1>5. MapTyped(new) /\ new \in [Namespaces -> Seq(Packages)]
  <2>1. MapTyped(map)
    BY DEF StoreTyped
  <2>2. QED
    BY <1>2, <2>1, DeletesPackage DEF MapTyped
<1> HIDE DEF sso, udp, new
<1>6. StoreTyped'
  BY <1>1, <1>3, <1>4, <1>5 DEF StoreTyped
<1>7. /\ \A q \in Replica \ {r} : /\ ssoIndex'[q] = ssoIndex[q]
                                  /\ udpGatewayPortIndex'[q] = udpGatewayPortIndex[q]
      /\ ssoIndex'[r] = sso /\ udpGatewayPortIndex'[r] = udp
  BY <1>1 DEF StoreTyped
<1>8. QED
  BY <1>1, <1>3, <1>4, <1>6, <1>7 DEF new

LEMMA EmptyTyped ==
  MapTyped(EmptyMap) /\ (\A S : EmptyIndex(S) \in [S -> SUBSET Namespaces])
<1>1. \A n \in Namespaces : EmptyMap[n] = <<>> /\ EmptyMap[n] \in Seq(Packages)
  BY DEF EmptyMap
<1>2. QED
  BY <1>1 DEF MapTyped, EmptyMap, EmptyIndex

(* The cluster changes at one key, or not at all.                          *)
LEMMA StepCluster ==
  ASSUME ClusterTyped,
         \/ \E r \in Replica, d \in Draft : Admit(r, d)
         \/ \E d \in Draft : Persist(d)
         \/ \E k \in Keys : MarkDeleted(k) \/ Finalized(k)
  PROVE  ClusterTyped'
<1>1. ASSUME NEW r \in Replica, NEW d \in Draft, Admit(r, d)
      PROVE  ClusterTyped'
  <2>1. races' \in 0..MaxRaces
    BY <1>1, RacesAssumption DEF Admit, ClusterTyped
  <2>2. approved' \subseteq Draft /\ UNCHANGED <<cluster, overtaken>>
    BY <1>1 DEF Admit, ClusterTyped
  <2>3. QED
    BY <2>1, <2>2 DEF ClusterTyped
<1>2. ASSUME NEW d \in Draft, Persist(d)
      PROVE  ClusterTyped'
  <2>1. /\ Submitted(d) \in Packages /\ KeyOf(Submitted(d)) = KeyOf(d) /\ KeyOf(d) \in Keys
        /\ Submitted(d) # None
    BY SubmittedTyped, SameKeys, PackagesTyped
  <2>2. /\ cluster' = [cluster EXCEPT ![KeyOf(d)] = Submitted(d)] /\ approved' = approved \ {d}
        /\ UNCHANGED <<races, overtaken>>
    BY <1>2 DEF Persist
  <2> DEFINE p == Submitted(d)
             k == KeyOf(d)
  <2> HIDE DEF p, k
  <2>3. p \in Packages /\ KeyOf(p) = k /\ k \in Keys /\ cluster' = [cluster EXCEPT ![k] = p]
    BY <2>1, <2>2 DEF p, k
  <2>4. QED
    BY <2>2, <2>3 DEF ClusterTyped
<1>3. ASSUME NEW k \in Keys, MarkDeleted(k)
      PROVE  ClusterTyped'
  <2> DEFINE p == [cluster[k] EXCEPT !.deleting = TRUE]
  <2>1. cluster[k] \in Packages /\ KeyOf(cluster[k]) = k
    BY <1>3 DEF MarkDeleted, ClusterTyped
  <2>2. p \in Packages /\ KeyOf(p) = k
    BY <2>1, MarkedTyped, SameKeys
  <2>3. cluster' = [cluster EXCEPT ![k] = p] /\ UNCHANGED <<approved, races, overtaken>>
    BY <1>3 DEF MarkDeleted
  <2> HIDE DEF p
  <2>4. QED
    BY <2>2, <2>3 DEF ClusterTyped
<1>4. ASSUME NEW k \in Keys, Finalized(k)
      PROVE  ClusterTyped'
  BY <1>4 DEF Finalized, ClusterTyped
<1>5. QED
  BY <1>1, <1>2, <1>3, <1>4

LEMMA StepTypes == TypeOK /\ [Next]_vars => TypeOK'
<1> SUFFICES ASSUME StoreTyped, ClusterTyped, [Next]_vars
             PROVE  StoreTyped' /\ ClusterTyped'
  BY DEF TypeOK
<1>1. ASSUME UNCHANGED storeVars
      PROVE  StoreTyped'
  BY <1>1 DEF storeVars, StoreTyped
<1>2. ASSUME NEW r \in Replica, NEW d \in Draft, Admit(r, d)
      PROVE  StoreTyped' /\ ClusterTyped'
  BY <1>1, <1>2, StepCluster DEF Admit, storeVars
<1>3. ASSUME NEW d \in Draft, Persist(d)
      PROVE  StoreTyped' /\ ClusterTyped'
  BY <1>1, <1>3, StepCluster DEF Persist, storeVars
<1>4. ASSUME NEW k \in Keys, MarkDeleted(k) \/ Finalized(k)
      PROVE  StoreTyped' /\ ClusterTyped'
  BY <1>1, <1>4, StepCluster DEF MarkDeleted, Finalized, storeVars
<1>5. ASSUME NEW r \in Replica, NEW k \in Keys, ProcessPackages(r, k)
      PROVE  StoreTyped' /\ ClusterTyped'
  <2>1. StoreTyped'
    <3>1. CASE cluster[k] # None
      <4>1. cluster[k] \in Packages /\ AddPackage(r, cluster[k])
        BY <1>5, <3>1 DEF ProcessPackages, ClusterTyped
      <4>2. QED
        BY <4>1, AddsPackage
    <3>2. CASE cluster[k] = None
      <4>1. SeenBy(r, k) \in Packages /\ RemovePackage(r, SeenBy(r, k))
        BY <1>5, <3>2, SeenTyped DEF ProcessPackages
      <4>2. QED
        BY <4>1, RemovesPackage
    <3>3. QED
      BY <3>1, <3>2
  <2>2. overtaken' \in BOOLEAN /\ UNCHANGED <<cluster, approved, races>>
    BY <1>5 DEF ProcessPackages, ClusterTyped, Overtakes
  <2>3. QED
    BY <2>1, <2>2 DEF ClusterTyped
<1>6. ASSUME NEW r \in Replica, StartPackageWatch(r)
      PROVE  StoreTyped' /\ ClusterTyped'
  <2>1. ClusterTyped'
    BY <1>6 DEF StartPackageWatch, ClusterTyped
  <2>2. StoreTyped'
    BY <1>6, EmptyTyped DEF StartPackageWatch, StoreTyped, MapTyped
  <2>3. QED
    BY <2>1, <2>2
<1>7. CASE UNCHANGED vars
  BY <1>1, <1>7 DEF vars, storeVars, ClusterTyped
<1>8. QED
  BY <1>2, <1>3, <1>4, <1>5, <1>6, <1>7 DEF Next

LEMMA InitTypes == Init => TypeOK
<1> SUFFICES ASSUME Init
             PROVE  StoreTyped /\ ClusterTyped
  BY DEF TypeOK
<1>1. ClusterTyped
  <2>1. \A k \in Keys : cluster[k] = None
    BY DEF Init
  <2>2. 0 \in 0..MaxRaces
    BY RacesAssumption
  <2>3. QED
    BY <2>1, <2>2 DEF Init, ClusterTyped
<1>2. EmptyMap \in [Namespaces -> Seq(Packages)] /\ MapTyped(EmptyMap)
  BY EmptyTyped DEF MapTyped
<1>3. /\ EmptyIndex(Clients) \in [Clients -> SUBSET Namespaces]
      /\ EmptyIndex(Ports) \in [Ports -> SUBSET Namespaces]
  BY EmptyTyped
<1>4. StoreTyped
  BY <1>2, <1>3 DEF Init, StoreTyped
<1>5. QED
  BY <1>1, <1>4

(* The cluster and the stores hold packages users submitted, each under    *)
(* its own key and no name twice in a namespace (TypeOK).                  *)
THEOREM TypeCorrect == Spec => []TypeOK
BY InitTypes, StepTypes, PTL DEF Spec

-----------------------------------------------------------------------------
(* What the webhook has checked of a package it lets pass.                 *)

(* Migration replaces deprecated fields and leaves the others as they are. *)
LEMMA MigratesExpose ==
  ASSUME NEW e \in Expose, NEW f, f = MigrateExpose(e)
  PROVE  /\ f.protocol = e.protocol /\ f.gateway = e.gateway /\ f.port = e.port
         /\ f.selector = e.selector /\ f.targetPort = e.targetPort
<1> DEFINE http == [match |-> e.match,
                    directResponse |-> e.advancedHTTP # None /\ e.advancedHTTP.directResponse]
<1>1. {"protocol", "gateway", "port", "selector", "targetPort"} \subseteq DOMAIN e
  BY DEF Expose
<1>2. CASE e.match = None
  BY <1>2 DEF MigrateExpose
<1>3. CASE e.match # None
  <2>1. f = [e EXCEPT !.match = None, !.advancedHTTP = http]
    BY <1>3, Zenon DEF MigrateExpose
  <2> HIDE DEF http
  <2>2. QED
    BY <1>1, <2>1
<1>4. QED
  BY <1>2, <1>3

LEMMA MigratesSecret ==
  ASSUME NEW s \in Sso
  PROVE  /\ MigrateSecret(s).clientId = s.clientId
         /\ MigrateSecret(s).enableAuthserviceSelector = s.enableAuthserviceSelector
<1> DEFINE f == MigrateSecret(s)
<1>1. {"clientId", "enableAuthserviceSelector"} \subseteq DOMAIN s
  BY DEF Sso
<1>2. \/ f = s
      \/ \E cfg, name : f = [s EXCEPT !.secretConfig = cfg, !.secretName = name, !.secretLabels = None,
                                      !.secretAnnotations = None, !.secretTemplate = None]
  BY Zenon DEF MigrateSecret
<1> HIDE DEF f
<1>3. CASE f = s
  BY <1>3 DEF f
<1>4. ASSUME NEW cfg, NEW name,
             f = [s EXCEPT !.secretConfig = cfg, !.secretName = name, !.secretLabels = None,
                           !.secretAnnotations = None, !.secretTemplate = None]
      PROVE  f.clientId = s.clientId /\ f.enableAuthserviceSelector = s.enableAuthserviceSelector
  BY <1>1, <1>4
<1>5. QED
  BY <1>2, <1>3, <1>4, Zenon DEF f

(* Migration keeps what packages are told apart by.                        *)
LEMMA MigratesPackage ==
  ASSUME NEW p \in Package, NEW new, new = Migrate(p)
  PROVE  /\ new.namespace = p.namespace /\ new.name = p.name /\ new.deleting = p.deleting
         /\ DOMAIN new.sso = DOMAIN p.sso /\ DOMAIN new.expose = DOMAIN p.expose
         /\ \A i \in DOMAIN p.sso : new.sso[i].clientId = p.sso[i].clientId
         /\ \A i \in DOMAIN p.expose : /\ new.expose[i].protocol = p.expose[i].protocol
                                       /\ new.expose[i].gateway = p.expose[i].gateway
                                       /\ new.expose[i].port = p.expose[i].port
<1> DEFINE es == Each(MigrateExpose, p.expose)
           as == Each(MigrateAllow, p.allow)
           ss == Each(MigrateSecret, p.sso)
<1>1. p.expose \in Seq(Expose) /\ p.sso \in Seq(Sso)
  BY DEF Package
<1>2. DOMAIN es = DOMAIN p.expose /\ \A i \in DOMAIN p.expose : es[i] = MigrateExpose(p.expose[i])
  BY <1>1 DEF Each
<1>3. DOMAIN ss = DOMAIN p.sso /\ \A i \in DOMAIN p.sso : ss[i] = MigrateSecret(p.sso[i])
  BY <1>1 DEF Each
<1>4. new = [p EXCEPT !.expose = es, !.allow = as, !.sso = ss]
  BY Zenon DEF Migrate
<1> HIDE DEF es, as, ss
<1>5. /\ new.namespace = p.namespace /\ new.name = p.name /\ new.deleting = p.deleting
      /\ new.expose = es /\ new.sso = ss
  BY <1>4 DEF Package
<1>6. \A i \in DOMAIN p.sso : new.sso[i].clientId = p.sso[i].clientId
  BY <1>1, <1>3, <1>5, MigratesSecret
<1>7. ASSUME NEW i \in DOMAIN p.expose
      PROVE  /\ new.expose[i].protocol = p.expose[i].protocol
             /\ new.expose[i].gateway = p.expose[i].gateway
             /\ new.expose[i].port = p.expose[i].port
  <2>1. p.expose[i] \in Expose /\ new.expose[i] = MigrateExpose(p.expose[i])
    BY <1>1, <1>2, <1>5
  <2>2. QED
    BY <2>1, MigratesExpose
<1>8. QED
  BY <1>2, <1>3, <1>5, <1>6, <1>7

LEMMA ValidatorChecks ==
  ASSUME NEW p \in Package, NEW existing, NEW clients, NEW ports,
         Validator(p, existing, clients, ports)
  PROVE  /\ existing # None /\ p.deleting = FALSE => existing = p.name
         /\ \A c \in ClientsOf(p) : ~TakenElsewhere(clients, c, p.namespace)
         /\ \A k \in PortsOf(p) : ~TakenElsewhere(ports, k, p.namespace)
<1> DEFINE new == Migrate(p)
<1>1. /\ NamespaceAllowed(new, existing) /\ ExposeAllowed(p, new, ports) /\ SsoAllowed(new, clients)
  BY DEF Validator
<1>2. /\ new.namespace = p.namespace /\ new.name = p.name /\ new.deleting = p.deleting
      /\ DOMAIN new.sso = DOMAIN p.sso /\ DOMAIN new.expose = DOMAIN p.expose
      /\ \A i \in DOMAIN p.sso : new.sso[i].clientId = p.sso[i].clientId
      /\ \A i \in DOMAIN p.expose : /\ new.expose[i].protocol = p.expose[i].protocol
                                    /\ new.expose[i].gateway = p.expose[i].gateway
                                    /\ new.expose[i].port = p.expose[i].port
  BY MigratesPackage
<1> HIDE DEF new
<1>3. existing # None /\ p.deleting = FALSE => existing = p.name
  BY <1>1, <1>2 DEF NamespaceAllowed
<1>4. ASSUME NEW c \in ClientsOf(p)
      PROVE  ~TakenElsewhere(clients, c, p.namespace)
  <2>1. PICK i \in DOMAIN p.sso : c = p.sso[i].clientId
    BY DEF ClientsOf
  <2>2. ~TakenElsewhere(clients, new.sso[i].clientId, new.namespace)
    BY <1>1, <1>2, <2>1 DEF SsoAllowed
  <2>3. QED
    BY <1>2, <2>1, <2>2
<1>5. ASSUME NEW k \in PortsOf(p)
      PROVE  ~TakenElsewhere(ports, k, p.namespace)
  <2>1. PICK i \in DOMAIN p.expose : /\ IsUDP(p.expose[i])
                                     /\ k = UDPGatewayPortKey(p.expose[i].gateway, p.expose[i].port)
    BY DEF PortsOf
  <2>2. IsUDP(new.expose[i]) /\ i \in DOMAIN new.expose
    BY <1>2, <2>1 DEF IsUDP
  <2>3. ~TakenElsewhere(ports, UDPGatewayPortKey(new.expose[i].gateway, new.expose[i].port),
                        new.namespace)
    BY <1>1, <2>2 DEF ExposeAllowed
  <2>4. QED
    BY <1>2, <2>1, <2>3
<1>6. QED
  BY <1>3, <1>4, <1>5

(* A store offers each package it lists under its own key.                 *)
LEMMA ListedIsSeen ==
  ASSUME StoreTyped, NEW r \in Replica, NEW n \in Namespaces,
         NEW i \in DOMAIN packageNamespaceMap[r][n],
         NEW x, x = packageNamespaceMap[r][n][i]
  PROVE  /\ x \in Packages /\ KeyOf(x) \in Keys /\ KeyOf(x)[1] = n
         /\ SeenBy(r, KeyOf(x)) = x
<1> DEFINE ps == packageNamespaceMap[r][n]
<1>1. /\ x \in Packages /\ x.namespace = n
      /\ \A j \in DOMAIN ps : ps[j].name = x.name => j = i
  BY DEF StoreTyped, MapTyped
<1>2. KeyOf(x) = <<n, x.name>> /\ KeyOf(x) \in Keys
  BY <1>1, PackagesTyped DEF KeyOf
<1>3. Existing(packageNamespaceMap[r], KeyOf(x)) = {i}
  BY <1>1, <1>2 DEF Existing
<1>4. SeenBy(r, KeyOf(x)) = x
  BY <1>2, <1>3 DEF SeenBy
<1>5. QED
  BY <1>1, <1>2, <1>4

-----------------------------------------------------------------------------
(* Approval keeps packages apart.                                          *)

LEMMA ApartSame ==
  ASSUME NEW p, NEW q, NEW p1, NEW q1, Apart(p, q), SameSpec(p1, p), SameSpec(q1, q)
  PROVE  Apart(p1, q1)
BY SameKeys DEF Apart, SameSpec

LEMMA ApprovesApart ==
  ASSUME StoreTyped, ClusterTyped, ClusterInv, StoreInv, Calm,
         NEW r \in Replica, UpToDate(r), NEW d \in Draft, Approves(r, Submitted(d)),
         NEW k \in Keys, k # KeyOf(d), cluster[k] # None
  PROVE  Apart(d, cluster[k])
<1> DEFINE p == Submitted(d)
           q == cluster[k]
           ns == p.namespace
           map == packageNamespaceMap[r]
<1>1. p \in Packages /\ SameSpec(p, d) /\ q \in Packages /\ KeyOf(q) = k
  BY SubmittedTyped DEF ClusterTyped
<1>2. /\ p \in Package /\ ns \in Namespaces /\ ClientsOf(p) \subseteq Clients /\ PortsOf(p) \subseteq Ports
      /\ q \in Package /\ q.namespace = k[1] /\ q.name = k[2] /\ k = <<k[1], k[2]>>
      /\ k[1] \in Namespaces
  BY <1>1, PackagesTyped, KeysTyped DEF KeyOf
<1>3. KeyOf(p) = KeyOf(d) /\ KeyOf(p) = <<ns, p.name>> /\ KeyOf(p) \in Keys
  BY <1>1, SameKeys, PackagesTyped DEF KeyOf
<1>4. SeenBy(r, k) = q
  BY DEF UpToDate
<1>5. PICK i \in DOMAIN map[k[1]] : map[k[1]][i] = q
  BY <1>4, SeenTyped
<1>6. map[k[1]] \in Seq(Packages) /\ Len(map[k[1]]) <= 1
  BY <1>2 DEF StoreTyped, StoreInv
<1>7. i = 1
  BY <1>5, <1>6
<1>8. /\ GetPkgName(r, ns) # None /\ p.deleting = FALSE => GetPkgName(r, ns) = p.name
      /\ \A c \in ClientsOf(p) :
           ~TakenElsewhere([x \in DOMAIN ssoIndex[r] |-> ssoIndex[r][x]], c, ns)
      /\ \A x \in PortsOf(p) :
           ~TakenElsewhere([y \in DOMAIN udpGatewayPortIndex[r] |-> udpGatewayPortIndex[r][y]], x, ns)
  BY <1>2, ValidatorChecks
     DEF Approves, FindPackagesWithSsoClientId, FindPackagesWithUdpGatewayPort
<1>9. \A l \in Keys : l # k /\ cluster[l] # None => Apart(cluster[l], q)
  BY DEF ClusterInv
<1>10. k[1] # ns
  <2> SUFFICES ASSUME k[1] = ns
               PROVE  FALSE
    OBVIOUS
  <2>1. GetPkgName(r, ns) = q.name
    BY <1>5, <1>6, <1>7 DEF GetPkgName
  <2>2. q.name # None
    BY <1>2, NoneAssumption DEF Package
  <2>3. CASE p.deleting = FALSE
    <3>1. q.name = p.name
      BY <1>8, <2>1, <2>2, <2>3
    <3>2. QED
      BY <1>2, <1>3, <3>1
  <2>4. CASE p.deleting # FALSE
    <3>1. cluster[KeyOf(d)] # None
      BY <1>1, <2>4, DraftAssumption DEF Submitted, Package
    <3>2. KeyOf(cluster[KeyOf(d)]) = KeyOf(d)
      BY <1>3, <3>1 DEF ClusterTyped
    <3>3. Apart(cluster[KeyOf(d)], q)
      BY <1>3, <1>9, <3>1
    <3>4. cluster[KeyOf(d)].namespace = ns
      BY <1>3, <3>2 DEF KeyOf
    <3>5. QED
      BY <1>2, <3>3, <3>4 DEF Apart
  <2>5. QED
    BY <2>3, <2>4
<1>11. ASSUME NEW c \in ClientsOf(p), c \in ClientsOf(q)
       PROVE  FALSE
  <2>1. c \in Clients /\ c \in DOMAIN ssoIndex[r]
    BY <1>2, <1>11 DEF StoreTyped
  <2>2. ssoIndex[r][c] = {n \in Namespaces : \E j \in DOMAIN map[n] : c \in ClientsOf(map[n][j])}
    BY <2>1 DEF StoreInv
  <2>3. k[1] \in ssoIndex[r][c]
    BY <1>2, <1>5, <1>11, <2>2
  <2>4. ns \in ssoIndex[r][c]
    BY <1>8, <1>11, <2>1, <2>3 DEF TakenElsewhere
  <2>5. PICK j \in DOMAIN map[ns] : c \in ClientsOf(map[ns][j])
    BY <2>2, <2>4
  <2> DEFINE x == map[ns][j]
  <2>6. KeyOf(x) \in Keys /\ KeyOf(x)[1] = ns /\ SeenBy(r, KeyOf(x)) = x /\ x # None
    BY <1>2, ListedIsSeen, PackagesTyped
  <2>7. cluster[KeyOf(x)] = x
    BY <2>6 DEF UpToDate
  <2>8. Apart(x, q)
    BY <1>9, <1>10, <2>6, <2>7
  <2>9. QED
    BY <1>11, <2>5, <2>8 DEF Apart
<1>12. ASSUME NEW c \in PortsOf(p), c \in PortsOf(q)
       PROVE  FALSE
  <2>1. c \in Ports /\ c \in DOMAIN udpGatewayPortIndex[r]
    BY <1>2, <1>12 DEF StoreTyped
  <2>2. udpGatewayPortIndex[r][c] =
          {n \in Namespaces : \E j \in DOMAIN map[n] : c \in PortsOf(map[n][j])}
    BY <2>1 DEF StoreInv
  <2>3. k[1] \in udpGatewayPortIndex[r][c]
    BY <1>2, <1>5, <1>12, <2>2
  <2>4. ns \in udpGatewayPortIndex[r][c]
    BY <1>8, <1>12, <2>1, <2>3 DEF TakenElsewhere
  <2>5. PICK j \in DOMAIN map[ns] : c \in PortsOf(map[ns][j])
    BY <2>2, <2>4
  <2> DEFINE x == map[ns][j]
  <2>6. KeyOf(x) \in Keys /\ KeyOf(x)[1] = ns /\ SeenBy(r, KeyOf(x)) = x /\ x # None
    BY <1>2, ListedIsSeen, PackagesTyped
  <2>7. cluster[KeyOf(x)] = x
    BY <2>6 DEF UpToDate
  <2>8. Apart(x, q)
    BY <1>9, <1>10, <2>6, <2>7
  <2>9. QED
    BY <1>12, <2>5, <2>8 DEF Apart
<1>13. Apart(p, q)
  BY <1>2, <1>10, <1>11, <1>12 DEF Apart
<1>14. SameSpec(d, p) /\ SameSpec(q, q)
  BY <1>1 DEF SameSpec
<1>15. QED
  BY <1>13, <1>14, ApartSame

LEMMA StepClusterInv == TypeOK /\ ClusterInv /\ StoreInv /\ [Next]_vars => ClusterInv'
<1> SUFFICES ASSUME StoreTyped, ClusterTyped, ClusterInv, StoreInv, [Next]_vars, Calm'
             PROVE  /\ \A k, l \in Keys : k # l /\ cluster'[k] # None /\ cluster'[l] # None
                         => Apart(cluster'[k], cluster'[l])
                    /\ \A p \in approved' :
                         /\ approved' = {p}
                         /\ \A k \in Keys \ {KeyOf(p)} : cluster'[k] # None => Apart(p, cluster'[k])
  BY DEF ClusterInv, TypeOK
<1>1. ASSUME UNCHANGED <<cluster, approved>>, Calm
      PROVE  /\ \A k, l \in Keys : k # l /\ cluster'[k] # None /\ cluster'[l] # None
                  => Apart(cluster'[k], cluster'[l])
             /\ \A p \in approved' :
                  /\ approved' = {p}
                  /\ \A k \in Keys \ {KeyOf(p)} : cluster'[k] # None => Apart(p, cluster'[k])
  BY <1>1 DEF ClusterInv
<1>2. ASSUME NEW r \in Replica, NEW d \in Draft, Admit(r, d)
      PROVE  /\ \A k, l \in Keys : k # l /\ cluster'[k] # None /\ cluster'[l] # None
                  => Apart(cluster'[k], cluster'[l])
             /\ \A p \in approved' :
                  /\ approved' = {p}
                  /\ \A k \in Keys \ {KeyOf(p)} : cluster'[k] # None => Apart(p, cluster'[k])
  <2>1. races \in Nat /\ races' = 0 /\ ~overtaken' /\ overtaken' = overtaken
    BY <1>2, RacesAssumption DEF Calm, ClusterTyped, Admit
  <2>2. races' = IF ~UpToDate(r) \/ approved # {} THEN races + 1 ELSE races
    BY <1>2 DEF Admit
  <2>3. Calm /\ UpToDate(r) /\ approved = {}
    BY <2>1, <2>2 DEF Calm
  <2>4. approved' = {d} /\ cluster' = cluster
    BY <1>2, <2>3 DEF Admit
  <2>5. Approves(r, Submitted(d))
    BY <1>2 DEF Admit
  <2>6. \A k \in Keys : k # KeyOf(d) /\ cluster[k] # None => Apart(d, cluster[k])
    BY <2>3, <2>5, ApprovesApart
  <2>7. QED
    BY <2>3, <2>4, <2>6 DEF ClusterInv
<1>3. ASSUME NEW d \in Draft, Persist(d)
      PROVE  /\ \A k, l \in Keys : k # l /\ cluster'[k] # None /\ cluster'[l] # None
                  => Apart(cluster'[k], cluster'[l])
             /\ \A p \in approved' :
                  /\ approved' = {p}
                  /\ \A k \in Keys \ {KeyOf(p)} : cluster'[k] # None => Apart(p, cluster'[k])
  <2>1. Calm
    BY <1>3 DEF Persist, Calm
  <2>2. approved = {d} /\ \A k \in Keys \ {KeyOf(d)} : cluster[k] # None => Apart(d, cluster[k])
    BY <1>3, <2>1 DEF Persist, ClusterInv
  <2>3. approved' = {}
    BY <1>3, <2>2 DEF Persist
  <2> DEFINE p == Submitted(d)
             m == KeyOf(d)
  <2>4. cluster' = [cluster EXCEPT ![m] = p] /\ SameSpec(p, d)
    BY <1>3, SubmittedTyped DEF Persist
  <2> HIDE DEF p, m
  <2>5. \A k \in Keys : cluster'[k] = IF k = m THEN p ELSE cluster[k]
    BY <2>4 DEF ClusterTyped
  <2>6. \A k \in Keys \ {m} : cluster[k] # None => Apart(p, cluster[k]) /\ Apart(cluster[k], p)
    <3>1. ASSUME NEW k \in Keys \ {m}, cluster[k] # None
          PROVE  Apart(p, cluster[k]) /\ Apart(cluster[k], p)
      <4>1. Apart(d, cluster[k]) /\ SameSpec(cluster[k], cluster[k])
        BY <2>2, <3>1 DEF m, SameSpec
      <4>2. Apart(p, cluster[k])
        BY <2>4, <4>1, ApartSame
      <4>3. QED
        BY <4>2 DEF Apart
    <3>2. QED
      BY <3>1
  <2>7. \A k, l \in Keys : k # l /\ cluster[k] # None /\ cluster[l] # None => Apart(cluster[k], cluster[l])
    BY <2>1 DEF ClusterInv
  <2>8. QED
    BY <2>3, <2>5, <2>6, <2>7
<1>4. ASSUME NEW m \in Keys, MarkDeleted(m) \/ Finalized(m)
      PROVE  /\ \A k, l \in Keys : k # l /\ cluster'[k] # None /\ cluster'[l] # None
                  => Apart(cluster'[k], cluster'[l])
             /\ \A p \in approved' :
                  /\ approved' = {p}
                  /\ \A k \in Keys \ {KeyOf(p)} : cluster'[k] # None => Apart(p, cluster'[k])
  <2>1. Calm /\ approved' = approved
    BY <1>4 DEF MarkDeleted, Finalized, Calm
  <2>2. ASSUME NEW k \in Keys, cluster'[k] # None
        PROVE  cluster[k] # None /\ SameSpec(cluster'[k], cluster[k])
    <3>1. CASE k # m
      <4>1. cluster'[k] = cluster[k]
        BY <1>4, <3>1 DEF MarkDeleted, Finalized, ClusterTyped
      <4>2. QED
        BY <2>2, <4>1 DEF SameSpec
    <3>2. CASE k = m
      <4>1. cluster'[m] = None \/ MarkDeleted(m)
        BY <1>4 DEF Finalized, ClusterTyped
      <4>2. /\ cluster[m] # None /\ cluster[m] \in Packages
            /\ cluster'[m] = [cluster[m] EXCEPT !.deleting = TRUE]
        BY <2>2, <3>2, <4>1 DEF MarkDeleted, ClusterTyped
      <4>3. QED
        BY <3>2, <4>2, MarkedTyped
    <3>3. QED
      BY <3>1, <3>2
  <2>3. \A k, l \in Keys : k # l /\ cluster[k] # None /\ cluster[l] # None => Apart(cluster[k], cluster[l])
    BY <2>1 DEF ClusterInv
  <2>4. ASSUME NEW p \in approved
        PROVE  approved = {p} /\ \A k \in Keys \ {KeyOf(p)} : cluster'[k] # None => Apart(p, cluster'[k])
    <3>1. approved = {p} /\ \A k \in Keys \ {KeyOf(p)} : cluster[k] # None => Apart(p, cluster[k])
      BY <2>1 DEF ClusterInv
    <3>2. SameSpec(p, p)
      BY DEF SameSpec
    <3>3. QED
      BY <2>2, <3>1, <3>2, ApartSame
  <2>5. \A k, l \in Keys : k # l /\ cluster'[k] # None /\ cluster'[l] # None => Apart(cluster'[k], cluster'[l])
    BY <2>2, <2>3, ApartSame
  <2>6. QED
    BY <2>1, <2>4, <2>5
<1>5. ASSUME NEW r \in Replica, NEW k \in Keys, ProcessPackages(r, k)
      PROVE  UNCHANGED <<cluster, approved>> /\ Calm
  BY <1>5 DEF ProcessPackages, Calm, ClusterTyped, Overtakes
<1>6. ASSUME NEW r \in Replica, StartPackageWatch(r)
      PROVE  UNCHANGED <<cluster, approved>> /\ Calm
  BY <1>6 DEF StartPackageWatch, Calm
<1>7. CASE UNCHANGED vars
  <2>1. UNCHANGED <<cluster, approved>> /\ Calm
    BY <1>7 DEF vars, Calm
  <2>2. QED
    BY <1>1, <2>1
<1>8. QED
  BY <1>1, <1>2, <1>3, <1>4, <1>5, <1>6, <1>7 DEF Next

-----------------------------------------------------------------------------
(* The stores follow.                                                      *)

(* The store of one replica lists one package of each namespace and        *)
(* answers from exactly those.                                             *)
Faithful(map, sso, udp) ==
  /\ \A n \in Namespaces : Len(map[n]) <= 1
  /\ \A c \in Clients : sso[c] =
       {n \in Namespaces : \E i \in DOMAIN map[n] : c \in ClientsOf(map[n][i])}
  /\ \A k \in Ports : udp[k] =
       {n \in Namespaces : \E i \in DOMAIN map[n] : k \in PortsOf(map[n][i])}

LEMMA FaithfulStores ==
  StoreInv = (Calm => \A r \in Replica :
                Faithful(packageNamespaceMap[r], ssoIndex[r], udpGatewayPortIndex[r]))
BY DEF StoreInv, Faithful

(* A package that took no other's place is, once added, the one package of *)
(* its namespace.                                                          *)
LEMMA AddsFaithfully ==
  ASSUME StoreTyped, ClusterTyped, ClusterInv, Calm,
         NEW r \in Replica, NEW k \in Keys, cluster[k] # None, ~Overtakes(r, k),
         Faithful(packageNamespaceMap[r], ssoIndex[r], udpGatewayPortIndex[r]),
         AddPackage(r, cluster[k])
  PROVE  Faithful(packageNamespaceMap'[r], ssoIndex'[r], udpGatewayPortIndex'[r])
<1> DEFINE pk == cluster[k]
           ns == pk.namespace
           map == packageNamespaceMap[r]
           new == packageNamespaceMap'[r]
<1>1. pk \in Packages /\ KeyOf(pk) = k /\ ns = k[1] /\ ns \in Namespaces
  BY PackagesTyped DEF ClusterTyped, KeyOf
<1>2. \A l \in Keys : l # k /\ cluster[l] # None => Apart(cluster[l], pk)
  BY DEF ClusterInv
<1>3. ASSUME NEW i \in DOMAIN map[ns]
      PROVE  map[ns][i].name = pk.name
  <2> DEFINE x == map[ns][i]
  <2>1. KeyOf(x) \in Keys /\ KeyOf(x) = <<ns, x.name>>
    <3>1. KeyOf(x) \in Keys /\ KeyOf(x)[1] = ns
      BY <1>1, ListedIsSeen
    <3>2. QED
      BY <3>1 DEF KeyOf
  <2>2. cluster[KeyOf(x)] # None
    BY <1>1, <1>3 DEF Overtakes
  <2>3. KeyOf(cluster[KeyOf(x)]) = KeyOf(x)
    BY <2>1, <2>2 DEF ClusterTyped
  <2>4. cluster[KeyOf(x)].namespace = ns
    BY <2>1, <2>3 DEF KeyOf
  <2>5. KeyOf(x) = k
    BY <1>2, <2>1, <2>2, <2>4 DEF Apart
  <2>6. KeyOf(pk) = <<ns, pk.name>>
    BY DEF KeyOf
  <2>7. QED
    BY <1>1, <2>1, <2>5, <2>6
<1>4. MapTyped(map)
  BY DEF StoreTyped
<1>5. new = SetPackage(map, pk)
  BY <1>1, AddsPackage DEF StoreTyped
<1>6. new[ns] = <<pk>> /\ \A n \in Namespaces \ {ns} : new[n] = map[n]
  <2>1. ns = pk.namespace
    OBVIOUS
  <2> HIDE DEF pk, ns, map, new
  <2>2. /\ \A n \in Namespaces \ {ns} : SetPackage(map, pk)[n] = map[n]
        /\ (\A i \in DOMAIN map[ns] : map[ns][i].name = pk.name) => SetPackage(map, pk)[ns] = <<pk>>
    BY <1>1, <1>4, <2>1, SetsPackage
  <2>3. QED
    BY <1>3, <1>5, <2>2
<1>7. Existing(map, KeyOf(pk)) = DOMAIN map[ns]
  BY <1>3 DEF Existing, KeyOf
<1>8. \A c \in Clients : ssoIndex'[r][c] =
        IF c \in ClientsOf(pk) THEN ssoIndex[r][c] \cup {ns}
        ELSE IF \E i \in DOMAIN map[ns] : c \in ClientsOf(map[ns][i])
             THEN ssoIndex[r][c] \ {ns} ELSE ssoIndex[r][c]
  <2>1. ns = pk.namespace /\ map = packageNamespaceMap[r] /\ AddPackage(r, pk)
    OBVIOUS
  <2> HIDE DEF pk, ns, map, new
  <2>2. \A c \in Clients : ssoIndex'[r][c] =
          IF c \in ClientsOf(pk) THEN ssoIndex[r][c] \cup {ns}
          ELSE IF \E i \in Existing(map, KeyOf(pk)) : c \in ClientsOf(map[ns][i])
               THEN ssoIndex[r][c] \ {ns} ELSE ssoIndex[r][c]
    <3>1. \A x \in Clients : ssoIndex'[r][x] =
            IF x \in ClientsOf(pk) THEN ssoIndex[r][x] \cup {pk.namespace}
            ELSE IF \E i \in Existing(packageNamespaceMap[r], KeyOf(pk)) :
                      x \in ClientsOf(packageNamespaceMap[r][pk.namespace][i])
                 THEN ssoIndex[r][x] \ {pk.namespace} ELSE ssoIndex[r][x]
      BY <1>1, <2>1, AddsPackage, Zenon
    <3>2. QED
      BY <2>1, <3>1
  <2>3. QED
    BY <1>7, <2>2
<1>9. \A c \in Ports : udpGatewayPortIndex'[r][c] =
        IF c \in PortsOf(pk) THEN udpGatewayPortIndex[r][c] \cup {ns}
        ELSE IF \E i \in DOMAIN map[ns] : c \in PortsOf(map[ns][i])
             THEN udpGatewayPortIndex[r][c] \ {ns} ELSE udpGatewayPortIndex[r][c]
  <2>1. ns = pk.namespace /\ map = packageNamespaceMap[r] /\ AddPackage(r, pk)
    OBVIOUS
  <2> HIDE DEF pk, ns, map, new
  <2>2. \A c \in Ports : udpGatewayPortIndex'[r][c] =
          IF c \in PortsOf(pk) THEN udpGatewayPortIndex[r][c] \cup {ns}
          ELSE IF \E i \in Existing(map, KeyOf(pk)) : c \in PortsOf(map[ns][i])
               THEN udpGatewayPortIndex[r][c] \ {ns} ELSE udpGatewayPortIndex[r][c]
    <3>1. \A x \in Ports : udpGatewayPortIndex'[r][x] =
            IF x \in PortsOf(pk) THEN udpGatewayPortIndex[r][x] \cup {pk.namespace}
            ELSE IF \E i \in Existing(packageNamespaceMap[r], KeyOf(pk)) :
                      x \in PortsOf(packageNamespaceMap[r][pk.namespace][i])
                 THEN udpGatewayPortIndex[r][x] \ {pk.namespace} ELSE udpGatewayPortIndex[r][x]
      BY <1>1, <2>1, AddsPackage, Zenon
    <3>2. QED
      BY <2>1, <3>1
  <2>3. QED
    BY <1>7, <2>2
<1> HIDE DEF pk, ns, map, new
<1>10. \A i : i \in DOMAIN new[ns] <=> i = 1
  BY <1>6
<1>11. new[ns][1] = pk /\ Len(new[ns]) = 1
  BY <1>6
<1>12. Faithful(map, ssoIndex[r], udpGatewayPortIndex[r])
  BY DEF map
<1>13. ASSUME NEW n \in Namespaces
       PROVE  Len(new[n]) <= 1
  <2>1. n # ns => new[n] = map[n] /\ Len(map[n]) <= 1
    BY <1>6, <1>12 DEF Faithful
  <2>2. CASE n = ns
    <3>1. Len(new[n]) = 1
      BY <1>11, <2>2
    <3>2. QED
      BY <3>1
  <2>3. QED
    BY <2>1, <2>2
<1>14. ASSUME NEW c \in Clients
       PROVE  ssoIndex'[r][c] =
                {n \in Namespaces : \E i \in DOMAIN new[n] : c \in ClientsOf(new[n][i])}
  <2>1. ssoIndex[r][c] = {n \in Namespaces : \E i \in DOMAIN map[n] : c \in ClientsOf(map[n][i])}
    BY <1>12 DEF Faithful
  <2>2. (\E i \in DOMAIN new[ns] : c \in ClientsOf(new[ns][i])) <=> c \in ClientsOf(pk)
    BY <1>10, <1>11
  <2>3. ssoIndex'[r][c] =
          IF c \in ClientsOf(pk) THEN ssoIndex[r][c] \cup {ns}
          ELSE IF \E i \in DOMAIN map[ns] : c \in ClientsOf(map[ns][i])
               THEN ssoIndex[r][c] \ {ns} ELSE ssoIndex[r][c]
    BY <1>8
  <2>4. ns \in ssoIndex'[r][c] <=> c \in ClientsOf(pk)
    BY <1>1, <2>1, <2>3
  <2>5. \A n : n # ns => (n \in ssoIndex'[r][c] <=> n \in ssoIndex[r][c])
    BY <2>3
  <2>6. \A n \in Namespaces : n \in ssoIndex'[r][c] <=> \E i \in DOMAIN new[n] : c \in ClientsOf(new[n][i])
    BY <1>6, <2>1, <2>2, <2>4, <2>5
  <2>7. ssoIndex'[r][c] \subseteq Namespaces
    BY <1>1, <2>1, <2>5
  <2>8. QED
    BY <2>6, <2>7
<1>15. ASSUME NEW c \in Ports
       PROVE  udpGatewayPortIndex'[r][c] =
                {n \in Namespaces : \E i \in DOMAIN new[n] : c \in PortsOf(new[n][i])}
  <2>1. udpGatewayPortIndex[r][c] =
          {n \in Namespaces : \E i \in DOMAIN map[n] : c \in PortsOf(map[n][i])}
    BY <1>12 DEF Faithful
  <2>2. (\E i \in DOMAIN new[ns] : c \in PortsOf(new[ns][i])) <=> c \in PortsOf(pk)
    BY <1>10, <1>11
  <2>3. udpGatewayPortIndex'[r][c] =
          IF c \in PortsOf(pk) THEN udpGatewayPortIndex[r][c] \cup {ns}
          ELSE IF \E i \in DOMAIN map[ns] : c \in PortsOf(map[ns][i])
               THEN udpGatewayPortIndex[r][c] \ {ns} ELSE udpGatewayPortIndex[r][c]
    BY <1>9
  <2>4. ns \in udpGatewayPortIndex'[r][c] <=> c \in PortsOf(pk)
    BY <1>1, <2>1, <2>3
  <2>5. \A n : n # ns => (n \in udpGatewayPortIndex'[r][c] <=> n \in udpGatewayPortIndex[r][c])
    BY <2>3
  <2>6. \A n \in Namespaces : n \in udpGatewayPortIndex'[r][c] <=> \E i \in DOMAIN new[n] : c \in PortsOf(new[n][i])
    BY <1>6, <2>1, <2>2, <2>4, <2>5
  <2>7. udpGatewayPortIndex'[r][c] \subseteq Namespaces
    BY <1>1, <2>1, <2>5
  <2>8. QED
    BY <2>6, <2>7
<1>16. Faithful(new, ssoIndex'[r], udpGatewayPortIndex'[r])
  BY <1>13, <1>14, <1>15 DEF Faithful
<1>17. QED
  BY <1>16 DEF new

LEMMA RemovesFaithfully ==
  ASSUME StoreTyped, NEW r \in Replica, NEW k \in Keys, SeenBy(r, k) # None,
         Faithful(packageNamespaceMap[r], ssoIndex[r], udpGatewayPortIndex[r]),
         RemovePackage(r, SeenBy(r, k))
  PROVE  Faithful(packageNamespaceMap'[r], ssoIndex'[r], udpGatewayPortIndex'[r])
<1> DEFINE pk == SeenBy(r, k)
           ns == pk.namespace
           map == packageNamespaceMap[r]
           new == packageNamespaceMap'[r]
<1>1. /\ pk \in Packages /\ KeyOf(pk) = k /\ Existing(map, k) # {}
      /\ \E i \in DOMAIN map[k[1]] : map[k[1]][i] = pk
  BY SeenTyped
<1>2. ns = k[1] /\ ns \in Namespaces /\ KeyOf(pk)[1] = ns
  BY <1>1, PackagesTyped DEF KeyOf
<1>3. MapTyped(map) /\ map[ns] \in Seq(Packages) /\ Len(map[ns]) <= 1
  BY <1>2 DEF StoreTyped, MapTyped, Faithful
<1>4. new = DeletePackage(map, KeyOf(pk))
  <2>1. packageNamespaceMap' = [packageNamespaceMap EXCEPT ![r] = DeletePackage(map, KeyOf(pk))]
    BY <1>1, RemovesPackage
  <2>2. QED
    BY <2>1 DEF StoreTyped
<1>5. new[ns] = <<>> /\ \A n \in Namespaces \ {ns} : new[n] = map[n]
  BY <1>1, <1>2, <1>3, <1>4, DeletesPackage
<1>6. PICK i \in DOMAIN map[ns] : map[ns][i] = pk
  BY <1>1, <1>2
<1>7. \A j \in DOMAIN map[ns] : map[ns][j] = pk
  BY <1>3, <1>6
<1>8. \A c \in Clients : ssoIndex'[r][c] =
        IF c \in ClientsOf(pk) THEN ssoIndex[r][c] \ {ns} ELSE ssoIndex[r][c]
  BY <1>1, RemovesPackage
<1>9. \A c \in Ports : udpGatewayPortIndex'[r][c] =
        IF c \in PortsOf(pk) THEN udpGatewayPortIndex[r][c] \ {ns} ELSE udpGatewayPortIndex[r][c]
  BY <1>1, RemovesPackage
<1> HIDE DEF pk, ns, map, new
<1>10. \A j : j \notin DOMAIN new[ns]
  BY <1>5
<1>11. Len(new[ns]) = 0
  BY <1>5
<1>12. Faithful(map, ssoIndex[r], udpGatewayPortIndex[r])
  BY DEF map
<1>13. \A n \in Namespaces : Len(new[n]) <= 1
  BY <1>5, <1>11, <1>12 DEF Faithful
<1>14. ASSUME NEW c \in Clients
       PROVE  ssoIndex'[r][c] =
                {n \in Namespaces : \E j \in DOMAIN new[n] : c \in ClientsOf(new[n][j])}
  <2>1. ssoIndex[r][c] = {n \in Namespaces : \E j \in DOMAIN map[n] : c \in ClientsOf(map[n][j])}
    BY <1>12 DEF Faithful
  <2>2. (\E j \in DOMAIN map[ns] : c \in ClientsOf(map[ns][j])) <=> c \in ClientsOf(pk)
    BY <1>6, <1>7
  <2>3. ssoIndex'[r][c] = ssoIndex[r][c] \ {ns}
    <3>1. CASE c \in ClientsOf(pk)
      BY <1>8, <3>1
    <3>2. CASE c \notin ClientsOf(pk)
      BY <1>8, <2>1, <2>2, <3>2
    <3>3. QED
      BY <3>1, <3>2
  <2>4. \A n \in Namespaces :
          (\E j \in DOMAIN new[n] : c \in ClientsOf(new[n][j]))
            <=> n # ns /\ \E j \in DOMAIN map[n] : c \in ClientsOf(map[n][j])
    BY <1>5, <1>10
  <2>5. QED
    BY <2>1, <2>3, <2>4
<1>15. ASSUME NEW c \in Ports
       PROVE  udpGatewayPortIndex'[r][c] =
                {n \in Namespaces : \E j \in DOMAIN new[n] : c \in PortsOf(new[n][j])}
  <2>1. udpGatewayPortIndex[r][c] =
          {n \in Namespaces : \E j \in DOMAIN map[n] : c \in PortsOf(map[n][j])}
    BY <1>12 DEF Faithful
  <2>2. (\E j \in DOMAIN map[ns] : c \in PortsOf(map[ns][j])) <=> c \in PortsOf(pk)
    BY <1>6, <1>7
  <2>3. udpGatewayPortIndex'[r][c] = udpGatewayPortIndex[r][c] \ {ns}
    <3>1. CASE c \in PortsOf(pk)
      BY <1>9, <3>1
    <3>2. CASE c \notin PortsOf(pk)
      BY <1>9, <2>1, <2>2, <3>2
    <3>3. QED
      BY <3>1, <3>2
  <2>4. \A n \in Namespaces :
          (\E j \in DOMAIN new[n] : c \in PortsOf(new[n][j]))
            <=> n # ns /\ \E j \in DOMAIN map[n] : c \in PortsOf(map[n][j])
    BY <1>5, <1>10
  <2>5. QED
    BY <2>1, <2>3, <2>4
<1>16. Faithful(new, ssoIndex'[r], udpGatewayPortIndex'[r])
  BY <1>13, <1>14, <1>15 DEF Faithful
<1>17. QED
  BY <1>16 DEF new

LEMMA StartsFaithfully == Faithful(EmptyMap, EmptyIndex(Clients), EmptyIndex(Ports))
<1>1. \A n \in Namespaces : Len(EmptyMap[n]) = 0 /\ DOMAIN EmptyMap[n] = {}
  BY DEF EmptyMap
<1>2. /\ \A c \in Clients : EmptyIndex(Clients)[c] = {}
      /\ \A k \in Ports : EmptyIndex(Ports)[k] = {}
  BY DEF EmptyIndex
<1>3. QED
  BY <1>1, <1>2 DEF Faithful

LEMMA StepStoreInv == TypeOK /\ ClusterInv /\ StoreInv /\ [Next]_vars => StoreInv'
<1> SUFFICES ASSUME StoreTyped, ClusterTyped, ClusterInv, StoreInv, [Next]_vars, Calm'
             PROVE  \A q \in Replica :
                      Faithful(packageNamespaceMap'[q], ssoIndex'[q], udpGatewayPortIndex'[q])
  BY DEF StoreInv, TypeOK, Faithful
<1>1. Calm => \A q \in Replica :
        Faithful(packageNamespaceMap[q], ssoIndex[q], udpGatewayPortIndex[q])
  BY FaithfulStores
<1>2. ASSUME UNCHANGED storeVars, Calm
      PROVE  \A q \in Replica :
               Faithful(packageNamespaceMap'[q], ssoIndex'[q], udpGatewayPortIndex'[q])
  BY <1>1, <1>2 DEF storeVars
<1>3. ASSUME NEW r \in Replica, NEW d \in Draft, Admit(r, d)
      PROVE  UNCHANGED storeVars /\ Calm
  <2>1. races \in Nat /\ races' = 0 /\ races' \in {races, races + 1} /\ ~overtaken
    BY <1>3, RacesAssumption DEF Admit, Calm, ClusterTyped
  <2>2. QED
    BY <1>3, <2>1 DEF Admit, Calm
<1>4. ASSUME NEW d \in Draft, Persist(d)
      PROVE  UNCHANGED storeVars /\ Calm
  BY <1>4 DEF Persist, Calm
<1>5. ASSUME NEW k \in Keys, MarkDeleted(k) \/ Finalized(k)
      PROVE  UNCHANGED storeVars /\ Calm
  BY <1>5 DEF MarkDeleted, Finalized, Calm
<1>6. ASSUME NEW r \in Replica, NEW k \in Keys, ProcessPackages(r, k)
      PROVE  \A q \in Replica :
               Faithful(packageNamespaceMap'[q], ssoIndex'[q], udpGatewayPortIndex'[q])
  <2>1. Calm /\ ~Overtakes(r, k)
    BY <1>6 DEF ProcessPackages, Calm
  <2>2. CASE cluster[k] # None
    <3>1. cluster[k] \in Packages /\ AddPackage(r, cluster[k])
      BY <1>6, <2>2 DEF ProcessPackages, ClusterTyped
    <3>2. Faithful(packageNamespaceMap'[r], ssoIndex'[r], udpGatewayPortIndex'[r])
      BY <1>1, <2>1, <2>2, <3>1, AddsFaithfully
    <3>3. ASSUME NEW q \in Replica \ {r}
          PROVE  /\ packageNamespaceMap'[q] = packageNamespaceMap[q] /\ ssoIndex'[q] = ssoIndex[q]
                 /\ udpGatewayPortIndex'[q] = udpGatewayPortIndex[q]
      BY <3>1, AddsPackage DEF StoreTyped
    <3>4. QED
      BY <1>1, <2>1, <3>2, <3>3
  <2>3. CASE cluster[k] = None
    <3>1. SeenBy(r, k) # None /\ RemovePackage(r, SeenBy(r, k))
      BY <1>6, <2>3 DEF ProcessPackages
    <3>2. Faithful(packageNamespaceMap'[r], ssoIndex'[r], udpGatewayPortIndex'[r])
      BY <1>1, <2>1, <3>1, RemovesFaithfully
    <3>3. SeenBy(r, k) \in Packages
      BY <3>1, SeenTyped
    <3>4. ASSUME NEW q \in Replica \ {r}
          PROVE  /\ packageNamespaceMap'[q] = packageNamespaceMap[q] /\ ssoIndex'[q] = ssoIndex[q]
                 /\ udpGatewayPortIndex'[q] = udpGatewayPortIndex[q]
      BY <3>1, <3>3, RemovesPackage DEF StoreTyped
    <3>5. QED
      BY <1>1, <2>1, <3>2, <3>4
  <2>4. QED
    BY <2>2, <2>3
<1>7. ASSUME NEW r \in Replica, StartPackageWatch(r)
      PROVE  \A q \in Replica :
               Faithful(packageNamespaceMap'[q], ssoIndex'[q], udpGatewayPortIndex'[q])
  <2>1. Calm
    BY <1>7 DEF StartPackageWatch, Calm
  <2>2. /\ packageNamespaceMap' = [packageNamespaceMap EXCEPT ![r] = EmptyMap]
        /\ ssoIndex' = [ssoIndex EXCEPT ![r] = EmptyIndex(Clients)]
        /\ udpGatewayPortIndex' = [udpGatewayPortIndex EXCEPT ![r] = EmptyIndex(Ports)]
    BY <1>7 DEF StartPackageWatch
  <2>3. QED
    BY <1>1, <2>1, <2>2, StartsFaithfully DEF StoreTyped
<1>8. CASE UNCHANGED vars
  <2>1. UNCHANGED storeVars /\ Calm
    BY <1>8 DEF vars, storeVars, Calm
  <2>2. QED
    BY <1>2, <2>1
<1>9. QED
  BY <1>2, <1>3, <1>4, <1>5, <1>6, <1>7, <1>8 DEF Next

LEMMA AlwaysFaithful == Spec => [](TypeOK /\ ClusterInv /\ StoreInv)
<1>1. Init => TypeOK /\ ClusterInv /\ StoreInv
  <2> SUFFICES ASSUME Init
               PROVE  ClusterInv /\ StoreInv
    BY InitTypes
  <2>1. ClusterInv
    BY DEF Init, ClusterInv
  <2>2. ASSUME NEW r \in Replica
        PROVE  Faithful(packageNamespaceMap[r], ssoIndex[r], udpGatewayPortIndex[r])
    BY StartsFaithfully DEF Init
  <2>3. QED
    BY <2>1, <2>2, FaithfulStores
<1>2. QED
  BY <1>1, StepTypes, StepClusterInv, StepStoreInv, PTL DEF Spec

(* One package owns a namespace, a client id, a UDP gateway port           *)
(* (OneOwner): the checks replicas make one package at a time, each from   *)
(* its own store, add up to uniqueness over the whole cluster.             *)
THEOREM PackagesStayApart == Spec => []OneOwner
<1>1. TypeOK /\ ClusterInv => OneOwner
  <2> SUFFICES ASSUME ClusterTyped, ClusterInv, Calm, NEW p \in Live, NEW q \in Live, p # q
               PROVE  Apart(p, q)
    BY DEF OneOwner, Exclusive, TypeOK, Calm, Apart
  <2>1. PICK k \in Keys : p = cluster[k] /\ p # None
    BY DEF Live
  <2>2. PICK l \in Keys : q = cluster[l] /\ q # None
    BY DEF Live
  <2>3. QED
    BY <2>1, <2>2 DEF ClusterInv
<1>2. QED
  BY <1>1, AlwaysFaithful, PTL

(* The answers of a store (IndexesMatchMap) are those of the packages it   *)
(* lists, whatever was added, changed, removed and listed anew.            *)
THEOREM AnswersMatchMap == Spec => []IndexesMatchMap
<1>1. TypeOK /\ StoreInv => IndexesMatchMap
  <2> SUFFICES ASSUME StoreTyped, StoreInv, Calm, NEW r \in Replica,
                      NEW seen,
                      seen = UNION {ToSet(packageNamespaceMap[r][n]) : n \in Namespaces}
               PROVE  /\ \A c \in Clients : ssoIndex[r][c] =
                           {p.namespace : p \in {q \in seen : c \in ClientsOf(q)}}
                      /\ \A k \in Ports : udpGatewayPortIndex[r][k] =
                           {p.namespace : p \in {q \in seen : k \in PortsOf(q)}}
    BY DEF IndexesMatchMap, TypeOK, Calm
  <2> DEFINE map == packageNamespaceMap[r]
  <2>1. Faithful(map, ssoIndex[r], udpGatewayPortIndex[r])
    BY FaithfulStores
  <2>2. \A n \in Namespaces : \A i \in DOMAIN map[n] : map[n][i].namespace = n
    BY DEF StoreTyped, MapTyped
  <2>3. \A p : p \in seen <=> \E n \in Namespaces : \E i \in DOMAIN map[n] : p = map[n][i]
    BY DEF ToSet
  <2> HIDE DEF map
  <2>4. ASSUME NEW c \in Clients
        PROVE  ssoIndex[r][c] = {p.namespace : p \in {q \in seen : c \in ClientsOf(q)}}
    <3>1. ssoIndex[r][c] = {n \in Namespaces : \E i \in DOMAIN map[n] : c \in ClientsOf(map[n][i])}
      BY <2>1 DEF Faithful
    <3>2. ASSUME NEW n \in ssoIndex[r][c]
          PROVE  n \in {p.namespace : p \in {q \in seen : c \in ClientsOf(q)}}
      <4>1. PICK i \in DOMAIN map[n] : c \in ClientsOf(map[n][i])
        BY <3>1
      <4>2. n \in Namespaces
        BY <3>1
      <4>3. map[n][i] \in seen /\ map[n][i].namespace = n
        BY <2>2, <2>3, <4>2
      <4>4. QED
        BY <4>1, <4>3
    <3>3. ASSUME NEW p \in seen, c \in ClientsOf(p)
          PROVE  p.namespace \in ssoIndex[r][c]
      <4>1. PICK n \in Namespaces : \E i \in DOMAIN map[n] : p = map[n][i]
        BY <2>3
      <4>2. QED
        BY <2>2, <3>1, <3>3, <4>1
    <3>4. QED
      BY <3>2, <3>3
  <2>5. ASSUME NEW k \in Ports
        PROVE  udpGatewayPortIndex[r][k] = {p.namespace : p \in {q \in seen : k \in PortsOf(q)}}
    <3>1. udpGatewayPortIndex[r][k] = {n \in Namespaces : \E i \in DOMAIN map[n] : k \in PortsOf(map[n][i])}
      BY <2>1 DEF Faithful
    <3>2. ASSUME NEW n \in udpGatewayPortIndex[r][k]
          PROVE  n \in {p.namespace : p \in {q \in seen : k \in PortsOf(q)}}
      <4>1. PICK i \in DOMAIN map[n] : k \in PortsOf(map[n][i])
        BY <3>1
      <4>2. n \in Namespaces
        BY <3>1
      <4>3. map[n][i] \in seen /\ map[n][i].namespace = n
        BY <2>2, <2>3, <4>2
      <4>4. QED
        BY <4>1, <4>3
    <3>3. ASSUME NEW p \in seen, k \in PortsOf(p)
          PROVE  p.namespace \in udpGatewayPortIndex[r][k]
      <4>1. PICK n \in Namespaces : \E i \in DOMAIN map[n] : p = map[n][i]
        BY <2>3
      <4>2. QED
        BY <2>2, <3>1, <3>3, <4>1
    <3>4. QED
      BY <3>2, <3>3
  <2>6. QED
    BY <2>4, <2>5
<1>2. QED
  BY <1>1, AlwaysFaithful, PTL

-----------------------------------------------------------------------------
(* Sequences: induction over numbers, and what FlattenSeq computes.        *)

(* A set of numbers has a least one.                                       *)
LEMMA Least ==
  ASSUME NEW T, T \subseteq Nat, T # {}
  PROVE  \E x \in T : \A y \in T : x <= y
<1> DEFINE R == OpToRel(<, Nat)
<1>1. IsWellFoundedOn(R, Nat)
  BY NatLessThanWellFounded
<1>2. \A x, y \in Nat : x < y => <<x, y>> \in R
  BY DEF OpToRel
<1> HIDE DEF R
<1>3. PICK x \in T : \A y \in T : ~(<<y, x>> \in R)
  BY <1>1, WFMin
<1>4. \A y \in T : ~(y < x)
  <2> SUFFICES ASSUME NEW y \in T PROVE ~(y < x)
    OBVIOUS
  <2>1. y \in Nat /\ x \in Nat
    OBVIOUS
  <2>2. <<y, x>> \notin R
    BY <1>3
  <2>3. QED
    BY <2>1, <2>2, <1>2
<1>5. \A y \in T : y \in Nat /\ x \in Nat
  OBVIOUS
<1>6. QED
  BY <1>4, <1>5

(* Induction for a set of numbers.                                         *)
LEMMA SetInduction ==
  ASSUME NEW S, 0 \in S, \A n \in Nat : n \in S => n + 1 \in S
  PROVE  \A n \in Nat : n \in S
<1> SUFFICES ASSUME NEW k \in Nat, k \notin S PROVE FALSE
  OBVIOUS
<1> DEFINE T == {n \in Nat : n \notin S}
<1>1. PICK x \in T : \A y \in T : x <= y
  <2>1. T \subseteq Nat /\ T # {}
    OBVIOUS
  <2> HIDE DEF T
  <2>2. QED
    BY <2>1, Least
<1>2. x # 0 /\ x \in Nat
  OBVIOUS
<1>3. x - 1 \in Nat /\ x - 1 \notin T
  BY <1>1, <1>2
<1>4. QED
  BY <1>2, <1>3

(* A concatenation has the elements of both parts.                         *)
LEMMA ConcatElements ==
  ASSUME NEW S, NEW s \in Seq(S), NEW t \in Seq(S)
  PROVE  ToSet(s \o t) = ToSet(s) \cup ToSet(t)
<1>1. /\ DOMAIN s = 1..Len(s) /\ DOMAIN t = 1..Len(t) /\ Len(s) \in Nat /\ Len(t) \in Nat
      /\ DOMAIN (s \o t) = 1..(Len(s) + Len(t))
  OBVIOUS
<1>2. ASSUME NEW x \in ToSet(s \o t) PROVE x \in ToSet(s) \cup ToSet(t)
  <2>1. PICK i \in 1..(Len(s) + Len(t)) : x = (s \o t)[i]
    BY <1>1, <1>2 DEF ToSet
  <2>2. CASE i <= Len(s)
    BY <1>1, <2>1, <2>2 DEF ToSet
  <2>3. CASE i > Len(s)
    <3>1. i - Len(s) \in 1..Len(t) /\ (s \o t)[i] = t[i - Len(s)]
      BY <1>1, <2>3
    <3>2. QED
      BY <1>1, <2>1, <3>1 DEF ToSet
  <2>4. QED
    BY <1>1, <2>2, <2>3
<1>3. ASSUME NEW x \in ToSet(s) PROVE x \in ToSet(s \o t)
  <2>1. PICK i \in 1..Len(s) : x = s[i]
    BY <1>1, <1>3 DEF ToSet
  <2>2. i \in 1..(Len(s) + Len(t)) /\ (s \o t)[i] = s[i]
    BY <1>1
  <2>3. QED
    BY <1>1, <2>1, <2>2 DEF ToSet
<1>4. ASSUME NEW x \in ToSet(t) PROVE x \in ToSet(s \o t)
  <2>1. PICK i \in 1..Len(t) : x = t[i]
    BY <1>1, <1>4 DEF ToSet
  <2>2. Len(s) + i \in 1..(Len(s) + Len(t)) /\ (s \o t)[Len(s) + i] = t[i]
    BY <1>1
  <2>3. QED
    BY <1>1, <2>1, <2>2 DEF ToSet
<1>5. QED
  BY <1>2, <1>3, <1>4

(* What FlattenSeq recurses over: g[i] concatenates the first i sequences. *)
Flattens(ss, m, g) ==
  g = [i \in 1..m |-> IF i = 1 THEN ss[i] ELSE g[i - 1] \o ss[i]]

(* A prefix that is flattened can be flattened one further: FlattenSeq's   *)
(* recursive function exists.                                              *)
LEMMA FlattensLonger ==
  ASSUME NEW ss, NEW m \in Nat, NEW g, Flattens(ss, m, g)
  PROVE  \E h : Flattens(ss, m + 1, h)
<1> DEFINE last == IF m + 1 = 1 THEN ss[m + 1] ELSE g[m] \o ss[m + 1]
           h == [i \in 1..(m + 1) |-> IF i = m + 1 THEN last ELSE g[i]]
           k == [i \in 1..(m + 1) |-> IF i = 1 THEN ss[i] ELSE h[i - 1] \o ss[i]]
<1>1. \A i \in 1..m : g[i] = (IF i = 1 THEN ss[i] ELSE g[i - 1] \o ss[i])
  BY Zenon DEF Flattens
<1>2. ASSUME NEW i \in 1..(m + 1) PROVE h[i] = k[i]
  <2>1. CASE i = m + 1
    <3>1. i # 1 => m \in 1..(m + 1) /\ m # m + 1 /\ i - 1 = m /\ h[i - 1] = g[m]
      BY <2>1
    <3>2. QED
      BY <2>1, <3>1
  <2>2. CASE i # m + 1
    <3>1. i \in 1..m /\ h[i] = g[i]
      BY <2>2
    <3>2. i # 1 => i - 1 \in 1..(m + 1) /\ i - 1 # m + 1 /\ h[i - 1] = g[i - 1]
      BY <2>2
    <3>3. QED
      BY <3>1, <3>2, <1>1
  <2>3. QED
    BY <2>1, <2>2
<1>3. h = [i \in 1..(m + 1) |-> h[i]] /\ k = [i \in 1..(m + 1) |-> k[i]]
  OBVIOUS
<1>4. h = k
  <2> HIDE DEF h, k
  <2>1. QED
    BY <1>2, <1>3
<1>5. Flattens(ss, m + 1, h)
  <2> HIDE DEF h
  <2>1. QED
    BY <1>4 DEF Flattens
<1> HIDE DEF h
<1>6. QED
  BY <1>5

LEMMA FlattensExists ==
  ASSUME NEW ss
  PROVE  \A m \in Nat : \E g : Flattens(ss, m, g)
<1> DEFINE N == {m \in Nat : \E g : Flattens(ss, m, g)}
<1>1. 0 \in N
  <2>1. Flattens(ss, 0, <<>>)
    BY DEF Flattens
  <2>2. QED
    BY <2>1
<1>2. ASSUME NEW m \in Nat, m \in N PROVE m + 1 \in N
  BY <1>2, FlattensLonger
<1>3. \A m \in Nat : m \in N
  <2> HIDE DEF N
  <2>1. QED
    BY <1>1, <1>2, SetInduction
<1>4. QED
  BY <1>3

(* FlattenSeq returns a sequence of exactly the elements of its sequences. *)
LEMMA FlattenElements ==
  ASSUME NEW S, NEW ss \in Seq(Seq(S))
  PROVE  /\ FlattenSeq(ss) \in Seq(S)
         /\ ToSet(FlattenSeq(ss)) = UNION {ToSet(ss[i]) : i \in DOMAIN ss}
<1>1. CASE Len(ss) = 0
  <2>1. ss = <<>> /\ FlattenSeq(ss) = ss
    BY <1>1 DEF FlattenSeq
  <2>2. ToSet(ss) = {} /\ {ToSet(ss[i]) : i \in DOMAIN ss} = {}
    BY <2>1 DEF ToSet
  <2>3. ss \in Seq(S)
    BY <2>1
  <2>4. QED
    BY <2>1, <2>2, <2>3
<1>2. CASE Len(ss) # 0
  <2> DEFINE g == CHOOSE f : Flattens(ss, Len(ss), f)
  <2>1. FlattenSeq(ss) = g[Len(ss)]
    BY <1>2 DEF FlattenSeq, Flattens
  <2>2. Len(ss) \in Nat /\ DOMAIN ss = 1..Len(ss)
    OBVIOUS
  <2>3. Flattens(ss, Len(ss), g)
    BY <2>2, FlattensExists
  <2> HIDE DEF g
  <2>4. \A i \in 1..Len(ss) : g[i] = IF i = 1 THEN ss[i] ELSE g[i - 1] \o ss[i]
    BY <2>3, Zenon DEF Flattens
  <2> DEFINE Before(m) == UNION {ToSet(ss[i]) : i \in 1..m}
             N == {m \in Nat : m \in 1..Len(ss) => g[m] \in Seq(S) /\ ToSet(g[m]) = Before(m)}
  <2>5. 0 \in N
    OBVIOUS
  <2>6. ASSUME NEW m \in Nat, m \in N PROVE m + 1 \in N
    <3> SUFFICES ASSUME m + 1 \in 1..Len(ss)
                 PROVE  g[m + 1] \in Seq(S) /\ ToSet(g[m + 1]) = Before(m + 1)
      OBVIOUS
    <3>1. ss[m + 1] \in Seq(S)
      OBVIOUS
    <3>2. CASE m = 0
      <4>1. g[m + 1] = ss[m + 1]
        <5>1. m + 1 = 1
          BY <3>2
        <5> HIDE DEF Before, N
        <5>2. g[m + 1] = IF m + 1 = 1 THEN ss[m + 1] ELSE g[(m + 1) - 1] \o ss[m + 1]
          BY <2>4, Zenon
        <5>3. QED
          BY <5>1, <5>2
      <4>2. 1..(m + 1) = {m + 1}
        BY <3>2
      <4>3. Before(m + 1) = ToSet(ss[m + 1])
        BY <4>2
      <4>4. QED
        BY <3>1, <4>1, <4>3
    <3>3. CASE m # 0
      <4>1. g[m] \in Seq(S) /\ ToSet(g[m]) = Before(m)
        BY <2>6, <3>3, <2>2
      <4>2. g[m + 1] = g[m] \o ss[m + 1]
        <5>1. m + 1 # 1 /\ (m + 1) - 1 = m
          BY <3>3
        <5>2. g[m + 1] = g[(m + 1) - 1] \o ss[m + 1]
          BY <2>4, <5>1
        <5>3. QED
          BY <5>1, <5>2
      <4>3. ToSet(g[m] \o ss[m + 1]) = ToSet(g[m]) \cup ToSet(ss[m + 1])
        BY <4>1, <3>1, ConcatElements
      <4>4. 1..(m + 1) = (1..m) \cup {m + 1}
        OBVIOUS
      <4>5. Before(m + 1) = Before(m) \cup ToSet(ss[m + 1])
        BY <4>4
      <4>6. g[m + 1] \in Seq(S)
        BY <4>1, <4>2, <3>1
      <4>7. QED
        BY <4>1, <4>2, <4>3, <4>5, <4>6
    <3>4. QED
      BY <3>2, <3>3
  <2>7. \A m \in Nat : m \in N
    <3> HIDE DEF N
    <3>1. QED
      BY <2>5, <2>6, SetInduction
  <2>8. g[Len(ss)] \in Seq(S) /\ ToSet(g[Len(ss)]) = Before(Len(ss))
    <3>1. Len(ss) \in 1..Len(ss)
      BY <1>2, <2>2
    <3>2. Len(ss) \in N
      <4> HIDE DEF N
      <4>1. QED
        BY <2>7, <2>2
    <3> HIDE DEF Before
    <3>3. QED
      BY <3>1, <3>2
  <2>9. QED
    BY <2>1, <2>8, <2>2
<1>3. QED
  BY <1>1, <1>2

-----------------------------------------------------------------------------
(* The objects of the SSO step.                                            *)
SsoKinds == {"authservice", "jwt-authn", "jwt-authz"}

(* Every object of the SSO step is named after its client and kind: that is *)
(* why a generation that has the client writes over what an older one left. *)
NamedAfterClient(o) ==
  /\ "kind" \in DOMAIN o /\ o.kind \in SsoKinds
  /\ o.name = SanitizeResourceName(<<o.client, o.kind>>)

LEMMA SsoPoliciesOfClient ==
  ASSUME NEW p, NEW c
  PROVE  /\ SsoPolicies(p, c) = <<SsoPolicies(p, c)[1], SsoPolicies(p, c)[2], SsoPolicies(p, c)[3]>>
         /\ \A i \in 1..3 : NamedAfterClient(SsoPolicies(p, c)[i]) /\ SsoPolicies(p, c)[i].client = c.clientId
         /\ SsoPolicies(p, c)[1].kind = "authservice"
         /\ SsoPolicies(p, c)[2].kind = "jwt-authn"
         /\ SsoPolicies(p, c)[3].kind = "jwt-authz"
BY DEF SsoPolicies, NamedAfterClient, SsoKinds

(* What the SSO step applies: the three policies of every client.          *)
LEMMA SsoPoliciesGenerated ==
  ASSUME NEW T, pkg.sso \in Seq(T)
  PROVE  /\ Generated("ssoPolicies") \in Seq(ToSet(Generated("ssoPolicies")))
         /\ \A o \in ToSet(Generated("ssoPolicies")) : \E i \in DOMAIN pkg.sso, j \in 1..3 :
              Protects(pkg.sso[i]) /\ o = SsoPolicies(pkg, pkg.sso[i])[j]
         /\ \A i \in DOMAIN pkg.sso, j \in 1..3 :
              Protects(pkg.sso[i]) => SsoPolicies(pkg, pkg.sso[i])[j] \in ToSet(Generated("ssoPolicies"))
<1> DEFINE cs == pkg.sso
           Policies(c) == IF Protects(c) THEN SsoPolicies(pkg, c) ELSE <<>>
           ss == [i \in 1..Len(cs) |-> Policies(cs[i])]
           S == UNION {ToSet(ss[i]) : i \in 1..Len(cs)}
           objs == Generated("ssoPolicies")
<1>1. objs = FlattenSeq(ss)
  BY DEF Generated, Each
<1>2. Len(cs) \in Nat /\ DOMAIN cs = 1..Len(cs)
  OBVIOUS
<1>3. \A i \in 1..Len(cs) : ss[i] = Policies(cs[i])
  OBVIOUS
<1>4. ASSUME NEW i \in 1..Len(cs) PROVE ss[i] \in Seq(S)
  <2>1. CASE Protects(cs[i])
    <3>1. ss[i] = SsoPolicies(pkg, cs[i])
      BY <1>3, <2>1
    <3>2. ss[i] = <<ss[i][1], ss[i][2], ss[i][3]>>
      BY <3>1, SsoPoliciesOfClient
    <3> HIDE DEF ss
    <3>3. {ss[i][1], ss[i][2], ss[i][3]} \subseteq ToSet(ss[i])
      <4> DEFINE t == ss[i]
      <4>1. t = <<t[1], t[2], t[3]>>
        BY <3>2
      <4> HIDE DEF t
      <4>2. DOMAIN t = 1..3
        BY <4>1
      <4>3. {t[1], t[2], t[3]} \subseteq ToSet(t)
        BY <4>2 DEF ToSet
      <4>4. QED
        BY <4>3 DEF t
    <3>4. ToSet(ss[i]) \subseteq S
      OBVIOUS
    <3> HIDE DEF S
    <3>5. <<ss[i][1], ss[i][2], ss[i][3]>> \in Seq(S)
      BY <3>3, <3>4
    <3>6. QED
      BY <3>2, <3>5
  <2>2. CASE ~Protects(cs[i])
    BY <1>3, <2>2
  <2>3. QED
    BY <2>1, <2>2
<1>5. ss \in Seq(Seq(S)) /\ DOMAIN ss = 1..Len(cs)
  <2>1. ss \in [1..Len(cs) -> Seq(S)]
    <3> HIDE DEF S
    <3>1. QED
      BY <1>4
  <2>2. ss \in Seq(Seq(S))
    <3> HIDE DEF ss, S
    <3>1. QED
      BY <1>2, <2>1
  <2>3. QED
    BY <2>2
<1>6. objs \in Seq(S) /\ ToSet(objs) = S
  <2>1. FlattenSeq(ss) \in Seq(S) /\ ToSet(FlattenSeq(ss)) = UNION {ToSet(ss[i]) : i \in DOMAIN ss}
    <3> HIDE DEF ss, S
    <3>1. QED
      BY <1>5, FlattenElements
  <2>2. QED
    BY <1>1, <1>5, <2>1
<1>7. ASSUME NEW o \in ToSet(objs)
      PROVE  \E i \in 1..Len(cs), j \in 1..3 : Protects(cs[i]) /\ o = SsoPolicies(pkg, cs[i])[j]
  <2>1. PICK i \in 1..Len(cs) : o \in ToSet(ss[i])
    BY <1>6
  <2>2. Protects(cs[i])
    <3>1. ToSet(<<>>) = {}
      BY DEF ToSet
    <3>2. ~Protects(cs[i]) => ss[i] = <<>>
      BY <1>3
    <3> HIDE DEF ss
    <3>3. QED
      BY <2>1, <3>1, <3>2
  <2>3. ss[i] = SsoPolicies(pkg, cs[i])
    BY <1>3, <2>2
  <2>4. PICK j \in 1..3 : o = ss[i][j]
    <3> HIDE DEF ss
    <3> DEFINE t == ss[i]
    <3>1. t = <<t[1], t[2], t[3]>>
      BY <2>3, SsoPoliciesOfClient
    <3> HIDE DEF t
    <3>2. DOMAIN t = 1..3
      BY <3>1
    <3>3. o \in {t[j] : j \in 1..3}
      BY <2>1, <3>2 DEF ToSet, t
    <3>4. QED
      BY <3>3 DEF t
  <2> HIDE DEF ss, objs
  <2>5. QED
    BY <2>2, <2>3, <2>4
<1>8. ASSUME NEW i \in 1..Len(cs), NEW j \in 1..3, Protects(cs[i])
      PROVE  SsoPolicies(pkg, cs[i])[j] \in ToSet(objs)
  <2>1. ss[i] = SsoPolicies(pkg, cs[i])
    BY <1>3, <1>8
  <2> HIDE DEF ss
  <2>2. ss[i][j] \in ToSet(ss[i])
    <3> DEFINE t == ss[i]
    <3>1. t = <<t[1], t[2], t[3]>>
      BY <2>1, SsoPoliciesOfClient
    <3> HIDE DEF t
    <3>2. t[j] \in ToSet(t)
      BY <3>1 DEF ToSet
    <3>3. QED
      BY <3>2 DEF t
  <2>3. ss[i][j] \in ToSet(objs)
    BY <1>6, <2>2
  <2> HIDE DEF objs
  <2>4. QED
    BY <2>1, <2>3
<1>9. QED
  <2> HIDE DEF objs, S
  <2>1. objs \in Seq(ToSet(objs))
    BY <1>6
  <2> HIDE DEF cs
  <2>2. DOMAIN pkg.sso = 1..Len(cs) /\ cs = pkg.sso
    BY <1>2 DEF cs
  <2>3. /\ \A o \in ToSet(objs) : \E i \in DOMAIN pkg.sso, j \in 1..3 :
               Protects(pkg.sso[i]) /\ o = SsoPolicies(pkg, pkg.sso[i])[j]
        /\ \A i \in DOMAIN pkg.sso, j \in 1..3 :
               Protects(pkg.sso[i]) => SsoPolicies(pkg, pkg.sso[i])[j] \in ToSet(objs)
    BY <2>2, <1>7, <1>8
  <2>4. QED
    BY <2>1, <2>3 DEF objs

(* They are named after the client: one of each kind for every client.     *)
LEMMA GeneratesSsoPolicies ==
  ASSUME NEW T, pkg.sso \in Seq(T)
  PROVE  /\ Generated("ssoPolicies") \in Seq(ToSet(Generated("ssoPolicies")))
         /\ \A o \in ToSet(Generated("ssoPolicies")) : NamedAfterClient(o) /\ o.client \in AuthserviceIds(pkg)
         /\ \A kind \in SsoKinds, id \in AuthserviceIds(pkg) :
              \E o \in ToSet(Generated("ssoPolicies")) :
                NameOf(o) = <<kind, SanitizeResourceName(<<id, kind>>)>>
<1> DEFINE cs == pkg.sso
           objs == Generated("ssoPolicies")
<1> HIDE DEF cs, objs
<1>1. /\ objs \in Seq(ToSet(objs))
      /\ \A o \in ToSet(objs) : \E i \in DOMAIN cs, j \in 1..3 :
           Protects(cs[i]) /\ o = SsoPolicies(pkg, cs[i])[j]
      /\ \A i \in DOMAIN cs, j \in 1..3 : Protects(cs[i]) => SsoPolicies(pkg, cs[i])[j] \in ToSet(objs)
  BY SsoPoliciesGenerated DEF cs, objs
<1>2. ASSUME NEW o \in ToSet(objs)
      PROVE  NamedAfterClient(o) /\ o.client \in AuthserviceIds(pkg)
  <2>1. PICK i \in DOMAIN cs, j \in 1..3 : Protects(cs[i]) /\ o = SsoPolicies(pkg, cs[i])[j]
    BY <1>1
  <2>2. NamedAfterClient(o) /\ o.client = cs[i].clientId
    BY <2>1, SsoPoliciesOfClient
  <2>3. cs[i] \in ToSet(cs)
    BY DEF ToSet
  <2>4. QED
    BY <2>1, <2>2, <2>3 DEF AuthserviceIds, cs
<1>3. ASSUME NEW kind \in SsoKinds, NEW id \in AuthserviceIds(pkg)
      PROVE  \E o \in ToSet(objs) : NameOf(o) = <<kind, SanitizeResourceName(<<id, kind>>)>>
  <2>1. PICK i \in DOMAIN cs : Protects(cs[i]) /\ id = cs[i].clientId
    BY DEF AuthserviceIds, ToSet, cs
  <2>2. PICK j \in 1..3 : SsoPolicies(pkg, cs[i])[j].kind = kind
    BY SsoPoliciesOfClient DEF SsoKinds
  <2> DEFINE x == SsoPolicies(pkg, cs[i])[j]
  <2>3. NamedAfterClient(x) /\ x.client = id /\ x.kind = kind
    BY <2>1, <2>2, SsoPoliciesOfClient
  <2>4. x \in ToSet(objs)
    BY <1>1, <2>1
  <2> HIDE DEF x
  <2>5. NameOf(x) = <<kind, SanitizeResourceName(<<id, kind>>)>>
    BY <2>3 DEF NameOf, NamedAfterClient
  <2>6. QED
    BY <2>4, <2>5
<1>4. QED
  BY <1>1, <1>2, <1>3 DEF objs

-----------------------------------------------------------------------------
(* The steps of an attempt.                                                *)

(* An attempt that is at "at" is over with step s.                         *)
Past(at, s) ==
  \/ at = "idle"
  \/ \E i, j \in DOMAIN Steps : i < j /\ Steps[i] = s /\ Steps[j] = at

(* The object the reconciler works on has the clients of the spec, and the *)
(* status of a package at rest lists them.                                 *)
ControlInv ==
  /\ step \in ToSet(Steps) \cup {"idle", "waiting"}
  /\ live = [s \in ToSet(Steps) |-> live[s]]
  /\ spec = None => step = "idle" /\ \A s \in ToSet(Steps) : live[s] = {}
  /\ spec # None => spec \in Revision /\ "sso" \in DOMAIN pkg /\ pkg.sso = Migrate(spec).sso
  /\ spec # None /\ step = "idle" => recorded = AuthserviceIds(pkg)

(* A step that purges every time leaves nothing old behind it.             *)
PurgedInv ==
  \A s \in ToSet(Steps) \ {"ssoPolicies"} : Past(step, s) => \A o \in live[s] : o.gen = gen

(* The clients of all SSO policies are known: the status lists them, or    *)
(* the package has them, or their generation was dropped. The SSO step     *)
(* deletes the first and writes over the second.                           *)
SsoInv ==
  \A o \in live["ssoPolicies"] :
    /\ NamedAfterClient(o.obj)
    /\ o.obj.client \in recorded \cup dropped \cup AuthserviceIds(pkg)
    /\ Past(step, "ssoPolicies") =>
         o.obj.client \in dropped \/ (o.gen = gen /\ o.obj.client \in AuthserviceIds(pkg))

NetworkInv == ControlInv /\ PurgedInv /\ SsoInv

LEMMA StepsTyped ==
  /\ ToSet(Steps) = {"networkPolicies", "authorizationPolicies", "ssoPolicies", "virtualServices",
                     "serviceEntries", "monitors"}
  /\ DOMAIN Steps = 1..6 /\ Len(Steps) = 6
  /\ Steps[1] = "networkPolicies" /\ Steps[2] = "authorizationPolicies" /\ Steps[3] = "ssoPolicies"
  /\ Steps[4] = "virtualServices" /\ Steps[5] = "serviceEntries" /\ Steps[6] = "monitors"
<1>1. /\ DOMAIN Steps = 1..6 /\ Len(Steps) = 6
      /\ Steps[1] = "networkPolicies" /\ Steps[2] = "authorizationPolicies" /\ Steps[3] = "ssoPolicies"
      /\ Steps[4] = "virtualServices" /\ Steps[5] = "serviceEntries" /\ Steps[6] = "monitors"
  BY DEF Steps
<1>2. 1..6 = {1, 2, 3, 4, 5, 6}
  OBVIOUS
<1>3. QED
  BY <1>1, <1>2 DEF ToSet

LEMMA StepsDiffer ==
  ASSUME NEW i \in DOMAIN Steps, NEW j \in DOMAIN Steps, Steps[i] = Steps[j]
  PROVE  i = j
<1>1. i \in {1, 2, 3, 4, 5, 6} /\ j \in {1, 2, 3, 4, 5, 6}
  BY StepsTyped
<1>2. QED
  BY <1>1, StepsTyped

LEMMA NextStepIs ==
  ASSUME NEW i \in DOMAIN Steps
  PROVE  NextStep(Steps[i]) = IF i = 6 THEN "idle" ELSE Steps[i + 1]
<1> DEFINE k == CHOOSE j \in DOMAIN Steps : Steps[j] = Steps[i]
<1>1. k \in DOMAIN Steps /\ Steps[k] = Steps[i]
  OBVIOUS
<1>2. k = i
  BY <1>1, StepsDiffer
<1> HIDE DEF k
<1>3. NextStep(Steps[i]) = IF k = Len(Steps) THEN "idle" ELSE Steps[k + 1]
  BY DEF NextStep, k
<1>4. QED
  BY <1>2, <1>3, StepsTyped

(* A step that is past after an attempt's next one was past, or is that one. *)
LEMMA PastGrows ==
  ASSUME NEW at \in ToSet(Steps), NEW s \in ToSet(Steps), Past(NextStep(at), s)
  PROVE  s = at \/ Past(at, s)
<1>1. PICK j \in DOMAIN Steps : Steps[j] = at
  BY DEF ToSet
<1>2. PICK i \in DOMAIN Steps : Steps[i] = s
  BY DEF ToSet
<1>3. j \in 1..6 /\ i \in 1..6
  BY StepsTyped
<1>4. i <= j
  <2>1. CASE j = 6
    BY <1>3, <2>1
  <2>2. CASE j # 6
    <3>1. NextStep(at) = Steps[j + 1] /\ j + 1 \in DOMAIN Steps
      BY <1>1, <1>3, <2>2, NextStepIs, StepsTyped
    <3>2. NextStep(at) # "idle"
      <4>1. NextStep(at) \in ToSet(Steps)
        BY <3>1 DEF ToSet
      <4>2. QED
        BY <4>1, StepsTyped
    <3>3. PICK a, b \in DOMAIN Steps : a < b /\ Steps[a] = s /\ Steps[b] = NextStep(at)
      BY <3>2 DEF Past
    <3>4. a = i /\ b = j + 1
      BY <1>2, <3>1, <3>3, StepsDiffer
    <3>5. QED
      BY <1>3, <3>3, <3>4
  <2>3. QED
    BY <2>1, <2>2
<1>5. i < j \/ i = j
  BY <1>3, <1>4
<1>6. QED
  BY <1>1, <1>2, <1>5 DEF Past

LEMMA NothingPast ==
  ASSUME NEW at, NEW s \in ToSet(Steps), at = "waiting" \/ at = Steps[1]
  PROVE  ~Past(at, s)
<1>1. ASSUME at = "waiting", Past(at, s) PROVE FALSE
  <2>1. "waiting" \in ToSet(Steps)
    BY <1>1 DEF Past, ToSet
  <2>2. QED
    BY <2>1, StepsTyped
<1>2. ASSUME at = Steps[1], Past(at, s) PROVE FALSE
  <2>1. at # "idle"
    BY <1>2, StepsTyped
  <2>2. PICK i, j \in DOMAIN Steps : i < j /\ Steps[i] = s /\ Steps[j] = at
    BY <1>2, <2>1 DEF Past
  <2>3. 1 \in DOMAIN Steps
    BY StepsTyped
  <2>4. j = 1
    BY <1>2, <2>2, <2>3, StepsDiffer
  <2>5. QED
    BY <2>2, <2>4, StepsTyped
<1>3. QED
  BY <1>1, <1>2

(* An applied object is new, or an old one whose name was not applied.     *)
LEMMA AppliedObjects ==
  ASSUME NEW objs, NEW present, NEW o \in Applied(objs, present)
  PROVE  \/ o.gen = gen /\ o.obj \in ToSet(objs)
         \/ o \in present /\ \A x \in ToSet(objs) : NameOf(x) # NameOf(o.obj)
<1> DEFINE names == {NameOf(objs[i]) : i \in DOMAIN objs}
<1>1. CASE \E i \in DOMAIN objs : o = [gen |-> gen, obj |-> objs[i]]
  BY <1>1 DEF ToSet
<1>2. CASE o \in present /\ NameOf(o.obj) \notin names
  BY <1>2 DEF ToSet
<1>3. QED
  BY <1>1, <1>2 DEF Applied

LEMMA SsoTyped ==
  ASSUME ControlInv, spec # None
  PROVE  pkg.sso \in Seq(ToSet(pkg.sso))
<1>1. spec \in Package /\ pkg.sso = Migrate(spec).sso
  BY RevisionAssumption DEF ControlInv
<1>2. spec.sso \in Seq(Sso) /\ Migrate(spec).sso = [i \in 1..Len(spec.sso) |-> MigrateSecret(spec.sso[i])]
  BY <1>1 DEF Package, Migrate, Each
<1> DEFINE cs == [i \in 1..Len(spec.sso) |-> MigrateSecret(spec.sso[i])]
<1>3. Len(spec.sso) \in Nat
  BY <1>2
<1>4. cs \in [1..Len(spec.sso) -> ToSet(cs)]
  BY DEF ToSet
<1>5. cs \in Seq(ToSet(cs))
  <2> HIDE DEF cs
  <2>1. QED
    BY <1>3, <1>4
<1>6. QED
  <2> HIDE DEF cs
  <2>1. pkg.sso = cs
    BY <1>1, <1>2 DEF cs
  <2>2. QED
    BY <1>5, <2>1

(* What the SSO step applies, the first n objects or all of them.          *)
LEMMA AppliedSso ==
  ASSUME NetworkInv, spec # None, NEW objs, ToSet(objs) \subseteq ToSet(Generated("ssoPolicies")),
         NEW o \in Applied(objs, live["ssoPolicies"])
  PROVE  /\ NamedAfterClient(o.obj)
         /\ o.obj.client \in recorded \cup dropped \cup AuthserviceIds(pkg)
         /\ \/ o.gen = gen /\ o.obj.client \in AuthserviceIds(pkg)
            \/ /\ o \in live["ssoPolicies"]
               /\ \A x \in ToSet(objs) : NameOf(x) # NameOf(o.obj)
<1>1. \/ o.gen = gen /\ o.obj \in ToSet(objs)
      \/ o \in live["ssoPolicies"] /\ \A x \in ToSet(objs) : NameOf(x) # NameOf(o.obj)
  BY AppliedObjects
<1>2. \A x \in ToSet(Generated("ssoPolicies")) : NamedAfterClient(x) /\ x.client \in AuthserviceIds(pkg)
  BY SsoTyped, GeneratesSsoPolicies DEF NetworkInv
<1>3. \A x \in live["ssoPolicies"] :
        NamedAfterClient(x.obj) /\ x.obj.client \in recorded \cup dropped \cup AuthserviceIds(pkg)
  BY DEF NetworkInv, SsoInv
<1>4. QED
  BY <1>1, <1>2, <1>3

LEMMA SameClients ==
  ASSUME ControlInv, spec # None
  PROVE  AuthserviceIds(Migrate(spec)) = AuthserviceIds(pkg)
BY DEF ControlInv, AuthserviceIds

LEMMA MigratedHasClients ==
  ASSUME NEW d \in Revision
  PROVE  "sso" \in DOMAIN Migrate(d) /\ d # None
BY RevisionAssumption DEF Package, Migrate

-----------------------------------------------------------------------------
(* The initial state and the actions.                                      *)

LEMMA NetworkStarts == NetworkInit => NetworkInv
<1> SUFFICES ASSUME NetworkInit PROVE NetworkInv
  OBVIOUS
<1>1. \A s \in ToSet(Steps) : live[s] = {}
  BY DEF NetworkInit
<1>2. "ssoPolicies" \in ToSet(Steps)
  BY StepsTyped
<1>3. ControlInv
  <2>1. live = [s \in ToSet(Steps) |-> live[s]]
    BY DEF NetworkInit
  <2>2. spec = None /\ step = "idle"
    BY DEF NetworkInit
  <2>3. QED
    BY <1>1, <2>1, <2>2 DEF ControlInv
<1>4. QED
  BY <1>1, <1>2, <1>3 DEF NetworkInv, PurgedInv, SsoInv

LEMMA SubmitKeeps ==
  ASSUME NetworkInv, NEW d \in Revision, Submit(d)
  PROVE  NetworkInv'
<1>1. /\ spec' = d /\ pkg' = Migrate(d) /\ step' = Steps[1] /\ live' = live /\ recorded' = recorded
      /\ step \in {"idle", "waiting"}
      /\ dropped' = IF step = "waiting" THEN dropped \cup AuthserviceIds(pkg) ELSE dropped
  BY DEF Submit
<1>2. \A s \in ToSet(Steps) : ~Past(step', s)
  <2> SUFFICES ASSUME NEW s \in ToSet(Steps), Past(step', s) PROVE FALSE
    OBVIOUS
  <2>1. QED
    BY <1>1, NothingPast
<1>3. ControlInv'
  <2>1. "sso" \in DOMAIN Migrate(d) /\ d # None
    BY MigratedHasClients
  <2>2. step' \in ToSet(Steps) /\ step' # "idle"
    BY <1>1, StepsTyped
  <2>3. live = [s \in ToSet(Steps) |-> live[s]]
    BY DEF NetworkInv, ControlInv
  <2>4. QED
    BY <1>1, <2>1, <2>2, <2>3 DEF ControlInv
<1>4. SsoInv'
  <2>1. \A o \in live["ssoPolicies"] : o.obj.client \in recorded \cup dropped'
    <3>1. CASE spec = None
      BY <3>1, StepsTyped DEF NetworkInv, ControlInv
    <3>2. CASE spec # None
      <4>1. step = "idle" => recorded = AuthserviceIds(pkg)
        BY <3>2 DEF NetworkInv, ControlInv
      <4>2. \A o \in live["ssoPolicies"] : o.obj.client \in recorded \cup dropped \cup AuthserviceIds(pkg)
        BY DEF NetworkInv, SsoInv
      <4>3. QED
        BY <1>1, <4>1, <4>2
    <3>3. QED
      BY <3>1, <3>2
  <2>2. \A o \in live["ssoPolicies"] : NamedAfterClient(o.obj)
    BY DEF NetworkInv, SsoInv
  <2>3. ~Past(step', "ssoPolicies")
    BY <1>2, StepsTyped
  <2>4. QED
    BY <1>1, <2>1, <2>2, <2>3 DEF SsoInv
<1>5. QED
  BY <1>2, <1>3, <1>4 DEF NetworkInv, PurgedInv

LEMMA RetryKeeps ==
  ASSUME NetworkInv, Retry
  PROVE  NetworkInv'
<1>1. /\ step = "waiting" /\ pkg' = Migrate(spec) /\ step' = Steps[1]
      /\ spec' = spec /\ live' = live /\ recorded' = recorded /\ dropped' = dropped
  BY DEF Retry
<1>2. spec # None
  BY <1>1 DEF NetworkInv, ControlInv
<1>3. \A s \in ToSet(Steps) : ~Past(step', s)
  <2> SUFFICES ASSUME NEW s \in ToSet(Steps), Past(step', s) PROVE FALSE
    OBVIOUS
  <2>1. QED
    BY <1>1, NothingPast
<1>4. ControlInv'
  <2>1. spec \in Revision
    BY <1>2 DEF NetworkInv, ControlInv
  <2>2. "sso" \in DOMAIN Migrate(spec)
    BY <2>1, MigratedHasClients
  <2>3. step' \in ToSet(Steps) /\ step' # "idle"
    BY <1>1, StepsTyped
  <2>4. live = [s \in ToSet(Steps) |-> live[s]]
    BY DEF NetworkInv, ControlInv
  <2>5. QED
    BY <1>1, <1>2, <2>1, <2>2, <2>3, <2>4 DEF ControlInv
<1>5. SsoInv'
  <2>1. AuthserviceIds(pkg)' = AuthserviceIds(pkg)
    BY <1>1, <1>2, SameClients DEF NetworkInv, AuthserviceIds
  <2>2. ~Past(step', "ssoPolicies")
    BY <1>3, StepsTyped
  <2>3. \A o \in live["ssoPolicies"] :
          NamedAfterClient(o.obj) /\ o.obj.client \in recorded \cup dropped \cup AuthserviceIds(pkg)
    BY DEF NetworkInv, SsoInv
  <2>4. QED
    BY <1>1, <2>1, <2>2, <2>3 DEF SsoInv
<1>6. QED
  BY <1>3, <1>4, <1>5 DEF NetworkInv, PurgedInv

LEMMA FailKeeps ==
  ASSUME NetworkInv, NEW n \in Nat, Fail(n)
  PROVE  NetworkInv'
<1> DEFINE objs == SubSeq(Generated(step), 1, n)
<1>1. /\ step \in ToSet(Steps) /\ step' = "waiting" /\ n \in 0..Len(Generated(step))
      /\ spec' = spec /\ pkg' = pkg /\ recorded' = recorded /\ dropped' = dropped /\ gen' = gen
      /\ live' = [live EXCEPT ![step] = Applied(objs, live[step])]
  BY DEF Fail
<1>2. spec # None
  BY <1>1, StepsTyped DEF NetworkInv, ControlInv
<1>3. \A s \in ToSet(Steps) : ~Past(step', s)
  <2> SUFFICES ASSUME NEW s \in ToSet(Steps), Past(step', s) PROVE FALSE
    OBVIOUS
  <2>1. QED
    BY <1>1, NothingPast
<1>4. ControlInv'
  <2>1. live' = [s \in ToSet(Steps) |-> live'[s]]
    BY <1>1 DEF NetworkInv, ControlInv
  <2>2. QED
    BY <1>1, <1>2, <2>1 DEF NetworkInv, ControlInv
<1>5. SsoInv'
  <2>1. ~Past(step', "ssoPolicies")
    BY <1>3, StepsTyped
  <2>2. AuthserviceIds(pkg)' = AuthserviceIds(pkg)
    BY <1>1 DEF AuthserviceIds
  <2>3. \A o \in live["ssoPolicies"] :
          NamedAfterClient(o.obj) /\ o.obj.client \in recorded \cup dropped \cup AuthserviceIds(pkg)
    BY DEF NetworkInv, SsoInv
  <2>4. CASE step # "ssoPolicies"
    <3>1. live'["ssoPolicies"] = live["ssoPolicies"]
      BY <1>1, <2>4, StepsTyped DEF NetworkInv, ControlInv
    <3>2. QED
      BY <1>1, <2>1, <2>2, <2>3, <3>1 DEF SsoInv
  <2>5. CASE step = "ssoPolicies"
    <3>1. live'["ssoPolicies"] = Applied(objs, live["ssoPolicies"])
      BY <1>1, <2>5, StepsTyped DEF NetworkInv, ControlInv
    <3>2. Generated("ssoPolicies") \in Seq(ToSet(Generated("ssoPolicies")))
      BY <1>2, SsoTyped, GeneratesSsoPolicies DEF NetworkInv
    <3>3. ToSet(objs) \subseteq ToSet(Generated("ssoPolicies"))
      <4> DEFINE all == Generated("ssoPolicies")
      <4> HIDE DEF all
      <4>1. \A i \in 1..n : SubSeq(all, 1, n)[i] = all[i] /\ i \in 1..Len(all)
        BY <1>1, <2>5, <3>2 DEF all
      <4>2. DOMAIN SubSeq(all, 1, n) = 1..n /\ DOMAIN all = 1..Len(all)
        BY <1>1, <2>5, <3>2 DEF all
      <4>3. ToSet(SubSeq(all, 1, n)) \subseteq ToSet(all)
        BY <4>1, <4>2 DEF ToSet
      <4>4. QED
        BY <2>5, <4>3 DEF all
    <3> HIDE DEF objs
    <3>4. \A o \in live'["ssoPolicies"] :
            NamedAfterClient(o.obj) /\ o.obj.client \in recorded \cup dropped \cup AuthserviceIds(pkg)
      BY <1>2, <3>1, <3>3, AppliedSso
    <3>5. QED
      BY <1>1, <2>1, <2>2, <3>4 DEF SsoInv
  <2>6. QED
    BY <2>4, <2>5
<1>6. QED
  BY <1>3, <1>4, <1>5 DEF NetworkInv, PurgedInv

(* A step's outcome. All but the SSO step purge.                           *)
LEMMA PurgedOutcome ==
  ASSUME NEW s, s # "ssoPolicies", NEW applied, NEW objs \in Outcomes(s, applied), NEW o \in objs
  PROVE  o.gen = gen
<1>1. CASE s = "authorizationPolicies"
  BY <1>1 DEF Outcomes, CleanupMismatchedMeshMode, PurgeOrphans
<1>2. CASE s # "authorizationPolicies"
  <2>1. objs = PurgeOrphans(applied)
    BY <1>2 DEF Outcomes
  <2>2. QED
    BY <2>1 DEF PurgeOrphans
<1>3. QED
  BY <1>1, <1>2

LEMMA SsoOutcome ==
  ASSUME NEW applied, NEW objs \in Outcomes("ssoPolicies", applied), NEW o \in objs
  PROVE  o \in applied /\ o.obj.client \notin recorded \ AuthserviceIds(pkg)
<1>1. PICK purged \in SsoPurges :
        objs = DeleteRemovedClients(IF purged THEN PurgeOrphans(applied) ELSE applied)
  BY DEF Outcomes
<1>2. QED
  BY <1>1 DEF DeleteRemovedClients, PurgeOrphans

(* The SSO step itself: what is not new has a client that was dropped.     *)
LEMMA SsoStepLeaves ==
  ASSUME NetworkInv, spec # None,
         NEW objs \in Outcomes("ssoPolicies", Applied(Generated("ssoPolicies"), live["ssoPolicies"])),
         NEW o \in objs
  PROVE  /\ NamedAfterClient(o.obj)
         /\ \/ o.gen = gen /\ o.obj.client \in AuthserviceIds(pkg)
            \/ o.obj.client \in dropped
<1> DEFINE all == Generated("ssoPolicies")
<1>1. o \in Applied(all, live["ssoPolicies"]) /\ o.obj.client \notin recorded \ AuthserviceIds(pkg)
  BY SsoOutcome
<1>2. /\ NamedAfterClient(o.obj)
      /\ o.obj.client \in recorded \cup dropped \cup AuthserviceIds(pkg)
      /\ \/ o.gen = gen /\ o.obj.client \in AuthserviceIds(pkg)
         \/ \A x \in ToSet(all) : NameOf(x) # NameOf(o.obj)
  BY <1>1, AppliedSso
<1>3. \A kind \in SsoKinds, id \in AuthserviceIds(pkg) :
        \E x \in ToSet(all) : NameOf(x) = <<kind, SanitizeResourceName(<<id, kind>>)>>
  BY SsoTyped, GeneratesSsoPolicies DEF NetworkInv
<1> HIDE DEF all
<1>4. ASSUME o.obj.client \in AuthserviceIds(pkg)
      PROVE  \E x \in ToSet(all) : NameOf(x) = NameOf(o.obj)
  <2>1. NameOf(o.obj) = <<o.obj.kind, SanitizeResourceName(<<o.obj.client, o.obj.kind>>)>> /\ o.obj.kind \in SsoKinds
    BY <1>2 DEF NamedAfterClient, NameOf
  <2>2. QED
    BY <1>3, <1>4, <2>1
<1>5. QED
  BY <1>1, <1>2, <1>4

LEMMA ReconcileKeeps ==
  ASSUME NetworkInv, Reconcile
  PROVE  NetworkInv'
<1>1. PICK objs \in Outcomes(step, Applied(Generated(step), live[step])) :
        live' = [live EXCEPT ![step] = objs]
  BY DEF Reconcile
<1>2. /\ step \in ToSet(Steps) /\ step' = NextStep(step)
      /\ spec' = spec /\ dropped' = dropped /\ gen' = gen
      /\ recorded' = IF step' = "idle" THEN AuthserviceIds(pkg) ELSE recorded
  BY DEF Reconcile
<1>3. spec # None
  BY <1>2, StepsTyped DEF NetworkInv, ControlInv
<1>4. "sso" \in DOMAIN pkg' /\ pkg'.sso = pkg.sso
  <2>1. "sso" \in DOMAIN pkg
    BY <1>3 DEF NetworkInv, ControlInv
  <2>2. pkg' = pkg \/ pkg' = RewrittenPackage(pkg)
    BY DEF Reconcile
  <2>3. "sso" \in DOMAIN RewrittenPackage(pkg) /\ RewrittenPackage(pkg).sso = pkg.sso
    BY <2>1 DEF RewrittenPackage
  <2>4. QED
    BY <2>1, <2>2, <2>3
<1>5. AuthserviceIds(pkg)' = AuthserviceIds(pkg)
  BY <1>4 DEF AuthserviceIds
<1>6. /\ live' = [s \in ToSet(Steps) |-> live'[s]]
      /\ \A s \in ToSet(Steps) : live'[s] = IF s = step THEN objs ELSE live[s]
  BY <1>1, <1>2 DEF NetworkInv, ControlInv
<1>7. ControlInv'
  <2>1. step' \in ToSet(Steps) \cup {"idle"}
    <3>1. PICK i \in DOMAIN Steps : Steps[i] = step
      BY <1>2 DEF ToSet
    <3>2. step' = IF i = 6 THEN "idle" ELSE Steps[i + 1]
      BY <1>2, <3>1, NextStepIs
    <3>3. i # 6 => i + 1 \in DOMAIN Steps
      BY StepsTyped
    <3>4. QED
      BY <3>2, <3>3 DEF ToSet
  <2>2. spec \in Revision /\ pkg.sso = Migrate(spec).sso
    BY <1>3 DEF NetworkInv, ControlInv
  <2>3. step' = "idle" => recorded' = AuthserviceIds(pkg)'
    BY <1>2, <1>5
  <2>4. QED
    BY <1>2, <1>3, <1>4, <1>6, <2>1, <2>2, <2>3 DEF ControlInv
<1>8. PurgedInv'
  <2> SUFFICES ASSUME NEW s \in ToSet(Steps) \ {"ssoPolicies"}, Past(step', s), NEW o \in live'[s]
               PROVE  o.gen = gen
    BY <1>2 DEF PurgedInv
  <2>1. CASE s = step
    BY <1>6, <2>1, PurgedOutcome
  <2>2. CASE s # step
    <3>1. Past(step, s)
      BY <1>2, <2>2, PastGrows
    <3>2. o \in live[s]
      BY <1>6, <2>2
    <3>3. QED
      BY <3>1, <3>2 DEF NetworkInv, PurgedInv
  <2>3. QED
    BY <2>1, <2>2
<1>9. SsoInv'
  <2>1. CASE step = "ssoPolicies"
    <3>1. live'["ssoPolicies"] = objs
      BY <1>2, <1>6, <2>1
    <3>2. \A o \in live'["ssoPolicies"] :
            /\ NamedAfterClient(o.obj)
            /\ (o.gen = gen /\ o.obj.client \in AuthserviceIds(pkg)) \/ o.obj.client \in dropped
      BY <1>1, <1>3, <2>1, <3>1, SsoStepLeaves
    <3>3. QED
      BY <1>2, <1>5, <3>2 DEF SsoInv
  <2>2. CASE step # "ssoPolicies"
    <3>1. live'["ssoPolicies"] = live["ssoPolicies"]
      BY <1>6, <2>2, StepsTyped
    <3>2. \A o \in live["ssoPolicies"] :
            /\ NamedAfterClient(o.obj)
            /\ o.obj.client \in recorded \cup dropped \cup AuthserviceIds(pkg)
      BY DEF NetworkInv, SsoInv
    <3>3. Past(step', "ssoPolicies") =>
            \A o \in live["ssoPolicies"] :
              o.obj.client \in dropped \/ (o.gen = gen /\ o.obj.client \in AuthserviceIds(pkg))
      <4>1. Past(step', "ssoPolicies") => Past(step, "ssoPolicies")
        BY <1>2, <2>2, PastGrows, StepsTyped
      <4>2. QED
        BY <4>1 DEF NetworkInv, SsoInv
    <3>4. step' = "idle" => Past(step', "ssoPolicies")
      BY DEF Past
    <3>5. \A o \in live["ssoPolicies"] : o.obj.client \in recorded' \cup dropped \cup AuthserviceIds(pkg)
      BY <1>2, <3>2, <3>3, <3>4
    <3>6. QED
      BY <1>2, <1>5, <3>1, <3>2, <3>3, <3>5 DEF SsoInv
  <2>3. QED
    BY <2>1, <2>2
<1>10. QED
  BY <1>7, <1>8, <1>9 DEF NetworkInv

LEMMA NetworkStutters ==
  ASSUME NetworkInv, UNCHANGED networkVars
  PROVE  NetworkInv'
BY DEF networkVars, NetworkInv, ControlInv, PurgedInv, SsoInv, AuthserviceIds

LEMMA NetworkInvariant == NetworkSpec => []NetworkInv
<1>1. NetworkInit => NetworkInv
  BY NetworkStarts
<1>2. NetworkInv /\ [NetworkNext]_networkVars => NetworkInv'
  <2> SUFFICES ASSUME NetworkInv, [NetworkNext]_networkVars PROVE NetworkInv'
    OBVIOUS
  <2>1. ASSUME NEW d \in Revision, Submit(d) PROVE NetworkInv'
    BY <2>1, SubmitKeeps
  <2>2. ASSUME Reconcile PROVE NetworkInv'
    BY <2>2, ReconcileKeeps
  <2>3. ASSUME NEW n \in {0, 1, 3}, Fail(n) PROVE NetworkInv'
    BY <2>3, FailKeeps
  <2>4. ASSUME Retry PROVE NetworkInv'
    BY <2>4, RetryKeeps
  <2>5. ASSUME UNCHANGED networkVars PROVE NetworkInv'
    BY <2>5, NetworkStutters
  <2>6. QED
    BY <2>1, <2>2, <2>3, <2>4, <2>5 DEF NetworkNext
<1>3. QED
  BY <1>1, <1>2, PTL DEF NetworkSpec

(* After a reconciliation nothing of an earlier generation is left, for    *)
(* any packages, any number of generations and of attempts that break off  *)
(* half way, but the SSO policies of clients whose generation was replaced *)
(* before it was Ready (purgeOrphans after every step, and the deletion by *)
(* name of the clients the status lists).                                  *)
THEOREM AttemptsLeaveNothing == NetworkSpec => []NothingLeftBehind
<1>1. NetworkInv => NothingLeftBehind
  <2> SUFFICES ASSUME NetworkInv, Done, NEW s \in ToSet(Steps), NEW o \in live[s]
               PROVE  o.gen = gen \/ (s = "ssoPolicies" /\ o.obj.client \in dropped)
    BY DEF NothingLeftBehind
  <2>1. Past(step, s)
    BY DEF Done, Past
  <2>2. CASE s = "ssoPolicies"
    BY <2>1, <2>2 DEF NetworkInv, SsoInv
  <2>3. CASE s # "ssoPolicies"
    BY <2>1, <2>3 DEF NetworkInv, PurgedInv
  <2>4. QED
    BY <2>2, <2>3
<1>2. QED
  BY <1>1, NetworkInvariant, PTL

-----------------------------------------------------------------------------
(* The rules of a client's policies, for the ports and paths exempted for  *)
(* scraping.                                                               *)

Pairs(X) == \A x \in X : x = <<x[1], x[2]>>

LEMMA ExemptPairs ==
  ASSUME NEW X, Pairs(X), NEW port, NEW path
  PROVE  /\ port \in ExemptPorts(X) /\ path \in PathsOn(X, port) <=> <<port, path>> \in X
         /\ path \in PathsOn(X, port) => port \in ExemptPorts(X)
<1>1. path \in PathsOn(X, port) <=> <<port, path>> \in X
  <2>1. ASSUME path \in PathsOn(X, port) PROVE <<port, path>> \in X
    <3>1. PICK x \in X : x[1] = port /\ path = x[2]
      BY <2>1 DEF PathsOn
    <3>2. x = <<x[1], x[2]>>
      BY DEF Pairs
    <3>3. QED
      BY <3>1, <3>2
  <2>2. ASSUME <<port, path>> \in X PROVE path \in PathsOn(X, port)
    BY <2>2 DEF PathsOn
  <2>3. QED
    BY <2>1, <2>2
<1>2. <<port, path>> \in X => port \in ExemptPorts(X)
  BY DEF ExemptPorts
<1>3. QED
  BY <1>1, <1>2

LEMMA NonMetricsCoverTheRest ==
  ASSUME NEW X, Pairs(X), X # {}, NEW port, NEW path
  PROVE  (\E op \in BuildNonMetricsOperations(X) : Covers(op, port, path)) <=> <<port, path>> \notin X
<1> DEFINE onPort(p) == Operation({p}, {}, {}, PathsOn(X, p))
           offPorts == Operation({}, ExemptPorts(X), {}, {})
<1>1. \A op : op \in BuildNonMetricsOperations(X) <=>
                (\E p \in ExemptPorts(X) : op = onPort(p)) \/ op = offPorts
  BY DEF BuildNonMetricsOperations
<1>2. \A p : Covers(onPort(p), port, path) <=> port = p /\ path \notin PathsOn(X, p)
  BY DEF Covers, Operation
<1>3. Covers(offPorts, port, path) <=> port \notin ExemptPorts(X)
  BY DEF Covers, Operation
<1> HIDE DEF onPort, offPorts
<1>4. (\E op \in BuildNonMetricsOperations(X) : Covers(op, port, path)) <=>
        (port \in ExemptPorts(X) /\ path \notin PathsOn(X, port)) \/ port \notin ExemptPorts(X)
  BY <1>1, <1>2, <1>3
<1>5. QED
  BY <1>4, ExemptPairs

LEMMA MetricsCoverTheExempt ==
  ASSUME NEW X, Pairs(X), NEW port, NEW path
  PROVE  (\E op \in BuildMetricsOperations(X) : Covers(op, port, path)) <=> <<port, path>> \in X
<1> DEFINE onPort(p) == Operation({p}, {}, PathsOn(X, p), {})
<1>1. \A op : op \in BuildMetricsOperations(X) <=> \E p \in ExemptPorts(X) : op = onPort(p)
  BY DEF BuildMetricsOperations
<1>2. \A p : Covers(onPort(p), port, path) <=>
               port = p /\ (PathsOn(X, p) = {} \/ path \in PathsOn(X, p))
  BY DEF Covers, Operation
<1>3. ASSUME NEW p \in ExemptPorts(X) PROVE PathsOn(X, p) # {}
  <2>1. PICK x \in X : p = x[1]
    BY DEF ExemptPorts
  <2>2. x[2] \in PathsOn(X, p)
    BY <2>1 DEF PathsOn
  <2>3. QED
    BY <2>2
<1> HIDE DEF onPort
<1>4. (\E op \in BuildMetricsOperations(X) : Covers(op, port, path)) <=>
        port \in ExemptPorts(X) /\ path \in PathsOn(X, port)
  BY <1>1, <1>2, <1>3
<1>5. QED
  BY <1>4, ExemptPairs

(* The operations of the rules partition all requests: without a token     *)
(* nobody gets to any port and path, except Prometheus to one that is      *)
(* exempt; and every request that is not exempt is sent to the login       *)
(* (buildMetricsOperations, buildNonMetricsOperations, and the rules made  *)
(* from them).                                                             *)
THEOREM RulesCoverRequests ==
  ASSUME NEW X, Pairs(X), NEW from, NEW port, NEW path
  PROVE  /\ (\E r \in JwtAuthZRules(X) : RuleApplies(r, from, port, path)) <=>
              ~(<<port, path>> \in X /\ SourceMatches(PrometheusPrincipal, from))
         /\ (\E r \in AuthserviceRules(X) : RuleApplies(r, from, port, path)) <=> <<port, path>> \notin X
<1> DEFINE rest == BuildNonMetricsOperations(X)
           exempt == BuildMetricsOperations(X)
           everyone(to) == [notPrincipals |-> {}, when |-> "notJwt", to |-> to]
           others(to) == [notPrincipals |-> {PrometheusPrincipal}, when |-> "notJwt", to |-> to]
           login(to) == [notPrincipals |-> {}, when |-> "noHeader", to |-> to]
           covered(to) == to = {} \/ \E op \in to : Covers(op, port, path)
<1>1. \A to : /\ RuleApplies(everyone(to), from, port, path) <=> covered(to)
              /\ RuleApplies(login(to), from, port, path) <=> covered(to)
              /\ RuleApplies(others(to), from, port, path) <=>
                   ~SourceMatches(PrometheusPrincipal, from) /\ covered(to)
  BY DEF RuleApplies
<1>2. AuthserviceRules(X) = {login(rest)}
  BY DEF AuthserviceRules
<1>3. CASE X = {}
  <2>1. JwtAuthZRules(X) = {everyone({})}
    BY <1>3 DEF JwtAuthZRules
  <2>2. rest = {}
    BY <1>3 DEF BuildNonMetricsOperations, ExemptPorts
  <2> HIDE DEF everyone, login, others, rest
  <2>3. QED
    BY <1>1, <1>2, <1>3, <2>1, <2>2
<1>4. CASE X # {}
  <2>1. JwtAuthZRules(X) = {others(exempt), everyone(rest)}
    BY <1>4 DEF JwtAuthZRules
  <2>2. rest # {} /\ exempt # {}
    <3>1. ExemptPorts(X) # {}
      BY <1>4 DEF ExemptPorts
    <3>2. QED
      BY <3>1, <1>4 DEF BuildNonMetricsOperations, BuildMetricsOperations
  <2>3. /\ (\E op \in rest : Covers(op, port, path)) <=> <<port, path>> \notin X
        /\ (\E op \in exempt : Covers(op, port, path)) <=> <<port, path>> \in X
    BY <1>4, NonMetricsCoverTheRest, MetricsCoverTheExempt
  <2> HIDE DEF everyone, login, others, rest, exempt
  <2>4. covered(rest) <=> <<port, path>> \notin X
    BY <2>2, <2>3
  <2>5. covered(exempt) <=> <<port, path>> \in X
    BY <2>2, <2>3
  <2> HIDE DEF covered
  <2>6. QED
    BY <1>1, <1>2, <2>1, <2>4, <2>5
<1>5. QED
  BY <1>3, <1>4

-----------------------------------------------------------------------------
(* What the clients ask for is in the cluster.                             *)

(* The names of two clients' policies tell the clients apart.              *)
ClientNamesApart(p) ==
  \A kind \in SsoKinds, i, j \in DOMAIN p.sso :
    /\ Protects(p.sso[i]) /\ Protects(p.sso[j])
    /\ SanitizeResourceName(<<p.sso[i].clientId, kind>>) = SanitizeResourceName(<<p.sso[j].clientId, kind>>)
    => p.sso[i].clientId = p.sso[j].clientId

(* Once a package is reconciled, requests to what one of its clients       *)
(* protects need a token and are sent to the login, except the ones that   *)
(* its monitors exempt: the policies of the client are in the cluster, made *)
(* for the spec as it was written, and their rules leave no request out.   *)
(* (updatePolicy in authorization-policy.ts.)                              *)
ProtectedAreGuarded ==
  Done /\ ClientNamesApart(Asked) =>
    \A i \in DOMAIN Asked.sso : \A target, from, port, path :
      LET c == Asked.sso[i]
          exempt == <<port, path>> \in ComputeMonitorExemptions(Asked, c.enableAuthserviceSelector)
      IN  Protects(c) /\ Subset(SetPolicyTarget(Asked, c), target.labels) =>
            /\ Refused(target, from, port, path) \/ (exempt /\ SourceMatches(PrometheusPrincipal, from))
            /\ SentToLogin(target, from, port, path) \/ exempt

(* What the reconciler works on differs from the spec in the allow rules   *)
(* only, and the webhook let no client id through twice.                   *)
AskedInv ==
  spec # None =>
    /\ {"mode", "monitor", "sso"} \subseteq DOMAIN pkg
    /\ pkg.mode = Asked.mode /\ pkg.monitor = Asked.monitor
    /\ \A i, j \in DOMAIN Asked.sso : Asked.sso[i].clientId = Asked.sso[j].clientId => i = j

(* Once the SSO step is past, every policy it should apply is there.       *)
GuardInv ==
  spec # None /\ Past(step, "ssoPolicies") /\ ClientNamesApart(Asked) =>
    \A i \in DOMAIN Asked.sso, j \in 1..3 :
      Protects(Asked.sso[i]) => \E o \in live["ssoPolicies"] : o.obj = SsoPolicies(Asked, Asked.sso[i])[j]

LEMMA AskedStarts == NetworkInit => AskedInv /\ GuardInv
BY DEF NetworkInit, AskedInv, GuardInv

LEMMA AskedKeeps ==
  ASSUME ControlInv, AskedInv, [NetworkNext]_networkVars
  PROVE  AskedInv'
<1>1. ASSUME NEW d \in Revision, Submit(d) PROVE AskedInv'
  <2>1. spec' = d /\ pkg' = Migrate(d) /\ Validator(d, None, NoOwner, NoOwner)
    BY <1>1 DEF Submit
  <2>2. {"mode", "monitor", "sso"} \subseteq DOMAIN Migrate(d)
    BY RevisionAssumption DEF Package, Migrate
  <2>3. \A i, j \in DOMAIN Migrate(d).sso : Migrate(d).sso[i].clientId = Migrate(d).sso[j].clientId => i = j
    <3> DEFINE p == Migrate(d)
    <3>1. SsoAllowed(p, NoOwner)
      BY <2>1 DEF Validator
    <3> HIDE DEF p
    <3>2. Distinct([i \in DOMAIN p.sso |-> p.sso[i].clientId])
      BY <3>1 DEF SsoAllowed
    <3>3. \A i, j \in DOMAIN p.sso : p.sso[i].clientId = p.sso[j].clientId => i = j
      BY <3>2 DEF Distinct
    <3>4. QED
      BY <3>3 DEF p
  <2>4. QED
    BY <2>1, <2>2, <2>3 DEF AskedInv, Asked
<1>2. ASSUME Reconcile PROVE AskedInv'
  <2>1. spec' = spec /\ (pkg' = pkg \/ pkg' = RewrittenPackage(pkg))
    BY <1>2 DEF Reconcile
  <2> DEFINE p == RewrittenPackage(pkg)
  <2>2. DOMAIN p = DOMAIN pkg
    BY DEF RewrittenPackage
  <2>3. ASSUME spec # None PROVE p.mode = pkg.mode /\ p.monitor = pkg.monitor
    BY <2>3 DEF RewrittenPackage, AskedInv
  <2> HIDE DEF p
  <2>4. QED
    BY <2>1, <2>2, <2>3 DEF AskedInv, Asked, p
<1>3. ASSUME NEW n \in Nat, Fail(n) PROVE AskedInv'
  BY <1>3 DEF Fail, AskedInv, Asked
<1>4. ASSUME Retry PROVE AskedInv'
  <2>1. spec' = spec /\ pkg' = Migrate(spec)
    BY <1>4 DEF Retry
  <2>2. spec # None => {"mode", "monitor", "sso"} \subseteq DOMAIN Migrate(spec)
    BY RevisionAssumption DEF ControlInv, Package, Migrate
  <2>3. QED
    BY <2>1, <2>2 DEF AskedInv, Asked
<1>5. ASSUME UNCHANGED networkVars PROVE AskedInv'
  BY <1>5 DEF networkVars, AskedInv, Asked
<1>6. QED
  BY <1>1, <1>2, <1>3, <1>4, <1>5 DEF NetworkNext

LEMMA SamePolicies ==
  ASSUME AskedInv, spec # None, NEW c
  PROVE  SsoPolicies(pkg, c) = SsoPolicies(Asked, c)
<1> DEFINE q == Asked
<1>1. pkg.mode = q.mode /\ pkg.monitor = q.monitor
  BY DEF AskedInv
<1> HIDE DEF q
<1>2. ModeOf(pkg) = ModeOf(q)
  BY <1>1 DEF ModeOf
<1>3. \A selector : ComputeMonitorExemptions(pkg, selector) = ComputeMonitorExemptions(q, selector)
  BY <1>1, <1>2 DEF ComputeMonitorExemptions
<1>4. SetPolicyTarget(pkg, c) = SetPolicyTarget(q, c)
  BY <1>2 DEF SetPolicyTarget
<1>5. SsoPolicies(pkg, c) = SsoPolicies(q, c)
  BY <1>3, <1>4 DEF SsoPolicies
<1>6. QED
  BY <1>5 DEF q

(* The last object of a name.                                              *)
LEMMA LastOfName ==
  ASSUME NEW T, NEW objs \in Seq(T), NEW k \in DOMAIN objs
  PROVE  \E i \in DOMAIN objs : /\ NameOf(objs[i]) = NameOf(objs[k])
                                /\ \A j \in (i + 1)..Len(objs) : NameOf(objs[j]) # NameOf(objs[i])
<1> DEFINE N(i) == NameOf(objs[i])
<1> HIDE DEF N
<1>1. Len(objs) \in Nat /\ DOMAIN objs = 1..Len(objs)
  OBVIOUS
<1> DEFINE D == {d \in 0..Len(objs) : Len(objs) - d \in 1..Len(objs) /\ N(Len(objs) - d) = N(k)}
<1>2. D \subseteq Nat /\ Len(objs) - k \in D
  BY <1>1
<1>3. PICK d \in D : \A e \in D : d <= e
  <2> HIDE DEF D
  <2>1. QED
    BY <1>2, Least
<1>4. Len(objs) - d \in DOMAIN objs /\ N(Len(objs) - d) = N(k)
  BY <1>1
<1>5. ASSUME NEW j \in (Len(objs) - d + 1)..Len(objs) PROVE N(j) # N(k)
  <2>1. j \in 1..Len(objs) /\ Len(objs) - j < d /\ Len(objs) - j \in 0..Len(objs)
    BY <1>1, <1>4
  <2>2. Len(objs) - (Len(objs) - j) = j
    BY <1>1
  <2>3. Len(objs) - j \notin D
    <3> HIDE DEF D
    <3>1. d \in Nat /\ Len(objs) - j \in Nat
      BY <1>1, <1>2, <2>1
    <3>2. QED
      BY <1>3, <2>1, <3>1
  <2>4. QED
    BY <2>1, <2>2, <2>3
<1>6. QED
  BY <1>4, <1>5 DEF N

(* An object that shares its name with no other one is there after the     *)
(* applies.                                                                *)
LEMMA DistinctIsApplied ==
  ASSUME NEW T, NEW objs \in Seq(T), NEW present, NEW x \in ToSet(objs),
         \A y \in ToSet(objs) : NameOf(y) = NameOf(x) => y = x
  PROVE  [gen |-> gen, obj |-> x] \in Applied(objs, present)
<1>1. PICK k \in DOMAIN objs : x = objs[k]
  BY DEF ToSet
<1>2. PICK i \in DOMAIN objs : /\ NameOf(objs[i]) = NameOf(objs[k])
                               /\ \A j \in (i + 1)..Len(objs) : NameOf(objs[j]) # NameOf(objs[i])
  BY LastOfName
<1>3. objs[i] = x
  BY <1>1, <1>2 DEF ToSet
<1>4. QED
  BY <1>2, <1>3 DEF Applied

(* When the clients' names are apart, so are those of their policies.      *)
LEMMA PoliciesTellApart ==
  ASSUME ControlInv, AskedInv, spec # None, ClientNamesApart(Asked),
         NEW x \in ToSet(Generated("ssoPolicies")), NEW y \in ToSet(Generated("ssoPolicies")),
         NameOf(x) = NameOf(y)
  PROVE  x = y
<1>1. pkg.sso = Asked.sso
  BY DEF ControlInv, Asked
<1> DEFINE cs == pkg.sso
<1>2. pkg.sso \in Seq(ToSet(pkg.sso))
  BY SsoTyped
<1> HIDE DEF cs
<1>3. PICK i \in DOMAIN cs, a \in 1..3 : Protects(cs[i]) /\ x = SsoPolicies(pkg, cs[i])[a]
  BY <1>2, SsoPoliciesGenerated DEF cs
<1>4. PICK j \in DOMAIN cs, b \in 1..3 : Protects(cs[j]) /\ y = SsoPolicies(pkg, cs[j])[b]
  BY <1>2, SsoPoliciesGenerated DEF cs
<1>5. /\ NamedAfterClient(x) /\ x.client = cs[i].clientId
      /\ NamedAfterClient(y) /\ y.client = cs[j].clientId
  BY <1>3, <1>4, SsoPoliciesOfClient
<1>6. x.kind = y.kind /\ x.name = y.name
  BY <1>5 DEF NamedAfterClient, NameOf
<1>7. a = b
  BY <1>3, <1>4, <1>6, SsoPoliciesOfClient
<1>8. cs[i].clientId = cs[j].clientId
  BY <1>1, <1>3, <1>4, <1>5, <1>6 DEF ClientNamesApart, NamedAfterClient, cs
<1>9. i = j
  BY <1>1, <1>8 DEF AskedInv, cs
<1>10. QED
  BY <1>3, <1>4, <1>7, <1>9

(* The SSO step leaves every policy it applied.                            *)
LEMMA SsoStepGuards ==
  ASSUME ControlInv, AskedInv, spec # None, ClientNamesApart(Asked),
         NEW objs \in Outcomes("ssoPolicies", Applied(Generated("ssoPolicies"), live["ssoPolicies"])),
         NEW i \in DOMAIN Asked.sso, NEW j \in 1..3, Protects(Asked.sso[i])
  PROVE  \E o \in objs : o.obj = SsoPolicies(Asked, Asked.sso[i])[j]
<1> DEFINE all == Generated("ssoPolicies")
           applied == Applied(all, live["ssoPolicies"])
           x == SsoPolicies(pkg, pkg.sso[i])[j]
           o == [gen |-> gen, obj |-> x]
<1>1. pkg.sso = Asked.sso /\ pkg.sso \in Seq(ToSet(pkg.sso))
  BY SsoTyped DEF ControlInv, Asked
<1>2. all \in Seq(ToSet(all)) /\ x \in ToSet(all)
  BY <1>1, SsoPoliciesGenerated
<1>3. x.client \in AuthserviceIds(pkg)
  BY <1>1, <1>2, GeneratesSsoPolicies
<1>4. \A y \in ToSet(all) : NameOf(y) = NameOf(x) => y = x
  BY <1>2, PoliciesTellApart
<1>5. o \in applied
  <2> HIDE DEF all, x
  <2>1. QED
    BY <1>2, <1>4, DistinctIsApplied
<1>6. x = SsoPolicies(Asked, Asked.sso[i])[j]
  BY <1>1, SamePolicies
<1>7. PICK purged \in SsoPurges : objs = DeleteRemovedClients(IF purged THEN PurgeOrphans(applied) ELSE applied)
  BY DEF Outcomes
<1> HIDE DEF applied, all, x
<1>8. o.gen = gen /\ o.obj = x
  OBVIOUS
<1> HIDE DEF o
<1>9. o \in objs
  BY <1>3, <1>5, <1>7, <1>8 DEF DeleteRemovedClients, PurgeOrphans
<1>10. QED
  BY <1>6, <1>8, <1>9

LEMMA GuardKeeps ==
  ASSUME NetworkInv, AskedInv, GuardInv, [NetworkNext]_networkVars
  PROVE  GuardInv'
<1> SUFFICES ASSUME spec' # None, Past(step', "ssoPolicies"), ClientNamesApart(Migrate(spec')),
                    NEW i \in DOMAIN Migrate(spec').sso, NEW j \in 1..3, Protects(Migrate(spec').sso[i])
             PROVE  \E o \in live'["ssoPolicies"] : o.obj = SsoPolicies(Migrate(spec'), Migrate(spec').sso[i])[j]
  BY DEF GuardInv, Asked
<1>1. ~(step' = "waiting" \/ step' = Steps[1])
  BY NothingPast, StepsTyped
<1>2. CASE Reconcile
  <2>1. PICK objs \in Outcomes(step, Applied(Generated(step), live[step])) :
          live' = [live EXCEPT ![step] = objs]
    BY <1>2 DEF Reconcile
  <2>2. step \in ToSet(Steps) /\ step' = NextStep(step) /\ spec' = spec
    BY <1>2 DEF Reconcile
  <2>3. \A s \in ToSet(Steps) : live'[s] = IF s = step THEN objs ELSE live[s]
    BY <2>1, <2>2 DEF NetworkInv, ControlInv
  <2>4. CASE step = "ssoPolicies"
    <3>1. live'["ssoPolicies"] = objs
      BY <2>2, <2>3, <2>4
    <3>2. \E o \in objs : o.obj = SsoPolicies(Asked, Asked.sso[i])[j]
      BY <2>1, <2>2, <2>4, SsoStepGuards DEF NetworkInv, Asked
    <3>3. QED
      BY <2>2, <3>1, <3>2 DEF Asked
  <2>5. CASE step # "ssoPolicies"
    <3>1. Past(step, "ssoPolicies")
      BY <2>2, <2>5, PastGrows, StepsTyped
    <3>2. live'["ssoPolicies"] = live["ssoPolicies"]
      BY <2>3, <2>5, StepsTyped
    <3>3. \E o \in live["ssoPolicies"] : o.obj = SsoPolicies(Asked, Asked.sso[i])[j]
      BY <2>2, <3>1 DEF GuardInv, Asked
    <3>4. QED
      BY <2>2, <3>2, <3>3 DEF Asked
  <2>6. QED
    BY <2>4, <2>5
<1>3. CASE UNCHANGED networkVars
  BY <1>3 DEF networkVars, GuardInv, Asked
<1>4. ASSUME NEW d \in Revision, Submit(d) PROVE FALSE
  BY <1>1, <1>4 DEF Submit
<1>5. ASSUME NEW n \in Nat, Fail(n) PROVE FALSE
  BY <1>1, <1>5 DEF Fail
<1>6. ASSUME Retry PROVE FALSE
  BY <1>1, <1>6 DEF Retry
<1>7. QED
  BY <1>2, <1>3, <1>4, <1>5, <1>6 DEF NetworkNext

LEMMA GuardInvariant == NetworkSpec => [](AskedInv /\ GuardInv)
<1>1. NetworkInit => AskedInv /\ GuardInv
  BY AskedStarts
<1>2. NetworkInv /\ (AskedInv /\ GuardInv) /\ [NetworkNext]_networkVars => (AskedInv /\ GuardInv)'
  BY AskedKeeps, GuardKeeps DEF NetworkInv
<1>3. QED
  BY <1>1, <1>2, NetworkInvariant, PTL DEF NetworkSpec

LEMMA MonitorPairs ==
  ASSUME NEW p, NEW selector
  PROVE  Pairs(ComputeMonitorExemptions(p, selector))
BY DEF Pairs, ComputeMonitorExemptions

(* No request gets past the SSO of a package without a token, for any      *)
(* clients, monitors, modes and generations, as long as the names of the   *)
(* clients' policies tell the clients apart.                               *)
THEOREM ProtectedStayGuarded == NetworkSpec => []ProtectedAreGuarded
<1>1. ControlInv /\ AskedInv /\ GuardInv => ProtectedAreGuarded
  <2> SUFFICES ASSUME ControlInv, AskedInv, GuardInv, Done, ClientNamesApart(Asked),
                      NEW i \in DOMAIN Asked.sso, NEW target, NEW from, NEW port, NEW path,
                      Protects(Asked.sso[i]), Subset(SetPolicyTarget(Asked, Asked.sso[i]), target.labels)
               PROVE  LET exempt == <<port, path>> \in
                                      ComputeMonitorExemptions(Asked, Asked.sso[i].enableAuthserviceSelector)
                      IN  /\ Refused(target, from, port, path) \/ (exempt /\ SourceMatches(PrometheusPrincipal, from))
                          /\ SentToLogin(target, from, port, path) \/ exempt
    BY DEF ProtectedAreGuarded
  <2> DEFINE c == Asked.sso[i]
             X == ComputeMonitorExemptions(Asked, c.enableAuthserviceSelector)
             policy(j) == SsoPolicies(Asked, c)[j]
  <2>1. \A j \in 1..3 : policy(j) \in Objects("ssoPolicies")
    <3>1. Past(step, "ssoPolicies") /\ spec # None
      BY DEF Done, Past
    <3>2. \A j \in 1..3 : \E o \in live["ssoPolicies"] : o.obj = policy(j)
      BY <3>1 DEF GuardInv
    <3> HIDE DEF policy
    <3>3. QED
      BY <3>2 DEF Objects
  <2>2. /\ policy(1).kind = "authservice" /\ policy(1).rules = AuthserviceRules(X)
        /\ policy(3).kind = "jwt-authz" /\ policy(3).rules = JwtAuthZRules(X)
        /\ policy(1).target = SetPolicyTarget(Asked, c) /\ policy(3).target = SetPolicyTarget(Asked, c)
    BY DEF SsoPolicies
  <2>3. Pairs(X)
    BY MonitorPairs
  <2> HIDE DEF X, policy
  <2>4. /\ (\E r \in JwtAuthZRules(X) : RuleApplies(r, from, port, path)) <=>
              ~(<<port, path>> \in X /\ SourceMatches(PrometheusPrincipal, from))
        /\ (\E r \in AuthserviceRules(X) : RuleApplies(r, from, port, path)) <=> <<port, path>> \notin X
    BY <2>3, RulesCoverRequests
  <2>5. Refused(target, from, port, path) \/ (<<port, path>> \in X /\ SourceMatches(PrometheusPrincipal, from))
    BY <2>1, <2>2, <2>4 DEF Refused, Caught
  <2>6. SentToLogin(target, from, port, path) \/ <<port, path>> \in X
    BY <2>1, <2>2, <2>4 DEF SentToLogin, Caught
  <2>7. QED
    BY <2>5, <2>6 DEF X
<1>2. NetworkInv => ControlInv
  BY DEF NetworkInv
<1>3. QED
  BY <1>1, <1>2, NetworkInvariant, GuardInvariant, PTL

-----------------------------------------------------------------------------
(* Sequences of generated objects.                                         *)

IsSeq(s) == s \in Seq(ToSet(s))

LEMMA MapIsSeq ==
  ASSUME NEW n \in Nat, NEW m, m = [i \in 1..n |-> m[i]]
  PROVE  IsSeq(m) /\ DOMAIN m = 1..n /\ Len(m) = n /\ ToSet(m) = {m[i] : i \in 1..n}
<1>1. DOMAIN m = 1..n
  BY Zenon
<1>2. \A i \in 1..n : m[i] \in ToSet(m)
  BY <1>1 DEF ToSet
<1>3. m \in [1..n -> ToSet(m)]
  BY <1>2, Zenon
<1>4. m \in Seq(ToSet(m))
  BY <1>3
<1>5. Len(m) = n
  BY <1>1, <1>4
<1>6. ToSet(m) = {m[i] : i \in 1..n}
  BY <1>1 DEF ToSet
<1>7. QED
  BY <1>1, <1>4, <1>5, <1>6 DEF IsSeq

LEMMA TypedIsSeq ==
  ASSUME NEW T, NEW s \in Seq(T)
  PROVE  IsSeq(s) /\ Len(s) \in Nat /\ DOMAIN s = 1..Len(s)
<1>1. Len(s) \in Nat /\ DOMAIN s = 1..Len(s)
  OBVIOUS
<1>2. s = [i \in 1..Len(s) |-> s[i]]
  OBVIOUS
<1>3. QED
  BY <1>1, <1>2, MapIsSeq

LEMMA ConcatIsSeq ==
  ASSUME NEW s, NEW t, IsSeq(s), IsSeq(t)
  PROVE  IsSeq(s \o t) /\ ToSet(s \o t) = ToSet(s) \cup ToSet(t)
<1> DEFINE A == ToSet(s)
           B == ToSet(t)
<1>1. s \in Seq(A) /\ t \in Seq(B)
  BY DEF IsSeq
<1> HIDE DEF A, B
<1>2. s \in Seq(A \cup B) /\ t \in Seq(A \cup B)
  BY <1>1
<1>3. ToSet(s \o t) = ToSet(s) \cup ToSet(t)
  BY <1>2, ConcatElements
<1>4. s \o t \in Seq(A \cup B)
  BY <1>2
<1>5. IsSeq(s \o t)
  BY <1>3, <1>4 DEF IsSeq, A, B
<1>6. QED
  BY <1>3, <1>5

LEMMA FlattenIsSeq ==
  ASSUME NEW n \in Nat, NEW ss, ss = [i \in 1..n |-> ss[i]], \A i \in 1..n : IsSeq(ss[i])
  PROVE  IsSeq(FlattenSeq(ss)) /\ ToSet(FlattenSeq(ss)) = UNION {ToSet(ss[i]) : i \in 1..n}
<1> DEFINE S == UNION {ToSet(ss[i]) : i \in 1..n}
           flat == FlattenSeq(ss)
<1>1. DOMAIN ss = 1..n
  BY MapIsSeq
<1>2. \A i \in 1..n : ss[i] \in Seq(ToSet(ss[i])) /\ ToSet(ss[i]) \subseteq S
  BY DEF IsSeq
<1> HIDE DEF S
<1>3. \A i \in 1..n : ss[i] \in Seq(S)
  <2> SUFFICES ASSUME NEW i \in 1..n PROVE ss[i] \in Seq(S)
    OBVIOUS
  <2> DEFINE t == ss[i]
             T == ToSet(ss[i])
  <2>1. t \in Seq(T) /\ T \subseteq S
    BY <1>2
  <2> HIDE DEF t, T
  <2>2. t \in Seq(S)
    BY <2>1
  <2>3. QED
    BY <2>2 DEF t
<1>4. ss \in [1..n -> Seq(S)]
  BY <1>3, Zenon
<1>5. ss \in Seq(Seq(S))
  BY <1>4
<1>6. flat \in Seq(S) /\ ToSet(flat) = UNION {ToSet(ss[i]) : i \in DOMAIN ss}
  BY <1>5, FlattenElements
<1> HIDE DEF flat
<1>7. flat \in Seq(S) /\ ToSet(flat) = S
  BY <1>1, <1>6 DEF S
<1>8. IsSeq(flat)
  BY <1>7 DEF IsSeq
<1>9. QED
  BY <1>7, <1>8 DEF flat, S

LEMMA EmptyAndSingle ==
  /\ IsSeq(<<>>) /\ ToSet(<<>>) = {}
  /\ \A x : IsSeq(<<x>>) /\ ToSet(<<x>>) = {x}
<1>1. ToSet(<<>>) = {} /\ \A x : ToSet(<<x>>) = {x}
  BY DEF ToSet
<1>2. QED
  BY <1>1 DEF IsSeq

(* What Kept keeps, for the test of being in W.                            *)
LEMMA KeptElements ==
  ASSUME NEW s, IsSeq(s), NEW W, NEW kept,
         kept = FlattenSeq([i \in 1..Len(s) |-> IF s[i] \in W THEN <<s[i]>> ELSE <<>>])
  PROVE  IsSeq(kept) /\ ToSet(kept) = ToSet(s) \cap W
<1> DEFINE ss == [i \in 1..Len(s) |-> IF s[i] \in W THEN <<s[i]>> ELSE <<>>]
<1>1. Len(s) \in Nat /\ DOMAIN s = 1..Len(s)
  BY TypedIsSeq DEF IsSeq
<1>2. \A i \in 1..Len(s) : ss[i] = IF s[i] \in W THEN <<s[i]>> ELSE <<>>
  OBVIOUS
<1>3. ss = [i \in 1..Len(s) |-> ss[i]]
  OBVIOUS
<1> HIDE DEF ss
<1>4. \A i \in 1..Len(s) : IsSeq(ss[i]) /\ ToSet(ss[i]) = IF s[i] \in W THEN {s[i]} ELSE {}
  BY <1>2, EmptyAndSingle
<1>5. IsSeq(FlattenSeq(ss)) /\ ToSet(FlattenSeq(ss)) = UNION {ToSet(ss[i]) : i \in 1..Len(s)}
  BY <1>1, <1>3, <1>4, FlattenIsSeq
<1>6. kept = FlattenSeq(ss)
  BY DEF ss
<1>7. UNION {ToSet(ss[i]) : i \in 1..Len(s)} = {s[i] : i \in 1..Len(s)} \cap W
  BY <1>4
<1>8. ToSet(s) = {s[i] : i \in 1..Len(s)}
  BY <1>1 DEF ToSet
<1>9. QED
  BY <1>5, <1>6, <1>7, <1>8

-----------------------------------------------------------------------------
(* What the authorization step generates.                                  *)

LEMMA ClientsKept ==
  ASSUME NEW p, IsSeq(p.sso)
  PROVE  /\ IsSeq(AuthserviceClients(p))
         /\ ToSet(AuthserviceClients(p)) = {c \in ToSet(p.sso) : Protects(c)}
<1> DEFINE s == p.sso
           W == {c \in ToSet(s) : Protects(c)}
           kept == AuthserviceClients(p)
<1>1. Len(s) \in Nat /\ DOMAIN s = 1..Len(s)
  BY TypedIsSeq DEF IsSeq
<1>2. \A i \in 1..Len(s) : Protects(s[i]) <=> s[i] \in W
  BY <1>1 DEF ToSet
<1>3. kept = FlattenSeq([i \in 1..Len(s) |-> IF Protects(s[i]) THEN <<s[i]>> ELSE <<>>])
  BY DEF AuthserviceClients, Kept
<1> HIDE DEF s, W, kept
<1>4. [i \in 1..Len(s) |-> IF Protects(s[i]) THEN <<s[i]>> ELSE <<>>] =
        [i \in 1..Len(s) |-> IF s[i] \in W THEN <<s[i]>> ELSE <<>>]
  BY <1>2
<1>5. kept = FlattenSeq([i \in 1..Len(s) |-> IF s[i] \in W THEN <<s[i]>> ELSE <<>>])
  BY <1>3, <1>4
<1>6. IsSeq(s)
  BY DEF s
<1>7. IsSeq(kept) /\ ToSet(kept) = ToSet(s) \cap W
  BY <1>5, <1>6, KeptElements
<1>8. QED
  BY <1>7 DEF s, W, kept

LEMMA AllowPolicies ==
  ASSUME NEW p, IsSeq(p.allow)
  PROVE  LET all == Each(LAMBDA a : AllowAuthPolicy(p, a),
                         Kept(p.allow, LAMBDA a : a.direction # "Egress" /\ a.remoteProtocol # "UDP"))
         IN  /\ IsSeq(all)
             /\ \A x : x \in ToSet(all) <=>
                  \E a \in ToSet(p.allow) :
                    a.direction # "Egress" /\ a.remoteProtocol # "UDP" /\ x = AllowAuthPolicy(p, a)
<1> DEFINE s == p.allow
           W == {a \in ToSet(s) : a.direction # "Egress" /\ a.remoteProtocol # "UDP"}
           kept == Kept(s, LAMBDA a : a.direction # "Egress" /\ a.remoteProtocol # "UDP")
           all == Each(LAMBDA a : AllowAuthPolicy(p, a), kept)
<1>1. Len(s) \in Nat /\ DOMAIN s = 1..Len(s)
  BY TypedIsSeq DEF IsSeq
<1>2. \A i \in 1..Len(s) : (s[i].direction # "Egress" /\ s[i].remoteProtocol # "UDP") <=> s[i] \in W
  BY <1>1 DEF ToSet
<1>3. kept = FlattenSeq([i \in 1..Len(s) |-> IF s[i].direction # "Egress" /\ s[i].remoteProtocol # "UDP"
                                             THEN <<s[i]>> ELSE <<>>])
  BY DEF Kept
<1>4. all = [i \in 1..Len(kept) |-> AllowAuthPolicy(p, kept[i])]
  BY DEF Each
<1>5. IsSeq(s)
  OBVIOUS
<1> HIDE DEF s, W, kept, all
<1>6. [i \in 1..Len(s) |-> IF s[i].direction # "Egress" /\ s[i].remoteProtocol # "UDP"
                           THEN <<s[i]>> ELSE <<>>] =
        [i \in 1..Len(s) |-> IF s[i] \in W THEN <<s[i]>> ELSE <<>>]
  BY <1>2
<1>7. kept = FlattenSeq([i \in 1..Len(s) |-> IF s[i] \in W THEN <<s[i]>> ELSE <<>>])
  BY <1>3, <1>6
<1>8. IsSeq(kept) /\ ToSet(kept) = ToSet(s) \cap W
  BY <1>5, <1>7, KeptElements
<1>9. IsSeq(all) /\ \A x : x \in ToSet(all) <=> \E a \in ToSet(kept) : x = AllowAuthPolicy(p, a)
  <2> DEFINE P(a) == AllowAuthPolicy(p, a)
  <2>1. all = [i \in 1..Len(kept) |-> P(kept[i])]
    BY <1>4
  <2> HIDE DEF P
  <2>2. Len(kept) \in Nat /\ DOMAIN kept = 1..Len(kept)
    BY <1>8, TypedIsSeq DEF IsSeq
  <2>3. all = [i \in 1..Len(kept) |-> all[i]]
    BY <2>1
  <2>4. IsSeq(all) /\ ToSet(all) = {all[i] : i \in 1..Len(kept)}
    BY <2>2, <2>3, MapIsSeq
  <2>5. \A x : x \in ToSet(all) <=> \E i \in 1..Len(kept) : x = P(kept[i])
    BY <2>1, <2>4
  <2>6. ToSet(kept) = {kept[i] : i \in 1..Len(kept)}
    BY <2>2 DEF ToSet
  <2>7. \A x : x \in ToSet(all) <=> \E a \in ToSet(kept) : x = P(a)
    BY <2>5, <2>6
  <2>8. QED
    BY <2>4, <2>7 DEF P
<1>10. \A a : a \in ToSet(s) \cap W <=> a \in ToSet(s) /\ a.direction # "Egress" /\ a.remoteProtocol # "UDP"
  BY DEF W
<1>11. QED
  BY <1>8, <1>9, <1>10 DEF all, kept, s

LEMMA ExposePolicies ==
  ASSUME NEW p, IsSeq(p.expose)
  PROVE  LET all == FlattenSeq(Each(LAMBDA e : ExposeAuthPolicies(p, e), p.expose))
         IN  /\ IsSeq(all)
             /\ \A x : x \in ToSet(all) <=> \E e \in ToSet(p.expose) : x \in ToSet(ExposeAuthPolicies(p, e))
<1> DEFINE s == p.expose
           P(e) == ExposeAuthPolicies(p, e)
           ss == Each(LAMBDA e : ExposeAuthPolicies(p, e), s)
<1>1. Len(s) \in Nat /\ ToSet(s) = {s[i] : i \in 1..Len(s)}
  BY TypedIsSeq DEF IsSeq, ToSet
<1>2. ss = [i \in 1..Len(s) |-> P(s[i])]
  BY DEF Each
<1>3. \A e : ExposeAuthPolicies(p, e) = <<>> \/ \E x : ExposeAuthPolicies(p, e) = <<x>>
  BY DEF ExposeAuthPolicies
<1>4. \A e : IsSeq(P(e))
  BY <1>3, EmptyAndSingle
<1> HIDE DEF s, ss, P
<1>5. ss = [i \in 1..Len(s) |-> ss[i]] /\ \A i \in 1..Len(s) : IsSeq(ss[i]) /\ ss[i] = P(s[i])
  BY <1>2, <1>4
<1>6. IsSeq(FlattenSeq(ss)) /\ ToSet(FlattenSeq(ss)) = UNION {ToSet(ss[i]) : i \in 1..Len(s)}
  BY <1>1, <1>5, FlattenIsSeq
<1>7. \A x : x \in ToSet(FlattenSeq(ss)) <=> \E i \in 1..Len(s) : x \in ToSet(P(s[i]))
  BY <1>5, <1>6
<1>8. \A x : x \in ToSet(FlattenSeq(ss)) <=> \E e \in ToSet(s) : x \in ToSet(P(e))
  BY <1>1, <1>7
<1>9. QED
  BY <1>6, <1>8 DEF ss, s, P

LEMMA MonitorPolicies ==
  ASSUME NEW p, IsSeq(p.monitor)
  PROVE  LET all == Each(LAMBDA m : MonitorAuthPolicy(p, m), p.monitor)
         IN  /\ IsSeq(all)
             /\ \A x : x \in ToSet(all) <=> \E m \in ToSet(p.monitor) : x = MonitorAuthPolicy(p, m)
<1> DEFINE s == p.monitor
           P(m) == MonitorAuthPolicy(p, m)
           all == Each(LAMBDA m : MonitorAuthPolicy(p, m), s)
<1>1. Len(s) \in Nat /\ ToSet(s) = {s[i] : i \in 1..Len(s)}
  BY TypedIsSeq DEF IsSeq, ToSet
<1>2. all = [i \in 1..Len(s) |-> P(s[i])]
  BY DEF Each
<1> HIDE DEF s, all, P
<1>3. all = [i \in 1..Len(s) |-> all[i]]
  BY <1>2
<1>4. IsSeq(all) /\ ToSet(all) = {all[i] : i \in 1..Len(s)}
  BY <1>1, <1>3, MapIsSeq
<1>5. \A x : x \in ToSet(all) <=> \E m \in ToSet(s) : x = P(m)
  BY <1>1, <1>2, <1>4
<1>6. QED
  BY <1>4, <1>5 DEF all, s, P

LEMMA DenyPolicies ==
  ASSUME NEW p, IsSeq(p.sso)
  PROVE  LET all == Each(LAMBDA c : DenyAllExceptWaypoint(p, c), AuthserviceClients(p))
         IN  /\ IsSeq(all)
             /\ \A x : x \in ToSet(all) <=>
                         \E c \in ToSet(p.sso) : Protects(c) /\ x = DenyAllExceptWaypoint(p, c)
             /\ \A c \in ToSet(p.sso) : Protects(c) => AuthserviceClients(p) # <<>>
<1> DEFINE s == AuthserviceClients(p)
           P(c) == DenyAllExceptWaypoint(p, c)
           all == Each(LAMBDA c : DenyAllExceptWaypoint(p, c), s)
<1>1. IsSeq(s) /\ ToSet(s) = {c \in ToSet(p.sso) : Protects(c)}
  BY ClientsKept
<1>2. all = [i \in 1..Len(s) |-> P(s[i])]
  BY DEF Each
<1> HIDE DEF s, all, P
<1>3. Len(s) \in Nat /\ ToSet(s) = {s[i] : i \in 1..Len(s)}
  BY <1>1, TypedIsSeq DEF IsSeq, ToSet
<1>4. all = [i \in 1..Len(s) |-> all[i]]
  BY <1>2
<1>5. IsSeq(all) /\ ToSet(all) = {all[i] : i \in 1..Len(s)}
  BY <1>3, <1>4, MapIsSeq
<1>6. \A x : x \in ToSet(all) <=> \E c \in ToSet(s) : x = P(c)
  BY <1>2, <1>3, <1>5
<1>7. ASSUME NEW c \in ToSet(s) PROVE s # <<>>
  BY <1>7, EmptyAndSingle
<1>8. QED
  BY <1>1, <1>5, <1>6, <1>7 DEF all, s, P

(* Every authorization policy of a package and where it comes from.        *)
LEMMA AuthorizationElements ==
  ASSUME NEW p, IsSeq(p.allow), IsSeq(p.expose), IsSeq(p.monitor), IsSeq(p.sso)
  PROVE  /\ IsSeq(AuthorizationPolicies(p))
         /\ \A x : x \in ToSet(AuthorizationPolicies(p)) <=>
              \/ \E a \in ToSet(p.allow) :
                   a.direction # "Egress" /\ a.remoteProtocol # "UDP" /\ x = AllowAuthPolicy(p, a)
              \/ \E e \in ToSet(p.expose) : x \in ToSet(ExposeAuthPolicies(p, e))
              \/ \E m \in ToSet(p.monitor) : x = MonitorAuthPolicy(p, m)
              \/ ModeOf(p) = "ambient" /\ \E c \in ToSet(p.sso) : Protects(c) /\ x = DenyAllExceptWaypoint(p, c)
              \/ ModeOf(p) = "sidecar" /\ x = SidecarMetrics(p)
<1> DEFINE A == Each(LAMBDA a : AllowAuthPolicy(p, a),
                     Kept(p.allow, LAMBDA a : a.direction # "Egress" /\ a.remoteProtocol # "UDP"))
           B == FlattenSeq(Each(LAMBDA e : ExposeAuthPolicies(p, e), p.expose))
           C == Each(LAMBDA m : MonitorAuthPolicy(p, m), p.monitor)
           D == Each(LAMBDA c : DenyAllExceptWaypoint(p, c), AuthserviceClients(p))
           DD == IF ShouldUseAmbientWaypoint(p) THEN D ELSE <<>>
           E == IF ModeOf(p) = "sidecar" THEN <<SidecarMetrics(p)>> ELSE <<>>
           inA(x) == \E a \in ToSet(p.allow) :
                       a.direction # "Egress" /\ a.remoteProtocol # "UDP" /\ x = AllowAuthPolicy(p, a)
           inB(x) == \E e \in ToSet(p.expose) : x \in ToSet(ExposeAuthPolicies(p, e))
           inC(x) == \E m \in ToSet(p.monitor) : x = MonitorAuthPolicy(p, m)
           inD(x) == \E c \in ToSet(p.sso) : Protects(c) /\ x = DenyAllExceptWaypoint(p, c)
           inE(x) == x = SidecarMetrics(p)
<1>1. AuthorizationPolicies(p) = A \o B \o C \o DD \o E
  BY Zenon DEF AuthorizationPolicies
<1>2. IsSeq(A) /\ \A x : x \in ToSet(A) <=> inA(x)
  BY AllowPolicies
<1>3. IsSeq(B) /\ \A x : x \in ToSet(B) <=> inB(x)
  BY ExposePolicies
<1>4. IsSeq(C) /\ \A x : x \in ToSet(C) <=> inC(x)
  BY MonitorPolicies
<1>5. /\ IsSeq(D) /\ \A x : x \in ToSet(D) <=> inD(x)
      /\ \A x : inD(x) => AuthserviceClients(p) # <<>>
  BY DenyPolicies
<1> HIDE DEF A, B, C, D, inA, inB, inC, inD, inE
<1>6. IsSeq(DD) /\ IsSeq(E)
  BY <1>5, EmptyAndSingle
<1>7. \A x : x \in ToSet(DD) <=> ModeOf(p) = "ambient" /\ inD(x)
  BY <1>5, EmptyAndSingle DEF ShouldUseAmbientWaypoint
<1>8. \A x : x \in ToSet(E) <=> ModeOf(p) = "sidecar" /\ inE(x)
  BY EmptyAndSingle DEF inE
<1> HIDE DEF DD, E
<1>9. IsSeq(A \o B) /\ ToSet(A \o B) = ToSet(A) \cup ToSet(B)
  BY <1>2, <1>3, ConcatIsSeq
<1>10. IsSeq(A \o B \o C) /\ ToSet(A \o B \o C) = ToSet(A \o B) \cup ToSet(C)
  BY <1>9, <1>4, ConcatIsSeq
<1>11. IsSeq(A \o B \o C \o DD) /\ ToSet(A \o B \o C \o DD) = ToSet(A \o B \o C) \cup ToSet(DD)
  BY <1>10, <1>6, ConcatIsSeq
<1>12. /\ IsSeq(A \o B \o C \o DD \o E)
       /\ ToSet(A \o B \o C \o DD \o E) = ToSet(A \o B \o C \o DD) \cup ToSet(E)
  BY <1>11, <1>6, ConcatIsSeq
<1>13. \A x : x \in ToSet(AuthorizationPolicies(p)) <=>
         \/ inA(x) \/ inB(x) \/ inC(x)
         \/ ModeOf(p) = "ambient" /\ inD(x)
         \/ ModeOf(p) = "sidecar" /\ inE(x)
  BY <1>1, <1>2, <1>3, <1>4, <1>7, <1>8, <1>9, <1>10, <1>11, <1>12
<1>14. QED
  BY <1>1, <1>12, <1>13 DEF inA, inB, inC, inD, inE

LEMMA DenyIsGenerated ==
  ASSUME NEW p, IsSeq(p.allow), IsSeq(p.expose), IsSeq(p.monitor), IsSeq(p.sso)
  PROVE  /\ IsSeq(AuthorizationPolicies(p))
         /\ \A c \in ToSet(p.sso) :
              Protects(c) /\ ModeOf(p) = "ambient" => DenyAllExceptWaypoint(p, c) \in ToSet(AuthorizationPolicies(p))
BY AuthorizationElements

-----------------------------------------------------------------------------
(* The way around a waypoint is closed.                                    *)

(* No other policy of the package shares its name with the one that denies *)
(* a client's workloads to everyone but the waypoint.                      *)
DenyNamesApart(p) ==
  \A c \in ToSet(p.sso), other \in ToSet(AuthorizationPolicies(RewrittenPackage(p))) :
    Protects(c) /\ NameOf(other) = NameOf(DenyAllExceptWaypoint(p, c)) => other = DenyAllExceptWaypoint(p, c)

(* The steps before and after the rewrite of the allow rules.              *)
RewriteInv ==
  spec # None =>
    /\ step = "networkPolicies" => pkg = Asked
    /\ step = "authorizationPolicies" => pkg = RewrittenPackage(Asked)

(* Once the authorization step is past, its policies of the clients are there. *)
DenyInv ==
  spec # None /\ Past(step, "authorizationPolicies") /\ ModeOf(Asked) = "ambient" /\ DenyNamesApart(Asked) =>
    \A c \in ToSet(Asked.sso) :
      Protects(c) => \E o \in live["authorizationPolicies"] : o.obj = DenyAllExceptWaypoint(Asked, c)

LEMMA RewriteKeeps ==
  ASSUME ControlInv, RewriteInv, [NetworkNext]_networkVars
  PROVE  RewriteInv'
<1>1. ASSUME NEW d \in Revision, Submit(d) PROVE RewriteInv'
  BY <1>1, StepsTyped DEF Submit, RewriteInv, Asked
<1>2. ASSUME Reconcile PROVE RewriteInv'
  <2>1. /\ spec' = spec /\ step' = NextStep(step) /\ step \in ToSet(Steps)
        /\ pkg' = IF step = "networkPolicies" THEN RewrittenPackage(pkg) ELSE pkg
    BY <1>2 DEF Reconcile
  <2> PICK i \in DOMAIN Steps : step = Steps[i]
    BY <2>1 DEF ToSet
  <2>2. step' = IF i = 6 THEN "idle" ELSE Steps[i + 1]
    BY <2>1, NextStepIs
  <2>3. i \in {1, 2, 3, 4, 5, 6}
    BY StepsTyped
  <2>4. step' # "networkPolicies" /\ (step' = "authorizationPolicies" => step = "networkPolicies")
    BY <2>2, <2>3, StepsTyped
  <2>5. QED
    BY <2>1, <2>4 DEF RewriteInv, Asked
<1>3. ASSUME NEW n \in Nat, Fail(n) PROVE RewriteInv'
  BY <1>3 DEF Fail, RewriteInv
<1>4. ASSUME Retry PROVE RewriteInv'
  BY <1>4, StepsTyped DEF Retry, RewriteInv, Asked
<1>5. ASSUME UNCHANGED networkVars PROVE RewriteInv'
  BY <1>5 DEF networkVars, RewriteInv, Asked
<1>6. QED
  BY <1>1, <1>2, <1>3, <1>4, <1>5 DEF NetworkNext

LEMMA RewrittenShape ==
  ASSUME ControlInv, spec # None
  PROVE  LET q == RewrittenPackage(Asked)
         IN  /\ IsSeq(q.allow) /\ IsSeq(q.expose) /\ IsSeq(q.monitor) /\ IsSeq(q.sso)
             /\ q.sso = Asked.sso /\ ModeOf(q) = ModeOf(Asked) /\ q.namespace = Asked.namespace
<1> DEFINE p == Migrate(spec)
           q == RewrittenPackage(p)
<1>1. spec \in Package
  BY RevisionAssumption DEF ControlInv
<1>2. /\ spec.allow \in Seq(Allow) /\ spec.expose \in Seq(Expose) /\ spec.sso \in Seq(Sso)
      /\ spec.monitor \in Seq(Monitor)
      /\ DOMAIN spec = {"namespace", "name", "deleting", "mode", "expose", "allow", "sso", "monitor"}
  BY <1>1 DEF Package
<1>3. /\ p.allow = [i \in 1..Len(spec.allow) |-> MigrateAllow(spec.allow[i])]
      /\ p.expose = [i \in 1..Len(spec.expose) |-> MigrateExpose(spec.expose[i])]
      /\ p.sso = [i \in 1..Len(spec.sso) |-> MigrateSecret(spec.sso[i])]
      /\ p.monitor = spec.monitor
      /\ DOMAIN p = DOMAIN spec
  BY <1>2 DEF Migrate, Each
<1> HIDE DEF p
<1>4. /\ q.allow = [i \in DOMAIN p.allow |-> RewriteSelector(p, p.allow[i])]
      /\ q.expose = p.expose /\ q.sso = p.sso /\ q.monitor = p.monitor
      /\ q.mode = p.mode /\ q.namespace = p.namespace
  BY <1>2, <1>3 DEF RewrittenPackage
<1> HIDE DEF q
<1>5. Len(spec.allow) \in Nat /\ Len(spec.expose) \in Nat /\ Len(spec.sso) \in Nat
  BY <1>2
<1>6. p.allow = [i \in 1..Len(spec.allow) |-> p.allow[i]] /\ DOMAIN p.allow = 1..Len(spec.allow)
  BY <1>3
<1>7. q.allow = [i \in 1..Len(spec.allow) |-> q.allow[i]]
  BY <1>4, <1>6
<1>8. IsSeq(q.allow)
  BY <1>5, <1>7, MapIsSeq
<1>9. q.expose = [i \in 1..Len(spec.expose) |-> q.expose[i]]
  BY <1>3, <1>4
<1>10. IsSeq(q.expose)
  BY <1>5, <1>9, MapIsSeq
<1>11. q.sso = [i \in 1..Len(spec.sso) |-> q.sso[i]]
  BY <1>3, <1>4
<1>12. IsSeq(q.sso)
  BY <1>5, <1>11, MapIsSeq
<1>13. IsSeq(q.monitor)
  BY <1>2, <1>3, <1>4, TypedIsSeq
<1>14. ModeOf(q) = ModeOf(p)
  BY <1>4 DEF ModeOf
<1>15. QED
  BY <1>4, <1>8, <1>10, <1>12, <1>13, <1>14 DEF p, q, Asked

(* The step leaves the policy of every client it protects.                 *)
LEMMA AuthorizationStepDenies ==
  ASSUME ControlInv, RewriteInv, spec # None, step = "authorizationPolicies",
         ModeOf(Asked) = "ambient", DenyNamesApart(Asked),
         NEW objs \in Outcomes(step, Applied(Generated(step), live[step])),
         NEW c \in ToSet(Asked.sso), Protects(c)
  PROVE  \E o \in objs : o.obj = DenyAllExceptWaypoint(Asked, c)
<1> DEFINE q == RewrittenPackage(Asked)
           all == AuthorizationPolicies(q)
           x == DenyAllExceptWaypoint(Asked, c)
           o == [gen |-> gen, obj |-> x]
           applied == Applied(all, live["authorizationPolicies"])
<1>1. /\ IsSeq(q.allow) /\ IsSeq(q.expose) /\ IsSeq(q.monitor) /\ IsSeq(q.sso)
      /\ q.sso = Asked.sso /\ ModeOf(q) = "ambient" /\ q.namespace = Asked.namespace
  BY RewrittenShape
<1>2. pkg = q
  BY DEF RewriteInv
<1>3. objs = CleanupMismatchedMeshMode(PurgeOrphans(applied))
  BY <1>2 DEF Outcomes, Generated
<1>4. x.mode = "ambient"
  BY DEF DenyAllExceptWaypoint
<1> HIDE DEF q
<1>5. x = DenyAllExceptWaypoint(q, c)
  BY <1>1 DEF DenyAllExceptWaypoint
<1>6. all \in Seq(ToSet(all)) /\ x \in ToSet(all)
  BY <1>1, <1>5, DenyIsGenerated DEF IsSeq
<1>7. \A y \in ToSet(all) : NameOf(y) = NameOf(x) => y = x
  BY DEF DenyNamesApart, q
<1> HIDE DEF all, x
<1>8. o \in applied
  BY <1>6, <1>7, DistinctIsApplied
<1> HIDE DEF applied
<1>9. o.gen = gen /\ o.obj = x
  OBVIOUS
<1> HIDE DEF o
<1>10. o \in objs
  BY <1>1, <1>2, <1>3, <1>4, <1>8, <1>9 DEF CleanupMismatchedMeshMode, PurgeOrphans
<1>11. QED
  BY <1>9, <1>10 DEF x

LEMMA DenyKeeps ==
  ASSUME NetworkInv, RewriteInv, DenyInv, [NetworkNext]_networkVars
  PROVE  DenyInv'
<1> SUFFICES ASSUME spec' # None, Past(step', "authorizationPolicies"), ModeOf(Migrate(spec')) = "ambient",
                    DenyNamesApart(Migrate(spec')), NEW c \in ToSet(Migrate(spec').sso), Protects(c)
             PROVE  \E o \in live'["authorizationPolicies"] : o.obj = DenyAllExceptWaypoint(Migrate(spec'), c)
  BY DEF DenyInv, Asked
<1>1. ~(step' = "waiting" \/ step' = Steps[1])
  BY NothingPast, StepsTyped
<1>2. CASE Reconcile
  <2>1. PICK objs \in Outcomes(step, Applied(Generated(step), live[step])) :
          live' = [live EXCEPT ![step] = objs]
    BY <1>2 DEF Reconcile
  <2>2. step \in ToSet(Steps) /\ step' = NextStep(step) /\ spec' = spec
    BY <1>2 DEF Reconcile
  <2>3. \A s \in ToSet(Steps) : live'[s] = IF s = step THEN objs ELSE live[s]
    BY <2>1, <2>2 DEF NetworkInv, ControlInv
  <2>4. CASE step = "authorizationPolicies"
    <3>1. live'["authorizationPolicies"] = objs
      BY <2>2, <2>3, <2>4
    <3>2. \E o \in objs : o.obj = DenyAllExceptWaypoint(Asked, c)
      BY <2>1, <2>2, <2>4, AuthorizationStepDenies DEF NetworkInv, Asked
    <3>3. QED
      BY <2>2, <3>1, <3>2 DEF Asked
  <2>5. CASE step # "authorizationPolicies"
    <3>1. Past(step, "authorizationPolicies")
      BY <2>2, <2>5, PastGrows, StepsTyped
    <3>2. live'["authorizationPolicies"] = live["authorizationPolicies"]
      BY <2>3, <2>5, StepsTyped
    <3>3. \E o \in live["authorizationPolicies"] : o.obj = DenyAllExceptWaypoint(Asked, c)
      BY <2>2, <3>1 DEF DenyInv, Asked
    <3>4. QED
      BY <2>2, <3>2, <3>3 DEF Asked
  <2>6. QED
    BY <2>4, <2>5
<1>3. CASE UNCHANGED networkVars
  BY <1>3 DEF networkVars, DenyInv, Asked
<1>4. ASSUME NEW d \in Revision, Submit(d) PROVE FALSE
  BY <1>1, <1>4 DEF Submit
<1>5. ASSUME NEW n \in Nat, Fail(n) PROVE FALSE
  BY <1>1, <1>5 DEF Fail
<1>6. ASSUME Retry PROVE FALSE
  BY <1>1, <1>6 DEF Retry
<1>7. QED
  BY <1>2, <1>3, <1>4, <1>5, <1>6 DEF NetworkNext

LEMMA DenyInvariant == NetworkSpec => [](RewriteInv /\ DenyInv)
<1>1. NetworkInit => RewriteInv /\ DenyInv
  BY DEF NetworkInit, RewriteInv, DenyInv
<1>2. NetworkInv /\ (RewriteInv /\ DenyInv) /\ [NetworkNext]_networkVars => (RewriteInv /\ DenyInv)'
  BY RewriteKeeps, DenyKeeps DEF NetworkInv
<1>3. QED
  BY <1>1, <1>2, NetworkInvariant, PTL DEF NetworkSpec

-----------------------------------------------------------------------------
(* Nobody gets in without a token.                                         *)

(* What the theorem asks of a spec: names tell apart what must not be      *)
(* written over, and nobody visits with the service account of a waypoint. *)
NamesSuffice(p) ==
  /\ ClientNamesApart(p)
  /\ DenyNamesApart(p)
  /\ \A c \in ToSet(p.sso), v \in Visitors : Protects(c) => v.sa # GetWaypointName(c.clientId)

(* The client that findMatchingClient answers with protects the workload.  *)
LEMMA MatchingProtects ==
  ASSUME NEW p, IsSeq(p.sso), NEW labels, FindMatchingClient(p, labels) # None
  PROVE  \E c \in ToSet(p.sso) : /\ Protects(c) /\ c.clientId = FindMatchingClient(p, labels)
                                 /\ Subset(c.enableAuthserviceSelector, labels)
<1> DEFINE cs == AuthserviceClients(p)
           matching == {i \in DOMAIN cs : Subset(cs[i].enableAuthserviceSelector, labels)}
           k == CHOOSE i \in matching : \A j \in matching : i <= j
<1>1. IsSeq(cs) /\ ToSet(cs) = {c \in ToSet(p.sso) : Protects(c)}
  BY ClientsKept
<1>2. FindMatchingClient(p, labels) = IF matching = {} THEN None ELSE cs[k].clientId
  BY DEF FindMatchingClient
<1> HIDE DEF cs
<1>3. matching \subseteq Nat
  <2>1. DOMAIN cs = 1..Len(cs) /\ Len(cs) \in Nat
    BY <1>1, TypedIsSeq DEF IsSeq
  <2>2. QED
    BY <2>1
<1>4. matching # {}
  BY <1>2
<1>5. \E i \in matching : \A j \in matching : i <= j
  <2> HIDE DEF matching
  <2>1. QED
    BY <1>3, <1>4, Least
<1>6. k \in matching
  BY <1>5
<1> HIDE DEF k
<1>7. cs[k] \in ToSet(cs) /\ Subset(cs[k].enableAuthserviceSelector, labels)
  BY <1>6 DEF ToSet
<1>8. QED
  BY <1>1, <1>2, <1>4, <1>7

(* Of the visitors only Prometheus has its principal.                      *)
LEMMA OnlyPrometheus ==
  ASSUME NEW v \in Visitors, SourceMatches(PrometheusPrincipal, v)
  PROVE  v = PrometheusPod
<1>1. v.sa = "kube-prometheus-stack-prometheus"
  BY DEF SourceMatches, PrometheusPrincipal, Principal
<1>2. CASE v = Gateway("tenant")
  BY <1>1, <1>2, StringAssumption DEF Gateway, Pod
<1>3. CASE v = Pod("peer", <<<<"app", "peer">>>>, "any")
  BY <1>1, <1>3 DEF Pod
<1>4. CASE \E w \in Workload : v = App(w)
  BY <1>1, <1>4 DEF App, Pod
<1>5. QED
  BY <1>2, <1>3, <1>4 DEF Visitors

(* The policy that denies everyone but the waypoint does so.               *)
LEMMA AroundIsDenied ==
  ASSUME DenyInv, ControlInv, Done, ModeOf(Asked) = "ambient", NamesSuffice(Asked),
         NEW c \in ToSet(Asked.sso), Protects(c), NEW w \in Workload,
         Subset(c.enableAuthserviceSelector, w), NEW v \in Visitors, NEW port
  PROVE  ~MeshAdmits(App(w), v, port)
<1> DEFINE x == DenyAllExceptWaypoint(Asked, c)
           src == Principal(Asked.namespace, GetWaypointName(c.clientId))
           pod == App(w)
<1>1. x \in Objects("authorizationPolicies")
  <2>1. Past(step, "authorizationPolicies") /\ spec # None
    BY DEF Done, Past
  <2>2. PICK o \in live["authorizationPolicies"] : o.obj = x
    BY <2>1 DEF DenyInv, NamesSuffice
  <2> HIDE DEF x
  <2>3. QED
    BY <2>2 DEF Objects
<1>2. x.action = "DENY" /\ x.selector = c.enableAuthserviceSelector /\ x.sources = {src}
  BY DEF DenyAllExceptWaypoint
<1>3. ~SourceMatches(src, v)
  <2>1. v.sa # GetWaypointName(c.clientId)
    BY DEF NamesSuffice
  <2>2. QED
    BY <2>1 DEF SourceMatches, Principal
<1>4. pod.labels = w /\ ~IsWaypoint(pod)
  <2>1. pod.labels = w
    BY DEF App, Pod
  <2> HIDE DEF pod
  <2>2. QED
    BY <2>1, WorkloadAssumption DEF IsWaypoint
<1>5. Labels(x.selector) = c.enableAuthserviceSelector
  BY <1>2 DEF Labels, OrElse, Protects
<1> HIDE DEF x, src, pod
<1>6. ASSUME MeshAdmits(pod, v, port) PROVE FALSE
  <2> DEFINE on == {ap \in Objects("authorizationPolicies") :
                     /\ Subset(Labels(ap.selector), pod.labels)
                     /\ IsWaypoint(pod) => Labels(ap.selector) # <<>>}
             allow == {ap \in on : ap.action = "ALLOW"}
  <2>1. x \in on \ allow
    BY <1>1, <1>2, <1>4, <1>5
  <2>2. \A ap \in on \ allow : \E s \in ap.sources : SourceMatches(s, v)
    BY <1>6 DEF MeshAdmits
  <2> HIDE DEF on, allow
  <2>3. QED
    BY <1>2, <1>3, <2>1, <2>2
<1>7. QED
  BY <1>6 DEF pod

(* What the code exempts for a client is what the property calls exempted. *)
LEMMA ExemptIsExempted ==
  ASSUME NEW c \in ToSet(Asked.sso), Protects(c), NEW port, NEW path,
         ModeOf(Asked) \in Mode,
         <<port, path>> \in ComputeMonitorExemptions(Asked, c.enableAuthserviceSelector)
  PROVE  Exempted(c.clientId, PrometheusPod, port, path)
<1>1. CASE \E m \in ToSet(Asked.monitor) :
             /\ Subset(c.enableAuthserviceSelector, OrElse(m.podSelector, m.selector))
             /\ <<port, path>> = <<m.targetPort, IF Truthy(m.path) THEN m.path ELSE "/metrics">>
  BY <1>1 DEF Exempted, Scrapes
<1>2. CASE ModeOf(Asked) # "ambient" /\ <<port, path>> = <<"15020", "/stats/prometheus">>
  BY <1>2 DEF Exempted, Mode
<1>3. QED
  BY <1>1, <1>2 DEF ComputeMonitorExemptions

LEMMA AskedMode ==
  ASSUME ControlInv, spec # None
  PROVE  ModeOf(Asked) \in Mode /\ IsSeq(Asked.sso)
<1>1. spec \in Package
  BY RevisionAssumption DEF ControlInv
<1>2. Asked.mode = spec.mode /\ spec.mode \in Mode \cup {None}
  BY <1>1 DEF Package, Asked, Migrate, Optional
<1>3. IsSeq(Asked.sso)
  BY RewrittenShape
<1>4. QED
  BY <1>2, <1>3 DEF ModeOf, OrElse, Mode

(* No request gets to a protected workload without a token, on any port    *)
(* and path that is looked at and from any visitor, but Prometheus where a *)
(* monitor scrapes; not around a waypoint either; and what is refused but  *)
(* not scraped is sent to the login. This holds of every spec whose names  *)
(* suffice, over any number of generations and of attempts that broke off. *)
THEOREM NobodyEntersWithoutToken == NetworkSpec => [](NamesSuffice(Asked) => NoEntryWithoutToken)
<1>1. /\ ControlInv /\ AskedInv /\ GuardInv /\ DenyInv /\ ProtectedAreGuarded
      => (NamesSuffice(Asked) => NoEntryWithoutToken)
  <2> SUFFICES ASSUME ControlInv, DenyInv, ProtectedAreGuarded, NamesSuffice(Asked), Done,
                      NEW w \in Workload, NEW from \in Visitors, NEW port, NEW path,
                      FindMatchingClient(Asked, w) # None
               PROVE  LET client == FindMatchingClient(Asked, w)
                          target == IF ModeOf(Asked) = "ambient" THEN Waypoint(client) ELSE App(w)
                      IN  /\ Refused(target, from, port, path) \/ Exempted(client, from, port, path)
                          /\ ModeOf(Asked) = "ambient" => ~MeshAdmits(App(w), from, port)
                          /\ \/ SentToLogin(target, from, port, path)
                             \/ Exempted(client, PrometheusPod, port, path)
    BY DEF NoEntryWithoutToken
  <2> DEFINE client == FindMatchingClient(Asked, w)
             target == IF ModeOf(Asked) = "ambient" THEN Waypoint(client) ELSE App(w)
  <2>1. ModeOf(Asked) \in Mode /\ IsSeq(Asked.sso)
    BY AskedMode DEF Done
  <2>2. PICK c \in ToSet(Asked.sso) : Protects(c) /\ c.clientId = client /\ Subset(c.enableAuthserviceSelector, w)
    BY <2>1, MatchingProtects
  <2>3. PICK i \in DOMAIN Asked.sso : c = Asked.sso[i]
    BY DEF ToSet
  <2> DEFINE exempt == <<port, path>> \in ComputeMonitorExemptions(Asked, c.enableAuthserviceSelector)
  <2>4. Subset(SetPolicyTarget(Asked, c), target.labels)
    <3>1. Waypoint(client).labels = WaypointSelector(client) /\ App(w).labels = w
      BY DEF Waypoint, App, Pod
    <3>2. \A s : Subset(s, s)
      BY DEF Subset
    <3> HIDE DEF client
    <3>3. QED
      BY <2>2, <3>1, <3>2 DEF SetPolicyTarget
  <2>5. /\ Refused(target, from, port, path) \/ (exempt /\ SourceMatches(PrometheusPrincipal, from))
        /\ SentToLogin(target, from, port, path) \/ exempt
    <3> HIDE DEF target
    <3>1. QED
      BY <2>2, <2>3, <2>4 DEF ProtectedAreGuarded, NamesSuffice
  <2>6. exempt => Exempted(client, PrometheusPod, port, path)
    BY <2>1, <2>2, ExemptIsExempted
  <2>7. SourceMatches(PrometheusPrincipal, from) => from = PrometheusPod
    BY OnlyPrometheus
  <2>8. ModeOf(Asked) = "ambient" => ~MeshAdmits(App(w), from, port)
    BY <2>2, AroundIsDenied
  <2> HIDE DEF target, client, exempt
  <2>9. QED
    BY <2>5, <2>6, <2>7, <2>8 DEF target, client
<1>2. NetworkInv => ControlInv
  BY DEF NetworkInv
<1>3. QED
  BY <1>1, <1>2, NetworkInvariant, GuardInvariant, DenyInvariant, ProtectedStayGuarded, PTL

-----------------------------------------------------------------------------
(* The entries of a spec and the rules they become.                        *)

LEMMA PairIsSeq ==
  ASSUME NEW x, NEW y
  PROVE  IsSeq(<<x, y>>)
<1>1. ToSet(<<x, y>>) = {x, y}
  BY DEF ToSet
<1>2. QED
  BY <1>1 DEF IsSeq

LEMMA SsoRulesAre ==
  ASSUME NEW p, NEW c
  PROVE  /\ IsSeq(SsoRules(p, c))
         /\ ShouldUseAmbientWaypoint(p) =>
              LET waypoint == WaypointSelector(c.clientId)
                  name == GetWaypointName(c.clientId)
              IN  {Rule("Egress", waypoint, None, c.enableAuthserviceSelector, None,
                        "Allow traffic from " \o name \o " to app"),
                   Rule("Ingress", c.enableAuthserviceSelector, None, waypoint, None,
                        "Allow traffic from " \o name \o " to app pods")} \subseteq ToSet(SsoRules(p, c))
<1> DEFINE target == GetPodSelector(p, c.enableAuthserviceSelector, c.clientId)
           waypoint == WaypointSelector(c.clientId)
           name == GetWaypointName(c.clientId)
           r1 == Rule("Egress", target, "authservice", <<<<"app.kubernetes.io/name", "authservice">>>>,
                      "10003", c.clientId \o " authservice egress")
           r2 == Rule("Egress", target, "keycloak", <<<<"app.kubernetes.io/name", "keycloak">>>>,
                      "8080", c.clientId \o " keycloak JWKS egress")
           r3 == AllowEgressIstiod(target, "Istiod communication for " \o c.clientId)
           r4 == Rule("Egress", waypoint, None, c.enableAuthserviceSelector, None,
                      "Allow traffic from " \o name \o " to app")
           r5 == Rule("Ingress", c.enableAuthserviceSelector, None, waypoint, None,
                      "Allow traffic from " \o name \o " to app pods")
           r6 == Rule("Ingress", waypoint, "monitoring", Prometheus, "15020",
                      "Allow health checks from monitoring to " \o name)
           tail == IF ~ShouldUseAmbientWaypoint(p) THEN <<>> ELSE <<r3, r4, r5, r6>>
<1>1. SsoRules(p, c) = <<r1, r2>> \o tail
  BY Zenon DEF SsoRules
<1> HIDE DEF r1, r2, r3, r4, r5, r6
<1>2. IsSeq(<<r1, r2>>)
  BY PairIsSeq
<1>3. IsSeq(<<r3, r4, r5, r6>>) /\ ToSet(<<r3, r4, r5, r6>>) = {r3, r4, r5, r6}
  <2>1. ToSet(<<r3, r4, r5, r6>>) = {r3, r4, r5, r6}
    BY DEF ToSet
  <2>2. QED
    BY <2>1 DEF IsSeq
<1>4. IsSeq(tail)
  BY <1>3, EmptyAndSingle
<1>5. ShouldUseAmbientWaypoint(p) => ToSet(tail) = {r3, r4, r5, r6}
  BY <1>3
<1> HIDE DEF tail
<1>6. IsSeq(<<r1, r2>> \o tail) /\ ToSet(<<r1, r2>> \o tail) = ToSet(<<r1, r2>>) \cup ToSet(tail)
  BY <1>2, <1>4, ConcatIsSeq
<1>7. ShouldUseAmbientWaypoint(p) => {r4, r5} \subseteq ToSet(SsoRules(p, c))
  BY <1>1, <1>5, <1>6
<1>8. QED
  BY <1>1, <1>6, <1>7 DEF r4, r5

LEMMA AskedEntries ==
  ASSUME ControlInv, spec # None
  PROVE  /\ Asked.allow \in Seq(ToSet(Asked.allow)) /\ ToSet(Asked.allow) \subseteq Allow
         /\ IsSeq(Asked.expose) /\ IsSeq(Asked.sso) /\ IsSeq(Asked.monitor)
         /\ \A e \in ToSet(Asked.expose) :
              /\ e.selector \in Optional(LabelSets)
              /\ {e.port, e.targetPort} \subseteq Optional(STRING)
              /\ {GatewayNamespace(GatewayOf(e)), GatewayAccount(GatewayOf(e))} \subseteq STRING
         /\ \A c \in ToSet(Asked.sso) :
              /\ {c.clientId, GetWaypointName(c.clientId)} \subseteq STRING
              /\ c.enableAuthserviceSelector \in Optional(LabelSets)
         /\ ToSet(Asked.monitor) \subseteq Monitor
         /\ Asked.namespace = spec.namespace /\ Asked.namespace \in STRING /\ ModeOf(Asked) \in Mode
<1> DEFINE p == Migrate(spec)
<1>1. spec \in Package /\ spec \in Revision
  BY RevisionAssumption DEF ControlInv
<1>2. /\ spec.allow \in Seq(Allow) /\ spec.expose \in Seq(Expose) /\ spec.sso \in Seq(Sso)
      /\ spec.monitor \in Seq(Monitor) /\ spec.namespace \in STRING
      /\ DOMAIN spec = {"namespace", "name", "deleting", "mode", "expose", "allow", "sso", "monitor"}
  BY <1>1 DEF Package
<1>3. /\ p.allow = [i \in 1..Len(spec.allow) |-> MigrateAllow(spec.allow[i])]
      /\ p.expose = [i \in 1..Len(spec.expose) |-> MigrateExpose(spec.expose[i])]
      /\ p.sso = [i \in 1..Len(spec.sso) |-> MigrateSecret(spec.sso[i])]
      /\ p.monitor = spec.monitor /\ p.namespace = spec.namespace
  BY <1>2 DEF Migrate, Each
<1> HIDE DEF p
<1>4. Len(spec.allow) \in Nat /\ Len(spec.expose) \in Nat /\ Len(spec.sso) \in Nat
  BY <1>2
<1>6. IsSeq(p.allow) /\ \A x \in ToSet(p.allow) : \E i \in 1..Len(spec.allow) : x = MigrateAllow(spec.allow[i])
  <2>1. p.allow = [i \in 1..Len(spec.allow) |-> MigrateAllow(spec.allow[i])]
    BY <1>3
  <2>2. p.allow = [i \in 1..Len(spec.allow) |-> p.allow[i]]
    BY <2>1
  <2>3. IsSeq(p.allow) /\ ToSet(p.allow) = {p.allow[i] : i \in 1..Len(spec.allow)}
    BY <1>4, <2>2, MapIsSeq
  <2>4. \A i \in 1..Len(spec.allow) : p.allow[i] = MigrateAllow(spec.allow[i])
    BY <2>1
  <2>5. QED
    BY <2>3, <2>4
<1>7. IsSeq(p.expose) /\ \A x \in ToSet(p.expose) : \E i \in 1..Len(spec.expose) : x = MigrateExpose(spec.expose[i])
  <2>1. p.expose = [i \in 1..Len(spec.expose) |-> MigrateExpose(spec.expose[i])]
    BY <1>3
  <2>2. p.expose = [i \in 1..Len(spec.expose) |-> p.expose[i]]
    BY <2>1
  <2>3. IsSeq(p.expose) /\ ToSet(p.expose) = {p.expose[i] : i \in 1..Len(spec.expose)}
    BY <1>4, <2>2, MapIsSeq
  <2>4. \A i \in 1..Len(spec.expose) : p.expose[i] = MigrateExpose(spec.expose[i])
    BY <2>1
  <2>5. QED
    BY <2>3, <2>4
<1>8. IsSeq(p.sso) /\ \A x \in ToSet(p.sso) : \E i \in 1..Len(spec.sso) : x = MigrateSecret(spec.sso[i])
  <2>1. p.sso = [i \in 1..Len(spec.sso) |-> MigrateSecret(spec.sso[i])]
    BY <1>3
  <2>2. p.sso = [i \in 1..Len(spec.sso) |-> p.sso[i]]
    BY <2>1
  <2>3. IsSeq(p.sso) /\ ToSet(p.sso) = {p.sso[i] : i \in 1..Len(spec.sso)}
    BY <1>4, <2>2, MapIsSeq
  <2>4. \A i \in 1..Len(spec.sso) : p.sso[i] = MigrateSecret(spec.sso[i])
    BY <2>1
  <2>5. QED
    BY <2>3, <2>4
<1>9. IsSeq(p.monitor) /\ ToSet(p.monitor) \subseteq Monitor
  <2>1. IsSeq(spec.monitor) /\ DOMAIN spec.monitor = 1..Len(spec.monitor)
    BY <1>2, TypedIsSeq
  <2>2. ToSet(spec.monitor) \subseteq Monitor
    BY <1>2 DEF ToSet
  <2>3. QED
    BY <1>3, <2>1, <2>2
<1>10. ToSet(p.allow) \subseteq Allow
  <2> SUFFICES ASSUME NEW i \in 1..Len(spec.allow) PROVE MigrateAllow(spec.allow[i]) \in Allow
    BY <1>6
  <2> DEFINE a == spec.allow[i]
  <2>1. a \in Allow
    BY <1>2
  <2> HIDE DEF a
  <2>2. /\ {a.selector, a.podLabels, a.remoteSelector, a.remotePodLabels} \subseteq LabelSets \cup {None}
        /\ a = [k \in DOMAIN a |-> a[k]]
    BY <2>1 DEF Allow, Optional
  <2>3. {OrElse(a.podLabels, a.selector), OrElse(a.remotePodLabels, a.remoteSelector), None}
          \subseteq Optional(LabelSets)
    BY <2>2 DEF OrElse, Optional
  <2>4. MigrateAllow(a) = [a EXCEPT !.selector = OrElse(a.podLabels, a.selector), !.podLabels = None,
                                    !.remoteSelector = OrElse(a.remotePodLabels, a.remoteSelector),
                                    !.remotePodLabels = None]
    BY DEF MigrateAllow
  <2>5. MigrateAllow(a) \in Allow
    BY <2>1, <2>3, <2>4 DEF Allow
  <2>6. QED
    BY <2>5 DEF a
<1>11. \A e \in ToSet(p.expose) :
         /\ e.selector \in Optional(LabelSets)
         /\ {e.port, e.targetPort} \subseteq Optional(STRING)
         /\ {GatewayNamespace(GatewayOf(e)), GatewayAccount(GatewayOf(e))} \subseteq STRING
  <2> TAKE e \in ToSet(p.expose)
  <2> PICK i \in 1..Len(spec.expose) : e = MigrateExpose(spec.expose[i])
    BY <1>7
  <2> DEFINE a == spec.expose[i]
  <2>0. e = MigrateExpose(a)
    OBVIOUS
  <2>1. a \in Expose /\ i \in DOMAIN spec.expose
    BY <1>2
  <2>2. {GatewayNamespace(GatewayOf(a)), GatewayAccount(GatewayOf(a))} \subseteq STRING
    BY <1>1, <2>1, StringAssumption
  <2> HIDE DEF a
  <2>3. e.selector = a.selector /\ e.port = a.port /\ e.targetPort = a.targetPort /\ e.gateway = a.gateway
    BY <2>0, <2>1, MigratesExpose
  <2>4. a.selector \in Optional(LabelSets) /\ {a.port, a.targetPort} \subseteq Optional(STRING)
    BY <2>1 DEF Expose
  <2>5. GatewayOf(e) = GatewayOf(a)
    BY <2>3 DEF GatewayOf
  <2>6. QED
    BY <2>2, <2>3, <2>4, <2>5
<1>12. \A c \in ToSet(p.sso) :
         /\ {c.clientId, GetWaypointName(c.clientId)} \subseteq STRING
         /\ c.enableAuthserviceSelector \in Optional(LabelSets)
  <2> TAKE c \in ToSet(p.sso)
  <2> PICK i \in 1..Len(spec.sso) : c = MigrateSecret(spec.sso[i])
    BY <1>8
  <2> DEFINE a == spec.sso[i]
  <2>0. c = MigrateSecret(a)
    OBVIOUS
  <2>1. a \in Sso /\ i \in DOMAIN spec.sso
    BY <1>2
  <2>2. GetWaypointName(a.clientId) \in STRING
    BY <1>1, <2>1, StringAssumption
  <2> HIDE DEF a
  <2>3. c.clientId = a.clientId /\ c.enableAuthserviceSelector = a.enableAuthserviceSelector
    BY <2>0, <2>1, MigratesSecret
  <2>4. a.clientId \in STRING /\ a.enableAuthserviceSelector \in Optional(LabelSets)
    BY <2>1 DEF Sso
  <2>5. QED
    BY <2>2, <2>3, <2>4
<1>13. ModeOf(p) \in Mode
  BY AskedMode DEF p, Asked
<1>14. QED
  BY <1>2, <1>3, <1>6, <1>7, <1>8, <1>9, <1>10, <1>11, <1>12, <1>13 DEF p, Asked, IsSeq

(* The rules whose policies the traffic of the package needs.              *)
LEMMA RulesElements ==
  ASSUME NEW p, IsSeq(RewrittenPackage(p).allow), IsSeq(p.expose), IsSeq(p.sso), IsSeq(p.monitor)
  PROVE  /\ IsSeq(AllRules(p))
         /\ ToSet(RewrittenPackage(p).allow) \subseteq ToSet(AllRules(p))
         /\ \A e \in ToSet(p.expose) :
              ~IsUDP(e) /\ ~(e.advancedHTTP # None /\ e.advancedHTTP.directResponse) =>
                ExposeRule(p, e) \in ToSet(AllRules(p))
         /\ \A c \in ToSet(p.sso) : Protects(c) => ToSet(SsoRules(p, c)) \subseteq ToSet(AllRules(p))
         /\ \A m \in ToSet(p.monitor) : MonitorRule(p, m) \in ToSet(AllRules(p))
<1> DEFINE direct(e) == ~IsUDP(e) /\ ~(e.advancedHTTP # None /\ e.advancedHTTP.directResponse)
           kept == Kept(p.expose, LAMBDA e : ~IsUDP(e) /\ ~(e.advancedHTTP # None /\ e.advancedHTTP.directResponse))
           udp == Kept(p.expose, IsUDP)
           A == DefaultRules(ModeOf(p))
           B == RewrittenPackage(p).allow
           C == Each(LAMBDA e : ExposeRule(p, e), kept)
           D == Each(UDPExposeRule, udp)
           E == FlattenSeq(Each(LAMBDA c : SsoRules(p, c), AuthserviceClients(p)))
           F == Each(LAMBDA m : MonitorRule(p, m), p.monitor)
<1>1. AllRules(p) = A \o B \o C \o D \o E \o F
  BY Zenon DEF AllRules
<1>2. IsSeq(A)
  <2> DEFINE istiod == AllowEgressIstiod(None, "Istiod communication")
             scrape == AllowIngressSidecarMonitoring
  <2>1. IsSeq(<<istiod, scrape>>)
    BY PairIsSeq
  <2>2. DefaultRules(ModeOf(p)) =
          <<AllowEgressDNS>> \o (IF ModeOf(p) = "sidecar"
                                 THEN <<AllowEgressIstiod(None, "Istiod communication"), AllowIngressSidecarMonitoring>>
                                 ELSE <<AllowAmbientHealthprobes>>)
    BY DEF DefaultRules
  <2>3. CASE ModeOf(p) = "sidecar"
    <3>1. A = <<AllowEgressDNS>> \o <<istiod, scrape>>
      BY <2>2, <2>3
    <3> HIDE DEF istiod, scrape, A
    <3>2. QED
      BY <2>1, <3>1, EmptyAndSingle, ConcatIsSeq
  <2>4. CASE ModeOf(p) # "sidecar"
    <3>1. A = <<AllowEgressDNS>> \o <<AllowAmbientHealthprobes>>
      BY <2>2, <2>4
    <3>2. QED
      BY <3>1, EmptyAndSingle, ConcatIsSeq
  <2>5. QED
    BY <2>3, <2>4
<1>3. IsSeq(C) /\ \A e \in ToSet(p.expose) : direct(e) => ExposeRule(p, e) \in ToSet(C)
  <2> DEFINE s == p.expose
             W == {e \in ToSet(s) : direct(e)}
             P(e) == ExposeRule(p, e)
  <2>1. Len(s) \in Nat /\ DOMAIN s = 1..Len(s)
    BY TypedIsSeq DEF IsSeq
  <2>2. \A i \in 1..Len(s) : direct(s[i]) <=> s[i] \in W
    BY <2>1 DEF ToSet
  <2>3. kept = FlattenSeq([i \in 1..Len(s) |-> IF direct(s[i]) THEN <<s[i]>> ELSE <<>>])
    BY DEF Kept
  <2>4. C = [i \in 1..Len(kept) |-> P(kept[i])]
    BY DEF Each
  <2> HIDE DEF kept, s, W, C, P, direct
  <2>5. [i \in 1..Len(s) |-> IF direct(s[i]) THEN <<s[i]>> ELSE <<>>] =
          [i \in 1..Len(s) |-> IF s[i] \in W THEN <<s[i]>> ELSE <<>>]
    BY <2>2
  <2>6. IsSeq(s)
    BY DEF s
  <2>7. IsSeq(kept) /\ ToSet(kept) = ToSet(s) \cap W
    BY <2>3, <2>5, <2>6, KeptElements
  <2>8. Len(kept) \in Nat /\ ToSet(kept) = {kept[i] : i \in 1..Len(kept)}
    BY <2>7, TypedIsSeq DEF IsSeq, ToSet
  <2>9. C = [i \in 1..Len(kept) |-> C[i]]
    BY <2>4
  <2>10. IsSeq(C) /\ ToSet(C) = {C[i] : i \in 1..Len(kept)}
    BY <2>8, <2>9, MapIsSeq
  <2>11. \A e \in ToSet(kept) : P(e) \in ToSet(C)
    BY <2>4, <2>8, <2>10
  <2>12. QED
    BY <2>7, <2>10, <2>11 DEF W, s, P
<1>4. IsSeq(D)
  <2>1. D = [i \in 1..Len(udp) |-> UDPExposeRule(udp[i])]
    BY DEF Each
  <2> DEFINE s == p.expose
             W == {e \in ToSet(s) : IsUDP(e)}
  <2>2. Len(s) \in Nat /\ DOMAIN s = 1..Len(s)
    BY TypedIsSeq DEF IsSeq
  <2>3. \A i \in 1..Len(s) : IsUDP(s[i]) <=> s[i] \in W
    BY <2>2 DEF ToSet
  <2>4. udp = FlattenSeq([i \in 1..Len(s) |-> IF IsUDP(s[i]) THEN <<s[i]>> ELSE <<>>])
    BY DEF Kept
  <2>5. IsSeq(s)
    OBVIOUS
  <2> HIDE DEF udp, D, s, W
  <2>6. [i \in 1..Len(s) |-> IF IsUDP(s[i]) THEN <<s[i]>> ELSE <<>>] =
          [i \in 1..Len(s) |-> IF s[i] \in W THEN <<s[i]>> ELSE <<>>]
    BY <2>3
  <2>7. IsSeq(udp)
    BY <2>4, <2>5, <2>6, KeptElements
  <2>8. Len(udp) \in Nat
    BY <2>7, TypedIsSeq DEF IsSeq
  <2>9. D = [i \in 1..Len(udp) |-> D[i]]
    BY <2>1
  <2>10. QED
    BY <2>8, <2>9, MapIsSeq
<1>5. IsSeq(E) /\ \A c \in ToSet(p.sso) : Protects(c) => ToSet(SsoRules(p, c)) \subseteq ToSet(E)
  <2> DEFINE s == AuthserviceClients(p)
             P(c) == SsoRules(p, c)
             ss == Each(LAMBDA c : SsoRules(p, c), s)
  <2>1. IsSeq(s) /\ ToSet(s) = {c \in ToSet(p.sso) : Protects(c)}
    BY ClientsKept
  <2>2. ss = [i \in 1..Len(s) |-> P(s[i])]
    BY DEF Each
  <2>3. \A c : IsSeq(P(c))
    BY SsoRulesAre
  <2> HIDE DEF s, ss, P
  <2>4. Len(s) \in Nat /\ ToSet(s) = {s[i] : i \in 1..Len(s)}
    BY <2>1, TypedIsSeq DEF IsSeq, ToSet
  <2>5. ss = [i \in 1..Len(s) |-> ss[i]] /\ \A i \in 1..Len(s) : IsSeq(ss[i]) /\ ss[i] = P(s[i])
    BY <2>2, <2>3
  <2>6. IsSeq(FlattenSeq(ss)) /\ ToSet(FlattenSeq(ss)) = UNION {ToSet(ss[i]) : i \in 1..Len(s)}
    BY <2>4, <2>5, FlattenIsSeq
  <2>7. \A c \in ToSet(s) : ToSet(P(c)) \subseteq ToSet(FlattenSeq(ss))
    BY <2>4, <2>5, <2>6
  <2>8. QED
    BY <2>1, <2>6, <2>7 DEF ss, s, P
<1>6. IsSeq(F) /\ \A m \in ToSet(p.monitor) : MonitorRule(p, m) \in ToSet(F)
  <2> DEFINE s == p.monitor
             P(m) == MonitorRule(p, m)
  <2>1. Len(s) \in Nat /\ ToSet(s) = {s[i] : i \in 1..Len(s)}
    BY TypedIsSeq DEF IsSeq, ToSet
  <2>2. F = [i \in 1..Len(s) |-> P(s[i])]
    BY DEF Each
  <2> HIDE DEF s, F, P
  <2>3. F = [i \in 1..Len(s) |-> F[i]]
    BY <2>2
  <2>4. IsSeq(F) /\ ToSet(F) = {F[i] : i \in 1..Len(s)}
    BY <2>1, <2>3, MapIsSeq
  <2>5. \A m \in ToSet(s) : P(m) \in ToSet(F)
    BY <2>1, <2>2, <2>4
  <2>6. QED
    BY <2>4, <2>5 DEF s, P
<1> HIDE DEF A, B, C, D, E, F, direct
<1>7. IsSeq(B)
  BY DEF B
<1>8. IsSeq(A \o B) /\ ToSet(A \o B) = ToSet(A) \cup ToSet(B)
  BY <1>2, <1>7, ConcatIsSeq
<1>9. IsSeq(A \o B \o C) /\ ToSet(A \o B \o C) = ToSet(A \o B) \cup ToSet(C)
  BY <1>8, <1>3, ConcatIsSeq
<1>10. IsSeq(A \o B \o C \o D) /\ ToSet(A \o B \o C \o D) = ToSet(A \o B \o C) \cup ToSet(D)
  BY <1>9, <1>4, ConcatIsSeq
<1>11. IsSeq(A \o B \o C \o D \o E) /\ ToSet(A \o B \o C \o D \o E) = ToSet(A \o B \o C \o D) \cup ToSet(E)
  BY <1>10, <1>5, ConcatIsSeq
<1>12. /\ IsSeq(A \o B \o C \o D \o E \o F)
       /\ ToSet(A \o B \o C \o D \o E \o F) = ToSet(A \o B \o C \o D \o E) \cup ToSet(F)
  BY <1>11, <1>6, ConcatIsSeq
<1>13. /\ IsSeq(AllRules(p))
       /\ ToSet(B) \cup ToSet(C) \cup ToSet(E) \cup ToSet(F) \subseteq ToSet(AllRules(p))
  BY <1>1, <1>8, <1>9, <1>10, <1>11, <1>12
<1>14. QED
  BY <1>3, <1>5, <1>6, <1>13 DEF B, direct

-----------------------------------------------------------------------------
(* All policies of a spec are in the cluster, and no other ones.           *)

TellApart(objs) == \A x, y \in ToSet(objs) : NameOf(x) = NameOf(y) => x = y

(* The network policy of a rule.                                           *)
PolicyOf(p, a) == WithHbone([Generate(a, ModeOf(p)) EXCEPT !.name = PolicyName(p.name, a)])

(* Authorization policies of this generation are the ones of its spec, also *)
(* those of attempts that broke off.                                       *)
OwnInv ==
  /\ gen \in Nat
  /\ \A o \in live["authorizationPolicies"] :
       /\ o.gen \in Nat /\ o.gen <= gen
       /\ spec # None /\ o.gen = gen => o.obj \in ToSet(AuthorizationPolicies(RewrittenPackage(Asked)))

(* What a step that is past applied is there.                              *)
LiveInv ==
  spec # None =>
    /\ Past(step, "networkPolicies") /\ TellApart(NetworkPolicies(Asked)) =>
         ToSet(NetworkPolicies(Asked)) \subseteq Objects("networkPolicies")
    /\ Past(step, "authorizationPolicies") /\ TellApart(AuthorizationPolicies(RewrittenPackage(Asked))) =>
         ToSet(AuthorizationPolicies(RewrittenPackage(Asked))) \subseteq Objects("authorizationPolicies")

LEMMA NetworkIsGenerated ==
  ASSUME NEW p, IsSeq(AllRules(p))
  PROVE  /\ IsSeq(NetworkPolicies(p))
         /\ \A r \in ToSet(AllRules(p)) : PolicyOf(p, r) \in ToSet(NetworkPolicies(p))
<1> DEFINE s == AllRules(p)
           P(r) == PolicyOf(p, r)
           all == Each(LAMBDA a : WithHbone([Generate(a, ModeOf(p)) EXCEPT !.name = PolicyName(p.name, a)]), s)
           deny == DefaultDenyAll(p)
<1>1. NetworkPolicies(p) = <<deny>> \o all
  BY Zenon DEF NetworkPolicies
<1>2. all = [i \in 1..Len(s) |-> P(s[i])]
  BY DEF Each, PolicyOf
<1>3. Len(s) \in Nat /\ ToSet(s) = {s[i] : i \in 1..Len(s)}
  BY TypedIsSeq DEF IsSeq, ToSet
<1> HIDE DEF s, P, all, deny
<1>4. all = [i \in 1..Len(s) |-> all[i]]
  BY <1>2
<1>5. IsSeq(all) /\ ToSet(all) = {all[i] : i \in 1..Len(s)}
  BY <1>3, <1>4, MapIsSeq
<1>6. \A r \in ToSet(s) : P(r) \in ToSet(all)
  BY <1>2, <1>3, <1>5
<1>7. IsSeq(<<deny>> \o all) /\ ToSet(<<deny>> \o all) = ToSet(<<deny>>) \cup ToSet(all)
  BY <1>5, EmptyAndSingle, ConcatIsSeq
<1>8. QED
  BY <1>1, <1>6, <1>7 DEF s, P

(* The authorization policies have the mesh mode of the package, so         *)
(* cleanupMismatchedMeshMode spares them.                                  *)
LEMMA AuthorizationMode ==
  ASSUME NEW p, IsSeq(p.allow), IsSeq(p.expose), IsSeq(p.monitor), IsSeq(p.sso),
         NEW x \in ToSet(AuthorizationPolicies(p))
  PROVE  x.mode = ModeOf(p)
<1>1. \A name, selector, sources, ports : BuildAuthPolicy(p, name, selector, sources, ports).mode = ModeOf(p)
  BY DEF BuildAuthPolicy
<1>2. CASE \E a \in ToSet(p.allow) : x = AllowAuthPolicy(p, a)
  BY <1>1, <1>2 DEF AllowAuthPolicy
<1>3. CASE \E e \in ToSet(p.expose) : x \in ToSet(ExposeAuthPolicies(p, e))
  <2> PICK e \in ToSet(p.expose) : x \in ToSet(ExposeAuthPolicies(p, e))
    BY <1>3
  <2>1. \/ ExposeAuthPolicies(p, e) = <<>>
        \/ \E name, selector, sources, ports :
             ExposeAuthPolicies(p, e) = <<BuildAuthPolicy(p, name, selector, sources, ports)>>
    BY DEF ExposeAuthPolicies
  <2>2. \E name, selector, sources, ports : x = BuildAuthPolicy(p, name, selector, sources, ports)
    BY <2>1, EmptyAndSingle
  <2>3. QED
    BY <1>1, <2>2
<1>4. CASE \E m \in ToSet(p.monitor) : x = MonitorAuthPolicy(p, m)
  BY <1>1, <1>4 DEF MonitorAuthPolicy
<1>5. CASE ModeOf(p) = "ambient" /\ \E c \in ToSet(p.sso) : x = DenyAllExceptWaypoint(p, c)
  BY <1>5 DEF DenyAllExceptWaypoint
<1>6. CASE x = SidecarMetrics(p)
  BY <1>1, <1>6 DEF SidecarMetrics
<1>7. QED
  BY <1>2, <1>3, <1>4, <1>5, <1>6, AuthorizationElements

LEMMA AskedPolicies ==
  ASSUME ControlInv, spec # None
  PROVE  LET q == RewrittenPackage(Asked)
         IN  /\ IsSeq(NetworkPolicies(Asked)) /\ IsSeq(AuthorizationPolicies(q))
             /\ \A x \in ToSet(AuthorizationPolicies(q)) : x.mode = ModeOf(q)
<1> DEFINE q == RewrittenPackage(Asked)
<1>1. IsSeq(q.allow) /\ IsSeq(q.expose) /\ IsSeq(q.monitor) /\ IsSeq(q.sso)
  BY RewrittenShape
<1>2. IsSeq(NetworkPolicies(Asked))
  BY <1>1, AskedEntries, RulesElements, NetworkIsGenerated
<1> HIDE DEF q
<1>3. IsSeq(AuthorizationPolicies(q)) /\ \A x \in ToSet(AuthorizationPolicies(q)) : x.mode = ModeOf(q)
  BY <1>1, AuthorizationElements, AuthorizationMode
<1>4. QED
  BY <1>2, <1>3 DEF q

LEMMA PrefixElements ==
  ASSUME NEW all, IsSeq(all), NEW n \in 0..Len(all)
  PROVE  ToSet(SubSeq(all, 1, n)) \subseteq ToSet(all)
<1>1. all \in Seq(ToSet(all))
  BY DEF IsSeq
<1> DEFINE S == ToSet(all)
<1> HIDE DEF S
<1>2. all \in Seq(S)
  BY <1>1 DEF S
<1>3. \A i \in 1..n : SubSeq(all, 1, n)[i] = all[i] /\ i \in 1..Len(all)
  BY <1>2
<1>4. DOMAIN SubSeq(all, 1, n) = 1..n /\ DOMAIN all = 1..Len(all)
  BY <1>2
<1>5. QED
  BY <1>3, <1>4 DEF ToSet

LEMMA OwnKeeps ==
  ASSUME NetworkInv, RewriteInv, OwnInv, [NetworkNext]_networkVars
  PROVE  OwnInv'
<1> DEFINE S == "authorizationPolicies"
<1>1. ASSUME NEW d \in Revision, Submit(d) PROVE OwnInv'
  <2>1. gen' = gen + 1 /\ live' = live
    BY <1>1 DEF Submit
  <2>2. \A o \in live'[S] : o.gen \in Nat /\ o.gen <= gen' /\ o.gen # gen'
    BY <2>1 DEF OwnInv
  <2>3. QED
    BY <2>1, <2>2 DEF OwnInv
<1>2. ASSUME step = S, spec # None, NEW objs, ToSet(objs) \subseteq ToSet(Generated(S)), spec' = spec, gen' = gen,
             \A o \in live'[S] : o \in Applied(objs, live[S])
      PROVE  OwnInv'
  <2> DEFINE all == AuthorizationPolicies(RewrittenPackage(Asked))
  <2>1. Generated(S) = all
    BY <1>2 DEF Generated, RewriteInv
  <2> HIDE DEF all
  <2>2. \A o \in live'[S] : (o.gen = gen /\ o.obj \in ToSet(all)) \/ o \in live[S]
    BY <1>2, <2>1, AppliedObjects
  <2>3. \A o \in live'[S] : o.gen \in Nat /\ o.gen <= gen /\ (o.gen = gen => o.obj \in ToSet(all))
    BY <1>2, <2>2 DEF OwnInv, all
  <2>4. QED
    BY <1>2, <2>3 DEF OwnInv, all, Asked
<1>3. ASSUME live'[S] = live[S], spec' = spec, gen' = gen PROVE OwnInv'
  BY <1>3 DEF OwnInv, Asked
<1>4. ASSUME Reconcile PROVE OwnInv'
  <2>1. PICK objs \in Outcomes(step, Applied(Generated(step), live[step])) :
          live' = [live EXCEPT ![step] = objs]
    BY <1>4 DEF Reconcile
  <2>2. step \in ToSet(Steps) /\ spec' = spec /\ gen' = gen
    BY <1>4 DEF Reconcile
  <2>3. \A s \in ToSet(Steps) : live'[s] = IF s = step THEN objs ELSE live[s]
    BY <2>1, <2>2 DEF NetworkInv, ControlInv
  <2>4. CASE step = S
    <3>1. spec # None
      BY <2>2, StepsTyped DEF NetworkInv, ControlInv
    <3>2. objs = CleanupMismatchedMeshMode(PurgeOrphans(Applied(Generated(S), live[S])))
      BY <2>1, <2>4 DEF Outcomes
    <3>3. \A o \in objs : o \in Applied(Generated(S), live[S])
      BY <3>2 DEF CleanupMismatchedMeshMode, PurgeOrphans
    <3>4. live'[S] = objs
      BY <2>2, <2>3, <2>4
    <3>5. QED
      BY <1>2, <2>2, <2>4, <3>1, <3>3, <3>4
  <2>5. CASE step # S
    BY <1>3, <2>2, <2>3, <2>5, StepsTyped
  <2>6. QED
    BY <2>4, <2>5
<1>5. ASSUME NEW n \in Nat, Fail(n) PROVE OwnInv'
  <2> DEFINE objs == SubSeq(Generated(step), 1, n)
  <2>1. /\ step \in ToSet(Steps) /\ n \in 0..Len(Generated(step)) /\ spec' = spec /\ gen' = gen
        /\ live' = [live EXCEPT ![step] = Applied(objs, live[step])]
    BY <1>5 DEF Fail
  <2>2. spec # None
    BY <2>1, StepsTyped DEF NetworkInv, ControlInv
  <2>3. CASE step = S
    <3>1. Generated(S) = AuthorizationPolicies(RewrittenPackage(Asked))
      BY <2>2, <2>3 DEF Generated, RewriteInv
    <3>2. IsSeq(Generated(S))
      BY <2>2, <3>1, AskedPolicies DEF NetworkInv
    <3>3. ToSet(objs) \subseteq ToSet(Generated(S))
      BY <2>1, <2>3, <3>2, PrefixElements
    <3>4. live'[S] = Applied(objs, live[S])
      BY <2>1, <2>3 DEF NetworkInv, ControlInv
    <3> HIDE DEF objs
    <3>5. QED
      BY <1>2, <2>1, <2>2, <2>3, <3>3, <3>4
  <2>4. CASE step # S
    <3>1. live'[S] = live[S]
      BY <2>1, <2>4, StepsTyped DEF NetworkInv, ControlInv
    <3>2. QED
      BY <1>3, <2>1, <3>1
  <2>5. QED
    BY <2>3, <2>4
<1>6. ASSUME Retry PROVE OwnInv'
  BY <1>3, <1>6 DEF Retry
<1>7. ASSUME UNCHANGED networkVars PROVE OwnInv'
  BY <1>3, <1>7 DEF networkVars
<1>8. QED
  BY <1>1, <1>4, <1>5, <1>6, <1>7 DEF NetworkNext

(* A step that purges leaves what it applied.                              *)
LEMMA StepLeavesAll ==
  ASSUME ControlInv, RewriteInv, spec # None, step \in {"networkPolicies", "authorizationPolicies"},
         NEW objs \in Outcomes(step, Applied(Generated(step), live[step])),
         TellApart(Generated(step)), NEW x \in ToSet(Generated(step))
  PROVE  \E o \in objs : o.obj = x
<1> DEFINE all == Generated(step)
           applied == Applied(all, live[step])
           o == [gen |-> gen, obj |-> x]
<1>1. \/ step = "networkPolicies" /\ all = NetworkPolicies(Asked)
      \/ /\ step = "authorizationPolicies" /\ pkg = RewrittenPackage(Asked)
         /\ all = AuthorizationPolicies(RewrittenPackage(Asked))
  BY DEF Generated, RewriteInv
<1>2. all \in Seq(ToSet(all))
  BY <1>1, AskedPolicies DEF IsSeq
<1>3. step = "authorizationPolicies" => x.mode = ModeOf(pkg)
  BY <1>1, AskedPolicies
<1>4. o \in applied
  BY <1>2, DistinctIsApplied DEF TellApart
<1>5. objs = PurgeOrphans(applied) \/ (step = "authorizationPolicies" /\ objs = CleanupMismatchedMeshMode(PurgeOrphans(applied)))
  BY DEF Outcomes
<1> HIDE DEF all, applied
<1>6. o.gen = gen /\ o.obj = x
  OBVIOUS
<1> HIDE DEF o
<1>7. o \in objs
  BY <1>3, <1>4, <1>5, <1>6 DEF CleanupMismatchedMeshMode, PurgeOrphans
<1>8. QED
  BY <1>6, <1>7

LEMMA LiveKeeps ==
  ASSUME NetworkInv, RewriteInv, LiveInv, [NetworkNext]_networkVars
  PROVE  LiveInv'
<1> DEFINE expected(s, p) ==
             IF s = "networkPolicies" THEN NetworkPolicies(p) ELSE AuthorizationPolicies(RewrittenPackage(p))
<1> SUFFICES ASSUME spec' # None, NEW s \in {"networkPolicies", "authorizationPolicies"},
                    Past(step', s), TellApart(expected(s, Migrate(spec'))),
                    NEW x \in ToSet(expected(s, Migrate(spec')))
             PROVE  \E o \in live'[s] : o.obj = x
  <2>1. \A s : Objects(s)' = {o.obj : o \in live'[s]}
    BY DEF Objects
  <2>2. QED
    BY <2>1 DEF LiveInv, Asked
<1>1. ~(step' = "waiting" \/ step' = Steps[1]) /\ s \in ToSet(Steps)
  BY NothingPast, StepsTyped
<1>2. CASE Reconcile
  <2>1. PICK objs \in Outcomes(step, Applied(Generated(step), live[step])) :
          live' = [live EXCEPT ![step] = objs]
    BY <1>2 DEF Reconcile
  <2>2. step \in ToSet(Steps) /\ step' = NextStep(step) /\ spec' = spec
    BY <1>2 DEF Reconcile
  <2>3. live'[s] = IF s = step THEN objs ELSE live[s]
    BY <1>1, <2>1, <2>2 DEF NetworkInv, ControlInv
  <2>4. CASE step = s
    <3>1. Generated(s) = expected(s, Asked)
      BY <2>2, <2>4 DEF Generated, RewriteInv
    <3>2. expected(s, Asked) = expected(s, Migrate(spec'))
      BY <2>2 DEF Asked
    <3> HIDE DEF expected
    <3>3. \E o \in objs : o.obj = x
      BY <2>1, <2>2, <2>4, <3>1, <3>2, StepLeavesAll DEF NetworkInv
    <3>4. QED
      BY <2>3, <2>4, <3>3
  <2>5. CASE step # s
    <3>1. Past(step, s)
      BY <1>1, <2>2, <2>5, PastGrows
    <3>2. x \in Objects(s)
      BY <2>2, <3>1 DEF LiveInv, Asked
    <3>3. QED
      BY <2>3, <2>5, <3>2 DEF Objects
  <2>6. QED
    BY <2>4, <2>5
<1>3. CASE UNCHANGED networkVars
  <2>1. x \in Objects(s)
    BY <1>3 DEF networkVars, LiveInv, Asked
  <2>2. QED
    BY <1>3, <2>1 DEF networkVars, Objects
<1>4. ASSUME NEW d \in Revision, Submit(d) PROVE FALSE
  BY <1>1, <1>4 DEF Submit
<1>5. ASSUME NEW n \in Nat, Fail(n) PROVE FALSE
  BY <1>1, <1>5 DEF Fail
<1>6. ASSUME Retry PROVE FALSE
  BY <1>1, <1>6 DEF Retry
<1>7. QED
  BY <1>2, <1>3, <1>4, <1>5, <1>6 DEF NetworkNext

(* The spec the reconciler works on passed the webhook.                    *)
ApprovedInv == spec # None => Validator(spec, None, NoOwner, NoOwner)

LEMMA ApprovedKeeps ==
  ASSUME ApprovedInv, [NetworkNext]_networkVars
  PROVE  ApprovedInv'
BY DEF ApprovedInv, NetworkNext, Submit, Reconcile, Fail, Retry, networkVars

LEMMA LiveInvariant == NetworkSpec => [](OwnInv /\ LiveInv /\ ApprovedInv)
<1>1. NetworkInit => OwnInv /\ LiveInv /\ ApprovedInv
  BY StepsTyped DEF NetworkInit, OwnInv, LiveInv, ApprovedInv
<1>2. /\ NetworkInv /\ RewriteInv /\ (OwnInv /\ LiveInv /\ ApprovedInv) /\ [NetworkNext]_networkVars
      => (OwnInv /\ LiveInv /\ ApprovedInv)'
  BY OwnKeeps, LiveKeeps, ApprovedKeeps
<1>3. QED
  BY <1>1, <1>2, NetworkInvariant, DenyInvariant, PTL DEF NetworkSpec

-----------------------------------------------------------------------------
(* Which client a workload is behind.                                      *)

LEMMA ClientFound ==
  ASSUME ControlInv, spec # None, NEW labels,
         NEW c \in ToSet(Asked.sso), Protects(c), Subset(c.enableAuthserviceSelector, labels)
  PROVE  /\ FindMatchingClient(Asked, labels) \in STRING
         /\ AuthserviceClients(Asked) # <<>>
<1> DEFINE cs == AuthserviceClients(Asked)
           matching == {i \in DOMAIN cs : Subset(cs[i].enableAuthserviceSelector, labels)}
           k == CHOOSE i \in matching : \A j \in matching : i <= j
<1>1. IsSeq(cs) /\ ToSet(cs) = {d \in ToSet(Asked.sso) : Protects(d)}
  BY AskedEntries, ClientsKept
<1>2. FindMatchingClient(Asked, labels) = IF matching = {} THEN None ELSE cs[k].clientId
  BY DEF FindMatchingClient
<1> HIDE DEF cs
<1>3. PICK n \in DOMAIN cs : c = cs[n]
  BY <1>1 DEF ToSet
<1>4. n \in matching
  BY <1>3
<1>5. matching \subseteq Nat
  <2>1. DOMAIN cs = 1..Len(cs) /\ Len(cs) \in Nat
    BY <1>1, TypedIsSeq DEF IsSeq
  <2>2. QED
    BY <2>1
<1>6. \E i \in matching : \A j \in matching : i <= j
  <2> HIDE DEF matching
  <2>1. QED
    BY <1>4, <1>5, Least
<1>7. k \in DOMAIN cs
  BY <1>6
<1> HIDE DEF k
<1>8. cs[k] \in ToSet(Asked.sso)
  BY <1>1, <1>7 DEF ToSet
<1>9. cs[k].clientId \in STRING
  BY <1>8, AskedEntries
<1>10. cs # <<>>
  BY <1>3, EmptyAndSingle DEF ToSet
<1>11. QED
  BY <1>2, <1>4, <1>9, <1>10 DEF cs

LEMMA OneClient ==
  ASSUME ControlInv, spec # None, NEW w, SingleClient(w),
         NEW c \in ToSet(Asked.sso), Protects(c), Subset(c.enableAuthserviceSelector, w),
         NEW d \in ToSet(Asked.sso), Protects(d), Subset(d.enableAuthserviceSelector, w)
  PROVE  c = d
<1> DEFINE cs == AuthserviceClients(Asked)
<1>1. ToSet(cs) = {x \in ToSet(Asked.sso) : Protects(x)}
  BY AskedEntries, ClientsKept
<1>2. \A i, j \in DOMAIN cs :
        Subset(cs[i].enableAuthserviceSelector, w) /\ Subset(cs[j].enableAuthserviceSelector, w) => i = j
  BY DEF SingleClient
<1> HIDE DEF cs
<1>3. PICK i \in DOMAIN cs : c = cs[i]
  BY <1>1 DEF ToSet
<1>4. PICK j \in DOMAIN cs : d = cs[j]
  BY <1>1 DEF ToSet
<1>5. QED
  BY <1>2, <1>3, <1>4

(* The rewritten package has the same clients.                             *)
LEMMA RewrittenMatches ==
  ASSUME ControlInv, spec # None
  PROVE  LET q == RewrittenPackage(Asked)
         IN  /\ \A labels : FindMatchingClient(q, labels) = FindMatchingClient(Asked, labels)
             /\ \A selector : FindMatchingSsoClient(q, selector) = FindMatchingSsoClient(Asked, selector)
<1> DEFINE p == Asked
           q == RewrittenPackage(p)
<1>1. q.sso = p.sso /\ ModeOf(q) = ModeOf(p)
  BY RewrittenShape
<1> HIDE DEF p, q
<1>2. AuthserviceClients(q) = AuthserviceClients(p)
  BY <1>1 DEF AuthserviceClients
<1>3. \A labels : FindMatchingClient(q, labels) = FindMatchingClient(p, labels)
  BY <1>2 DEF FindMatchingClient
<1>4. \A selector : FindMatchingSsoClient(q, selector) = FindMatchingSsoClient(p, selector)
  BY <1>1, <1>3 DEF FindMatchingSsoClient
<1>5. QED
  BY <1>3, <1>4 DEF p, q

-----------------------------------------------------------------------------
(* What lets traffic through once a package is reconciled.                 *)

(* What the theorem asks of a spec: policies of one name are the same, and *)
(* no client protects waypoints.                                           *)
EntriesTellApart(p) ==
  /\ TellApart(NetworkPolicies(p))
  /\ TellApart(AuthorizationPolicies(RewrittenPackage(p)))
  /\ \A c \in ToSet(p.sso) : Protects(c) =>
       \A x \in ToSet(c.enableAuthserviceSelector) : x[1] # "istio.io/gateway-name"

Settled ==
  /\ Done /\ EntriesTellApart(Asked)
  /\ ControlInv /\ PurgedInv /\ OwnInv /\ LiveInv /\ ApprovedInv

LEMMA SettledObjects ==
  ASSUME Settled
  PROVE  /\ ToSet(NetworkPolicies(Asked)) \subseteq Objects("networkPolicies")
         /\ Objects("authorizationPolicies") = ToSet(AuthorizationPolicies(RewrittenPackage(Asked)))
<1>1. Past(step, "networkPolicies") /\ Past(step, "authorizationPolicies") /\ spec # None
  BY DEF Settled, Done, Past
<1> DEFINE all == ToSet(AuthorizationPolicies(RewrittenPackage(Asked)))
<1>2. ToSet(NetworkPolicies(Asked)) \subseteq Objects("networkPolicies") /\ all \subseteq Objects("authorizationPolicies")
  BY <1>1 DEF Settled, LiveInv, EntriesTellApart
<1>3. \A o \in live["authorizationPolicies"] : o.gen = gen
  BY <1>1, StepsTyped DEF Settled, PurgedInv
<1>4. \A o \in live["authorizationPolicies"] : o.obj \in all
  BY <1>1, <1>3 DEF Settled, OwnInv
<1> HIDE DEF all
<1>5. Objects("authorizationPolicies") \subseteq all
  BY <1>4 DEF Objects
<1>6. QED
  BY <1>2, <1>5 DEF all

(* The network policy of a rule for a remote in the cluster.               *)
LEMMA RuleAdmits ==
  ASSUME Settled, NEW r \in ToSet(AllRules(Asked)), NEW pod, NEW other, NEW port,
         Subset(Labels(r.selector), pod.labels),
         r.remoteGenerated = None, InCluster(r),
         other.ns = OrElse(r.remoteNamespace, spec.namespace),
         Subset(Labels(r.remoteSelector), other.labels),
         \/ PortsNamed(r) = {}
         \/ r.direction = "Ingress" /\ r.remoteProtocol # "UDP" /\ port \in PortsNamed(r)
  PROVE  NetworkAdmits(r.direction, pod, other, Wire(port))
<1> DEFINE mode == ModeOf(Asked)
           g == [Generate(r, mode) EXCEPT !.name = PolicyName(Asked.name, r)]
           x == PolicyOf(Asked, r)
           peer == PodPeer(IF r.remoteNamespace \in {"", "*"} THEN "*" ELSE r.remoteNamespace,
                           Labels(r.remoteSelector))
           rest == {<<p, L4Protocol(r)>> : p \in PortsNamed(r)}
<1>1. x \in Objects("networkPolicies")
  <2>1. spec # None /\ ControlInv
    BY DEF Settled, Done
  <2>2. IsSeq(RewrittenPackage(Asked).allow) /\ IsSeq(AllRules(Asked))
    BY <2>1, RewrittenShape, AskedEntries, RulesElements
  <2>3. x \in ToSet(NetworkPolicies(Asked))
    BY <2>2, NetworkIsGenerated
  <2> HIDE DEF x
  <2>4. QED
    BY <2>3, SettledObjects
<1>2. GetPeers(r, mode) = {peer}
  BY NoneAssumption DEF GetPeers
<1>3. PeerMatches(peer, other)
  BY NoneAssumption DEF PeerMatches, PodPeer, OrElse
<1> HIDE DEF peer
<1>4. /\ g.direction = r.direction /\ g.selector = Labels(r.selector) /\ g.generated = None
      /\ g.peers = {peer} /\ g.ports = rest
  BY <1>2 DEF Generate
<1>5. x = WithHbone(g)
  BY DEF PolicyOf
<1> HIDE DEF g, x
<1>6. \/ x = g
      \/ x = [g EXCEPT !.ports = @ \cup {Hbone}]
  BY <1>5 DEF WithHbone
<1>7. /\ x.direction = r.direction /\ x.selector = Labels(r.selector) /\ x.peers = {peer}
      /\ rest \subseteq x.ports
  <2>1. DOMAIN g = {"name", "direction", "selector", "generated", "peers", "ports"}
    BY DEF g, Generate
  <2> HIDE DEF rest
  <2>2. QED
    BY <1>4, <1>6, <2>1
<1>8. x.ports = {} \/ Wire(port) \in x.ports
  <2>1. CASE PortsNamed(r) = {}
    <3>1. g.ports = {}
      BY <1>4, <2>1
    <3>2. x = g
      BY <1>5, <3>1 DEF WithHbone
    <3>3. QED
      BY <3>1, <3>2
  <2>2. CASE r.direction = "Ingress" /\ r.remoteProtocol # "UDP" /\ port \in PortsNamed(r)
    <3>1. <<port, "TCP">> \in rest
      BY <2>2 DEF L4Protocol
    <3>2. \E p \in g.ports : p[2] # "UDP"
      <4>1. <<port, "TCP">>[2] # "UDP"
        OBVIOUS
      <4>2. QED
        BY <1>4, <3>1, <4>1
    <3>3. g.direction # "Egress"
      BY <1>4, <2>2
    <3>4. x = [g EXCEPT !.ports = @ \cup {Hbone}]
      BY <1>5, <3>2, <3>3 DEF WithHbone
    <3>5. Hbone \in x.ports
      <4>1. "ports" \in DOMAIN g
        BY DEF g, Generate
      <4> HIDE DEF rest
      <4>2. QED
        BY <3>4, <4>1
    <3> HIDE DEF rest
    <3>6. QED
      BY <1>7, <3>1, <3>5 DEF Wire
  <2>3. QED
    BY <2>1, <2>2
<1>9. QED
  BY <1>1, <1>3, <1>7, <1>8 DEF NetworkAdmits

LEMMA OnlyClientsDeny ==
  ASSUME ControlInv, spec # None,
         NEW x \in ToSet(AuthorizationPolicies(RewrittenPackage(Asked))), x.action # "ALLOW"
  PROVE  /\ ModeOf(Asked) = "ambient"
         /\ \E c \in ToSet(Asked.sso) : Protects(c) /\ x = DenyAllExceptWaypoint(RewrittenPackage(Asked), c)
<1> DEFINE q == RewrittenPackage(Asked)
<1>1. /\ IsSeq(q.allow) /\ IsSeq(q.expose) /\ IsSeq(q.monitor) /\ IsSeq(q.sso)
      /\ q.sso = Asked.sso /\ ModeOf(q) = ModeOf(Asked)
  BY RewrittenShape
<1> HIDE DEF q
<1>2. \A name, selector, sources, ports : BuildAuthPolicy(q, name, selector, sources, ports).action = "ALLOW"
  BY DEF BuildAuthPolicy
<1>3. \A a : x # AllowAuthPolicy(q, a)
  BY <1>2 DEF AllowAuthPolicy
<1>4. ASSUME NEW e \in ToSet(q.expose), x \in ToSet(ExposeAuthPolicies(q, e)) PROVE FALSE
  <2>1. \/ ExposeAuthPolicies(q, e) = <<>>
        \/ \E name, selector, sources, ports :
             ExposeAuthPolicies(q, e) = <<BuildAuthPolicy(q, name, selector, sources, ports)>>
    BY DEF ExposeAuthPolicies
  <2>2. \E name, selector, sources, ports : x = BuildAuthPolicy(q, name, selector, sources, ports)
    BY <1>4, <2>1, EmptyAndSingle
  <2>3. QED
    BY <1>2, <2>2
<1>5. \A m : x # MonitorAuthPolicy(q, m)
  BY <1>2 DEF MonitorAuthPolicy
<1>6. x # SidecarMetrics(q)
  BY <1>2 DEF SidecarMetrics
<1>7. x \in ToSet(AuthorizationPolicies(q))
  BY DEF q
<1>8. ModeOf(q) = "ambient" /\ \E c \in ToSet(q.sso) : Protects(c) /\ x = DenyAllExceptWaypoint(q, c)
  BY <1>1, <1>3, <1>4, <1>5, <1>6, <1>7, AuthorizationElements
<1>9. QED
  BY <1>1, <1>8 DEF q

(* A pod whose ALLOW policies match, or that has none, lets in what no      *)
(* client's policy denies.                                                 *)
LEMMA PoliciesLetIn ==
  ASSUME Settled, NEW pod, NEW from, NEW port,
         LET all == ToSet(AuthorizationPolicies(RewrittenPackage(Asked)))
         IN  \/ \A x \in all : x.action = "ALLOW" => ~Subset(Labels(x.selector), pod.labels)
             \/ \E x \in all : /\ x.action = "ALLOW" /\ Subset(Labels(x.selector), pod.labels)
                               /\ IsWaypoint(pod) => Labels(x.selector) # <<>>
                               /\ Matches(x, from, port),
         \A c \in ToSet(Asked.sso) :
           /\ ModeOf(Asked) = "ambient" /\ Protects(c)
           /\ Subset(Labels(c.enableAuthserviceSelector), pod.labels)
           /\ IsWaypoint(pod) => Labels(c.enableAuthserviceSelector) # <<>>
           => SourceMatches(Principal(Asked.namespace, GetWaypointName(c.clientId)), from)
  PROVE  MeshAdmits(pod, from, port)
<1> DEFINE q == RewrittenPackage(Asked)
           on == {ap \in Objects("authorizationPolicies") :
                    /\ Subset(Labels(ap.selector), pod.labels)
                    /\ IsWaypoint(pod) => Labels(ap.selector) # <<>>}
           allow == {ap \in on : ap.action = "ALLOW"}
<1>1. Objects("authorizationPolicies") = ToSet(AuthorizationPolicies(q))
  BY SettledObjects
<1>2. allow = {} \/ \E ap \in allow : Matches(ap, from, port)
  <2> HIDE DEF q
  <2>1. CASE \A x \in ToSet(AuthorizationPolicies(q)) : x.action = "ALLOW" => ~Subset(Labels(x.selector), pod.labels)
    BY <1>1, <2>1
  <2>2. CASE \E x \in ToSet(AuthorizationPolicies(q)) :
               /\ x.action = "ALLOW" /\ Subset(Labels(x.selector), pod.labels)
               /\ IsWaypoint(pod) => Labels(x.selector) # <<>>
               /\ Matches(x, from, port)
    BY <1>1, <2>2
  <2>3. QED
    BY <2>1, <2>2 DEF q
<1>3. ASSUME NEW ap \in on \ allow PROVE \E s \in ap.sources : SourceMatches(s, from)
  <2>1. ap \in ToSet(AuthorizationPolicies(q)) /\ ap.action # "ALLOW"
    BY <1>1, <1>3
  <2>2. ModeOf(Asked) = "ambient" /\ \E c \in ToSet(Asked.sso) : Protects(c) /\ ap = DenyAllExceptWaypoint(q, c)
    BY <2>1, OnlyClientsDeny DEF Settled, Done
  <2> PICK c \in ToSet(Asked.sso) : Protects(c) /\ ap = DenyAllExceptWaypoint(q, c)
    BY <2>2
  <2>3. q.namespace = Asked.namespace
    BY RewrittenShape DEF Settled, Done
  <2> HIDE DEF q
  <2>4. /\ ap.selector = c.enableAuthserviceSelector
        /\ ap.sources = {Principal(Asked.namespace, GetWaypointName(c.clientId))}
    BY <2>3 DEF DenyAllExceptWaypoint
  <2>5. /\ Subset(Labels(ap.selector), pod.labels)
        /\ IsWaypoint(pod) => Labels(ap.selector) # <<>>
    BY <1>3
  <2>6. SourceMatches(Principal(Asked.namespace, GetWaypointName(c.clientId)), from)
    BY <2>2, <2>4, <2>5
  <2>7. QED
    BY <2>4, <2>6
<1> HIDE DEF on, allow
<1>4. \A ap \in on \ allow : \E s \in ap.sources : SourceMatches(s, from)
  BY <1>3
<1>5. QED
  BY <1>2, <1>4 DEF MeshAdmits, on, allow

-----------------------------------------------------------------------------
(* Pods and waypoints.                                                     *)

LEMMA PodsAre ==
  ASSUME NEW w \in Workload
  PROVE  /\ App(w).labels = w /\ App(w).ns = spec.namespace /\ ~IsWaypoint(App(w))
         /\ w # None
         /\ \A client : ~Subset(WaypointSelector(client), w)
<1> DEFINE pod == App(w)
<1>1. pod.labels = w /\ pod.ns = spec.namespace
  BY DEF App, Pod
<1> HIDE DEF pod
<1>2. ~IsWaypoint(pod)
  BY <1>1, WorkloadAssumption DEF IsWaypoint
<1>3. w # None
  BY WorkloadAssumption, RevisionAssumption
<1>4. ASSUME NEW client, Subset(WaypointSelector(client), w) PROVE FALSE
  <2> DEFINE pair == <<"istio.io/gateway-name", GetWaypointName(client)>>
  <2>1. pair[1] = "istio.io/gateway-name"
    OBVIOUS
  <2>2. ToSet(WaypointSelector(client)) = {pair}
    BY EmptyAndSingle DEF WaypointSelector
  <2> HIDE DEF pair
  <2>3. pair \in ToSet(w)
    BY <1>4, <2>2 DEF Subset
  <2>4. QED
    BY <2>1, <2>3, WorkloadAssumption DEF ToSet
<1>5. QED
  BY <1>1, <1>2, <1>3, <1>4 DEF pod

LEMMA WaypointsAre ==
  ASSUME NEW client
  PROVE  /\ Waypoint(client).labels = WaypointSelector(client)
         /\ Waypoint(client).ns = spec.namespace /\ Waypoint(client).sa = GetWaypointName(client)
         /\ IsWaypoint(Waypoint(client)) /\ WaypointSelector(client) # <<>>
<1> DEFINE pod == Waypoint(client)
           pair == <<"istio.io/gateway-name", GetWaypointName(client)>>
<1>1. pod.labels = <<pair>> /\ pod.ns = spec.namespace /\ pod.sa = GetWaypointName(client)
  BY DEF Waypoint, Pod, WaypointSelector
<1>2. pair[1] = "istio.io/gateway-name"
  OBVIOUS
<1>3. WaypointSelector(client) = <<pair>>
  BY DEF WaypointSelector
<1> HIDE DEF pod, pair
<1>4. 1 \in DOMAIN pod.labels /\ pod.labels[1] = pair
  BY <1>1
<1>5. IsWaypoint(pod)
  BY <1>2, <1>4 DEF IsWaypoint
<1>6. <<pair>> # <<>>
  OBVIOUS
<1>7. QED
  BY <1>1, <1>3, <1>5, <1>6 DEF pod

LEMMA ReflexiveSubset == \A s : Subset(s, s)
BY DEF Subset

LEMMA BehindClient ==
  ASSUME NEW selector, FindMatchingSsoClient(Asked, selector) # None
  PROVE  /\ ModeOf(Asked) = "ambient" /\ selector # None /\ Labels(selector) = selector
         /\ FindMatchingClient(Asked, selector) = FindMatchingSsoClient(Asked, selector)
BY DEF FindMatchingSsoClient, Labels, OrElse

(* No client protects a waypoint.                                          *)
LEMMA WaypointsUndenied ==
  ASSUME Settled, NEW c \in ToSet(Asked.sso), Protects(c), NEW client,
         Subset(c.enableAuthserviceSelector, WaypointSelector(client))
  PROVE  c.enableAuthserviceSelector = <<>>
<1> DEFINE s == c.enableAuthserviceSelector
           pair == <<"istio.io/gateway-name", GetWaypointName(client)>>
<1>1. s \in LabelSets
  BY AskedEntries DEF Settled, Done, Protects, Optional
<1>2. \A x \in ToSet(s) : x[1] # "istio.io/gateway-name"
  BY DEF Settled, EntriesTellApart
<1>3. ToSet(WaypointSelector(client)) = {pair}
  BY EmptyAndSingle DEF WaypointSelector
<1>4. pair[1] = "istio.io/gateway-name"
  OBVIOUS
<1> HIDE DEF pair, s
<1>5. ToSet(s) = {}
  BY <1>2, <1>3, <1>4 DEF Subset, s
<1>6. s = <<>>
  <2>1. s \in Seq(STRING \X STRING) /\ DOMAIN s = 1..Len(s) /\ Len(s) \in Nat
    BY <1>1 DEF LabelSets
  <2>2. \A i \in DOMAIN s : s[i] \in ToSet(s)
    BY DEF ToSet
  <2>3. ASSUME Len(s) # 0 PROVE FALSE
    <3>1. 1 \in DOMAIN s
      BY <2>1, <2>3
    <3>2. s[1] \in ToSet(s)
      BY <2>2, <3>1
    <3>3. QED
      BY <1>5, <3>2
  <2>4. QED
    BY <2>1, <2>3
<1>7. QED
  BY <1>6 DEF s

(* A workload without a client is only under the ALLOW policies.           *)
LEMMA DirectEntry ==
  ASSUME Settled, NEW w \in Workload, Behind(w) = None, NEW from, NEW port,
         NEW x \in ToSet(AuthorizationPolicies(RewrittenPackage(Asked))), x.action = "ALLOW",
         Subset(Labels(x.selector), w), Matches(x, from, port)
  PROVE  MeshAdmits(App(w), from, port)
<1>1. App(w).labels = w /\ ~IsWaypoint(App(w)) /\ w # None
  BY PodsAre
<1>2. ASSUME NEW c \in ToSet(Asked.sso), ModeOf(Asked) = "ambient", Protects(c),
             Subset(Labels(c.enableAuthserviceSelector), w)
      PROVE  FALSE
  <2>1. Subset(c.enableAuthserviceSelector, w)
    BY <1>2 DEF Labels, OrElse, Protects
  <2>2. FindMatchingClient(Asked, w) # None
    BY <1>2, <2>1, ClientFound, NoneAssumption DEF Settled, Done
  <2>3. QED
    BY <1>1, <1>2, <2>2 DEF Behind, FindMatchingSsoClient
<1> DEFINE pod == App(w)
<1> HIDE DEF pod
<1>3. MeshAdmits(pod, from, port)
  BY <1>1, <1>2, PoliciesLetIn DEF pod
<1>4. QED
  BY <1>3 DEF pod

(* A waypoint lets in what a policy that names it lets in.                 *)
LEMMA WaypointEntry ==
  ASSUME Settled, NEW client, NEW from, NEW port,
         NEW x \in ToSet(AuthorizationPolicies(RewrittenPackage(Asked))), x.action = "ALLOW",
         Labels(x.selector) = WaypointSelector(client), Matches(x, from, port)
  PROVE  MeshAdmits(Waypoint(client), from, port)
<1> DEFINE pod == Waypoint(client)
<1>1. pod.labels = WaypointSelector(client) /\ WaypointSelector(client) # <<>>
  BY WaypointsAre
<1>2. ASSUME NEW c \in ToSet(Asked.sso), Protects(c),
             Subset(Labels(c.enableAuthserviceSelector), pod.labels),
             IsWaypoint(pod) => Labels(c.enableAuthserviceSelector) # <<>>
      PROVE  FALSE
  <2>1. Labels(c.enableAuthserviceSelector) = c.enableAuthserviceSelector
    BY <1>2 DEF Labels, OrElse, Protects
  <2>2. c.enableAuthserviceSelector = <<>>
    BY <1>1, <1>2, <2>1, WaypointsUndenied
  <2>3. QED
    BY <1>2, <2>1, <2>2, WaypointsAre
<1>3. Subset(Labels(x.selector), pod.labels)
  BY <1>1, ReflexiveSubset
<1> HIDE DEF pod
<1>4. MeshAdmits(pod, from, port)
  BY <1>1, <1>2, <1>3, PoliciesLetIn
<1>5. QED
  BY <1>4 DEF pod

LEMMA WaypointsAreLabels ==
  ASSUME ControlInv, spec # None, NEW labels, FindMatchingClient(Asked, labels) # None
  PROVE  LET s == WaypointSelector(FindMatchingClient(Asked, labels))
         IN  s # None /\ Labels(s) = s
<1> DEFINE client == FindMatchingClient(Asked, labels)
           pair == <<"istio.io/gateway-name", GetWaypointName(client)>>
           s == WaypointSelector(client)
<1>1. GetWaypointName(client) \in STRING
  <2>1. PICK c \in ToSet(Asked.sso) : c.clientId = client
    BY AskedEntries, MatchingProtects
  <2>2. QED
    BY <2>1, AskedEntries
<1>2. s = <<pair>>
  BY DEF WaypointSelector
<1>3. pair \in STRING \X STRING
  BY <1>1, StringAssumption
<1> HIDE DEF pair, s
<1>4. s \in LabelSets
  BY <1>2, <1>3 DEF LabelSets
<1>5. s # None
  BY <1>4, RevisionAssumption
<1>6. QED
  BY <1>5 DEF Labels, OrElse, s

LEMMA UsesWaypoint ==
  ASSUME ControlInv, spec # None, ModeOf(Asked) = "ambient", NEW labels,
         FindMatchingClient(Asked, labels) # None
  PROVE  ShouldUseAmbientWaypoint(Asked)
<1>1. PICK c \in ToSet(Asked.sso) : Protects(c) /\ Subset(c.enableAuthserviceSelector, labels)
  BY AskedEntries, MatchingProtects
<1>2. AuthserviceClients(Asked) # <<>>
  BY <1>1, ClientFound
<1>3. QED
  BY <1>2 DEF ShouldUseAmbientWaypoint

LEMMA RewrittenAllows ==
  ASSUME ControlInv, spec # None
  PROVE  LET q == RewrittenPackage(Asked)
         IN  ToSet(q.allow) = {RewriteSelector(Asked, a) : a \in ToSet(Asked.allow)}
<1> DEFINE p == Asked
           q == RewrittenPackage(p)
<1>1. q.allow = [i \in DOMAIN p.allow |-> RewriteSelector(p, p.allow[i])]
  <2>1. spec \in Package
    BY RevisionAssumption DEF ControlInv
  <2>2. "allow" \in DOMAIN p
    BY <2>1 DEF Package, Asked, Migrate
  <2>3. QED
    BY <2>2 DEF RewrittenPackage
<1> HIDE DEF q, p
<1>2. DOMAIN q.allow = DOMAIN p.allow
  BY <1>1
<1>3. ToSet(q.allow) = {RewriteSelector(p, p.allow[i]) : i \in DOMAIN p.allow}
  BY <1>1, <1>2 DEF ToSet
<1>4. QED
  BY <1>3 DEF ToSet, p, q

(* Where no rule opens a pod, no ALLOW policy selects it.                  *)
LEMMA NothingOpens ==
  ASSUME Settled, NEW w \in Workload, Behind(w) # None, Unhindered(w),
         NEW x \in ToSet(AuthorizationPolicies(RewrittenPackage(Asked))), x.action = "ALLOW"
  PROVE  ~Subset(Labels(x.selector), w)
<1> DEFINE p == Asked
           q == RewrittenPackage(p)
<1>1. spec # None /\ ControlInv /\ ModeOf(Asked) = "ambient"
  BY BehindClient DEF Settled, Done, Behind
<1>2. /\ IsSeq(q.allow) /\ IsSeq(q.expose) /\ IsSeq(q.monitor) /\ IsSeq(q.sso)
      /\ ModeOf(q) = "ambient" /\ q.expose = p.expose /\ q.monitor = p.monitor
  <2>1. q.expose = p.expose /\ q.monitor = p.monitor
    BY <1>1 DEF RewrittenPackage
  <2>2. QED
    BY <1>1, <2>1, RewrittenShape
<1>3. /\ \A selector : FindMatchingSsoClient(q, selector) = FindMatchingSsoClient(p, selector)
      /\ \A selector : FindMatchingSsoClient(q, selector) # None =>
           FindMatchingClient(p, selector) = FindMatchingSsoClient(q, selector)
  <2>1. \A selector : FindMatchingSsoClient(q, selector) = FindMatchingSsoClient(p, selector)
    BY <1>1, RewrittenMatches
  <2>2. QED
    BY <2>1, BehindClient
<1>4. ASSUME NEW labels, FindMatchingClient(p, labels) # None
      PROVE  ~Subset(Labels(WaypointSelector(FindMatchingClient(p, labels))), w)
  <2> DEFINE client == FindMatchingClient(p, labels)
  <2>1. ~Subset(WaypointSelector(client), w)
    BY PodsAre
  <2>2. Labels(WaypointSelector(client)) = WaypointSelector(client)
    BY <1>1, <1>4, WaypointsAreLabels
  <2>3. QED
    BY <2>1, <2>2
<1>5. \A name, selector, sources, ports : BuildAuthPolicy(q, name, selector, sources, ports).selector = selector
  BY DEF BuildAuthPolicy
<1> HIDE DEF q
<1>6. ASSUME NEW a \in ToSet(q.allow), a.direction # "Egress", a.remoteProtocol # "UDP", x = AllowAuthPolicy(q, a)
      PROVE  ~Subset(Labels(x.selector), w)
  <2>1. CASE FindMatchingSsoClient(q, a.selector) # None
    <3>1. x.selector = WaypointSelector(FindMatchingSsoClient(q, a.selector))
      BY <1>5, <1>6, <2>1 DEF AllowAuthPolicy
    <3>2. QED
      BY <1>3, <1>4, <2>1, <3>1
  <2>2. CASE FindMatchingSsoClient(q, a.selector) = None
    <3>1. x.selector = a.selector
      BY <1>5, <1>6, <2>2 DEF AllowAuthPolicy
    <3>2. PICK b \in ToSet(p.allow) : a = RewriteSelector(p, b)
      BY <1>1, RewrittenAllows DEF q
    <3>3. b \in Allow
      BY <1>1, <3>2, AskedEntries
    <3>4. \/ a = b
          \/ /\ FindMatchingClient(p, Labels(b.selector)) # None
             /\ a = [b EXCEPT !.selector = GetPodSelector(p, b.selector, FindMatchingClient(p, Labels(b.selector)))]
      BY <3>2 DEF RewriteSelector
    <3>5. CASE a = b
      <4>1. b.direction = "Ingress" /\ b.remoteProtocol # "UDP"
        BY <1>6, <3>3, <3>5 DEF Allow, Direction
      <4>2. ~OpensPod(b.selector, w)
        BY <3>2, <4>1 DEF Unhindered
      <4>3. QED
        BY <1>3, <2>2, <3>1, <3>5, <4>2 DEF OpensPod
    <3>6. CASE /\ FindMatchingClient(p, Labels(b.selector)) # None
               /\ a = [b EXCEPT !.selector = GetPodSelector(p, b.selector, FindMatchingClient(p, Labels(b.selector)))]
      <4>1. ShouldUseAmbientWaypoint(p)
        BY <1>1, <3>6, UsesWaypoint
      <4>2. a.selector = WaypointSelector(FindMatchingClient(p, Labels(b.selector)))
        BY <3>3, <3>6, <4>1 DEF GetPodSelector, Allow
      <4>3. QED
        BY <1>4, <3>1, <3>6, <4>2
    <3>7. QED
      BY <3>4, <3>5, <3>6
  <2>3. QED
    BY <2>1, <2>2
<1>7. ASSUME NEW e \in ToSet(p.expose), x \in ToSet(ExposeAuthPolicies(q, e)) PROVE ~Subset(Labels(x.selector), w)
  <2>1. ~OpensPod(e.selector, w)
    BY <1>7 DEF Unhindered
  <2>2. CASE FindMatchingSsoClient(q, e.selector) # None
    <3> DEFINE client == FindMatchingSsoClient(q, e.selector)
    <3>1. \/ ExposeAuthPolicies(q, e) = <<>>
          \/ \E name, sources, ports :
               ExposeAuthPolicies(q, e) = <<BuildAuthPolicy(q, name, WaypointSelector(client), sources, ports)>>
      BY <2>2 DEF ExposeAuthPolicies
    <3> HIDE DEF client
    <3>2. \E name, sources, ports : x = BuildAuthPolicy(q, name, WaypointSelector(client), sources, ports)
      BY <1>7, <3>1, EmptyAndSingle
    <3>3. x.selector = WaypointSelector(client)
      BY <1>5, <3>2
    <3>4. QED
      BY <1>3, <1>4, <2>2, <3>3 DEF client
  <2>3. CASE FindMatchingSsoClient(q, e.selector) = None
    <3>1. \E name, sources, ports : ExposeAuthPolicies(q, e) = <<BuildAuthPolicy(q, name, e.selector, sources, ports)>>
      BY <2>3 DEF ExposeAuthPolicies
    <3>2. \E name, sources, ports : x = BuildAuthPolicy(q, name, e.selector, sources, ports)
      BY <1>7, <3>1, EmptyAndSingle
    <3>3. x.selector = e.selector
      BY <1>5, <3>2
    <3>4. QED
      BY <1>3, <2>1, <2>3, <3>3 DEF OpensPod
  <2>4. QED
    BY <2>2, <2>3
<1>8. ASSUME NEW m \in ToSet(p.monitor), x = MonitorAuthPolicy(q, m) PROVE ~Subset(Labels(x.selector), w)
  <2> DEFINE sel == OrElse(m.podSelector, m.selector)
  <2>1. ~OpensPod(sel, w)
    BY <1>8 DEF Unhindered
  <2>2. \/ FindMatchingSsoClient(q, sel) = None /\ x.selector = sel
        \/ /\ FindMatchingSsoClient(q, sel) # None
           /\ x.selector = WaypointSelector(FindMatchingSsoClient(q, sel))
    BY <1>5, <1>8 DEF MonitorAuthPolicy
  <2> HIDE DEF sel
  <2>3. QED
    BY <1>3, <1>4, <2>1, <2>2 DEF OpensPod
<1>9. ASSUME NEW c, x = DenyAllExceptWaypoint(q, c) PROVE FALSE
  BY <1>9 DEF DenyAllExceptWaypoint
<1>10. x \in ToSet(AuthorizationPolicies(q))
  BY DEF q
<1>11. QED
  BY <1>2, <1>6, <1>7, <1>8, <1>9, <1>10, AuthorizationElements

LEMMA LabelsAre ==
  \A s \in Optional(LabelSets) : Labels(s) \in LabelSets /\ Labels(s) # None /\ Labels(Labels(s)) = Labels(s)
<1>1. <<>> \in LabelSets
  BY DEF LabelSets
<1>2. QED
  BY <1>1, RevisionAssumption DEF Labels, OrElse, Optional

LEMMA AmbientWire == ModeOf(Asked) = "ambient" => \A a, b : Wire(a) = Wire(b)
BY DEF Wire

(* Between a waypoint and the workload behind it.                          *)
LEMMA WaypointExit ==
  ASSUME Settled, NEW w \in Workload, Behind(w) # None, SingleClient(w), Unhindered(w), NEW port
  PROVE  /\ NetworkAdmits("Egress", Waypoint(Behind(w)), App(w), Wire(port))
         /\ Reaches(Waypoint(Behind(w)), App(w), port)
<1> DEFINE client == Behind(w)
           pod == App(w)
           wp == Waypoint(client)
           name == GetWaypointName(client)
<1>1. spec # None /\ ControlInv /\ ModeOf(Asked) = "ambient" /\ FindMatchingClient(Asked, w) = client
  BY BehindClient DEF Settled, Done, Behind
<1>2. IsSeq(Asked.sso) /\ Asked.namespace = spec.namespace
  BY <1>1, AskedEntries
<1>3. PICK c \in ToSet(Asked.sso) : /\ Protects(c) /\ c.clientId = client
                                    /\ Subset(c.enableAuthserviceSelector, w)
  BY <1>1, <1>2, MatchingProtects
<1>4. c.enableAuthserviceSelector # None
  BY <1>3 DEF Protects
<1>5. /\ pod.labels = w /\ pod.ns = spec.namespace /\ ~IsWaypoint(pod)
      /\ wp.labels = WaypointSelector(client) /\ wp.ns = spec.namespace /\ wp.sa = name
  BY PodsAre, WaypointsAre
<1>6. WaypointSelector(client) # None /\ Labels(WaypointSelector(client)) = WaypointSelector(client)
      /\ Labels(c.enableAuthserviceSelector) = c.enableAuthserviceSelector
  BY <1>1, <1>4, WaypointsAreLabels DEF Labels, OrElse
<1> DEFINE out == Rule("Egress", WaypointSelector(client), None, c.enableAuthserviceSelector, None,
                       "Allow traffic from " \o name \o " to app")
           in == Rule("Ingress", c.enableAuthserviceSelector, None, WaypointSelector(client), None,
                      "Allow traffic from " \o name \o " to app pods")
<1>7. out \in ToSet(AllRules(Asked)) /\ in \in ToSet(AllRules(Asked))
  <2>1. ShouldUseAmbientWaypoint(Asked)
    BY <1>1, <1>3, UsesWaypoint
  <2>2. {out, in} \subseteq ToSet(SsoRules(Asked, c))
    BY <1>3, <2>1, SsoRulesAre
  <2>3. ToSet(SsoRules(Asked, c)) \subseteq ToSet(AllRules(Asked))
    BY <1>1, <1>3, AskedEntries, RewrittenShape, RulesElements
  <2> HIDE DEF out, in
  <2>4. QED
    BY <2>2, <2>3
<1>8. /\ out.direction = "Egress" /\ out.selector = WaypointSelector(client)
      /\ out.remoteGenerated = None /\ out.remoteNamespace = None
      /\ out.remoteSelector = c.enableAuthserviceSelector /\ InCluster(out) /\ PortsNamed(out) = {}
  <2> HIDE DEF name, client
  <2> DEFINE text == "Allow traffic from " \o name \o " to app"
  <2>0. out = Rule("Egress", WaypointSelector(client), None, c.enableAuthserviceSelector, None, text)
    OBVIOUS
  <2> HIDE DEF out, text
  <2>1. /\ out.direction = "Egress" /\ out.selector = WaypointSelector(client)
        /\ out.remoteGenerated = None /\ out.remoteNamespace = None
        /\ out.remoteSelector = c.enableAuthserviceSelector /\ out.port = None /\ out.ports = <<>>
    BY <2>0 DEF Rule
  <2>2. InCluster(out)
    BY <1>4, <2>1 DEF InCluster
  <2>3. PortsNamed(out) = {}
    BY <2>1, EmptyAndSingle DEF PortsNamed
  <2>4. QED
    BY <2>1, <2>2, <2>3
<1>9. /\ in.direction = "Ingress" /\ in.selector = c.enableAuthserviceSelector
      /\ in.remoteGenerated = None /\ in.remoteNamespace = None
      /\ in.remoteSelector = WaypointSelector(client) /\ InCluster(in) /\ PortsNamed(in) = {}
  <2> HIDE DEF name, client
  <2> DEFINE text == "Allow traffic from " \o name \o " to app pods"
  <2>0. in = Rule("Ingress", c.enableAuthserviceSelector, None, WaypointSelector(client), None, text)
    OBVIOUS
  <2> HIDE DEF in, text
  <2>1. /\ in.direction = "Ingress" /\ in.selector = c.enableAuthserviceSelector
        /\ in.remoteGenerated = None /\ in.remoteNamespace = None
        /\ in.remoteSelector = WaypointSelector(client) /\ in.port = None /\ in.ports = <<>>
    BY <2>0 DEF Rule
  <2>2. InCluster(in)
    BY <1>6, <2>1 DEF InCluster
  <2>3. PortsNamed(in) = {}
    BY <2>1, EmptyAndSingle DEF PortsNamed
  <2>4. QED
    BY <2>1, <2>2, <2>3
<1>10. OrElse(None, spec.namespace) = spec.namespace
  BY DEF OrElse
<1> HIDE DEF client, pod, wp, name, out, in
<1>11. NetworkAdmits("Egress", wp, pod, Wire(port))
  <2>1. Subset(Labels(out.selector), wp.labels) /\ Subset(Labels(out.remoteSelector), pod.labels)
    BY <1>3, <1>5, <1>6, <1>8, ReflexiveSubset
  <2>2. pod.ns = OrElse(out.remoteNamespace, spec.namespace)
    BY <1>5, <1>8, <1>10
  <2>3. QED
    BY <1>7, <1>8, <2>1, <2>2, RuleAdmits
<1>12. NetworkAdmits("Ingress", pod, wp, Wire(port))
  <2>1. Subset(Labels(in.selector), pod.labels) /\ Subset(Labels(in.remoteSelector), wp.labels)
    BY <1>3, <1>5, <1>6, <1>9, ReflexiveSubset
  <2>2. wp.ns = OrElse(in.remoteNamespace, spec.namespace)
    BY <1>5, <1>9, <1>10
  <2>3. QED
    BY <1>7, <1>9, <2>1, <2>2, RuleAdmits
<1>13. MeshAdmits(pod, wp, port)
  <2>1. ASSUME NEW d \in ToSet(Asked.sso), Protects(d), Subset(Labels(d.enableAuthserviceSelector), pod.labels)
        PROVE  SourceMatches(Principal(Asked.namespace, GetWaypointName(d.clientId)), wp)
    <3>1. Subset(d.enableAuthserviceSelector, w)
      BY <1>5, <2>1 DEF Labels, OrElse, Protects
    <3>2. d = c
      BY <1>1, <1>3, <2>1, <3>1, OneClient
    <3>3. GetWaypointName(d.clientId) = name
      BY <1>3, <3>2 DEF name
    <3>4. QED
      BY <1>2, <1>5, <3>3 DEF SourceMatches
  <2>2. \A x \in ToSet(AuthorizationPolicies(RewrittenPackage(Asked))) :
          x.action = "ALLOW" => ~Subset(Labels(x.selector), pod.labels)
    BY <1>5, NothingOpens
  <2>3. QED
    BY <2>1, <2>2, PoliciesLetIn
<1>14. QED
  BY <1>11, <1>12, <1>13 DEF Reaches, client, pod, wp

(* A pod that reaches what is in front of a workload is served.            *)
LEMMA ServedThrough ==
  ASSUME Settled, NEW w \in Workload, NEW selector, Clear(w, selector),
         NEW from, NEW servicePort, NEW port,
         Behind(w) = None => Reaches(from, App(w), port),
         Behind(w) # None => Reaches(from, Waypoint(Behind(w)), servicePort)
  PROVE  Served(from, w, servicePort, port)
<1>1. CASE Behind(w) = None
  BY <1>1 DEF Served
<1>2. CASE Behind(w) # None
  <2>1. SingleClient(w) /\ Unhindered(w)
    BY <1>2 DEF Clear
  <2>2. QED
    BY <1>2, <2>1, WaypointExit DEF Served
<1>3. QED
  BY <1>1, <1>2

(* The network policy of an entry selects the pods, or the waypoint that    *)
(* is in front of them.                                                    *)
LEMMA TargetIs ==
  ASSUME ControlInv, spec # None, NEW matched, matched # None, NEW selector
  PROVE  LET client == FindMatchingSsoClient(Asked, matched)
         IN  TargetOf(Asked, matched, selector) = IF client = None THEN selector ELSE WaypointSelector(client)
<1>1. CASE ModeOf(Asked) # "ambient"
  BY <1>1 DEF TargetOf, FindMatchingSsoClient, GetPodSelector, ShouldUseAmbientWaypoint
<1>2. CASE ModeOf(Asked) = "ambient"
  <2>1. FindMatchingSsoClient(Asked, matched) = FindMatchingClient(Asked, matched)
    BY <1>2 DEF FindMatchingSsoClient
  <2>2. CASE FindMatchingClient(Asked, matched) = None
    BY <2>1, <2>2 DEF TargetOf
  <2>3. CASE FindMatchingClient(Asked, matched) # None
    BY <1>2, <2>1, <2>3, UsesWaypoint DEF TargetOf, GetPodSelector
  <2>4. QED
    BY <2>2, <2>3
<1>3. QED
  BY <1>1, <1>2

(* An entry with a network policy on what is in front of a workload and an  *)
(* authorization policy there serves its remote.                           *)
LEMMA EntryServes ==
  ASSUME Settled, NEW w \in Workload, NEW selector, Clear(w, selector), Subset(Labels(selector), w),
         NEW from, NEW servicePort, NEW port,
         NEW r \in ToSet(AllRules(Asked)), r.direction = "Ingress",
         r.remoteGenerated = None, r.remoteProtocol # "UDP", InCluster(r),
         from.ns = OrElse(r.remoteNamespace, spec.namespace),
         Subset(Labels(r.remoteSelector), from.labels), port \in PortsNamed(r),
         Labels(r.selector) = IF Behind(w) = None THEN Labels(selector) ELSE WaypointSelector(Behind(w)),
         NEW x \in ToSet(AuthorizationPolicies(RewrittenPackage(Asked))), x.action = "ALLOW",
         Labels(x.selector) = IF Behind(w) = None THEN Labels(selector) ELSE WaypointSelector(Behind(w)),
         Matches(x, from, IF Behind(w) = None THEN port ELSE servicePort)
  PROVE  Served(from, w, servicePort, port)
<1>1. ASSUME Behind(w) = None PROVE Reaches(from, App(w), port)
  <2> DEFINE pod == App(w)
  <2>1. pod.labels = w
    BY PodsAre
  <2> HIDE DEF pod
  <2>2. NetworkAdmits("Ingress", pod, from, Wire(port))
    <3>1. Subset(Labels(r.selector), pod.labels)
      BY <1>1, <2>1
    <3>2. QED
      BY <3>1, RuleAdmits
  <2>3. MeshAdmits(pod, from, port)
    BY <1>1, DirectEntry DEF pod
  <2>4. QED
    BY <2>2, <2>3 DEF Reaches, pod
<1>2. ASSUME Behind(w) # None PROVE Reaches(from, Waypoint(Behind(w)), servicePort)
  <2> DEFINE pod == Waypoint(Behind(w))
  <2>1. pod.labels = WaypointSelector(Behind(w))
    BY WaypointsAre
  <2> HIDE DEF pod
  <2>2. NetworkAdmits("Ingress", pod, from, Wire(port))
    <3>1. Subset(Labels(r.selector), pod.labels)
      BY <1>2, <2>1, ReflexiveSubset
    <3>2. QED
      BY <3>1, RuleAdmits
  <2>3. Wire(port) = Wire(servicePort)
    BY <1>2, AmbientWire, BehindClient DEF Behind
  <2>4. MeshAdmits(pod, from, servicePort)
    BY <1>2, WaypointEntry DEF pod
  <2>5. QED
    BY <2>2, <2>3, <2>4 DEF Reaches, pod
<1>3. QED
  BY <1>1, <1>2, ServedThrough
LEMMA AppLabels == \A s \in STRING : <<<<"app", s>>>> # None
<1> TAKE s \in STRING
<1> DEFINE pair == <<"app", s>>
<1>1. pair \in STRING \X STRING
  BY StringAssumption
<1> HIDE DEF pair
<1>2. <<pair>> \in LabelSets
  BY <1>1 DEF LabelSets
<1>3. QED
  BY <1>2, RevisionAssumption DEF pair

LEMMA WaypointsOfSelector ==
  ASSUME ControlInv, spec # None, NEW selector, FindMatchingSsoClient(Asked, selector) # None
  PROVE  LET s == WaypointSelector(FindMatchingSsoClient(Asked, selector))
         IN  s # None /\ Labels(s) = s
BY BehindClient, WaypointsAreLabels

(* No client protects some of the pods an entry selects if none protects    *)
(* one of them.                                                            *)
LEMMA NothingMatches ==
  ASSUME ControlInv, spec # None, NEW w \in Workload, Behind(w) = None, NEW labels, Subset(labels, w)
  PROVE  FindMatchingSsoClient(Asked, labels) = None
<1> SUFFICES ASSUME FindMatchingSsoClient(Asked, labels) # None PROVE FALSE
  OBVIOUS
<1>1. ModeOf(Asked) = "ambient" /\ FindMatchingClient(Asked, labels) # None
  BY BehindClient
<1>2. PICK c \in ToSet(Asked.sso) : Protects(c) /\ Subset(c.enableAuthserviceSelector, labels)
  BY <1>1, AskedEntries, MatchingProtects
<1>3. Subset(c.enableAuthserviceSelector, w)
  BY <1>2 DEF Subset
<1>4. FindMatchingClient(Asked, w) # None
  BY <1>2, <1>3, ClientFound, NoneAssumption
<1>5. QED
  BY <1>1, <1>4, PodsAre DEF Behind, FindMatchingSsoClient

(* An entry that answers itself has no port.                               *)
LEMMA ExposesForward ==
  ASSUME Settled, NEW e \in ToSet(Asked.expose), ~IsUDP(e), e.port # None
  PROVE  ~(e.advancedHTTP # None /\ e.advancedHTTP.directResponse)
<1>1. ExposeAllowed(spec, Asked, NoOwner)
  BY DEF Settled, Done, ApprovedInv, Validator, Asked
<1>2. PICK i \in DOMAIN Asked.expose : e = Asked.expose[i]
  BY DEF ToSet
<1>3. HTTPExposeAllowed(Asked.expose[i])
  BY <1>1, <1>2 DEF ExposeAllowed
<1>4. QED
  BY <1>2, <1>3 DEF HTTPExposeAllowed

LEMMA ExposePolicy ==
  ASSUME NEW q, NEW e, e.port # None
  PROVE  LET client == FindMatchingSsoClient(q, e.selector)
         IN  \E x \in ToSet(ExposeAuthPolicies(q, e)) :
               /\ x.action = "ALLOW"
               /\ x.sources = {Principal(GatewayNamespace(GatewayOf(e)), GatewayAccount(GatewayOf(e)))}
               /\ client = None => x.selector = e.selector /\ x.ports = {OrElse(e.targetPort, e.port)} \ {None}
               /\ client # None => x.selector = WaypointSelector(client) /\ x.ports = {e.port}
<1> DEFINE client == FindMatchingSsoClient(q, e.selector)
           sources == {Principal(GatewayNamespace(GatewayOf(e)), GatewayAccount(GatewayOf(e)))}
           direct == {OrElse(e.targetPort, e.port)} \ {None}
<1>1. CASE client = None
  <2>1. \E name : ExposeAuthPolicies(q, e) = <<BuildAuthPolicy(q, name, e.selector, sources, direct)>>
    BY <1>1 DEF ExposeAuthPolicies
  <2> HIDE DEF sources, direct
  <2>2. PICK name : ExposeAuthPolicies(q, e) = <<BuildAuthPolicy(q, name, e.selector, sources, direct)>>
    BY <2>1
  <2> DEFINE x == BuildAuthPolicy(q, name, e.selector, sources, direct)
  <2>3. x.action = "ALLOW" /\ x.selector = e.selector /\ x.sources = sources /\ x.ports = direct
    BY DEF BuildAuthPolicy
  <2> HIDE DEF x, client
  <2>4. x \in ToSet(ExposeAuthPolicies(q, e))
    BY <2>2, EmptyAndSingle DEF x
  <2>5. QED
    BY <1>1, <2>3, <2>4 DEF client, sources, direct
<1>2. CASE client # None
  <2>1. \E name : ExposeAuthPolicies(q, e) = <<BuildAuthPolicy(q, name, WaypointSelector(client), sources, {e.port})>>
    BY <1>2 DEF ExposeAuthPolicies
  <2> HIDE DEF sources, client
  <2>2. PICK name : ExposeAuthPolicies(q, e) = <<BuildAuthPolicy(q, name, WaypointSelector(client), sources, {e.port})>>
    BY <2>1
  <2> DEFINE x == BuildAuthPolicy(q, name, WaypointSelector(client), sources, {e.port})
  <2>3. x.action = "ALLOW" /\ x.selector = WaypointSelector(client) /\ x.sources = sources /\ x.ports = {e.port}
    BY DEF BuildAuthPolicy
  <2> HIDE DEF x
  <2>4. x \in ToSet(ExposeAuthPolicies(q, e))
    BY <2>2, EmptyAndSingle DEF x
  <2>5. QED
    BY <1>2, <2>3, <2>4 DEF client, sources
<1>3. QED
  BY <1>1, <1>2

LEMMA ExposeServes ==
  ASSUME Settled, NEW e \in ToSet(HTTPExposes(Asked)), e.port # None, NEW w \in SelectedBy(e.selector)
  PROVE  Served(Gateway(GatewayOf(e)), w, e.port, OrElse(e.targetPort, e.port))
<1> DEFINE q == RewrittenPackage(Asked)
           from == Gateway(GatewayOf(e))
           ns == GatewayNamespace(GatewayOf(e))
           sa == GatewayAccount(GatewayOf(e))
           r == ExposeRule(Asked, e)
           port == OrElse(e.targetPort, e.port)
           client == Behind(w)
<1>1. spec # None /\ ControlInv
  BY DEF Settled, Done
<1>2. w \in Workload /\ Subset(Labels(e.selector), w) /\ Clear(w, e.selector)
      /\ client = FindMatchingSsoClient(Asked, e.selector)
  BY DEF SelectedBy, Clear
<1>3. e \in ToSet(Asked.expose) /\ ~IsUDP(e)
  <2> DEFINE s == Asked.expose
             W == {d \in ToSet(s) : ~IsUDP(d)}
             kept == HTTPExposes(Asked)
  <2>1. IsSeq(s)
    BY <1>1, AskedEntries
  <2>2. \A i \in 1..Len(s) : s[i] \in ToSet(s)
    BY <2>1, TypedIsSeq DEF IsSeq, ToSet
  <2>3. kept = FlattenSeq([i \in 1..Len(s) |-> IF ~IsUDP(s[i]) THEN <<s[i]>> ELSE <<>>])
    BY DEF HTTPExposes, Kept
  <2> HIDE DEF s, kept
  <2>4. [i \in 1..Len(s) |-> IF ~IsUDP(s[i]) THEN <<s[i]>> ELSE <<>>] =
          [i \in 1..Len(s) |-> IF s[i] \in W THEN <<s[i]>> ELSE <<>>]
    BY <2>2
  <2> HIDE DEF W
  <2>5. ToSet(kept) = ToSet(s) \cap W
    BY <2>1, <2>3, <2>4, KeptElements
  <2>6. QED
    BY <2>5 DEF W, s, kept
<1>4. /\ e.selector \in Optional(LabelSets) /\ port # None /\ ns # None /\ sa \in STRING
  <2>1. /\ e.selector \in Optional(LabelSets) /\ ns \in STRING /\ sa \in STRING
    BY <1>1, <1>3, AskedEntries
  <2>2. port # None
    BY DEF OrElse
  <2>3. QED
    BY <2>1, <2>2, NoneAssumption
<1>5. from.ns = ns /\ from.labels = <<<<"app", sa>>>> /\ from.sa = sa
  BY DEF Gateway, Pod
<1>6. r \in ToSet(AllRules(Asked))
  <2>1. ~(e.advancedHTTP # None /\ e.advancedHTTP.directResponse)
    BY <1>3, ExposesForward
  <2>2. QED
    BY <1>1, <1>3, <2>1, AskedEntries, RewrittenShape, RulesElements
<1>7. /\ r.direction = "Ingress" /\ r.remoteGenerated = None /\ r.remoteProtocol = None
      /\ r.remoteNamespace = ns /\ r.remoteSelector = <<<<"app", sa>>>>
      /\ r.port = port /\ r.ports = <<>>
      /\ r.selector = TargetOf(Asked, Labels(e.selector), Labels(e.selector))
  <2> DEFINE text == Str(port) \o "-" \o Joined(Values(Labels(e.selector))) \o " Istio " \o GatewayOf(e) \o " gateway"
             target == TargetOf(Asked, Labels(e.selector), Labels(e.selector))
  <2>1. r = Rule("Ingress", target, ns, <<<<"app", sa>>>>, port, text)
    BY DEF ExposeRule
  <2> HIDE DEF r, text, target, ns, sa, port
  <2>2. QED
    BY <2>1 DEF Rule, target
<1>8. PICK x \in ToSet(AuthorizationPolicies(q)) :
        /\ x.action = "ALLOW" /\ x.sources = {Principal(ns, sa)}
        /\ client = None => x.selector = e.selector /\ x.ports = {port} \ {None}
        /\ client # None => x.selector = WaypointSelector(client) /\ x.ports = {e.port}
  <2>1. FindMatchingSsoClient(q, e.selector) = client
    BY <1>1, <1>2, RewrittenMatches
  <2>2. q.expose = Asked.expose /\ IsSeq(q.allow) /\ IsSeq(q.expose) /\ IsSeq(q.monitor) /\ IsSeq(q.sso)
    <3>1. q.expose = Asked.expose
      BY DEF RewrittenPackage
    <3>2. QED
      BY <1>1, <3>1, RewrittenShape
  <2> HIDE DEF q, client, ns, sa
  <2>3. \E x \in ToSet(ExposeAuthPolicies(q, e)) :
          /\ x.action = "ALLOW" /\ x.sources = {Principal(ns, sa)}
          /\ client = None => x.selector = e.selector /\ x.ports = {port} \ {None}
          /\ client # None => x.selector = WaypointSelector(client) /\ x.ports = {e.port}
    <3> HIDE DEF port
    <3>1. \E x \in ToSet(ExposeAuthPolicies(q, e)) :
            /\ x.action = "ALLOW"
            /\ x.sources = {Principal(GatewayNamespace(GatewayOf(e)), GatewayAccount(GatewayOf(e)))}
            /\ FindMatchingSsoClient(q, e.selector) = None =>
                 x.selector = e.selector /\ x.ports = {OrElse(e.targetPort, e.port)} \ {None}
            /\ FindMatchingSsoClient(q, e.selector) # None =>
                 x.selector = WaypointSelector(FindMatchingSsoClient(q, e.selector)) /\ x.ports = {e.port}
      BY ExposePolicy
    <3>2. QED
      BY <2>1, <3>1 DEF ns, sa, port
  <2>4. PICK x \in ToSet(ExposeAuthPolicies(q, e)) :
          /\ x.action = "ALLOW" /\ x.sources = {Principal(ns, sa)}
          /\ client = None => x.selector = e.selector /\ x.ports = {port} \ {None}
          /\ client # None => x.selector = WaypointSelector(client) /\ x.ports = {e.port}
    BY <2>3
  <2>5. x \in ToSet(AuthorizationPolicies(q))
    BY <1>3, <2>2, AuthorizationElements
  <2>6. QED
    BY <2>4, <2>5
<1> HIDE DEF q, from, ns, sa, r, port, client
<1>9. InCluster(r) /\ r.remoteProtocol # "UDP" /\ port \in PortsNamed(r)
  <2>1. InCluster(r)
    BY <1>4, <1>7 DEF InCluster
  <2>2. r.remoteProtocol # "UDP"
    BY <1>7, StringAssumption, NoneAssumption
  <2>3. QED
    BY <1>4, <1>7, <2>1, <2>2 DEF PortsNamed
<1>10. from.ns = OrElse(r.remoteNamespace, spec.namespace) /\ Subset(Labels(r.remoteSelector), from.labels)
  <2>1. OrElse(r.remoteNamespace, spec.namespace) = ns
    BY <1>4, <1>7 DEF OrElse
  <2>2. <<<<"app", sa>>>> # None
    BY <1>4, AppLabels
  <2>3. QED
    BY <1>5, <1>7, <2>1, <2>2, ReflexiveSubset DEF Labels, OrElse
<1>11. Labels(r.selector) = IF client = None THEN Labels(e.selector) ELSE WaypointSelector(client)
  <2>1. Labels(e.selector) # None /\ Labels(Labels(e.selector)) = Labels(e.selector)
    BY <1>4, LabelsAre
  <2>2. client # None => FindMatchingSsoClient(Asked, Labels(e.selector)) = client
    BY <1>2, BehindClient
  <2>3. client = None => FindMatchingSsoClient(Asked, Labels(e.selector)) = None
    BY <1>1, <1>2, NothingMatches DEF client
  <2>4. r.selector = IF client = None THEN Labels(e.selector) ELSE WaypointSelector(client)
    BY <1>1, <1>7, <2>1, <2>2, <2>3, TargetIs
  <2>5. client # None => Labels(WaypointSelector(client)) = WaypointSelector(client)
    BY <1>1, <1>2, WaypointsOfSelector
  <2>6. QED
    BY <2>1, <2>4, <2>5
<1>12. Labels(x.selector) = IF client = None THEN Labels(e.selector) ELSE WaypointSelector(client)
  BY <1>1, <1>2, <1>8, WaypointsOfSelector
<1>13. Matches(x, from, IF client = None THEN port ELSE e.port)
  <2>1. SourceMatches(Principal(ns, sa), from)
    BY <1>5 DEF SourceMatches
  <2>2. x.ports = {IF client = None THEN port ELSE e.port}
    BY <1>4, <1>8
  <2>3. QED
    BY <1>8, <2>1, <2>2 DEF Matches
<1>14. Served(from, w, e.port, port)
  BY <1>2, <1>6, <1>7, <1>8, <1>9, <1>10, <1>11, <1>12, <1>13, EntryServes DEF client, q
<1>15. QED
  BY <1>14 DEF from, port

LEMMA MonitorServes ==
  ASSUME Settled, NEW m \in ToSet(Asked.monitor), NEW w \in SelectedBy(OrElse(m.podSelector, m.selector)),
         FindMatchingSsoClient(Asked, m.selector)
           = FindMatchingSsoClient(Asked, OrElse(m.podSelector, m.selector))
  PROVE  Served(PrometheusPod, w, m.targetPort, m.targetPort)
<1> DEFINE q == RewrittenPackage(Asked)
           pods == OrElse(m.podSelector, m.selector)
           from == PrometheusPod
           r == MonitorRule(Asked, m)
           port == m.targetPort
           client == Behind(w)
           x == MonitorAuthPolicy(q, m)
<1>1. spec # None /\ ControlInv
  BY DEF Settled, Done
<1>2. w \in Workload /\ Subset(Labels(pods), w) /\ Clear(w, pods)
      /\ client = FindMatchingSsoClient(Asked, pods) /\ client = FindMatchingSsoClient(Asked, m.selector)
  BY DEF SelectedBy, Clear
<1>3. /\ pods \in LabelSets /\ pods # None /\ m.selector # None /\ port # None
  <2>1. m \in Monitor
    BY <1>1, AskedEntries
  <2>2. m.selector \in LabelSets /\ m.podSelector \in LabelSets \cup {None} /\ port \in STRING
    BY <2>1 DEF Monitor, Optional
  <2>3. QED
    BY <2>2, RevisionAssumption, NoneAssumption DEF OrElse
<1>4. from.ns = "monitoring" /\ from.labels = Prometheus /\ from.sa = "kube-prometheus-stack-prometheus"
  BY DEF PrometheusPod, Pod
<1>5. Prometheus # None /\ "monitoring" # None
  <2> DEFINE app == <<"app", "prometheus">>
  <2>1. app \in STRING \X STRING
    BY StringAssumption
  <2>2. Prometheus = <<app>>
    BY DEF Prometheus
  <2> HIDE DEF app
  <2>3. Prometheus \in LabelSets
    BY <2>1, <2>2 DEF LabelSets
  <2>4. QED
    BY <2>3, RevisionAssumption, StringAssumption, NoneAssumption
<1>6. r \in ToSet(AllRules(Asked))
  BY <1>1, AskedEntries, RewrittenShape, RulesElements
<1>7. /\ r.direction = "Ingress" /\ r.remoteGenerated = None /\ r.remoteProtocol = None
      /\ r.remoteNamespace = "monitoring" /\ r.remoteSelector = Prometheus
      /\ r.port = port /\ r.ports = <<>>
      /\ r.selector = TargetOf(Asked, m.selector, pods)
  <2> DEFINE text == port \o "-" \o Joined(Values(m.selector)) \o " Metrics"
             target == TargetOf(Asked, m.selector, pods)
  <2>1. r = Rule("Ingress", target, "monitoring", Prometheus, port, text)
    BY DEF MonitorRule
  <2> HIDE DEF r, text, target, port
  <2>2. QED
    BY <2>1 DEF Rule, target
<1>8. /\ x.action = "ALLOW" /\ x.sources = {PrometheusPrincipal} /\ x.ports = {port}
      /\ x.selector = IF client = None THEN pods ELSE WaypointSelector(client)
  <2>1. FindMatchingSsoClient(q, pods) = client
    BY <1>1, <1>2, RewrittenMatches
  <2> HIDE DEF q, client, pods
  <2>2. \E name : x = BuildAuthPolicy(q, name, IF client = None THEN pods ELSE WaypointSelector(client),
                                      {PrometheusPrincipal}, {port})
    BY <2>1 DEF MonitorAuthPolicy, pods
  <2> HIDE DEF x
  <2>3. QED
    BY <2>2 DEF BuildAuthPolicy
<1>9. x \in ToSet(AuthorizationPolicies(q))
  <2>1. q.monitor = Asked.monitor
    BY DEF RewrittenPackage
  <2>2. QED
    BY <1>1, <2>1, RewrittenShape, AuthorizationElements
<1> HIDE DEF q, from, pods, r, port, client, x
<1>10. InCluster(r) /\ r.remoteProtocol # "UDP" /\ port \in PortsNamed(r)
  <2>1. InCluster(r)
    BY <1>5, <1>7 DEF InCluster
  <2>2. r.remoteProtocol # "UDP"
    BY <1>7, StringAssumption, NoneAssumption
  <2>3. QED
    BY <1>3, <1>7, <2>1, <2>2 DEF PortsNamed
<1>11. from.ns = OrElse(r.remoteNamespace, spec.namespace) /\ Subset(Labels(r.remoteSelector), from.labels)
  BY <1>4, <1>5, <1>7, ReflexiveSubset DEF Labels, OrElse
<1>12. Labels(pods) = pods /\ (client # None => Labels(WaypointSelector(client)) = WaypointSelector(client))
  <2>1. Labels(pods) = pods
    BY <1>3 DEF Labels, OrElse
  <2>2. QED
    BY <1>1, <1>2, <2>1, WaypointsOfSelector
<1>13. Labels(r.selector) = IF client = None THEN Labels(pods) ELSE WaypointSelector(client)
  <2>1. r.selector = IF client = None THEN pods ELSE WaypointSelector(client)
    BY <1>1, <1>2, <1>3, <1>7, TargetIs
  <2>2. QED
    BY <1>12, <2>1
<1>14. Labels(x.selector) = IF client = None THEN Labels(pods) ELSE WaypointSelector(client)
  BY <1>8, <1>12
<1>15. Matches(x, from, IF client = None THEN port ELSE port)
  <2>1. SourceMatches(PrometheusPrincipal, from)
    BY <1>4 DEF SourceMatches, PrometheusPrincipal
  <2>2. QED
    BY <1>8, <2>1 DEF Matches
<1>16. Served(from, w, port, port)
  BY <1>2, <1>6, <1>7, <1>8, <1>9, <1>10, <1>11, <1>13, <1>14, <1>15, EntryServes DEF client, q
<1>17. QED
  BY <1>16 DEF from, port

(* What a rule says of its remote survives the rewriting.                  *)
LEMMA RewrittenRule ==
  ASSUME ControlInv, spec # None, NEW a \in ToSet(Asked.allow), a.direction = "Ingress", a.selector # None
  PROVE  LET b == RewriteSelector(Asked, a)
             client == FindMatchingSsoClient(Asked, a.selector)
         IN  /\ b.selector = IF client = None THEN a.selector ELSE WaypointSelector(client)
             /\ \A k \in DOMAIN a \ {"selector"} : b[k] = a[k]
             /\ b \in ToSet(RewrittenPackage(Asked).allow) /\ b \in ToSet(AllRules(Asked))
<1> DEFINE b == RewriteSelector(Asked, a)
           matching == FindMatchingClient(Asked, a.selector)
           client == FindMatchingSsoClient(Asked, a.selector)
<1>1. a \in Allow
  BY AskedEntries
<1>2. b \in ToSet(RewrittenPackage(Asked).allow)
  BY RewrittenAllows
<1>3. ToSet(RewrittenPackage(Asked).allow) \subseteq ToSet(AllRules(Asked))
  BY AskedEntries, RewrittenShape, RulesElements
<1>4. b = IF matching = None THEN a
          ELSE [a EXCEPT !.selector = GetPodSelector(Asked, a.selector, matching)]
  BY DEF RewriteSelector, Labels, OrElse
<1>5. "selector" \in DOMAIN a
  BY <1>1 DEF Allow
<1> HIDE DEF b, matching
<1>6. \A k \in DOMAIN a \ {"selector"} : b[k] = a[k]
  BY <1>4
<1>7. b.selector = IF client = None THEN a.selector ELSE WaypointSelector(client)
  <2>1. CASE ModeOf(Asked) # "ambient"
    <3>1. client = None
      BY <2>1 DEF FindMatchingSsoClient
    <3>2. GetPodSelector(Asked, a.selector, matching) = a.selector
      BY <2>1 DEF GetPodSelector, ShouldUseAmbientWaypoint
    <3> HIDE DEF client
    <3>3. QED
      BY <1>4, <1>5, <3>1, <3>2
  <2>2. CASE ModeOf(Asked) = "ambient"
    <3>1. client = matching
      BY <2>2 DEF FindMatchingSsoClient, matching
    <3>2. matching # None => GetPodSelector(Asked, a.selector, matching) = WaypointSelector(matching)
      BY <2>2, UsesWaypoint DEF GetPodSelector, matching
    <3> HIDE DEF client
    <3>3. QED
      BY <1>4, <1>5, <3>1, <3>2
  <2>3. QED
    BY <2>1, <2>2
<1>8. QED
  BY <1>2, <1>3, <1>6, <1>7 DEF b

LEMMA AllowServes ==
  ASSUME Settled, NEW a \in ToSet(Asked.allow), a.direction = "Ingress", a.remoteProtocol # "UDP",
         a.selector # None, Truthy(a.remoteNamespace), a.port # None, NEW w \in SelectedBy(a.selector)
  PROVE  Served(NamedRemote(a), w, a.port, a.port)
<1> DEFINE q == RewrittenPackage(Asked)
           r == RewriteSelector(Asked, a)
           from == NamedRemote(a)
           client == Behind(w)
           x == AllowAuthPolicy(q, r)
<1>1. spec # None /\ ControlInv
  BY DEF Settled, Done
<1>2. w \in Workload /\ Subset(Labels(a.selector), w) /\ Clear(w, a.selector)
      /\ client = FindMatchingSsoClient(Asked, a.selector) /\ Labels(a.selector) = a.selector
  BY DEF SelectedBy, Clear, Labels, OrElse
<1>3. a \in Allow /\ a.remoteNamespace # None /\ InCluster(a)
  BY <1>1, AskedEntries DEF Truthy, InCluster
<1>4. a.remoteGenerated = None /\ ~Truthy(a.remoteCidr)
  <2>1. AllowsAllowed(Asked)
    BY <1>1 DEF Settled, ApprovedInv, Validator, Asked
  <2>2. PICK i \in DOMAIN Asked.allow : a = Asked.allow[i]
    BY DEF ToSet
  <2>3. AllowRuleAllowed(Asked.allow[i], ModeOf(Asked))
    BY <2>1, <2>2 DEF AllowsAllowed
  <2>4. RemoteAllowed(a)
    BY <2>2, <2>3 DEF AllowRuleAllowed
  <2>5. QED
    BY <1>3, <2>4 DEF RemoteAllowed
<1>5. /\ r.selector = IF client = None THEN a.selector ELSE WaypointSelector(client)
      /\ r \in ToSet(q.allow) /\ r \in ToSet(AllRules(Asked))
      /\ r.direction = "Ingress" /\ r.remoteProtocol = a.remoteProtocol /\ r.remoteGenerated = None
      /\ r.remoteNamespace = a.remoteNamespace /\ r.remoteSelector = a.remoteSelector
      /\ r.port = a.port /\ r.ports = a.ports
      /\ r.remoteCidr = a.remoteCidr /\ r.remoteServiceAccount = a.remoteServiceAccount
  <2>1. /\ r.selector = IF client = None THEN a.selector ELSE WaypointSelector(client)
        /\ \A k \in DOMAIN a \ {"selector"} : r[k] = a[k]
        /\ r \in ToSet(q.allow) /\ r \in ToSet(AllRules(Asked))
    BY <1>1, <1>2, RewrittenRule
  <2>2. {"direction", "remoteProtocol", "remoteGenerated", "remoteNamespace", "remoteSelector", "port",
         "ports", "remoteCidr", "remoteServiceAccount"} \subseteq DOMAIN a \ {"selector"}
    BY <1>3 DEF Allow
  <2> HIDE DEF q, r, client
  <2>3. /\ r["direction"] = a["direction"] /\ r["remoteProtocol"] = a["remoteProtocol"]
        /\ r["remoteGenerated"] = a["remoteGenerated"] /\ r["remoteNamespace"] = a["remoteNamespace"]
        /\ r["remoteSelector"] = a["remoteSelector"] /\ r["port"] = a["port"] /\ r["ports"] = a["ports"]
        /\ r["remoteCidr"] = a["remoteCidr"] /\ r["remoteServiceAccount"] = a["remoteServiceAccount"]
    BY <2>1, <2>2
  <2>4. QED
    BY <1>4, <2>1, <2>3
<1>6. from.ns = a.remoteNamespace /\ from.labels = Labels(a.remoteSelector)
      /\ from.sa = OrElse(a.remoteServiceAccount, "any")
  BY DEF NamedRemote, Pod
<1> HIDE DEF r, client, from
<1>7. FindMatchingSsoClient(q, r.selector) \in {None, client}
  <2>1. FindMatchingSsoClient(q, r.selector) = FindMatchingSsoClient(Asked, r.selector)
    BY <1>1, RewrittenMatches
  <2>2. CASE client = None
    BY <1>2, <1>5, <2>1, <2>2
  <2>3. CASE client # None /\ FindMatchingSsoClient(Asked, r.selector) # None
    <3>1. r.selector = WaypointSelector(client)
      BY <1>5, <2>3
    <3>2. FindMatchingClient(Asked, WaypointSelector(client)) = FindMatchingSsoClient(Asked, r.selector)
          /\ FindMatchingClient(Asked, w) = client
      BY <2>3, <3>1, BehindClient DEF Behind, client
    <3>3. PICK c \in ToSet(Asked.sso) : /\ Protects(c) /\ c.clientId = FindMatchingSsoClient(Asked, r.selector)
                                        /\ Subset(c.enableAuthserviceSelector, WaypointSelector(client))
      BY <1>1, <2>3, <3>2, AskedEntries, MatchingProtects
    <3>4. PICK d \in ToSet(Asked.sso) : /\ Protects(d) /\ d.clientId = client
                                        /\ Subset(d.enableAuthserviceSelector, w)
      BY <1>1, <2>3, <3>2, AskedEntries, MatchingProtects
    <3>5. c.enableAuthserviceSelector = <<>>
      BY <3>3, WaypointsUndenied
    <3>6. Subset(c.enableAuthserviceSelector, w)
      BY <3>5, EmptyAndSingle DEF Subset
    <3>7. SingleClient(w)
      BY <1>2 DEF Clear
    <3>8. c = d
      BY <1>1, <3>3, <3>4, <3>6, <3>7, OneClient
    <3>9. QED
      BY <2>1, <3>3, <3>4, <3>8
  <2>4. QED
    BY <2>1, <2>2, <2>3
<1>8. /\ x.action = "ALLOW" /\ x.sources = AllowSources(r, q.namespace) /\ x.ports = PortsNamed(r)
      /\ x.selector = IF client = None THEN a.selector ELSE WaypointSelector(client)
  <2>1. x.action = "ALLOW" /\ x.sources = AllowSources(r, q.namespace) /\ x.ports = PortsNamed(r)
    BY DEF AllowAuthPolicy, BuildAuthPolicy
  <2>2. x.selector = IF FindMatchingSsoClient(q, r.selector) = None THEN r.selector
                     ELSE WaypointSelector(FindMatchingSsoClient(q, r.selector))
    BY DEF AllowAuthPolicy, BuildAuthPolicy
  <2> HIDE DEF x, q
  <2>3. QED
    BY <1>5, <1>7, <2>1, <2>2
<1>9. x \in ToSet(AuthorizationPolicies(q))
  BY <1>1, <1>5, RewrittenShape, AuthorizationElements
<1>10. InCluster(r) /\ r.remoteProtocol # "UDP" /\ a.port \in PortsNamed(r)
  BY <1>3, <1>5 DEF InCluster, PortsNamed
<1>11. from.ns = OrElse(r.remoteNamespace, spec.namespace) /\ Subset(Labels(r.remoteSelector), from.labels)
  BY <1>3, <1>5, <1>6, ReflexiveSubset DEF OrElse
<1>12. client # None => Labels(WaypointSelector(client)) = WaypointSelector(client)
  BY <1>1, <1>2, WaypointsOfSelector
<1>13. /\ Labels(r.selector) = IF client = None THEN Labels(a.selector) ELSE WaypointSelector(client)
       /\ Labels(x.selector) = IF client = None THEN Labels(a.selector) ELSE WaypointSelector(client)
  <2> HIDE DEF x
  <2>1. QED
    BY <1>5, <1>8, <1>12
<1>14. Matches(x, from, IF client = None THEN a.port ELSE a.port)
  <2>1. AllowSources(r, q.namespace) = {} \/ \E s \in AllowSources(r, q.namespace) : SourceMatches(s, from)
    <3>1. CASE Truthy(r.remoteServiceAccount)
      <4>1. AllowSources(r, q.namespace) = {Principal(r.remoteNamespace, r.remoteServiceAccount)}
        BY <1>5, <3>1 DEF AllowSources
      <4>2. from.sa = r.remoteServiceAccount /\ from.ns = r.remoteNamespace
        BY <1>5, <1>6, <3>1 DEF Truthy, OrElse
      <4>3. QED
        BY <4>1, <4>2 DEF SourceMatches
    <3>2. CASE ~Truthy(r.remoteServiceAccount)
      <4>1. AllowSources(r, q.namespace) =
              IF r.remoteNamespace \in {None, "", "*"} THEN {} ELSE {<<"namespace", r.remoteNamespace>>}
        BY <1>4, <1>5, <3>2 DEF AllowSources
      <4>2. SourceMatches(<<"namespace", r.remoteNamespace>>, from)
        BY <1>5, <1>6 DEF SourceMatches
      <4>3. QED
        BY <4>1, <4>2
    <3>3. QED
      BY <3>1, <3>2
  <2> HIDE DEF x
  <2>2. QED
    BY <1>8, <1>10, <2>1 DEF Matches
<1> HIDE DEF q, x
<1>15. Served(from, w, a.port, a.port)
  BY <1>2, <1>5, <1>8, <1>9, <1>10, <1>11, <1>13, <1>14, EntryServes DEF client, q
<1>16. QED
  BY <1>15 DEF from

(* EverythingServed (network/generate.ts, network/authorizationPolicies.ts, *)
(* network/policies.ts): once a package is reconciled, whatever it exposes, *)
(* lets in or has scraped gets through the network and authorization       *)
(* policies of the pod and of the waypoint in front of it, for every       *)
(* package of whose generated policies no two different ones have the same *)
(* name, and whose clients do not select waypoints.                        *)
THEOREM ReconciledEntriesAreServed == NetworkSpec => [](EntriesTellApart(Asked) => EverythingServed)
<1>1. ASSUME Settled PROVE ExposesServed /\ MonitorsServed /\ AllowsServed
  <2>1. ExposesServed
    BY <1>1, ExposeServes DEF ExposesServed
  <2>2. MonitorsServed
    BY <1>1, MonitorServes DEF MonitorsServed
  <2>3. AllowsServed
    BY <1>1, AllowServes DEF AllowsServed
  <2>4. QED
    BY <2>1, <2>2, <2>3
<1>2. NetworkInv /\ OwnInv /\ LiveInv /\ ApprovedInv => (EntriesTellApart(Asked) => EverythingServed)
  BY <1>1 DEF Settled, NetworkInv, EverythingServed
<1>3. QED
  BY <1>2, NetworkInvariant, LiveInvariant, PTL
=============================================================================
