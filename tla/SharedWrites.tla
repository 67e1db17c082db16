---------------------------- MODULE SharedWrites ----------------------------
(***************************************************************************)
(* Two objects of the cluster in which every package has entries of its    *)
(* own: the gateway of UDP listeners (envoy-gateway/udp-route-resources),  *)
(* written from a map in memory, and the secret of the blackbox exporter   *)
(* (uptime/config.ts), read and written back. A mutex each, which serves   *)
(* its callers in the order they came, keeps writers apart.                *)
(***************************************************************************)
EXTENDS Sequences

CONSTANTS Package, Port, Probe

VARIABLES listeners,    \* defaultListenerMap: package -> ports
          gateway,      \* the Gateway object: <<package, port>>, empty when deleted
          secret,       \* SSO modules of the secret: <<package, probe>>
          gatewayMutex, secretMutex  \* callers, the holder first

Entries(k, names) == {<<k, n>> : n \in names}

(* class Mutex: a caller gets the lock when the one before it released it. *)
Acquire(mutex, k) == Append(mutex, k)
Holds(mutex, k) == mutex # <<>> /\ Head(mutex) = k
(* Mutant: a lock that others wait for is not handed on.                   *)
ReleaseToNobody(mutex, k) == IF Holds(mutex, k) /\ Len(mutex) = 1 THEN <<>> ELSE mutex

Release(mutex, k) == IF Holds(mutex, k) THEN Tail(mutex) ELSE mutex

UpdateDefaultListenerMap(k, ports) == listeners' = [listeners EXCEPT ![k] = ports]

DefaultListenerEntries == UNION {Entries(k, listeners[k]) : k \in Package}

(* Modules carry the namespace in their names.                             *)
UpdatedModules(modules, k, probes) == {m \in modules : m[1] # k} \cup Entries(k, probes)

ForgetWrites ==
  /\ listeners' = [k \in Package |-> {}]
  /\ gatewayMutex' = <<>> /\ secretMutex' = <<>>
=============================================================================
