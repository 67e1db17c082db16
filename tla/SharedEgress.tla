---------------------------- MODULE SharedEgress ----------------------------
(***************************************************************************)
(* The egress resources shared by every package: the in-memory maps of     *)
(* what each package asks for, the single reconciliation in flight with    *)
(* its dirty flag, and the passes that apply the merged resources of each  *)
(* mesh mode under a fresh generation label and purge every other label.   *)
(* The gateway, virtual service, service entry and authorization policy of *)
(* one host and port count as one resource; a step of the model is the     *)
(* code between two awaits.                                                *)
(***************************************************************************)
EXTENDS Naturals, FiniteSets

CONSTANTS
    Pkgs,        \* packages
    Keys,        \* pairs of a remote host and a port
    Protocols,   \* remote protocols
    Wants,       \* what a package may ask for: a mesh mode and its host rules
    MaxEdits,    \* bound: spec changes after the first
    MaxLate,     \* bound: applies left in flight by a pass that has failed
    MaxTroubles  \* bound: failing requests and restarts of the watcher pod

Modes == {"sidecar", "ambient"}
Rules == [key : Keys, protocol : Protocols]

ASSUME WantsAssumption ==
    /\ Wants \subseteq [mode : Modes, rules : SUBSET Rules]
    /\ \A w \in Wants, r, s \in Rules : {r, s} \subseteq w.rules /\ r.key = s.key => r = s

ASSUME EgressBoundsAssumption == {MaxEdits, MaxLate, MaxTroubles} \subseteq Nat

VARIABLES
    want,      \* the spec of each package
    due,       \* packages whose reconciler is yet to call reconcileSharedEgressResources
    call,      \* how far the package's call has come
    req,       \* what the package's call asks for
    ok,        \* the last call for the current spec resolved
    map,       \* inMemoryPackageMap and inMemoryAmbientPackageMap
    gen,       \* sidecarGeneration and ambientGeneration
    pass,      \* the reconciliation in flight
    dirty,     \* reconcileDirty
    res,       \* resources in the cluster: generation label and the users of the key
    waypoint,  \* generation label of the shared egress waypoint, 0 when there is none
    late,      \* applies in flight that nothing waits for
    used       \* how much of each bound has been used; history: applies were left in flight

vars == <<want, due, call, req, ok, map, gen, pass, dirty, res, waypoint, late, used>>

packages == <<want, due, call, req, ok, map>>

-----------------------------------------------------------------------------
Users == Pkgs \X Protocols
Absent == [gen |-> 0, users |-> {}]
NoPass == [mode |-> "none", stage |-> "begin", desired |-> [k \in Keys |-> {}], todo |-> {},
           failed |-> FALSE]

Init ==
    /\ want \in [Pkgs -> Wants]
    /\ due = Pkgs
    /\ call = [p \in Pkgs |-> "none"]
    /\ req = want
    /\ ok = [p \in Pkgs |-> FALSE]
    /\ map = [m \in Modes |-> [p \in Pkgs |-> {}]]
    /\ gen = [m \in Modes |-> 0]
    /\ pass = NoPass
    /\ dirty = FALSE
    /\ res = [m \in Modes |-> [k \in Keys |-> Absent]]
    /\ waypoint = 0
    /\ late = {}
    /\ used = [edits |-> 0, faults |-> 0, crashes |-> 0, late |-> FALSE]

TroubleLeft == used.faults + used.crashes < MaxTroubles

-----------------------------------------------------------------------------
(* reconcileSharedEgressResources.                                         *)

Edit(p, w) ==
    /\ used.edits < MaxEdits /\ w # want[p]
    /\ used' = [used EXCEPT !.edits = @ + 1]
    /\ want' = [want EXCEPT ![p] = w]
    /\ due' = due \cup {p}
    /\ ok' = [ok EXCEPT ![p] = FALSE]
    /\ UNCHANGED <<call, req, map, gen, pass, dirty, res, waypoint, late>>

(* A package has one reconciler, so its calls do not overlap.              *)
Start(p) ==
    /\ p \in due /\ call[p] = "none"
    /\ due' = due \ {p}
    /\ req' = [req EXCEPT ![p] = want[p]]
    /\ call' = [call EXCEPT ![p] = "sidecarMap"]
    /\ UNCHANGED <<want, ok, map, gen, pass, dirty, res, waypoint, late, used>>

(* validateProtocolConflicts and validateAmbientProtocolConflicts: another *)
(* package uses the same host and port with another protocol.              *)
Conflicts(m, p, rules) ==
    \E q \in Pkgs \ {p}, r \in rules : \E s \in map[m][q] :
        s.key = r.key /\ s.protocol # r.protocol

(* What the package has in the map of mode m: its rules, or nothing when   *)
(* it is removed from that map.                                            *)
Entry(p, m) == IF req[p].mode = m THEN req[p].rules ELSE {}

MapStage(p) == IF call[p] = "sidecarMap" THEN "sidecar" ELSE "ambient"

(* Mutant: the protocols are not compared.                                 *)
UpdateMapUnchecked(p) ==
    /\ call[p] \in {"sidecarMap", "ambientMap"}
    /\ LET m == MapStage(p)
       IN  /\ map' = [map EXCEPT ![m][p] = Entry(p, m)]
           /\ call' = [call EXCEPT ![p] = IF m = "sidecar" THEN "ambientMap" ELSE "perform"]
    /\ UNCHANGED <<want, due, req, ok, gen, pass, dirty, res, waypoint, late, used>>

(* updateInMemoryPackageMap, then updateInMemoryAmbientPackageMap.         *)
UpdateMap(p) ==
    /\ call[p] \in {"sidecarMap", "ambientMap"}
    /\ LET m == MapStage(p)
       IN  /\ ~Conflicts(m, p, Entry(p, m))
           /\ map' = [map EXCEPT ![m][p] = Entry(p, m)]
           /\ call' = [call EXCEPT ![p] = IF m = "sidecar" THEN "ambientMap" ELSE "perform"]
    /\ UNCHANGED <<want, due, req, ok, gen, pass, dirty, res, waypoint, late, used>>

(* The package is retried after an error.                                  *)
Reject(p) ==
    /\ call[p] \in {"sidecarMap", "ambientMap"}
    /\ Conflicts(MapStage(p), p, Entry(p, MapStage(p)))
    /\ call' = [call EXCEPT ![p] = "none"]
    /\ due' = due \cup {p}
    /\ UNCHANGED <<want, req, ok, map, gen, pass, dirty, res, waypoint, late, used>>

(* Mutant: a caller that meets a running reconciliation only waits.        *)
PerformWithoutDirty(p) ==
    /\ call[p] = "perform"
    /\ call' = [call EXCEPT ![p] = "waiting"]
    /\ pass' = IF pass.mode = "none" THEN [NoPass EXCEPT !.mode = "sidecar"] ELSE pass
    /\ UNCHANGED <<want, due, req, ok, map, gen, dirty, res, waypoint, late, used>>

(* performEgressReconciliationWithMutex: a caller that meets a running     *)
(* reconciliation sets the dirty flag and waits for it; another one starts *)
(* the loop, whose first pass clears the flag.                             *)
Perform(p) ==
    /\ call[p] = "perform"
    /\ call' = [call EXCEPT ![p] = "waiting"]
    /\ IF pass.mode = "none"
       THEN pass' = [NoPass EXCEPT !.mode = "sidecar"] /\ dirty' = FALSE
       ELSE dirty' = TRUE /\ UNCHANGED pass
    /\ UNCHANGED <<want, due, req, ok, map, gen, res, waypoint, late, used>>

-----------------------------------------------------------------------------
(* performEgressReconciliation: one pass, sidecar mode first.              *)

Merged(m) == [k \in Keys |->
    {u \in Users : [key |-> k, protocol |-> u[2]] \in map[m][u[1]]}]

Hosts(desired) == {k \in Keys : desired[k] # {}}

(* remapEgressResources, or the first half of applyAmbientEgressResources: *)
(* the map is read before the first await.                                 *)
BeginMode ==
    LET m == pass.mode
    IN  /\ m # "none" /\ pass.stage = "begin"
        /\ gen' = [gen EXCEPT ![m] = @ + 1]
        /\ pass' = [pass EXCEPT !.stage = IF m = "ambient" /\ Hosts(Merged(m)) # {}
                                          THEN "waypoint" ELSE "apply",
                                !.desired = Merged(m), !.todo = Hosts(Merged(m))]
        /\ UNCHANGED <<packages, dirty, res, waypoint, late, used>>

ApplyWaypoint ==
    /\ pass.stage = "waypoint"
    /\ waypoint' = gen.ambient
    /\ pass' = [pass EXCEPT !.stage = "apply"]
    /\ UNCHANGED <<packages, gen, dirty, res, late, used>>

Apply(k) ==
    /\ pass.stage = "apply" /\ k \in pass.todo
    /\ res' = [res EXCEPT ![pass.mode][k] =
                   [gen |-> gen[pass.mode], users |-> pass.desired[k]]]
    /\ pass' = [pass EXCEPT !.todo = @ \ {k}]
    /\ UNCHANGED <<packages, gen, dirty, waypoint, late, used>>

(* The ambient purge is skipped when hosts are asked for, by the map as it *)
(* is now, and no waypoint or no host has the current label.               *)
SkipsPurge ==
    /\ pass.mode = "ambient"
    /\ \E p \in Pkgs : map["ambient"][p] # {}
    /\ \/ waypoint # gen.ambient
       \/ \A k \in Keys : res["ambient"][k].gen # gen.ambient

Stale(m) == {k \in Keys : res[m][k].gen # gen[m]}

NextMode(failed) ==
    IF pass.mode = "sidecar"
    THEN [NoPass EXCEPT !.mode = "ambient", !.failed = failed]
    ELSE [NoPass EXCEPT !.mode = "ambient", !.stage = "end", !.failed = failed]

(* Mutant: nothing is purged.                                              *)
PurgeNothing ==
    /\ pass.stage = "apply" /\ pass.todo = {}
    /\ pass' = NextMode(pass.failed)
    /\ UNCHANGED <<packages, gen, dirty, res, waypoint, late, used>>

Purge ==
    /\ pass.stage = "apply" /\ pass.todo = {}
    /\ pass' = NextMode(pass.failed)
    /\ IF SkipsPurge THEN UNCHANGED <<res, waypoint>>
       ELSE /\ res' = [res EXCEPT ![pass.mode] =
                           [k \in Keys |-> IF k \in Stale(pass.mode) THEN Absent ELSE @[k]]]
            /\ waypoint' = IF pass.mode = "ambient" /\ waypoint # gen.ambient
                           THEN 0 ELSE waypoint
    /\ UNCHANGED <<packages, gen, dirty, late, used>>

(* A request of the pass fails: the namespace lookup, an apply (which may  *)
(* have taken effect, and whose sibling applies of the sidecar mode are    *)
(* not waited for), or a delete of the purge.  The mode is given up.       *)
ModeFails ==
    /\ pass.mode # "none" /\ pass.stage # "end"
    /\ TroubleLeft
    /\ pass' = NextMode(TRUE)
    /\ \/ pass.stage = "begin" /\ UNCHANGED <<res, waypoint, late>>
       \/ pass.stage = "waypoint" /\ waypoint' \in {waypoint, gen.ambient}
             /\ UNCHANGED <<res, late>>
       \/ \E k \in pass.todo :
             LET r == [gen |-> gen[pass.mode], users |-> pass.desired[k]]
             IN  /\ pass.stage = "apply"
                 /\ res' \in {res, [res EXCEPT ![pass.mode][k] = r]}
                 /\ late' \in {late} \cup
                       {late \cup {[key |-> j, gen |-> gen.sidecar, users |-> pass.desired[j]] :
                           j \in rest} : rest \in IF pass.mode = "sidecar"
                                                  THEN SUBSET (pass.todo \ {k}) ELSE {}}
                 /\ Cardinality(late') <= MaxLate
                 /\ UNCHANGED waypoint
       \/ /\ pass.stage = "apply" /\ pass.todo = {} /\ ~SkipsPurge
          /\ \E gone \in SUBSET Stale(pass.mode) :
                res' = [res EXCEPT ![pass.mode] =
                            [k \in Keys |-> IF k \in gone THEN Absent ELSE @[k]]]
          /\ UNCHANGED <<waypoint, late>>
    /\ used' = [used EXCEPT !.faults = @ + 1, !.late = @ \/ late' # {}]
    /\ UNCHANGED <<packages, gen, dirty>>

LateApply(a) ==
    /\ a \in late
    /\ late' = late \ {a}
    /\ res' = [res EXCEPT !["sidecar"][a.key] = [gen |-> a.gen, users |-> a.users]]
    /\ UNCHANGED <<packages, gen, pass, dirty, waypoint, used>>

(* The end of a pass: an error rejects every caller of the loop, the dirty *)
(* flag asks for another pass, and otherwise every caller is resolved.     *)
Waiting == {p \in Pkgs : call[p] = "waiting"}

EndPass ==
    /\ pass.stage = "end"
    /\ IF pass.failed
       THEN /\ pass' = NoPass
            /\ due' = due \cup Waiting
            /\ call' = [p \in Pkgs |-> IF p \in Waiting THEN "none" ELSE call[p]]
            /\ UNCHANGED <<ok, dirty>>
       ELSE IF dirty
       THEN /\ pass' = [NoPass EXCEPT !.mode = "sidecar"]
            /\ dirty' = FALSE
            /\ UNCHANGED <<due, call, ok>>
       ELSE /\ pass' = NoPass
            /\ ok' = [p \in Pkgs |-> ok[p] \/ (p \in Waiting /\ req[p] = want[p])]
            /\ call' = [p \in Pkgs |-> IF p \in Waiting THEN "none" ELSE call[p]]
            /\ UNCHANGED <<due, dirty>>
    /\ UNCHANGED <<want, req, map, gen, res, waypoint, late, used>>

(* Mutant: packages are not reconciled again after a restart.              *)
CrashWithoutReplay ==
    /\ TroubleLeft
    /\ used' = [used EXCEPT !.crashes = @ + 1]
    /\ due' = due \cup {p \in Pkgs : call[p] # "none"}
    /\ call' = [p \in Pkgs |-> "none"]
    /\ map' = [m \in Modes |-> [p \in Pkgs |-> {}]]
    /\ gen' = [m \in Modes |-> 0]
    /\ pass' = NoPass /\ dirty' = FALSE /\ late' = {}
    /\ UNCHANGED <<want, req, ok, res, waypoint>>

(* The pod restarts with empty maps and generation counters at 0, and      *)
(* every package is reconciled again.                                      *)
Crash ==
    /\ TroubleLeft
    /\ used' = [used EXCEPT !.crashes = @ + 1]
    /\ due' = Pkgs
    /\ call' = [p \in Pkgs |-> "none"]
    /\ map' = [m \in Modes |-> [p \in Pkgs |-> {}]]
    /\ gen' = [m \in Modes |-> 0]
    /\ pass' = NoPass /\ dirty' = FALSE /\ late' = {}
    /\ UNCHANGED <<want, req, ok, res, waypoint>>

-----------------------------------------------------------------------------
Caller(p) == Start(p) \/ UpdateMap(p) \/ Reject(p) \/ Perform(p)

Pass ==
    \/ BeginMode \/ ApplyWaypoint \/ (\E k \in Keys : Apply(k)) \/ Purge
    \/ ModeFails \/ EndPass

Next ==
    \/ \E p \in Pkgs : Caller(p) \/ \E w \in Wants : Edit(p, w)
    \/ Pass
    \/ \E a \in late : LateApply(a)
    \/ Crash

Spec == Init /\ [][Next]_vars

(* The event loop runs what is ready, requests are answered, and a package *)
(* that is due is reconciled.  Edits and restarts need not happen.         *)
FairSpec ==
    /\ Spec
    /\ \A p \in Pkgs : WF_vars(Caller(p))
    /\ WF_vars(Pass)
    /\ WF_vars(\E a \in late : LateApply(a))

-----------------------------------------------------------------------------
(* The types of the variables; the maps hold only rules with a protocol.   *)
TypeOK ==
    /\ want \in [Pkgs -> Wants]
    /\ due \subseteq Pkgs
    /\ call \in [Pkgs -> {"none", "sidecarMap", "ambientMap", "perform", "waiting"}]
    /\ req \in [Pkgs -> Wants]
    /\ ok \in [Pkgs -> BOOLEAN]
    /\ map \in [Modes -> [Pkgs -> SUBSET Rules]]
    /\ gen \in [Modes -> Nat]
    /\ pass \in [mode : Modes \cup {"none"}, stage : {"begin", "waypoint", "apply", "end"},
                 desired : [Keys -> SUBSET Users], todo : SUBSET Keys, failed : BOOLEAN]
    /\ dirty \in BOOLEAN
    /\ res \in [Modes -> [Keys -> [gen : Nat, users : SUBSET Users]]]
    /\ waypoint \in Nat
    /\ late \subseteq [key : Keys, gen : Nat, users : SUBSET Users]
    /\ used \in [edits : Nat, faults : Nat, crashes : Nat, late : BOOLEAN]

(* One host and port never carries two protocols in the cluster, although  *)
(* packages update the maps while passes run from older snapshots.         *)
OneProtocol ==
    \A m \in Modes, k \in Keys : \A u, v \in res[m][k].users : u[2] = v[2]

InPlace(p) ==
    \A r \in want[p].rules : <<p, r.protocol>> \in res[want[p].mode][r.key].users

(* A package that was told its egress is in place has it: no request that  *)
(* arrives during a reconciliation is skipped, and no later pass, purge or *)
(* failed pass takes away what a live package still asks for. After a      *)
(* restart the first pass does, until its package is reconciled, and an     *)
(* apply that is left in flight may land over a newer one.                 *)
LivePackagesHaveEgress ==
    used.crashes = 0 /\ ~used.late => \A p \in Pkgs : ok[p] => InPlace(p)

Asked(m, k) ==
    {u \in Users : want[u[1]].mode = m /\ [key |-> k, protocol |-> u[2]] \in want[u[1]].rules}

(* After a restart the generations are counted from 1 again.  A resource   *)
(* from before it, of a host nobody asks for any more, is not purged while *)
(* its label happens to be the current one.                                *)
Revived(m, k) == used.crashes > 0 /\ Asked(m, k) = {} /\ res[m][k].gen = gen[m]

Exact == \A m \in Modes, k \in Keys : res[m][k].users = Asked(m, k) \/ Revived(m, k)

(* When every package has been told its egress is in place and nothing is  *)
(* in progress, the cluster holds what the packages ask for and nothing    *)
(* else: no resource of a mode, a host or a package that is gone, but for  *)
(* one that a restart has revived.                                         *)
NothingLeftOver ==
    (\A p \in Pkgs : ok[p] /\ call[p] = "none") /\ due = {} /\ pass = NoPass /\ ~used.late => Exact

Compatible ==
    \A p, q \in Pkgs : want[p].mode = want[q].mode =>
        \A r \in want[p].rules, s \in want[q].rules : r.key = s.key => r = s

(* In the end the cluster holds exactly what the packages ask for, when    *)
(* they ask for nothing that another one must be refused.                  *)
EventuallyExact == <>[](Exact \/ used.late \/ ~Compatible)

=============================================================================
