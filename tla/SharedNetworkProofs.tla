------------------------- MODULE SharedNetworkProofs -------------------------
(***************************************************************************)
(* Proofs about what all packages share of the network: the resources for  *)
(* egress (SharedEgress, for any packages, hosts, protocols and bounds,    *)
(* and any requests whose hosts have one protocol each), and the policies  *)
(* whose peers follow the cluster (PeerRefresh, for any nodes, addresses   *)
(* and bounds). The two are specifications of their own and share no state. *)
(***************************************************************************)
EXTENDS SharedEgress, PeerRefresh, TLAPS

-----------------------------------------------------------------------------
(* SharedEgress: the inductive invariants.                                 *)

OneProtocolIn(users) == \A u, v \in users : u[2] = v[2]

(* No two rules in a map, of one package or of two, disagree on a key.     *)
MapsAgree ==
    \A m \in Modes, p, q \in Pkgs : \A r \in map[m][p], s \in map[m][q] :
        r.key = s.key => r.protocol = s.protocol

(* What is applied was merged from such a map, however late it lands.      *)
ProtocolInv ==
    /\ MapsAgree
    /\ \A k \in Keys : OneProtocolIn(pass.desired[k])
    /\ \A a \in late : OneProtocolIn(a.users)
    /\ OneProtocol

Active   == pass.stage \in {"waypoint", "apply"}
Entered(p, m) == map[m][p] = Entry(p, m)

(* Where the calls and the pass stand.                                     *)
ControlInv ==
    /\ pass.mode = "none" => pass = NoPass
    /\ pass.stage = "end" => pass.mode = "ambient"
    /\ pass.stage = "waypoint" => pass.mode = "ambient" /\ pass.todo = Hosts(pass.desired)
    /\ pass.todo \subseteq Hosts(pass.desired)
    /\ \A p \in Pkgs : call[p] = "waiting" => pass.mode # "none"
    /\ pass.mode # "none" => \E p \in Pkgs : call[p] = "waiting"
    /\ ~used.late => late = {}

(* What each package has in the maps.                                      *)
MapInv ==
    \A p \in Pkgs :
        /\ call[p] = "ambientMap" => Entered(p, "sidecar")
        /\ call[p] \in {"perform", "waiting"} => \A m \in Modes : Entered(p, m)
        /\ p \notin due => req[p] = want[p]
        /\ p \notin due /\ call[p] = "none" => \A m \in Modes : Entered(p, m)
        /\ used.crashes = 0 /\ ok[p] => req[p] = want[p] /\ \A m \in Modes : Entered(p, m)

(* What the pass has applied so far carries its label and its users.       *)
AppliedInv ==
    ~used.late /\ Active =>
        /\ \A k \in Hosts(pass.desired) \ pass.todo :
              res[pass.mode][k] = [gen |-> gen[pass.mode], users |-> pass.desired[k]]
        /\ pass.stage = "apply" /\ pass.mode = "ambient" /\ Hosts(pass.desired) # {}
              => waypoint = gen.ambient

Finished(m) == pass.stage = "end" \/ (m = "sidecar" /\ pass.mode = "ambient")

InDesired(p) == \A r \in Entry(p, pass.mode) : <<p, r.protocol>> \in pass.desired[r.key]
Held(p, m) == \A r \in Entry(p, m) : <<p, r.protocol>> \in res[m][r.key].users

(* Packages that were told so, and those that will be at the end of this   *)
(* pass, are in what it applies and in what it has applied.                *)
ServedInv ==
    ~used.late => \A p \in Pkgs :
        /\ used.crashes = 0 /\ ok[p] => /\ \A m \in Modes : Held(p, m)
                                        /\ Active => InDesired(p)
        /\ call[p] = "waiting" /\ ~dirty =>
              /\ Active => InDesired(p)
              /\ ~pass.failed => \A m \in Modes : Finished(m) => Held(p, m)

Mapped == \A p \in Pkgs : p \notin due /\ call[p] \in {"none", "waiting"}

(* The label of a resource that nobody asks for was given before a restart. *)
OldLabel(m, k) == used.crashes > 0 /\ Merged(m)[k] = {} /\ res[m][k].gen = gen[m]

ExactInv ==
    /\ Mapped /\ pass.mode = "none" => ~dirty
    /\ used.crashes = 0 /\ ~used.late =>
          /\ \A m \in Modes, k \in Keys : res[m][k].gen <= gen[m]
          /\ Active => \A k \in Keys : res[pass.mode][k].gen = gen[pass.mode]
                                          => k \in Hosts(pass.desired) \ pass.todo
    /\ Mapped /\ ~used.late /\ ~dirty /\ ~pass.failed =>
          /\ Active => pass.desired = Merged(pass.mode)
          /\ \A m \in Modes : pass.mode = "none" \/ Finished(m) =>
                \A k \in Keys : res[m][k].users = Merged(m)[k] \/ OldLabel(m, k)

-----------------------------------------------------------------------------
(* Types.                                                                  *)

Resources == [Keys -> [gen : Nat, users : SUBSET Users]]
Passes == [mode : Modes \cup {"none"}, stage : {"begin", "waypoint", "apply", "end"},
           desired : [Keys -> SUBSET Users], todo : SUBSET Keys, failed : BOOLEAN]

LEMMA NoPassTyped ==
  /\ NoPass \in Passes
  /\ NoPass.mode = "none" /\ NoPass.stage = "begin" /\ NoPass.todo = {} /\ NoPass.failed = FALSE
  /\ \A k \in Keys : NoPass.desired[k] = {}
BY DEF NoPass, Passes

(* A pass that begins, with nothing applied yet.                           *)
LEMMA StartTyped ==
  ASSUME NEW start, start = [NoPass EXCEPT !.mode = "sidecar"]
  PROVE  /\ start \in Passes /\ start.mode = "sidecar" /\ start.stage = "begin"
         /\ start.todo = {} /\ start.failed = FALSE
         /\ \A k \in Keys : start.desired[k] = {}
BY DEF NoPass, Passes, Modes

LEMMA NextModeTyped ==
  ASSUME NEW lost \in BOOLEAN, pass.mode \in Modes
  PROVE  /\ NextMode(lost) \in Passes
         /\ NextMode(lost).mode = "ambient"
         /\ NextMode(lost).stage = IF pass.mode = "sidecar" THEN "begin" ELSE "end"
         /\ NextMode(lost).todo = {} /\ NextMode(lost).failed = lost
         /\ \A k \in Keys : NextMode(lost).desired[k] = {}
BY DEF NextMode, NoPass, Passes, Modes

LEMMA MergedTyped == \A m : Merged(m) \in [Keys -> SUBSET Users]
BY DEF Merged

(* One resource is applied.                                                *)
LEMMA ResApplied ==
  ASSUME res \in [Modes -> Resources], NEW m \in Modes, NEW k \in Keys,
         NEW v \in [gen : Nat, users : SUBSET Users], NEW new, new = [res EXCEPT ![m][k] = v]
  PROVE  /\ new \in [Modes -> Resources]
         /\ \A n \in Modes, j \in Keys : new[n][j] = IF n = m /\ j = k THEN v ELSE res[n][j]
BY DEF Resources

(* Resources of one mode are deleted.                                      *)
LEMMA ResPurged ==
  ASSUME res \in [Modes -> Resources], NEW m \in Modes, NEW gone, NEW new,
         new = [res EXCEPT ![m] = [k \in Keys |-> IF k \in gone THEN Absent ELSE @[k]]]
  PROVE  /\ new \in [Modes -> Resources]
         /\ \A n \in Modes, j \in Keys :
               new[n][j] = IF n = m /\ j \in gone THEN Absent ELSE res[n][j]
<1>1. Absent \in [gen : Nat, users : SUBSET Users]
  BY DEF Absent
<1>2. res[m] \in Resources /\ DOMAIN res = Modes
  OBVIOUS
<1>3. new[m] = [k \in Keys |-> IF k \in gone THEN Absent ELSE res[m][k]]
  BY <1>2
<1>4. new[m] \in Resources
  BY <1>1, <1>2, <1>3 DEF Resources
<1>5. \A n \in Modes : n # m => new[n] = res[n]
  BY <1>2
<1>6. QED
  BY <1>2, <1>3, <1>4, <1>5

(* A failure is counted, and so is that it left applies in flight.         *)
UsedRange == [edits : Nat, faults : Nat, crashes : Nat, late : BOOLEAN]

LEMMA UsedFails ==
  ASSUME used \in UsedRange, used' = [used EXCEPT !.faults = @ + 1, !.late = @ \/ late' # {}]
  PROVE  /\ used' \in UsedRange /\ used'.crashes = used.crashes
         /\ used'.late <=> (used.late \/ late' # {})
<1> DEFINE u == [used EXCEPT !.faults = @ + 1]
           b == used.late \/ late' # {}
<1>1. u \in UsedRange /\ u.crashes = used.crashes
  BY DEF UsedRange
<1>2. used' = [u EXCEPT !.late = b]
  BY Zenon DEF UsedRange
<1>3. b \in BOOLEAN
  BY Zenon
<1> HIDE DEF u, b
<1>4. [u EXCEPT !.late = b] \in UsedRange /\ [u EXCEPT !.late = b].crashes = u.crashes
  BY <1>1, <1>3 DEF UsedRange
<1>5. [u EXCEPT !.late = b].late = b
  BY <1>1, <1>3, Zenon DEF UsedRange
<1>6. QED
  BY <1>1, <1>2, <1>4, <1>5, Zenon DEF b

(* What a failing pass leaves behind.                                      *)
LEMMA FailLeaves ==
  ASSUME TypeOK, ModeFails
  PROVE  /\ pass.mode \in Modes /\ pass.stage # "end" /\ pass' = NextMode(TRUE)
         /\ used' = [used EXCEPT !.faults = @ + 1, !.late = @ \/ late' # {}]
         /\ UNCHANGED <<packages, gen, dirty>>
         /\ waypoint' \in Nat
         /\ \/ res' = res
            \/ /\ pass.stage = "apply"
               /\ \E k \in pass.todo :
                     res' = [res EXCEPT ![pass.mode][k] =
                                 [gen |-> gen[pass.mode], users |-> pass.desired[k]]]
            \/ /\ pass.stage = "apply" /\ pass.todo = {}
               /\ \E gone \in SUBSET Stale(pass.mode) :
                     res' = [res EXCEPT ![pass.mode] =
                                 [k \in Keys |-> IF k \in gone THEN Absent ELSE @[k]]]
         /\ \A a \in late' : \/ a \in late
                             \/ \E j \in pass.todo :
                                   a = [key |-> j, gen |-> gen.sidecar, users |-> pass.desired[j]]
<1>1. /\ pass.mode \in Modes /\ pass.stage # "end" /\ pass' = NextMode(TRUE)
      /\ used' = [used EXCEPT !.faults = @ + 1, !.late = @ \/ late' # {}]
      /\ UNCHANGED <<packages, gen, dirty>>
  BY DEF ModeFails, TypeOK
<1>2. gen.ambient \in Nat /\ waypoint \in Nat
  BY DEF TypeOK, Modes
<1>3. CASE pass.stage = "begin" /\ UNCHANGED <<res, waypoint, late>>
  BY <1>1, <1>2, <1>3
<1>4. CASE pass.stage = "waypoint" /\ waypoint' \in {waypoint, gen.ambient} /\ UNCHANGED <<res, late>>
  BY <1>1, <1>2, <1>4
<1>5. ASSUME NEW k \in pass.todo, pass.stage = "apply",
             res' \in {res, [res EXCEPT ![pass.mode][k] =
                                 [gen |-> gen[pass.mode], users |-> pass.desired[k]]]},
             late' \in {late} \cup
                  {late \cup {[key |-> j, gen |-> gen.sidecar, users |-> pass.desired[j]] :
                      j \in rest} : rest \in IF pass.mode = "sidecar"
                                             THEN SUBSET (pass.todo \ {k}) ELSE {}},
             waypoint' = waypoint
      PROVE  /\ waypoint' \in Nat
             /\ \/ res' = res
                \/ \E j \in pass.todo :
                      res' = [res EXCEPT ![pass.mode][j] =
                                  [gen |-> gen[pass.mode], users |-> pass.desired[j]]]
             /\ \A a \in late' : \/ a \in late
                                 \/ \E j \in pass.todo :
                                       a = [key |-> j, gen |-> gen.sidecar, users |-> pass.desired[j]]
  BY <1>2, <1>5
<1>6. CASE /\ pass.stage = "apply" /\ pass.todo = {} /\ ~SkipsPurge
           /\ \E gone \in SUBSET Stale(pass.mode) :
                 res' = [res EXCEPT ![pass.mode] =
                             [k \in Keys |-> IF k \in gone THEN Absent ELSE @[k]]]
           /\ UNCHANGED <<waypoint, late>>
  BY <1>1, <1>2, <1>6
<1>7. QED
  BY <1>1, <1>3, <1>4, <1>5, <1>6 DEF ModeFails

LEMMA StepTyped == TypeOK /\ ControlInv /\ [Next]_vars => TypeOK'
<1> SUFFICES ASSUME TypeOK, ControlInv, [Next]_vars
             PROVE  TypeOK'
  OBVIOUS
<1>1. /\ pass \in Passes /\ res \in [Modes -> Resources] /\ gen \in [Modes -> Nat]
      /\ used \in [edits : Nat, faults : Nat, crashes : Nat, late : BOOLEAN]
  BY DEF TypeOK, Passes, Resources
<1>17. pass.stage # "begin" => pass.mode \in Modes
  BY <1>1, NoPassTyped DEF ControlInv, Passes
<1>2. ASSUME NEW p \in Pkgs, NEW w \in Wants, Edit(p, w)
      PROVE  TypeOK'
  <2>1. used' \in [edits : Nat, faults : Nat, crashes : Nat, late : BOOLEAN]
    BY <1>1, <1>2 DEF Edit
  <2>2. QED
    BY <1>2, <2>1 DEF Edit, TypeOK
<1>3. ASSUME NEW p \in Pkgs, Start(p)
      PROVE  TypeOK'
  BY <1>3 DEF Start, TypeOK
<1>4. ASSUME NEW p \in Pkgs, UpdateMap(p)
      PROVE  TypeOK'
  <2>1. MapStage(p) \in Modes /\ Entry(p, MapStage(p)) \in SUBSET Rules
    BY WantsAssumption DEF MapStage, Modes, Entry, TypeOK
  <2>2. map' \in [Modes -> [Pkgs -> SUBSET Rules]]
    BY <1>4, <2>1 DEF UpdateMap, TypeOK
  <2>3. call' \in [Pkgs -> {"none", "sidecarMap", "ambientMap", "perform", "waiting"}]
    BY <1>4 DEF UpdateMap, TypeOK
  <2>4. QED
    BY <1>4, <2>2, <2>3 DEF UpdateMap, TypeOK
<1>5. ASSUME NEW p \in Pkgs, Reject(p)
      PROVE  TypeOK'
  BY <1>5 DEF Reject, TypeOK
<1>6. ASSUME NEW p \in Pkgs, Perform(p)
      PROVE  TypeOK'
  <2>1. pass' \in Passes /\ dirty' \in BOOLEAN
    BY <1>1, <1>6, StartTyped DEF Perform
  <2>2. QED
    BY <1>6, <2>1 DEF Perform, TypeOK, Passes
<1>7. CASE BeginMode
  <2>1. gen' \in [Modes -> Nat]
    <3>1. pass.mode \in Modes /\ gen' = [gen EXCEPT ![pass.mode] = @ + 1]
      BY <1>1, <1>7 DEF BeginMode, Passes
    <3>2. QED
      BY <1>1, <3>1
  <2>2. pass' \in Passes
    BY <1>1, <1>7, MergedTyped DEF BeginMode, Passes, Hosts
  <2>3. QED
    BY <1>7, <2>1, <2>2 DEF BeginMode, TypeOK, packages, Passes
<1>8. CASE ApplyWaypoint
  <2>1. waypoint' \in Nat /\ pass' \in Passes
    BY <1>1, <1>8 DEF ApplyWaypoint, Passes, Modes
  <2>2. QED
    BY <1>8, <2>1 DEF ApplyWaypoint, TypeOK, packages, Passes
<1>9. ASSUME NEW k \in Keys, Apply(k)
      PROVE  TypeOK'
  <2>1. pass.mode \in Modes /\ pass' \in Passes
    BY <1>1, <1>9, <1>17 DEF Apply, Passes
  <2>2. res' \in [Modes -> Resources]
    BY <1>1, <1>9, <2>1, ResApplied DEF Apply, Passes
  <2>3. QED
    BY <1>9, <2>1, <2>2 DEF Apply, TypeOK, packages, Passes, Resources
<1>10. CASE Purge
  <2>1. pass.mode \in Modes
    BY <1>10, <1>17 DEF Purge
  <2>2. pass' \in Passes
    BY <1>1, <1>10, <2>1, NextModeTyped DEF Purge, Passes
  <2>3. res' \in [Modes -> Resources] /\ waypoint' \in Nat
    <3>1. CASE SkipsPurge
      BY <1>1, <1>10, <3>1 DEF Purge, TypeOK
    <3>2. CASE ~SkipsPurge
      <4>1. res' = [res EXCEPT ![pass.mode] = [k \in Keys |-> IF k \in Stale(pass.mode) THEN Absent ELSE @[k]]]
        BY <1>10, <3>2 DEF Purge
      <4>2. waypoint' \in Nat
        BY <1>10, <3>2 DEF Purge, TypeOK
      <4>3. QED
        BY <1>1, <2>1, <4>1, <4>2, ResPurged
    <3>3. QED
      BY <3>1, <3>2
  <2>4. QED
    BY <1>10, <2>2, <2>3 DEF Purge, TypeOK, packages, Passes, Resources
<1>11. CASE ModeFails
  <2>1. pass.mode \in Modes /\ pass' \in Passes
    BY <1>11, FailLeaves, NextModeTyped
  <2>2. res' \in [Modes -> Resources]
    <3>1. \A k \in pass.todo : /\ k \in Keys
                               /\ [gen |-> gen[pass.mode], users |-> pass.desired[k]]
                                     \in [gen : Nat, users : SUBSET Users]
      BY <1>1, <2>1 DEF Passes
    <3>2. CASE res' = res
      BY <1>1, <3>2
    <3>3. ASSUME NEW k \in pass.todo,
                 res' = [res EXCEPT ![pass.mode][k] = [gen |-> gen[pass.mode], users |-> pass.desired[k]]]
          PROVE  res' \in [Modes -> Resources]
      <4> DEFINE v == [gen |-> gen[pass.mode], users |-> pass.desired[k]]
      <4>1. k \in Keys /\ v \in [gen : Nat, users : SUBSET Users]
        BY <3>1
      <4>2. res' = [res EXCEPT ![pass.mode][k] = v]
        BY <3>3
      <4> HIDE DEF v
      <4>3. QED
        BY <1>1, <2>1, <4>1, <4>2, ResApplied
    <3>4. ASSUME NEW gone \in SUBSET Stale(pass.mode),
                 res' = [res EXCEPT ![pass.mode] = [k \in Keys |-> IF k \in gone THEN Absent ELSE @[k]]]
          PROVE  res' \in [Modes -> Resources]
      BY <1>1, <2>1, <3>4, ResPurged
    <3>5. QED
      BY <1>11, <3>2, <3>3, <3>4, FailLeaves
  <2>3. late' \subseteq [key : Keys, gen : Nat, users : SUBSET Users]
    <3>1. gen.sidecar \in Nat /\ pass.todo \subseteq Keys /\ pass.desired \in [Keys -> SUBSET Users]
      BY <1>1 DEF Modes, Passes
    <3>2. late \subseteq [key : Keys, gen : Nat, users : SUBSET Users]
      BY DEF TypeOK
    <3>3. QED
      BY <1>11, <3>1, <3>2, FailLeaves
  <2>4. used' \in UsedRange
    BY <1>1, <1>11, FailLeaves, UsedFails DEF UsedRange
  <2>5. QED
    BY <1>11, <2>1, <2>2, <2>3, <2>4, FailLeaves DEF TypeOK, packages, Passes, Resources, UsedRange
<1>12. CASE EndPass
  <2>1. pass' \in Passes
    BY <1>12, NoPassTyped, StartTyped DEF EndPass
  <2>2. call' \in [Pkgs -> {"none", "sidecarMap", "ambientMap", "perform", "waiting"}]
    BY <1>12 DEF EndPass, TypeOK
  <2>3. dirty' \in BOOLEAN /\ due' \subseteq Pkgs
    BY <1>12 DEF EndPass, TypeOK, Waiting
  <2>4. ok' \in [Pkgs -> BOOLEAN]
    <3>1. ok' = ok \/ ok' = [p \in Pkgs |-> ok[p] \/ (p \in Waiting /\ req[p] = want[p])]
      BY <1>12 DEF EndPass
    <3>2. [p \in Pkgs |-> ok[p] \/ (p \in Waiting /\ req[p] = want[p])] \in [Pkgs -> BOOLEAN]
      BY Zenon
    <3>3. ok \in [Pkgs -> BOOLEAN]
      BY DEF TypeOK
    <3>4. QED
      BY <3>1, <3>2, <3>3
  <2>5. QED
    BY <1>12, <2>1, <2>2, <2>3, <2>4 DEF EndPass, TypeOK, Passes
<1>13. ASSUME NEW a \in late, LateApply(a)
       PROVE  TypeOK'
  <2>1. a.key \in Keys /\ [gen |-> a.gen, users |-> a.users] \in [gen : Nat, users : SUBSET Users]
    BY DEF TypeOK
  <2>2. res' \in [Modes -> Resources]
    BY <1>1, <1>13, <2>1, ResApplied DEF LateApply, Modes
  <2>3. QED
    BY <1>13, <2>2 DEF LateApply, TypeOK, packages, Resources
<1>14. CASE Crash
  <2>1. used' \in [edits : Nat, faults : Nat, crashes : Nat, late : BOOLEAN]
    BY <1>1, <1>14 DEF Crash
  <2>2. QED
    BY <1>14, <2>1, NoPassTyped DEF Crash, TypeOK, Passes
<1>15. CASE UNCHANGED vars
  BY <1>15 DEF vars, TypeOK
<1>16. QED
  BY <1>2, <1>3, <1>4, <1>5, <1>6, <1>7, <1>8, <1>9, <1>10, <1>11, <1>12, <1>13, <1>14, <1>15
     DEF Next, Caller, Pass

-----------------------------------------------------------------------------
(* What the steps of a pass do to it.                                      *)

LEMMA PassTyped ==
  ASSUME TypeOK, ControlInv
  PROVE  /\ pass \in Passes /\ res \in [Modes -> Resources] /\ gen \in [Modes -> Nat]
         /\ used \in UsedRange /\ waypoint \in Nat /\ map \in [Modes -> [Pkgs -> SUBSET Rules]]
         /\ pass.stage # "begin" => pass.mode \in Modes
         /\ Active \/ pass.stage = "end" => pass.mode \in Modes
         /\ \A k \in Keys : k \in Hosts(pass.desired) <=> pass.desired[k] # {}
<1>1. pass \in Passes
  BY DEF TypeOK, Passes
<1>2. pass.stage # "begin" => pass.mode \in Modes
  BY <1>1, NoPassTyped DEF ControlInv, Passes
<1>3. QED
  BY <1>1, <1>2 DEF TypeOK, Passes, Resources, UsedRange, Active, Hosts

LEMMA Begins ==
  ASSUME TypeOK, ControlInv, BeginMode
  PROVE  /\ pass.mode \in Modes /\ pass.stage = "begin"
         /\ pass'.mode = pass.mode /\ pass'.failed = pass.failed
         /\ pass'.desired = Merged(pass.mode) /\ pass'.todo = Hosts(Merged(pass.mode))
         /\ pass'.stage = IF pass.mode = "ambient" /\ Hosts(Merged(pass.mode)) # {}
                          THEN "waypoint" ELSE "apply"
         /\ \A m \in Modes : gen'[m] = IF m = pass.mode THEN gen[m] + 1 ELSE gen[m]
         /\ UNCHANGED <<packages, dirty, res, waypoint, late, used>>
<1>1. pass \in Passes /\ gen \in [Modes -> Nat]
  BY PassTyped
<1>2. pass.mode \in Modes /\ pass.stage = "begin" /\ gen' = [gen EXCEPT ![pass.mode] = @ + 1]
  BY <1>1 DEF BeginMode, Passes
<1>3. \A m \in Modes : gen'[m] = IF m = pass.mode THEN gen[m] + 1 ELSE gen[m]
  BY <1>1, <1>2
<1>4. /\ pass'.mode = pass.mode /\ pass'.failed = pass.failed
      /\ pass'.desired = Merged(pass.mode) /\ pass'.todo = Hosts(Merged(pass.mode))
      /\ pass'.stage = IF pass.mode = "ambient" /\ Hosts(Merged(pass.mode)) # {}
                       THEN "waypoint" ELSE "apply"
  BY <1>1 DEF BeginMode, Passes
<1>5. QED
  BY <1>2, <1>3, <1>4 DEF BeginMode

LEMMA WaypointApplied ==
  ASSUME TypeOK, ControlInv, ApplyWaypoint
  PROVE  /\ pass.mode = "ambient" /\ pass.stage = "waypoint"
         /\ pass'.mode = pass.mode /\ pass'.failed = pass.failed
         /\ pass'.desired = pass.desired /\ pass'.todo = pass.todo /\ pass'.stage = "apply"
         /\ waypoint' = gen.ambient
         /\ UNCHANGED <<packages, gen, dirty, res, late, used>>
BY PassTyped DEF ApplyWaypoint, Passes, ControlInv

LEMMA HostApplied ==
  ASSUME TypeOK, ControlInv, NEW k \in Keys, Apply(k)
  PROVE  /\ pass.mode \in Modes /\ pass.stage = "apply" /\ k \in pass.todo
         /\ pass'.mode = pass.mode /\ pass'.failed = pass.failed
         /\ pass'.desired = pass.desired /\ pass'.todo = pass.todo \ {k} /\ pass'.stage = "apply"
         /\ \A n \in Modes, j \in Keys :
               res'[n][j] = IF n = pass.mode /\ j = k
                            THEN [gen |-> gen[n], users |-> pass.desired[j]] ELSE res[n][j]
         /\ UNCHANGED <<packages, gen, dirty, waypoint, late, used>>
<1>1. pass \in Passes /\ pass.mode \in Modes /\ gen \in [Modes -> Nat] /\ res \in [Modes -> Resources]
  BY PassTyped DEF Apply
<1> DEFINE v == [gen |-> gen[pass.mode], users |-> pass.desired[k]]
<1>2. v \in [gen : Nat, users : SUBSET Users]
  BY <1>1 DEF Passes
<1>3. res' = [res EXCEPT ![pass.mode][k] = v]
  BY DEF Apply
<1>4. \A n \in Modes, j \in Keys : res'[n][j] = IF n = pass.mode /\ j = k THEN v ELSE res[n][j]
  <2> HIDE DEF v
  <2>1. QED
    BY <1>1, <1>2, <1>3, SMT DEF Resources
<1>5. QED
  BY <1>1, <1>4 DEF Apply, Passes

LEMMA AppliedUsers ==
  ASSUME TypeOK, ControlInv, NEW k \in Keys, Apply(k)
  PROVE  \A n \in Modes, j \in Keys :
            res'[n][j].users = IF n = pass.mode /\ j = k THEN pass.desired[j] ELSE res[n][j].users
<1> SUFFICES ASSUME NEW n \in Modes, NEW j \in Keys
             PROVE  res'[n][j].users = IF n = pass.mode /\ j = k THEN pass.desired[j]
                                       ELSE res[n][j].users
  OBVIOUS
<1>1. res'[n][j] = IF n = pass.mode /\ j = k THEN [gen |-> gen[n], users |-> pass.desired[j]]
                   ELSE res[n][j]
  BY HostApplied
<1>2. QED
  BY <1>1

LEMMA Purges ==
  ASSUME TypeOK, ControlInv, Purge
  PROVE  /\ pass.mode \in Modes /\ pass.stage = "apply" /\ pass.todo = {}
         /\ pass' = NextMode(pass.failed)
         /\ SkipsPurge => UNCHANGED <<res, waypoint>>
         /\ ~SkipsPurge => \A n \in Modes, j \in Keys :
               res'[n][j] = IF n = pass.mode /\ res[n][j].gen # gen[n] THEN Absent ELSE res[n][j]
         /\ UNCHANGED <<packages, gen, dirty, late, used>>
<1>1. pass.mode \in Modes /\ res \in [Modes -> Resources]
  BY PassTyped DEF Purge
<1>2. ASSUME ~SkipsPurge
      PROVE  \A n \in Modes, j \in Keys :
               res'[n][j] = IF n = pass.mode /\ j \in Stale(n) THEN Absent ELSE res[n][j]
  <2>1. res' = [res EXCEPT ![pass.mode] =
                    [k \in Keys |-> IF k \in Stale(pass.mode) THEN Absent ELSE @[k]]]
    BY <1>2 DEF Purge
  <2>2. QED
    BY <1>1, <2>1, ResPurged
<1>3. QED
  BY <1>1, <1>2 DEF Purge, Stale

(* The resources a failing pass leaves: one more was applied, or some of   *)
(* the stale ones were deleted.                                            *)
LEMMA FailedResources ==
  ASSUME TypeOK, ControlInv, ModeFails
  PROVE  \A n \in Modes, j \in Keys :
            \/ res'[n][j] = res[n][j]
            \/ /\ n = pass.mode /\ pass.stage = "apply" /\ j \in pass.todo
               /\ res'[n][j] = [gen |-> gen[n], users |-> pass.desired[j]]
            \/ /\ n = pass.mode /\ pass.stage = "apply" /\ pass.todo = {}
               /\ res[n][j].gen # gen[n] /\ res'[n][j] = Absent
<1>1. /\ pass \in Passes /\ pass.mode \in Modes /\ gen \in [Modes -> Nat]
      /\ res \in [Modes -> Resources]
  BY PassTyped, FailLeaves
<1>2. CASE res' = res
  BY <1>2
<1>3. ASSUME NEW k \in pass.todo, pass.stage = "apply",
             res' = [res EXCEPT ![pass.mode][k] = [gen |-> gen[pass.mode], users |-> pass.desired[k]]]
      PROVE  \A n \in Modes, j \in Keys :
                \/ res'[n][j] = res[n][j]
                \/ /\ n = pass.mode /\ j = k
                   /\ res'[n][j] = [gen |-> gen[n], users |-> pass.desired[j]]
  <2> DEFINE v == [gen |-> gen[pass.mode], users |-> pass.desired[k]]
  <2>1. k \in Keys /\ v \in [gen : Nat, users : SUBSET Users]
    BY <1>1 DEF Passes
  <2>2. res' = [res EXCEPT ![pass.mode][k] = v]
    BY <1>3
  <2>3. \A n \in Modes, j \in Keys : res'[n][j] = IF n = pass.mode /\ j = k THEN v ELSE res[n][j]
    <3> HIDE DEF v
    <3>1. QED
      BY <1>1, <2>1, <2>2, SMT DEF Resources
  <2>4. QED
    BY <2>3
<1>4. ASSUME NEW gone \in SUBSET Stale(pass.mode), pass.stage = "apply", pass.todo = {},
             res' = [res EXCEPT ![pass.mode] = [k \in Keys |-> IF k \in gone THEN Absent ELSE @[k]]]
      PROVE  \A n \in Modes, j \in Keys :
                \/ res'[n][j] = res[n][j]
                \/ n = pass.mode /\ res[n][j].gen # gen[n] /\ res'[n][j] = Absent
  BY <1>1, <1>4, ResPurged DEF Stale
<1> DEFINE G == \A n \in Modes, j \in Keys :
            \/ res'[n][j] = res[n][j]
            \/ /\ n = pass.mode /\ pass.stage = "apply" /\ j \in pass.todo
               /\ res'[n][j] = [gen |-> gen[n], users |-> pass.desired[j]]
            \/ /\ n = pass.mode /\ pass.stage = "apply" /\ pass.todo = {}
               /\ res[n][j].gen # gen[n] /\ res'[n][j] = Absent
<1>5. res' = res => G
  BY <1>2
<1>6. ASSUME NEW k \in pass.todo, pass.stage = "apply",
             res' = [res EXCEPT ![pass.mode][k] = [gen |-> gen[pass.mode], users |-> pass.desired[k]]]
      PROVE  G
  BY <1>3, <1>6
<1>7. ASSUME NEW gone \in SUBSET Stale(pass.mode), pass.stage = "apply", pass.todo = {},
             res' = [res EXCEPT ![pass.mode] = [k \in Keys |-> IF k \in gone THEN Absent ELSE @[k]]]
      PROVE  G
  BY <1>4, <1>7
<1> HIDE DEF G
<1>8. G
  BY <1>5, <1>6, <1>7, FailLeaves
<1>9. QED
  BY <1>8 DEF G

LEMMA LateApplied ==
  ASSUME TypeOK, ControlInv, NEW a \in late, LateApply(a)
  PROVE  \A n \in Modes, j \in Keys :
            res'[n][j] = IF n = "sidecar" /\ j = a.key THEN [gen |-> a.gen, users |-> a.users]
                         ELSE res[n][j]
<1> DEFINE v == [gen |-> a.gen, users |-> a.users]
<1>1. a.key \in Keys /\ v \in [gen : Nat, users : SUBSET Users] /\ res \in [Modes -> Resources]
  BY PassTyped DEF TypeOK
<1>2. res' = [res EXCEPT !["sidecar"][a.key] = v]
  BY DEF LateApply
<1>3. \A n \in Modes, j \in Keys : res'[n][j] = IF n = "sidecar" /\ j = a.key THEN v ELSE res[n][j]
  <2> HIDE DEF v
  <2>1. QED
    BY <1>1, <1>2, SMT DEF Resources, Modes
<1>4. QED
  BY <1>3

(* What the next mode, or the end, of a pass starts from.                  *)
LEMMA Moves ==
  ASSUME NEW lost \in BOOLEAN, pass.mode \in Modes, pass' = NextMode(lost)
  PROVE  /\ pass' \in Passes /\ pass'.mode = "ambient"
         /\ pass'.stage = IF pass.mode = "sidecar" THEN "begin" ELSE "end"
         /\ pass'.todo = {} /\ pass'.failed = lost
BY NextModeTyped

-----------------------------------------------------------------------------
(* Where the calls and the pass stand.                                     *)

LEMMA StepControl == TypeOK /\ ControlInv /\ [Next]_vars => ControlInv'
<1> SUFFICES ASSUME TypeOK, ControlInv, [Next]_vars
             PROVE  ControlInv'
  OBVIOUS
<1>1. /\ pass \in Passes /\ used \in UsedRange
      /\ call \in [Pkgs -> {"none", "sidecarMap", "ambientMap", "perform", "waiting"}]
  BY PassTyped DEF TypeOK
<1>2. ASSUME NEW p \in Pkgs, NEW w \in Wants, Edit(p, w)
      PROVE  ControlInv'
  <2>1. used'.late = used.late
    BY <1>1, <1>2 DEF Edit, UsedRange
  <2>2. QED
    BY <1>2, <2>1 DEF Edit, ControlInv, Hosts
<1>3. ASSUME NEW p \in Pkgs, Start(p)
      PROVE  ControlInv'
  BY <1>1, <1>3 DEF Start, ControlInv, Hosts
<1>4. ASSUME NEW p \in Pkgs, UpdateMap(p)
      PROVE  ControlInv'
  BY <1>1, <1>4 DEF UpdateMap, ControlInv, Hosts
<1>5. ASSUME NEW p \in Pkgs, Reject(p)
      PROVE  ControlInv'
  BY <1>1, <1>5 DEF Reject, ControlInv, Hosts
<1>6. ASSUME NEW p \in Pkgs, Perform(p)
      PROVE  ControlInv'
  <2>1. CASE pass.mode = "none"
    BY <1>1, <1>6, <2>1, StartTyped DEF Perform, ControlInv, Hosts
  <2>2. CASE pass.mode # "none"
    BY <1>1, <1>6, <2>2 DEF Perform, ControlInv, Hosts
  <2>3. QED
    BY <2>1, <2>2
<1>7. CASE BeginMode
  BY <1>7, Begins DEF ControlInv, packages, Modes
<1>8. CASE ApplyWaypoint
  BY <1>8, WaypointApplied DEF ControlInv, packages
<1>9. ASSUME NEW k \in Keys, Apply(k)
      PROVE  ControlInv'
  BY <1>9, HostApplied DEF ControlInv, packages, Modes
<1>10. CASE Purge
  <2>1. pass.failed \in BOOLEAN
    BY <1>1 DEF Passes
  <2>2. QED
    BY <1>10, <2>1, Purges, Moves DEF ControlInv, packages, Modes
<1>11. CASE ModeFails
  <2>1. /\ pass.mode \in Modes /\ pass'.mode = "ambient" /\ pass'.stage \in {"begin", "end"}
        /\ pass'.todo = {} /\ call' = call
    BY <1>11, FailLeaves, Moves DEF packages
  <2>2. ~used'.late => late' = {}
    BY <1>1, <1>11, FailLeaves, UsedFails
  <2>3. QED
    BY <2>1, <2>2 DEF ControlInv, Modes
<1>12. CASE EndPass
  <2>1. CASE ~pass.failed /\ dirty
    BY <1>12, <2>1, StartTyped DEF EndPass, ControlInv
  <2>2. CASE pass.failed \/ ~dirty
    <3>1. /\ pass' = NoPass
          /\ call' = [p \in Pkgs |-> IF p \in Waiting THEN "none" ELSE call[p]]
      BY <1>12, <2>2 DEF EndPass
    <3>2. \A p \in Pkgs : call'[p] # "waiting"
      BY <3>1 DEF Waiting
    <3>3. QED
      BY <1>12, <3>1, <3>2, NoPassTyped DEF EndPass, ControlInv
  <2>3. QED
    BY <2>1, <2>2
<1>13. ASSUME NEW a \in late, LateApply(a)
       PROVE  ControlInv'
  BY <1>13 DEF LateApply, ControlInv, packages, Hosts
<1>14. CASE Crash
  BY <1>14, NoPassTyped DEF Crash, ControlInv
<1>15. CASE UNCHANGED vars
  BY <1>15 DEF vars, ControlInv, Hosts
<1>16. QED
  BY <1>2, <1>3, <1>4, <1>5, <1>6, <1>7, <1>8, <1>9, <1>10, <1>11, <1>12, <1>13, <1>14, <1>15
     DEF Next, Caller, Pass

LEMMA InitTyped == Init => TypeOK /\ ControlInv
<1> SUFFICES ASSUME Init
             PROVE  TypeOK /\ ControlInv
  OBVIOUS
<1>1. pass \in Passes
  BY NoPassTyped DEF Init
<1>2. TypeOK
  BY <1>1, WantsAssumption DEF Init, TypeOK, Passes, Absent
<1>3. ControlInv
  BY NoPassTyped DEF Init, ControlInv
<1>4. QED
  BY <1>2, <1>3

(* The variables keep their types, and the bounds hold (TypeOK).           *)
THEOREM TypeCorrect == Spec => []TypeOK
<1>1. TypeOK /\ ControlInv /\ [Next]_vars => (TypeOK /\ ControlInv)'
  BY StepTyped, StepControl
<1>2. QED
  BY <1>1, InitTyped, PTL DEF Spec

-----------------------------------------------------------------------------
(* One protocol per host and port.                                         *)

LEMMA MergedAgrees ==
  ASSUME TypeOK, MapsAgree, NEW m \in Modes, NEW k \in Keys
  PROVE  OneProtocolIn(Merged(m)[k])
<1> SUFFICES ASSUME NEW u \in Merged(m)[k], NEW v \in Merged(m)[k]
             PROVE  u[2] = v[2]
  BY DEF OneProtocolIn
<1> DEFINE r == [key |-> k, protocol |-> u[2]]
           s == [key |-> k, protocol |-> v[2]]
<1>1. /\ u \in Users /\ v \in Users
      /\ r \in map[m][u[1]] /\ s \in map[m][v[1]]
  BY DEF Merged
<1>2. u[1] \in Pkgs /\ v[1] \in Pkgs
  BY <1>1 DEF Users
<1>3. r.key = s.key /\ r.protocol = u[2] /\ s.protocol = v[2]
  OBVIOUS
<1> HIDE DEF r, s
<1>4. QED
  BY <1>1, <1>2, <1>3 DEF MapsAgree

LEMMA StepProtocol == TypeOK /\ ControlInv /\ ProtocolInv /\ [Next]_vars => ProtocolInv'
<1> SUFFICES ASSUME TypeOK, ControlInv, ProtocolInv, [Next]_vars
             PROVE  ProtocolInv'
  OBVIOUS
<1>1. /\ pass \in Passes /\ res \in [Modes -> Resources] /\ map \in [Modes -> [Pkgs -> SUBSET Rules]]
      /\ MapsAgree /\ OneProtocol
      /\ \A k \in Keys : OneProtocolIn(pass.desired[k])
      /\ \A m \in Modes, k \in Keys : OneProtocolIn(res[m][k].users)
      /\ \A a \in late : OneProtocolIn(a.users)
  BY PassTyped DEF ProtocolInv, OneProtocol, OneProtocolIn
<1>2. OneProtocolIn({})
  BY DEF OneProtocolIn
<1>3. /\ map' = map /\ (\A k \in Keys : OneProtocolIn(pass'.desired[k]))
      /\ (\A m \in Modes, k \in Keys : OneProtocolIn(res'[m][k].users))
      /\ (\A a \in late' : OneProtocolIn(a.users))
      => ProtocolInv'
  BY <1>1 DEF ProtocolInv, MapsAgree, OneProtocol, OneProtocolIn
<1>4. ASSUME UNCHANGED <<map, pass, res, late>>
      PROVE  ProtocolInv'
  BY <1>1, <1>3, <1>4
<1>5. ASSUME NEW p \in Pkgs, UpdateMap(p)
      PROVE  ProtocolInv'
  <2> DEFINE m == MapStage(p)
             e == Entry(p, m)
  <2>1. m \in Modes /\ req[p] \in Wants /\ e \in SUBSET Rules
    BY WantsAssumption DEF MapStage, Modes, Entry, TypeOK
  <2>2. \A r, s \in e : r.key = s.key => r = s
    BY <2>1, WantsAssumption DEF Entry
  <2>3. \A q \in Pkgs \ {p}, r \in e : \A s \in map[m][q] : s.key = r.key => s.protocol = r.protocol
    BY <1>5 DEF UpdateMap, Conflicts
  <2>4. map' = [map EXCEPT ![m][p] = e] /\ UNCHANGED <<pass, res, late>>
    BY <1>5 DEF UpdateMap
  <2> HIDE DEF m, e
  <2>5. \A n \in Modes, q \in Pkgs : map'[n][q] = IF n = m /\ q = p THEN e ELSE map[n][q]
    BY <1>1, <2>1, <2>4
  <2>6. ASSUME NEW n \in Modes, NEW q \in Pkgs, NEW o \in Pkgs,
               NEW r \in map'[n][q], NEW s \in map'[n][o], r.key = s.key
        PROVE  r.protocol = s.protocol
    <3>1. CASE n # m
      BY <1>1, <2>5, <2>6, <3>1 DEF MapsAgree
    <3>2. CASE n = m /\ q = p /\ o = p
      BY <2>2, <2>5, <2>6, <3>2
    <3>3. CASE n = m /\ q = p /\ o # p
      BY <2>3, <2>5, <2>6, <3>3
    <3>4. CASE n = m /\ q # p /\ o = p
      BY <2>3, <2>5, <2>6, <3>4
    <3>5. CASE n = m /\ q # p /\ o # p
      BY <1>1, <2>5, <2>6, <3>5 DEF MapsAgree
    <3>6. QED
      BY <3>1, <3>2, <3>3, <3>4, <3>5
  <2>7. MapsAgree'
    BY <2>6 DEF MapsAgree
  <2>8. QED
    BY <1>1, <2>4, <2>7 DEF ProtocolInv, OneProtocol, OneProtocolIn
<1>6. ASSUME NEW p \in Pkgs, Perform(p)
      PROVE  ProtocolInv'
  BY <1>1, <1>2, <1>3, <1>6, StartTyped DEF Perform
<1>7. CASE BeginMode
  BY <1>1, <1>3, <1>7, Begins, MergedAgrees DEF packages
<1>8. CASE ApplyWaypoint
  BY <1>1, <1>3, <1>8, WaypointApplied DEF packages
<1>9. ASSUME NEW k \in Keys, Apply(k)
      PROVE  ProtocolInv'
  <2>1. \A m \in Modes, j \in Keys : OneProtocolIn(res'[m][j].users)
    <3>1. \A m \in Modes, j \in Keys :
             res'[m][j].users = IF m = pass.mode /\ j = k THEN pass.desired[j] ELSE res[m][j].users
      BY <1>9, AppliedUsers
    <3>2. QED
      BY <1>1, <3>1
  <2>2. QED
    BY <1>1, <1>3, <1>9, <2>1, HostApplied DEF packages
<1>10. ASSUME pass.mode \in Modes, NEW lost \in BOOLEAN, pass' = NextMode(lost)
       PROVE  \A k \in Keys : OneProtocolIn(pass'.desired[k])
  BY <1>2, <1>10, NextModeTyped
<1>11. CASE Purge
  <2>1. \A m \in Modes, k \in Keys : OneProtocolIn(res'[m][k].users)
    <3>1. \A m \in Modes, k \in Keys : res'[m][k].users \in {{}, res[m][k].users}
      BY <1>1, <1>11, Purges DEF Absent
    <3>2. QED
      BY <1>1, <1>2, <3>1
  <2>2. pass.failed \in BOOLEAN
    BY <1>1 DEF Passes
  <2>3. QED
    BY <1>1, <1>3, <1>10, <1>11, <2>1, <2>2, Purges DEF packages
<1>12. CASE ModeFails
  <2>1. \A k \in Keys : OneProtocolIn(pass'.desired[k])
    BY <1>10, <1>12, FailLeaves
  <2>2. \A a \in late' : OneProtocolIn(a.users)
    <3>1. pass.todo \subseteq Keys
      BY <1>1 DEF Passes
    <3>2. QED
      BY <1>1, <1>12, <3>1, FailLeaves
  <2>3. \A m \in Modes, k \in Keys : OneProtocolIn(res'[m][k].users)
    <3>1. \A m \in Modes, k \in Keys : res'[m][k].users \in {{}, res[m][k].users, pass.desired[k]}
      <4> SUFFICES ASSUME NEW m \in Modes, NEW k \in Keys
                   PROVE  res'[m][k].users \in {{}, res[m][k].users, pass.desired[k]}
        OBVIOUS
      <4>1. res'[m][k] \in {res[m][k], [gen |-> gen[m], users |-> pass.desired[k]], Absent}
        BY <1>12, FailedResources
      <4>2. QED
        BY <4>1 DEF Absent
    <3>2. QED
      BY <1>1, <1>2, <3>1
  <2>4. map' = map
    BY <1>12, FailLeaves DEF packages
  <2>5. QED
    BY <1>3, <2>1, <2>2, <2>3, <2>4
<1>13. CASE EndPass
  BY <1>1, <1>2, <1>3, <1>13, NoPassTyped, StartTyped DEF EndPass
<1>14. ASSUME NEW a \in late, LateApply(a)
       PROVE  ProtocolInv'
  <2>1. \A m \in Modes, k \in Keys :
           res'[m][k] = IF m = "sidecar" /\ k = a.key THEN [gen |-> a.gen, users |-> a.users]
                        ELSE res[m][k]
    BY <1>14, LateApplied
  <2>2. \A m \in Modes, k \in Keys : OneProtocolIn(res'[m][k].users)
    BY <1>1, <2>1
  <2>3. QED
    BY <1>1, <1>3, <1>14, <2>2 DEF LateApply, packages
<1>15. CASE Crash
  <2>1. MapsAgree'
    BY <1>15 DEF Crash, MapsAgree
  <2>2. QED
    BY <1>1, <1>2, <1>15, <2>1, NoPassTyped DEF Crash, ProtocolInv, OneProtocol, OneProtocolIn
<1>16. QED
  BY <1>4, <1>5, <1>6, <1>7, <1>8, <1>9, <1>11, <1>12, <1>13, <1>14, <1>15
     DEF Next, Caller, Pass, vars, Edit, Start, Reject

(* One host and port never carries two protocols in the cluster            *)
(* (OneProtocol).                                                          *)
THEOREM HostsHaveOneProtocol == Spec => []OneProtocol
<1>1. Init => TypeOK /\ ControlInv /\ ProtocolInv
  <2> SUFFICES ASSUME Init
               PROVE  ProtocolInv
    BY InitTyped
  <2>1. QED
    BY NoPassTyped DEF Init, ProtocolInv, MapsAgree, OneProtocol, OneProtocolIn, Absent
<1>2. TypeOK /\ ControlInv /\ ProtocolInv /\ [Next]_vars => (TypeOK /\ ControlInv /\ ProtocolInv)'
  BY StepTyped, StepControl, StepProtocol
<1>3. ProtocolInv => OneProtocol
  BY DEF ProtocolInv
<1>4. QED
  BY <1>1, <1>2, <1>3, PTL DEF Spec

-----------------------------------------------------------------------------
(* What each package has in the maps.                                      *)

LEMMA StepMap == TypeOK /\ ControlInv /\ MapInv /\ [Next]_vars => MapInv'
<1> SUFFICES ASSUME TypeOK, ControlInv, MapInv, [Next]_vars
             PROVE  MapInv'
  OBVIOUS
<1>1. /\ want \in [Pkgs -> Wants] /\ req \in [Pkgs -> Wants] /\ ok \in [Pkgs -> BOOLEAN]
      /\ call \in [Pkgs -> {"none", "sidecarMap", "ambientMap", "perform", "waiting"}]
      /\ map \in [Modes -> [Pkgs -> SUBSET Rules]] /\ used \in UsedRange
  BY PassTyped DEF TypeOK
<1>2. ASSUME UNCHANGED packages, used'.crashes = used.crashes
      PROVE  MapInv'
  BY <1>2 DEF packages, MapInv, Entered, Entry
<1>3. ASSUME NEW p \in Pkgs, NEW w \in Wants, Edit(p, w)
      PROVE  MapInv'
  <2>1. used'.crashes = used.crashes
    BY <1>1, <1>3 DEF Edit, UsedRange
  <2>2. QED
    BY <1>1, <1>3, <2>1 DEF Edit, MapInv, Entered, Entry
<1>4. ASSUME NEW p \in Pkgs, Start(p)
      PROVE  MapInv'
  BY <1>1, <1>4 DEF Start, MapInv, Entered, Entry
<1>5. ASSUME NEW p \in Pkgs, UpdateMap(p)
      PROVE  MapInv'
  <2>1. PICK m \in Modes : /\ m = MapStage(p)
                           /\ call[p] = "sidecarMap" => m = "sidecar"
                           /\ call[p] = "ambientMap" => m = "ambient"
    BY DEF MapStage, Modes
  <2>2. /\ map' = [map EXCEPT ![m][p] = Entry(p, m)] /\ call[p] \in {"sidecarMap", "ambientMap"}
        /\ call' = [call EXCEPT ![p] = IF m = "sidecar" THEN "ambientMap" ELSE "perform"]
        /\ UNCHANGED <<want, due, req, ok, used>>
    BY <1>5, <2>1 DEF UpdateMap
  <2>3. \A n \in Modes, q \in Pkgs : map'[n][q] = IF n = m /\ q = p THEN Entry(p, m) ELSE map[n][q]
    BY <1>1, <2>1, <2>2
  <2>4. \A n \in Modes, q \in Pkgs : Entered(q, n) => Entered(q, n)'
    BY <2>2, <2>3 DEF Entered, Entry
  <2>5. Entered(p, m)'
    BY <2>1, <2>2, <2>3 DEF Entered, Entry
  <2>6. \A q \in Pkgs \ {p} : call'[q] = call[q]
    BY <1>1, <2>2
  <2>7. /\ call'[p] = "ambientMap" => m = "sidecar"
        /\ call'[p] = "perform" => m = "ambient" /\ Entered(p, "sidecar")
        /\ call'[p] \in {"ambientMap", "perform"}
    BY <1>1, <2>1, <2>2 DEF MapInv
  <2>8. Modes = {"sidecar", "ambient"}
    BY DEF Modes
  <2> SUFFICES ASSUME NEW q \in Pkgs
               PROVE  /\ call'[q] = "ambientMap" => Entered(q, "sidecar")'
                      /\ call'[q] \in {"perform", "waiting"} => \A n \in Modes : Entered(q, n)'
                      /\ q \notin due' => req'[q] = want'[q]
                      /\ q \notin due' /\ call'[q] = "none" => \A n \in Modes : Entered(q, n)'
                      /\ used'.crashes = 0 /\ ok'[q] =>
                            req'[q] = want'[q] /\ \A n \in Modes : Entered(q, n)'
    BY DEF MapInv
  <2>9. CASE q = p
    BY <2>2, <2>4, <2>5, <2>7, <2>8, <2>9 DEF MapInv
  <2>10. CASE q # p
    BY <2>2, <2>4, <2>6, <2>8, <2>10 DEF MapInv
  <2>11. QED
    BY <2>9, <2>10
<1>6. ASSUME NEW p \in Pkgs, Reject(p)
      PROVE  MapInv'
  BY <1>1, <1>6 DEF Reject, MapInv, Entered, Entry
<1>7. ASSUME NEW p \in Pkgs, Perform(p)
      PROVE  MapInv'
  BY <1>1, <1>7 DEF Perform, MapInv, Entered, Entry
<1>8. CASE ModeFails
  BY <1>1, <1>2, <1>8, FailLeaves, UsedFails
<1>9. CASE EndPass
  <2>1. UNCHANGED <<want, req, map, used>> /\ due \subseteq due'
    BY <1>9 DEF EndPass
  <2>2. \A q \in Pkgs, n \in Modes : Entered(q, n) => Entered(q, n)'
    BY <2>1 DEF Entered, Entry
  <2>3. \A q \in Pkgs : call'[q] = call[q] \/ (call[q] = "waiting" /\ call'[q] = "none")
    BY <1>9 DEF EndPass, Waiting
  <2>4. \A q \in Pkgs : ok'[q] => ok[q] \/ (call[q] = "waiting" /\ req[q] = want[q])
    BY <1>1, <1>9, Zenon DEF EndPass, Waiting
  <2>5. QED
    BY <2>1, <2>2, <2>3, <2>4 DEF MapInv, Modes
<1>10. CASE Crash
  <2>1. used'.crashes # 0 /\ due' = Pkgs /\ \A p \in Pkgs : call'[p] = "none"
    BY <1>1, <1>10 DEF Crash, UsedRange
  <2>2. QED
    BY <2>1 DEF MapInv
<1>11. CASE UNCHANGED vars
  BY <1>2, <1>11 DEF vars, packages
<1>12. CASE BeginMode
  BY <1>2, <1>12, Begins
<1>13. CASE ApplyWaypoint
  BY <1>2, <1>13, WaypointApplied
<1>14. ASSUME NEW k \in Keys, Apply(k)
       PROVE  MapInv'
  BY <1>2, <1>14, HostApplied
<1>15. CASE Purge
  BY <1>2, <1>15, Purges
<1>16. ASSUME NEW a \in late, LateApply(a)
       PROVE  MapInv'
  BY <1>2, <1>16 DEF LateApply
<1>17. QED
  BY <1>3, <1>4, <1>5, <1>6, <1>7, <1>8, <1>9, <1>10, <1>11, <1>12, <1>13, <1>14, <1>15, <1>16
     DEF Next, Caller, Pass

-----------------------------------------------------------------------------
(* What the pass has applied carries its label.                            *)

LEMMA StepApplied == TypeOK /\ ControlInv /\ AppliedInv /\ [Next]_vars => AppliedInv'
<1> SUFFICES ASSUME TypeOK, ControlInv, AppliedInv, [Next]_vars, ~used'.late, Active'
             PROVE  /\ \A k \in Hosts(pass'.desired) \ pass'.todo :
                          res'[pass'.mode][k] = [gen |-> gen'[pass'.mode], users |-> pass'.desired[k]]
                    /\ pass'.stage = "apply" /\ pass'.mode = "ambient" /\ Hosts(pass'.desired) # {}
                          => waypoint' = gen'.ambient
  BY DEF AppliedInv, Hosts
<1>1. pass \in Passes /\ used \in UsedRange
  BY PassTyped
<1>2. ASSUME UNCHANGED <<pass, res, gen, waypoint>>, used'.late = used.late
      PROVE  /\ \A k \in Hosts(pass'.desired) \ pass'.todo :
                    res'[pass'.mode][k] = [gen |-> gen'[pass'.mode], users |-> pass'.desired[k]]
             /\ pass'.stage = "apply" /\ pass'.mode = "ambient" /\ Hosts(pass'.desired) # {}
                    => waypoint' = gen'.ambient
  BY <1>2 DEF AppliedInv, Active
<1>3. ASSUME NEW p \in Pkgs, Perform(p)
      PROVE  UNCHANGED <<pass, res, gen, waypoint, used>>
  BY <1>3, StartTyped DEF Perform, Active
<1>4. ASSUME NEW p \in Pkgs, NEW w \in Wants, Edit(p, w)
      PROVE  UNCHANGED <<pass, res, gen, waypoint>> /\ used'.late = used.late
  BY <1>1, <1>4 DEF Edit, UsedRange
<1>5. CASE BeginMode
  BY <1>5, Begins
<1>6. CASE ApplyWaypoint
  BY <1>6, WaypointApplied DEF AppliedInv, Active
<1>7. ASSUME NEW k \in Keys, Apply(k)
      PROVE  /\ \A j \in Hosts(pass'.desired) \ pass'.todo :
                    res'[pass'.mode][j] = [gen |-> gen'[pass'.mode], users |-> pass'.desired[j]]
             /\ pass'.stage = "apply" /\ pass'.mode = "ambient" /\ Hosts(pass'.desired) # {}
                    => waypoint' = gen'.ambient
  <2>1. /\ pass.mode \in Modes /\ Active /\ ~used.late /\ pass.stage = "apply"
        /\ pass'.mode = pass.mode /\ pass'.desired = pass.desired /\ pass'.todo = pass.todo \ {k}
        /\ UNCHANGED <<gen, waypoint>>
    BY <1>7, HostApplied DEF Active
  <2>2. \A j \in Keys : res'[pass.mode][j] =
             IF j = k THEN [gen |-> gen[pass.mode], users |-> pass.desired[j]] ELSE res[pass.mode][j]
    BY <1>7, <2>1, HostApplied
  <2>3. QED
    BY <2>1, <2>2 DEF AppliedInv, Hosts
<1>8. ASSUME Purge \/ ModeFails
      PROVE  FALSE
  <2>1. pass.failed \in BOOLEAN /\ TRUE \in BOOLEAN
    BY <1>1 DEF Passes
  <2>2. pass'.stage \in {"begin", "end"}
    BY <1>8, <2>1, Purges, FailLeaves, Moves
  <2>3. QED
    BY <2>2 DEF Active
<1>9. ASSUME EndPass \/ Crash
      PROVE  FALSE
  BY <1>9, NoPassTyped, StartTyped DEF EndPass, Crash, Active
<1>10. ASSUME NEW a \in late, LateApply(a)
       PROVE  FALSE
  BY <1>10 DEF LateApply, ControlInv
<1>11. QED
  BY <1>2, <1>3, <1>4, <1>5, <1>6, <1>7, <1>8, <1>9, <1>10
     DEF Next, Caller, Pass, vars, Start, UpdateMap, Reject

-----------------------------------------------------------------------------
(* Live packages have their egress.                                        *)

(* What a package has in the map of a mode, the merge of that mode has.    *)
LEMMA EnteredIsMerged ==
  ASSUME TypeOK, NEW p \in Pkgs, NEW m \in Modes, Entered(p, m), NEW r \in Entry(p, m)
  PROVE  r.key \in Keys /\ <<p, r.protocol>> \in Merged(m)[r.key]
<1>1. r \in map[m][p] /\ map[m][p] \in SUBSET Rules
  BY DEF Entered, TypeOK
<1>2. r \in Rules /\ r = [key |-> r.key, protocol |-> r.protocol] /\ r.key \in Keys
  BY <1>1 DEF Rules
<1>3. <<p, r.protocol>> \in Users
  BY <1>2 DEF Rules, Users
<1>4. QED
  BY <1>1, <1>2, <1>3 DEF Merged

LEMMA EntryTyped ==
  ASSUME TypeOK, NEW p \in Pkgs, NEW m
  PROVE  \A r \in Entry(p, m) : r.key \in Keys /\ r.protocol \in Protocols
<1>1. req[p] \in Wants
  BY DEF TypeOK
<1>2. req[p].rules \in SUBSET Rules
  BY <1>1, WantsAssumption
<1>3. QED
  BY <1>2 DEF Entry, Rules

(* What the pass applies for a package stays and carries its label.        *)
LEMMA DesiredIsApplied ==
  ASSUME TypeOK, ControlInv, AppliedInv, ~used.late, Active, pass.todo = {},
         NEW p \in Pkgs, InDesired(p)
  PROVE  \A r \in Entry(p, pass.mode) :
            /\ res[pass.mode][r.key].gen = gen[pass.mode]
            /\ <<p, r.protocol>> \in res[pass.mode][r.key].users
<1> SUFFICES ASSUME NEW r \in Entry(p, pass.mode)
             PROVE  /\ res[pass.mode][r.key].gen = gen[pass.mode]
                    /\ <<p, r.protocol>> \in res[pass.mode][r.key].users
  OBVIOUS
<1>1. r.key \in Keys /\ <<p, r.protocol>> \in pass.desired[r.key]
  BY EntryTyped DEF InDesired
<1>2. r.key \in Hosts(pass.desired) \ pass.todo
  BY <1>1 DEF Hosts
<1>3. res[pass.mode][r.key] = [gen |-> gen[pass.mode], users |-> pass.desired[r.key]]
  BY <1>2 DEF AppliedInv
<1>4. QED
  BY <1>1, <1>3

(* A restart and applies left in flight are not forgotten.                 *)
LEMMA UsedStays ==
  ASSUME TypeOK, ControlInv, [Next]_vars
  PROVE  /\ ~used'.late => ~used.late
         /\ used'.crashes = 0 => used.crashes = 0
<1>1. used \in UsedRange
  BY PassTyped
<1>2. ASSUME NEW q \in Pkgs, NEW w \in Wants, Edit(q, w)
      PROVE  used'.late = used.late /\ used'.crashes = used.crashes
  BY <1>1, <1>2 DEF Edit, UsedRange
<1>3. CASE ModeFails
  BY <1>1, <1>3, FailLeaves, UsedFails
<1>4. CASE Crash
  <2>1. used'.late = used.late /\ used'.crashes # 0
    BY <1>1, <1>4 DEF Crash, UsedRange
  <2>2. QED
    BY <2>1
<1>5. QED
  BY <1>2, <1>3, <1>4 DEF Next, Caller, Pass, vars, packages, Start, UpdateMap, Reject, Perform,
     BeginMode, ApplyWaypoint, Apply, Purge, EndPass, LateApply

LEMMA HeldNext ==
  ASSUME req' = req, NEW p \in Pkgs, NEW m,
         \A r \in Entry(p, m) : <<p, r.protocol>> \in res'[m][r.key].users
  PROVE  \A n : n = m => Held(p, n)'
BY DEF Held, Entry

LEMMA StepServed ==
  TypeOK /\ ControlInv /\ MapInv /\ AppliedInv /\ ServedInv /\ [Next]_vars => ServedInv'
<1> SUFFICES ASSUME TypeOK, ControlInv, MapInv, AppliedInv, ServedInv, [Next]_vars, ~used'.late,
                    NEW p \in Pkgs
             PROVE  /\ used'.crashes = 0 /\ ok'[p] => /\ \A m \in Modes : Held(p, m)'
                                                      /\ Active' => InDesired(p)'
                    /\ call'[p] = "waiting" /\ ~dirty' =>
                          /\ Active' => InDesired(p)'
                          /\ ~pass'.failed => \A m \in Modes : Finished(m)' => Held(p, m)'
  BY DEF ServedInv
<1> DEFINE Told == used.crashes = 0 /\ ok[p]
           Counted == call[p] = "waiting" /\ ~dirty
<1>1. /\ pass \in Passes /\ used \in UsedRange /\ ok \in [Pkgs -> BOOLEAN]
      /\ req \in [Pkgs -> Wants]
      /\ call \in [Pkgs -> {"none", "sidecarMap", "ambientMap", "perform", "waiting"}]
  BY PassTyped DEF TypeOK
<1>2. ~used.late
  BY UsedStays
<1>3. /\ Told => (\A m \in Modes : Held(p, m)) /\ (Active => InDesired(p))
      /\ Counted => /\ Active => InDesired(p)
                    /\ ~pass.failed => \A m \in Modes : Finished(m) => Held(p, m)
      /\ Told \/ Counted => \A m \in Modes : Entered(p, m)
  BY <1>2 DEF ServedInv, MapInv
<1>4. Modes = {"sidecar", "ambient"} /\ \A m \in Modes : \A r \in Entry(p, m) : r.key \in Keys
  BY EntryTyped DEF Modes
<1> DEFINE Goal == /\ used'.crashes = 0 /\ ok'[p] => /\ \A m \in Modes : Held(p, m)'
                                                     /\ Active' => InDesired(p)'
                   /\ call'[p] = "waiting" /\ ~dirty' =>
                          /\ Active' => InDesired(p)'
                          /\ ~pass'.failed => \A m \in Modes : Finished(m)' => Held(p, m)'
<1>5. ASSUME UNCHANGED <<pass, res>>, req'[p] = req[p],
             used'.crashes = 0 /\ ok'[p] => Told, call'[p] = "waiting" /\ ~dirty' => Counted
      PROVE  Goal
  <2>1. /\ \A m \in Modes : Held(p, m)' <=> Held(p, m)
        /\ \A m \in Modes : Finished(m)' <=> Finished(m)
        /\ InDesired(p)' <=> InDesired(p)
        /\ Active' <=> Active
    BY <1>5 DEF Held, Entry, Finished, InDesired, Active
  <2>2. QED
    BY <1>3, <1>5, <2>1
<1>6. ASSUME NEW q \in Pkgs, NEW w \in Wants, Edit(q, w)
      PROVE  Goal
  <2>1. used'.crashes = used.crashes
    BY <1>1, <1>6 DEF Edit, UsedRange
  <2>2. QED
    BY <1>1, <1>5, <1>6, <2>1 DEF Edit
<1>7. ASSUME NEW q \in Pkgs, Start(q)
      PROVE  Goal
  <2>1. CASE q # p \/ Told
    <3>1. req'[p] = req[p]
      BY <1>1, <1>7, <2>1 DEF Start, MapInv
    <3>2. QED
      BY <1>1, <1>5, <1>7, <3>1 DEF Start
  <2>2. CASE q = p /\ ~Told
    BY <1>1, <1>7, <2>2 DEF Start
  <2>3. QED
    BY <2>1, <2>2
<1>8. ASSUME NEW q \in Pkgs, UpdateMap(q) \/ Reject(q)
      PROVE  Goal
  <2>1. UNCHANGED <<pass, res, req, ok, used, dirty>> /\ (call'[p] = "waiting" => call[p] = "waiting")
    BY <1>1, <1>8 DEF UpdateMap, Reject
  <2>2. QED
    BY <1>5, <2>1
<1>9. ASSUME NEW q \in Pkgs, Perform(q)
      PROVE  Goal
  <2>1. CASE pass.mode # "none"
    BY <1>5, <1>9, <2>1 DEF Perform
  <2>2. CASE pass.mode = "none"
    <3>1. UNCHANGED <<res, req, ok, used>> /\ pass'.mode = "sidecar" /\ pass'.stage = "begin"
      BY <1>9, <2>2, StartTyped DEF Perform
    <3>2. ~Active' /\ \A m \in Modes : ~Finished(m)' /\ (Held(p, m)' <=> Held(p, m))
      BY <3>1 DEF Active, Finished, Held, Entry
    <3>3. QED
      BY <1>3, <3>1, <3>2
  <2>3. QED
    BY <2>1, <2>2
<1>10. ASSUME BeginMode
       PROVE  Goal
  <2>1. /\ UNCHANGED <<packages, dirty, res, used>> /\ pass.mode \in Modes /\ pass.stage = "begin"
        /\ pass'.mode = pass.mode /\ pass'.failed = pass.failed /\ pass'.desired = Merged(pass.mode)
        /\ pass'.stage # "end"
    BY <1>10, Begins
  <2>2. \A m \in Modes : (Finished(m)' <=> Finished(m)) /\ (Held(p, m)' <=> Held(p, m))
    BY <2>1 DEF Finished, Held, Entry, packages
  <2>3. Entered(p, pass.mode) => InDesired(p)'
    BY <2>1, EnteredIsMerged DEF InDesired, Entry, packages
  <2>4. QED
    BY <1>3, <2>1, <2>2, <2>3 DEF packages
<1>11. ASSUME ApplyWaypoint
       PROVE  Goal
  <2>1. /\ UNCHANGED <<packages, dirty, res, used>> /\ pass.stage = "waypoint" /\ pass'.stage = "apply"
        /\ pass'.mode = pass.mode /\ pass'.failed = pass.failed /\ pass'.desired = pass.desired
    BY <1>11, WaypointApplied
  <2>2. /\ \A m \in Modes : (Finished(m)' <=> Finished(m)) /\ (Held(p, m)' <=> Held(p, m))
        /\ Active /\ (InDesired(p)' <=> InDesired(p))
    BY <2>1 DEF Finished, Held, Entry, packages, InDesired, Active
  <2>3. QED
    BY <1>3, <2>1, <2>2 DEF packages
<1>12. ASSUME NEW k \in Keys, Apply(k)
       PROVE  Goal
  <2>1. /\ UNCHANGED <<packages, dirty, used>> /\ pass.stage = "apply" /\ pass'.stage = "apply"
        /\ pass'.mode = pass.mode /\ pass'.failed = pass.failed /\ pass'.desired = pass.desired
        /\ pass.mode \in Modes
        /\ \A n \in Modes, j \in Keys :
               res'[n][j] = IF n = pass.mode /\ j = k
                            THEN [gen |-> gen[n], users |-> pass.desired[j]] ELSE res[n][j]
    BY <1>12, HostApplied
  <2>2. /\ \A m \in Modes : Finished(m)' <=> Finished(m)
        /\ Active /\ (InDesired(p)' <=> InDesired(p))
    BY <2>1 DEF Finished, Entry, packages, InDesired, Active
  <2>3. \A n \in Modes, j \in Keys :
           res'[n][j].users = IF n = pass.mode /\ j = k THEN pass.desired[j] ELSE res[n][j].users
    BY <1>12, AppliedUsers
  <2>4. \A m \in Modes : m # pass.mode /\ Held(p, m) => Held(p, m)'
    BY <1>4, <2>1, <2>3 DEF Held, Entry, packages
  <2>5. InDesired(p) /\ Held(p, pass.mode) => Held(p, pass.mode)'
    <3> SUFFICES ASSUME InDesired(p), Held(p, pass.mode), NEW r \in Entry(p, pass.mode)
                 PROVE  <<p, r.protocol>> \in res'[pass.mode][r.key].users
      BY <2>1 DEF Held, Entry, packages
    <3>1. QED
      BY <1>4, <2>1, <2>3 DEF Held, InDesired
  <2>6. \A m \in Modes : Finished(m) => m # pass.mode
    BY <2>1 DEF Finished
  <2>7. Told => \A m \in Modes : Held(p, m)'
    BY <1>3, <2>1, <2>2, <2>4, <2>5
  <2>8. QED
    BY <1>3, <2>1, <2>2, <2>4, <2>6, <2>7 DEF packages
<1>13. ASSUME Purge
       PROVE  Goal
  <2>1. /\ UNCHANGED <<packages, dirty, used, gen>> /\ pass.stage = "apply" /\ pass.todo = {}
        /\ pass.mode \in Modes /\ pass'.mode = "ambient" /\ pass'.failed = pass.failed
        /\ pass'.stage = IF pass.mode = "sidecar" THEN "begin" ELSE "end"
    BY <1>1, <1>13, Purges, Moves DEF Passes
  <2>2. \A n \in Modes, j \in Keys :
           n # pass.mode \/ res[n][j].gen = gen[n] => res'[n][j] = res[n][j]
    BY <1>13, Purges
  <2>3. ~Active' /\ Active
    BY <2>1 DEF Active
  <2>4. \A m \in Modes : m # pass.mode /\ Held(p, m) => Held(p, m)'
    BY <1>4, <2>1, <2>2 DEF Held, Entry, packages
  <2> PICK o \in Modes : o = pass.mode
    BY <2>1
  <2>5. InDesired(p) => Held(p, o)'
    <3> SUFFICES ASSUME InDesired(p), NEW r \in Entry(p, o)
                 PROVE  <<p, r.protocol>> \in res'[o][r.key].users
      BY <2>1, HeldNext DEF packages
    <3>1. /\ res[pass.mode][r.key].gen = gen[pass.mode]
          /\ <<p, r.protocol>> \in res[pass.mode][r.key].users
      BY <1>2, <2>1, <2>3, DesiredIsApplied
    <3>2. QED
      BY <1>4, <2>1, <2>2, <3>1
  <2>6. \A m \in Modes : Finished(m)' => m = pass.mode \/ Finished(m)
    BY <1>4, <2>1 DEF Finished
  <2>7. QED
    BY <1>3, <2>1, <2>3, <2>4, <2>5, <2>6 DEF packages
<1>14. ASSUME ModeFails
       PROVE  Goal
  <2>1. /\ UNCHANGED <<packages, dirty, gen>> /\ used'.crashes = used.crashes
        /\ pass.mode \in Modes /\ pass'.failed = TRUE
        /\ pass'.stage \in {"begin", "end"}
    BY <1>1, <1>14, FailLeaves, Moves, UsedFails
  <2>2. ~Active'
    BY <2>1 DEF Active
  <2>3. ASSUME Told, NEW m \in Modes, NEW r \in Entry(p, m)
        PROVE  <<p, r.protocol>> \in res'[m][r.key].users
    <3>1. r.key \in Keys /\ <<p, r.protocol>> \in res[m][r.key].users
      BY <1>3, <1>4, <2>3 DEF Held
    <3>2. CASE res'[m][r.key] = res[m][r.key]
      BY <3>1, <3>2
    <3>3. CASE /\ m = pass.mode /\ pass.stage = "apply" /\ r.key \in pass.todo
               /\ res'[m][r.key] = [gen |-> gen[m], users |-> pass.desired[r.key]]
      <4>1. InDesired(p)
        BY <1>3, <2>3, <3>3 DEF Active
      <4>2. <<p, r.protocol>> \in pass.desired[r.key]
        BY <3>3, <4>1 DEF InDesired
      <4>3. QED
        BY <3>3, <4>2
    <3>4. CASE /\ m = pass.mode /\ pass.stage = "apply" /\ pass.todo = {}
               /\ res[m][r.key].gen # gen[m]
      <4>1. Active /\ InDesired(p)
        BY <1>3, <2>3, <3>4 DEF Active
      <4>2. QED
        BY <1>2, <3>4, <4>1, DesiredIsApplied
    <3>5. QED
      BY <1>14, <3>1, <3>2, <3>3, <3>4, FailedResources
  <2>4. Told => \A m \in Modes : Held(p, m)'
    BY <2>1, <2>3, HeldNext DEF packages
  <2>5. QED
    BY <2>1, <2>2, <2>4 DEF packages
<1>15. ASSUME EndPass
       PROVE  Goal
  <2>1. UNCHANGED <<req, res, used>> /\ pass.stage = "end" /\ ~Active'
    BY <1>15, NoPassTyped, StartTyped DEF EndPass, Active
  <2>2. \A m \in Modes : Held(p, m)' <=> Held(p, m)
    BY <2>1 DEF Held, Entry
  <2>3. call'[p] = "waiting" => pass'.mode = "sidecar" /\ pass'.stage = "begin"
    <3>1. CASE ~pass.failed /\ dirty
      BY <1>15, <3>1, StartTyped DEF EndPass
    <3>2. CASE pass.failed \/ ~dirty
      <4>1. call' = [q \in Pkgs |-> IF q \in Waiting THEN "none" ELSE call[q]]
        BY <1>15, <3>2 DEF EndPass
      <4>2. QED
        BY <4>1 DEF Waiting
    <3>3. QED
      BY <3>1, <3>2
  <2>4. call'[p] = "waiting" => \A m \in Modes : ~Finished(m)'
    BY <2>3 DEF Finished
  <2>5. ok'[p] => ok[p] \/ (Counted /\ ~pass.failed)
    BY <1>1, <1>15, Zenon DEF EndPass, Waiting
  <2>6. \A m \in Modes : Finished(m)
    BY <2>1 DEF Finished
  <2>7. QED
    BY <1>3, <2>1, <2>2, <2>4, <2>5, <2>6
<1>16. ASSUME NEW a \in late, LateApply(a)
       PROVE  Goal
  BY <1>2, <1>16 DEF ControlInv
<1>17. ASSUME Crash
       PROVE  Goal
  <2>1. used'.crashes # 0 /\ call'[p] = "none"
    BY <1>1, <1>17 DEF Crash, UsedRange
  <2>2. QED
    BY <2>1
<1>18. ASSUME UNCHANGED vars
       PROVE  Goal
  BY <1>5, <1>18 DEF vars
<1> HIDE DEF Goal
<1>19. Goal
  BY <1>6, <1>7, <1>8, <1>9, <1>10, <1>11, <1>12, <1>13, <1>14, <1>15, <1>16, <1>17, <1>18
     DEF Next, Caller, Pass
<1>20. QED
  BY <1>19 DEF Goal

(* A package that was told its egress is in place has it                   *)
(* (LivePackagesHaveEgress): whatever the calls, passes and failures that  *)
(* interleave, as long as nothing was restarted and no apply left in       *)
(* flight by a failed pass.                                                *)
THEOREM LivePackagesAreServed == Spec => []LivePackagesHaveEgress
<1> DEFINE Inv == TypeOK /\ ControlInv /\ MapInv /\ AppliedInv /\ ServedInv
<1>1. Init => Inv
  <2> SUFFICES ASSUME Init
               PROVE  MapInv /\ AppliedInv /\ ServedInv
    BY InitTyped
  <2>1. pass.stage = "begin" /\ pass.mode = "none"
    BY NoPassTyped DEF Init
  <2>2. QED
    BY <2>1 DEF Init, MapInv, AppliedInv, ServedInv, Active
<1>2. Inv /\ [Next]_vars => Inv'
  BY StepTyped, StepControl, StepMap, StepApplied, StepServed
<1>3. Inv => LivePackagesHaveEgress
  <2> SUFFICES ASSUME Inv, used.crashes = 0, ~used.late, NEW p \in Pkgs, ok[p],
                      NEW r \in want[p].rules
               PROVE  <<p, r.protocol>> \in res[want[p].mode][r.key].users
    BY DEF LivePackagesHaveEgress, InPlace
  <2>1. req[p] = want[p] /\ want[p] \in Wants /\ want[p].mode \in Modes
    BY WantsAssumption DEF MapInv, TypeOK
  <2>2. Held(p, want[p].mode)
    BY <2>1 DEF ServedInv
  <2>3. QED
    BY <2>1, <2>2 DEF Held, Entry
<1>4. QED
  BY <1>1, <1>2, <1>3, PTL DEF Spec

-----------------------------------------------------------------------------
(* Nothing is left over.                                                   *)

(* Every host of the merge is one that a package asks for in that mode.    *)
LEMMA AskedIsMerged ==
  ASSUME TypeOK, NEW m \in Modes, NEW p \in Pkgs, map[m][p] # {}
  PROVE  \E k \in Keys : Merged(m)[k] # {}
<1>1. PICK r \in map[m][p] : TRUE
  OBVIOUS
<1>2. r \in Rules /\ r = [key |-> r.key, protocol |-> r.protocol] /\ r.key \in Keys
  BY DEF Rules, TypeOK
<1>3. <<p, r.protocol>> \in Merged(m)[r.key]
  BY <1>2 DEF Rules, Users, Merged
<1>4. QED
  BY <1>2, <1>3

(* The purge that ends a mode leaves exactly what was asked for, or labels *)
(* of before a restart.                                                    *)
LEMMA PurgeIsExact ==
  ASSUME TypeOK, ControlInv, AppliedInv, ExactInv, Purge, ~used.late,
         pass.desired = Merged(pass.mode), NEW k \in Keys
  PROVE  \/ res'[pass.mode][k].users = Merged(pass.mode)[k]
         \/ OldLabel(pass.mode, k) /\ res'[pass.mode][k] = res[pass.mode][k]
<1> DEFINE m == pass.mode
<1>1. /\ m \in Modes /\ pass.stage = "apply" /\ pass.todo = {} /\ Active
      /\ \A j \in Keys : j \in Hosts(pass.desired) <=> pass.desired[j] # {}
  BY PassTyped, Purges DEF Active
<1>2. \A j \in Hosts(pass.desired) : res[m][j].gen = gen[m] /\ res[m][j].users = pass.desired[j]
  <2> SUFFICES ASSUME NEW j \in Hosts(pass.desired)
               PROVE  res[m][j].gen = gen[m] /\ res[m][j].users = pass.desired[j]
    OBVIOUS
  <2>1. res[m][j] = [gen |-> gen[m], users |-> pass.desired[j]]
    BY <1>1 DEF AppliedInv
  <2>2. QED
    BY <2>1
<1>3. ~SkipsPurge
  <2> SUFFICES ASSUME SkipsPurge
               PROVE  FALSE
    OBVIOUS
  <2>1. m = "ambient" /\ \E j \in Keys : Merged(m)[j] # {}
    BY <1>1, AskedIsMerged DEF SkipsPurge
  <2>2. PICK j \in Keys : j \in Hosts(pass.desired)
    BY <1>1, <2>1
  <2>3. waypoint = gen.ambient
    BY <1>1, <2>1, <2>2 DEF AppliedInv
  <2>4. res["ambient"][j].gen = gen.ambient
    BY <1>2, <2>1, <2>2
  <2>5. QED
    BY <2>3, <2>4 DEF SkipsPurge
<1>4. res'[m][k] = IF res[m][k].gen # gen[m] THEN Absent ELSE res[m][k]
  BY <1>1, <1>3, Purges
<1>5. CASE k \in Hosts(pass.desired)
  <2>1. res[m][k].gen = gen[m] /\ res[m][k].users = pass.desired[k]
    BY <1>2, <1>5
  <2>2. QED
    BY <1>4, <2>1
<1>6. CASE k \notin Hosts(pass.desired)
  <2>1. Merged(m)[k] = {}
    BY <1>1, <1>6
  <2>2. CASE res[m][k].gen # gen[m]
    BY <1>4, <2>1, <2>2 DEF Absent
  <2>3. CASE res[m][k].gen = gen[m]
    <3>1. used.crashes # 0
      BY <1>1, <1>6, <2>3 DEF ExactInv
    <3>2. used.crashes > 0
      BY <3>1, PassTyped DEF UsedRange
    <3>3. QED
      BY <1>4, <2>1, <2>3, <3>2 DEF OldLabel
  <2>4. QED
    BY <2>2, <2>3
<1>7. QED
  BY <1>5, <1>6

LEMMA StepExact ==
  TypeOK /\ ControlInv /\ AppliedInv /\ ExactInv /\ [Next]_vars => ExactInv'
<1> DEFINE Labels == used.crashes = 0 /\ ~used.late =>
              /\ \A m \in Modes, k \in Keys : res[m][k].gen <= gen[m]
              /\ Active => \A k \in Keys : res[pass.mode][k].gen = gen[pass.mode]
                                              => k \in Hosts(pass.desired) \ pass.todo
           Left == Mapped /\ ~used.late /\ ~dirty /\ ~pass.failed =>
              /\ Active => pass.desired = Merged(pass.mode)
              /\ \A m \in Modes : pass.mode = "none" \/ Finished(m) =>
                    \A k \in Keys : res[m][k].users = Merged(m)[k] \/ OldLabel(m, k)
<1> SUFFICES ASSUME TypeOK, ControlInv, AppliedInv, ExactInv, [Next]_vars
             PROVE  (Mapped' /\ pass'.mode = "none" => ~dirty') /\ Labels' /\ Left'
  BY DEF ExactInv
<1>1. /\ pass \in Passes /\ used \in UsedRange /\ gen \in [Modes -> Nat]
      /\ res \in [Modes -> Resources] /\ due \subseteq Pkgs
      /\ call \in [Pkgs -> {"none", "sidecarMap", "ambientMap", "perform", "waiting"}]
      /\ map \in [Modes -> [Pkgs -> SUBSET Rules]]
  BY PassTyped DEF TypeOK
<1>2. (Mapped /\ pass.mode = "none" => ~dirty) /\ Labels /\ Left
  BY DEF ExactInv
<1>3. /\ ~used'.late => ~used.late
      /\ used'.crashes = 0 => used.crashes = 0
  BY UsedStays
<1> DEFINE Goal == (Mapped' /\ pass'.mode = "none" => ~dirty') /\ Labels' /\ Left'
<1>4. ASSUME UNCHANGED <<res, gen, pass>>, ~Mapped'
      PROVE  Goal
  BY <1>2, <1>3, <1>4 DEF Active, Hosts
<1>5. ASSUME NEW p \in Pkgs, NEW w \in Wants, Edit(p, w)
      PROVE  Goal
  BY <1>4, <1>5 DEF Edit, Mapped
<1>6. ASSUME NEW p \in Pkgs, Start(p) \/ UpdateMap(p) \/ Reject(p)
      PROVE  Goal
  BY <1>1, <1>4, <1>6 DEF Start, UpdateMap, Reject, Mapped
<1>7. ASSUME NEW p \in Pkgs, Perform(p)
      PROVE  Goal
  <2>1. CASE pass.mode # "none"
    <3>1. UNCHANGED <<res, gen, pass, used>> /\ dirty' = TRUE
      BY <1>7, <2>1 DEF Perform
    <3>2. QED
      BY <1>2, <2>1, <3>1 DEF Active, Hosts
  <2>2. CASE pass.mode = "none"
    <3>1. UNCHANGED <<res, gen, used>> /\ pass'.mode = "sidecar" /\ pass'.stage = "begin"
      BY <1>7, <2>2, StartTyped DEF Perform
    <3>2. QED
      BY <1>2, <3>1 DEF Active, Finished
  <2>3. QED
    BY <2>1, <2>2
<1>8. ASSUME BeginMode
      PROVE  Goal
  <2>1. /\ pass.mode \in Modes /\ pass.stage = "begin" /\ pass'.mode = pass.mode
        /\ pass'.failed = pass.failed /\ pass'.desired = Merged(pass.mode) /\ pass'.stage # "end"
        /\ \A m \in Modes : gen'[m] = IF m = pass.mode THEN gen[m] + 1 ELSE gen[m]
        /\ UNCHANGED <<packages, dirty, res, used>>
    BY <1>8, Begins
  <2>2. \A m \in Modes, k \in Keys : res[m][k].gen \in Nat /\ gen[m] \in Nat
    BY <1>1 DEF Resources
  <2>3. pass'.mode # "none"
    BY <2>1 DEF Modes
  <2>4. Labels'
    BY <1>2, <2>1, <2>2
  <2>5. ASSUME NEW m \in Modes, Finished(m)'
        PROVE  Finished(m) /\ gen'[m] = gen[m]
    BY <2>1, <2>5 DEF Finished
  <2>6. (Mapped' <=> Mapped) /\ \A m : Merged(m)' = Merged(m)
    BY <2>1 DEF Mapped, packages, Merged
  <2>7. Left'
    BY <1>2, <2>1, <2>3, <2>5, <2>6 DEF OldLabel
  <2>8. QED
    BY <2>3, <2>4, <2>7
<1>9. ASSUME ApplyWaypoint
      PROVE  Goal
  <2>1. /\ pass.mode = "ambient" /\ pass.stage = "waypoint" /\ pass'.stage = "apply"
        /\ pass'.mode = pass.mode /\ pass'.failed = pass.failed /\ pass'.desired = pass.desired
        /\ pass'.todo = pass.todo
        /\ UNCHANGED <<packages, gen, dirty, res, used>>
    BY <1>9, WaypointApplied
  <2>2. /\ (Mapped' <=> Mapped) /\ \A m : Merged(m)' = Merged(m)
        /\ \A m \in Modes : Finished(m)' => Finished(m)
        /\ Active
    BY <2>1 DEF Mapped, packages, Merged, Finished, Active
  <2>3. Labels'
    BY <1>2, <2>1, <2>2 DEF Hosts
  <2>4. Left'
    BY <1>2, <2>1, <2>2 DEF OldLabel
  <2>5. QED
    BY <2>1, <2>3, <2>4
<1>10. ASSUME NEW k \in Keys, Apply(k)
       PROVE  Goal
  <2>1. /\ pass.mode \in Modes /\ pass.stage = "apply" /\ k \in pass.todo
        /\ pass'.mode = pass.mode /\ pass'.failed = pass.failed
        /\ pass'.desired = pass.desired /\ pass'.todo = pass.todo \ {k} /\ pass'.stage = "apply"
        /\ UNCHANGED <<packages, gen, dirty, used>> /\ pass.mode # "none"
    BY <1>10, HostApplied DEF Modes
  <2>2. \A n \in Modes, j \in Keys :
           (n # pass.mode \/ j # k) => res'[n][j] = res[n][j]
    <3>1. \A n \in Modes, j \in Keys :
            res'[n][j] = IF n = pass.mode /\ j = k
                         THEN [gen |-> gen[n], users |-> pass.desired[j]] ELSE res[n][j]
      BY <1>10, HostApplied
    <3>2. QED
      BY <3>1
  <2>3. res'[pass.mode][k].gen = gen[pass.mode]
    <3> DEFINE v == [gen |-> gen[pass.mode], users |-> pass.desired[k]]
    <3>0. \A n \in Modes, j \in Keys :
            res'[n][j] = IF n = pass.mode /\ j = k
                         THEN [gen |-> gen[n], users |-> pass.desired[j]] ELSE res[n][j]
      BY <1>10, HostApplied
    <3>1. res'[pass.mode][k] = v
      BY <2>1, <3>0
    <3>2. v.gen = gen[pass.mode]
      OBVIOUS
    <3> HIDE DEF v
    <3>3. QED
      BY <3>1, <3>2
  <2>4. /\ (Mapped' <=> Mapped) /\ \A m : Merged(m)' = Merged(m)
        /\ \A m \in Modes : Finished(m)' => Finished(m) /\ m # pass.mode
        /\ Active /\ k \in Hosts(pass.desired)
    BY <2>1 DEF Mapped, packages, Merged, Finished, Active, ControlInv
  <2>5. Labels'
    <3> SUFFICES ASSUME used.crashes = 0, ~used.late
                 PROVE  /\ \A m \in Modes, j \in Keys : res'[m][j].gen <= gen[m]
                        /\ \A j \in Keys : res'[pass.mode][j].gen = gen[pass.mode]
                                              => j \in Hosts(pass.desired) \ pass'.todo
      BY <1>3, <2>1 DEF Hosts
    <3>1. ASSUME NEW m \in Modes, NEW j \in Keys
          PROVE  res'[m][j].gen <= gen[m]
      BY <1>1, <1>2, <2>2, <2>3
    <3>2. ASSUME NEW j \in Keys, res'[pass.mode][j].gen = gen[pass.mode]
          PROVE  j \in Hosts(pass.desired) \ pass'.todo
      <4>1. CASE j = k
        BY <2>1, <2>4, <4>1
      <4>2. CASE j # k
        BY <1>2, <2>1, <2>2, <2>4, <3>2, <4>2
      <4>3. QED
        BY <4>1, <4>2
    <3>3. QED
      BY <3>1, <3>2
  <2>6. Left'
    BY <1>2, <2>1, <2>2, <2>4 DEF OldLabel
  <2>7. QED
    BY <2>1, <2>5, <2>6
<1>11. ASSUME Purge
       PROVE  Goal
  <2>1. /\ UNCHANGED <<packages, dirty, used, gen>> /\ pass.stage = "apply" /\ pass.todo = {}
        /\ pass.mode \in Modes /\ pass'.mode = "ambient" /\ pass'.failed = pass.failed
        /\ pass'.stage = IF pass.mode = "sidecar" THEN "begin" ELSE "end"
    BY <1>1, <1>11, Purges, Moves DEF Passes
  <2>2. /\ (Mapped' <=> Mapped) /\ (\A m : Merged(m)' = Merged(m)) /\ Active /\ ~Active'
        /\ \A m \in Modes : Finished(m)' => m = pass.mode \/ Finished(m)
    BY <2>1 DEF Mapped, packages, Merged, Active, Finished, Modes
  <2>3. \A m \in Modes, k \in Keys :
           res'[m][k] = res[m][k] \/ (m = pass.mode /\ res'[m][k] = Absent)
    BY <1>11, Purges
  <2>4. Labels'
    <3>1. ASSUME NEW m \in Modes, NEW k \in Keys, res[m][k].gen <= gen[m]
          PROVE  res'[m][k].gen <= gen[m]
      BY <1>1, <2>3, <3>1 DEF Absent
    <3>2. QED
      BY <1>2, <2>1, <2>2, <3>1
  <2>5. ASSUME Mapped, ~used.late, ~dirty, ~pass.failed, NEW m \in Modes, Finished(m)', NEW k \in Keys
        PROVE  res'[m][k].users = Merged(m)[k] \/ OldLabel(m, k)'
    <3>1. CASE m = pass.mode
      <4>1. \/ res'[m][k].users = Merged(m)[k]
            \/ OldLabel(m, k) /\ res'[m][k] = res[m][k]
        BY <1>2, <1>11, <2>2, <2>5, <3>1, PurgeIsExact
      <4>2. QED
        BY <2>1, <2>2, <4>1 DEF OldLabel
    <3>2. CASE m # pass.mode
      <4>1. res'[m][k] = res[m][k]
        BY <2>3, <3>2
      <4>2. res[m][k].users = Merged(m)[k] \/ OldLabel(m, k)
        BY <1>2, <2>2, <2>5, <3>2
      <4>3. QED
        BY <2>1, <2>2, <4>1, <4>2 DEF OldLabel
    <3>3. QED
      BY <3>1, <3>2
  <2>6. Left'
    BY <2>1, <2>2, <2>5
  <2>7. QED
    BY <2>1, <2>4, <2>6
<1>12. ASSUME ModeFails
       PROVE  Goal
  <2>1. /\ pass.mode \in Modes /\ pass'.failed = TRUE /\ pass'.mode = "ambient"
        /\ pass'.stage \in {"begin", "end"} /\ gen' = gen
    BY <1>12, FailLeaves, Moves
  <2>2. ~Active'
    BY <2>1 DEF Active
  <2>3. ASSUME NEW m \in Modes, NEW k \in Keys, res[m][k].gen <= gen[m]
        PROVE  res'[m][k].gen <= gen[m]
    <3>1. res'[m][k] \in {res[m][k], [gen |-> gen[m], users |-> pass.desired[k]], Absent}
      BY <1>12, FailedResources
    <3>2. res'[m][k].gen \in {res[m][k].gen, gen[m], 0}
      BY <3>1 DEF Absent
    <3>3. QED
      BY <1>1, <2>3, <3>2
  <2>4. QED
    BY <1>2, <1>3, <2>1, <2>2, <2>3
<1>13. ASSUME EndPass
       PROVE  Goal
  <2>1. UNCHANGED <<map, gen, res, used>> /\ pass.stage = "end" /\ ~Active'
    BY <1>13, NoPassTyped, StartTyped DEF EndPass, Active
  <2>2. Labels'
    BY <1>2, <2>1
  <2>3. CASE pass.failed
    <3>1. PICK p \in Pkgs : call[p] = "waiting"
      BY <2>1, PassTyped DEF ControlInv, Modes
    <3>2. ~Mapped'
      BY <1>13, <2>3, <3>1 DEF EndPass, Mapped, Waiting
    <3>3. QED
      BY <2>2, <3>2
  <2>4. CASE ~pass.failed /\ dirty
    <3>1. pass'.mode = "sidecar" /\ pass'.stage = "begin"
      BY <1>13, <2>4, StartTyped DEF EndPass
    <3>2. QED
      BY <2>1, <2>2, <3>1 DEF Finished
  <2>5. CASE ~pass.failed /\ ~dirty
    <3>1. /\ due' = due /\ dirty' = dirty
          /\ call' = [p \in Pkgs |-> IF p \in Waiting THEN "none" ELSE call[p]]
      BY <1>13, <2>5 DEF EndPass
    <3>2. Mapped' => Mapped
      BY <1>1, <3>1 DEF Mapped, Waiting
    <3>3. (\A m : Merged(m)' = Merged(m)) /\ \A m \in Modes : Finished(m)
      BY <2>1 DEF Merged, Finished
    <3>4. QED
      BY <1>2, <2>1, <2>2, <2>5, <3>1, <3>2, <3>3 DEF OldLabel
  <2>6. QED
    BY <2>3, <2>4, <2>5
<1>14. ASSUME NEW a \in late, LateApply(a)
       PROVE  Goal
  <2>1. used' = used /\ used.late /\ UNCHANGED <<packages, pass, dirty>>
    BY <1>14 DEF LateApply, ControlInv
  <2>2. QED
    BY <1>2, <2>1 DEF Mapped, packages
<1>15. ASSUME Crash
       PROVE  Goal
  <2>1. used'.crashes # 0
    BY <1>1, <1>15 DEF Crash, UsedRange
  <2>2. /\ res' = res /\ dirty' = FALSE /\ due' = Pkgs
        /\ pass'.mode = "none" /\ pass'.stage = "begin"
    BY <1>15, NoPassTyped DEF Crash
  <2>3. ASSUME Mapped', NEW m \in Modes, NEW k \in Keys
        PROVE  res'[m][k].users = Merged(m)'[k]
    <3>1. Users = {}
      BY <2>2, <2>3 DEF Mapped, Users
    <3>2. res[m][k].users \in SUBSET Users
      BY <1>1 DEF Resources
    <3>3. Merged(m)'[k] \in SUBSET Users
      BY DEF Merged
    <3>4. QED
      BY <2>2, <3>1, <3>2, <3>3
  <2>4. QED
    BY <2>1, <2>2, <2>3 DEF Active
<1>16. ASSUME UNCHANGED vars
       PROVE  Goal
  <2>1. /\ (Mapped' <=> Mapped) /\ (\A m : Merged(m)' = Merged(m)) /\ (Active' <=> Active)
        /\ \A m : Finished(m)' <=> Finished(m)
        /\ UNCHANGED <<res, gen, pass, used, dirty>>
    BY <1>16 DEF vars, Mapped, Merged, Active, Finished
  <2>2. QED
    BY <1>2, <2>1 DEF OldLabel, Hosts
<1> HIDE DEF Goal
<1>17. Goal
  BY <1>5, <1>6, <1>7, <1>8, <1>9, <1>10, <1>11, <1>12, <1>13, <1>14, <1>15, <1>16
     DEF Next, Caller, Pass
<1>18. QED
  BY <1>17 DEF Goal

(* When nothing is in progress the cluster holds what the packages ask for *)
(* and nothing else, but for what a restart has revived (NothingLeftOver). *)
THEOREM NothingIsLeftOver == Spec => []NothingLeftOver
<1> DEFINE Inv == TypeOK /\ ControlInv /\ MapInv /\ AppliedInv /\ ExactInv
<1>1. Init => Inv
  <2> SUFFICES ASSUME Init
               PROVE  MapInv /\ AppliedInv /\ ExactInv
    BY InitTyped
  <2>1. pass.stage = "begin" /\ pass.mode = "none"
    BY NoPassTyped DEF Init
  <2>2. \A m \in Modes, k \in Keys : /\ res[m][k] = Absent /\ gen[m] = 0 /\ Merged(m)[k] = {}
    BY DEF Init, Merged, Users
  <2>3. \A m \in Modes, k \in Keys : /\ res[m][k].gen <= gen[m] /\ res[m][k].users = Merged(m)[k]
    BY <2>2 DEF Absent
  <2>4. QED
    BY <2>1, <2>3 DEF Init, MapInv, AppliedInv, ExactInv, Active
<1>2. Inv /\ [Next]_vars => Inv'
  BY StepTyped, StepControl, StepMap, StepApplied, StepExact
<1>3. Inv => NothingLeftOver
  <2> SUFFICES ASSUME Inv, \A p \in Pkgs : call[p] = "none", due = {}, pass = NoPass, ~used.late,
                      NEW m \in Modes, NEW k \in Keys
               PROVE  res[m][k].users = Asked(m, k) \/ Revived(m, k)
    BY DEF NothingLeftOver, Exact
  <2>1. \A p \in Pkgs : Entered(p, m) /\ req[p] = want[p]
    BY DEF MapInv
  <2>2. \A p \in Pkgs : \A x : x \in map[m][p] <=> want[p].mode = m /\ x \in want[p].rules
    BY <2>1 DEF Entered, Entry
  <2>3. Merged(m)[k] = Asked(m, k)
    BY <2>2 DEF Merged, Asked, Users
  <2>4. ~dirty /\ ~pass.failed /\ pass.mode = "none" /\ Mapped
    BY NoPassTyped DEF ExactInv, Mapped
  <2>5. res[m][k].users = Merged(m)[k] \/ OldLabel(m, k)
    BY <2>4 DEF ExactInv
  <2>6. QED
    BY <2>3, <2>5 DEF OldLabel, Revived
<1>4. QED
  BY <1>1, <1>2, <1>3, PTL DEF Spec

-----------------------------------------------------------------------------
(* PeerRefresh: what holds of the handlers of the API server's objects      *)
(* while none overlapped and no request failed.                            *)

Settled == queue["service"] = <<>> /\ queue["slice"] = <<>>

(* The addresses of one of the two objects, and of both.                   *)
Own(h)  == IF h = "slice" THEN slice ELSE {service}
Current == slice \cup {service}

Looking(h) == task[h].at \in {"fetch", "update"}
Alone == \A g, h \in ApiHandler : g = h \/ task[g] = Idle \/ task[h] = Idle

(* The last snapshot of an object is the object as it is, in the queue and  *)
(* in the handler that took it; what a handler found is current unless     *)
(* another change waits; what it refreshes with is the cache.              *)
HandlerInv(h) ==
    /\ queue[h] # <<>> => queue[h][Len(queue[h])] = Own(h)
    /\ task[h].at = "fetch" /\ queue[h] = <<>> => task[h].peers = Own(h)
    /\ task[h].at = "update" /\ Settled => task[h].peers = Current
    /\ task[h].at # "idle" /\ ~Looking(h) => task[h].peers = apiServerPeers

CacheInv == Settled /\ (\A h \in ApiHandler : ~Looking(h)) => apiServerPeers = Current

PolicyInv ==
    policy["np"] # None =>
      \/ policy["np"].peers = apiServerPeers
      \/ \E h \in ApiHandler : task[h].at \in {"np list", "np apply"}

NodesIdle   == source = "api" => \A n \in Node : queue[n] = <<>> /\ task[n] = Idle
Undisturbed == source = "api" /\ ~overlapped /\ ~failed /\ StaticApiCIDR = None
ApiFacts    == Alone /\ (\A h \in ApiHandler : HandlerInv(h)) /\ CacheInv /\ PolicyInv
ApiInv      == NodesIdle /\ (Undisturbed => ApiFacts)

(* What the package has placed so far of its present generation.           *)
Placed(k) == policy[k] # None /\ policy[k].gen = pkg.gen

PlaceInv ==
    ~overwritten =>
      /\ pkg.at = "idle" /\ pkg.gen > 0 => Placed("np") /\ Placed("ap")
      /\ pkg.at \in {"np purge", "ap apply", "ap purge"} => Placed("np")
      /\ pkg.at = "ap purge" => Placed("ap")

-----------------------------------------------------------------------------
(* The types of PeerRefresh, part by part.                                 *)

TaskState == [at : At, peers : SUBSET Address, copy : Generated \cup {None}]

(* What the assumptions say of addresses, policies and handlers.           *)
LEMMA PeersFacts ==
  /\ None \notin IP /\ None \notin Generated /\ IP \subseteq Address
  /\ slice \in SUBSET IP => Endpoints \in SUBSET Address
  /\ \A s \in SUBSET IP : s \in SUBSET Address
  /\ \A n \in Node : n \notin ApiHandler
<1>1. Generated \subseteq [gen : Nat, peers : SUBSET (IP \cup {Anywhere, StaticApiCIDR})]
  BY DEF Generated, Address
<1>2. QED
  BY <1>1, PeersAssumption DEF Address, Endpoints, ApiHandler

ClusterTyped ==
  /\ source \in Source /\ crd \in BOOLEAN /\ changes \in Nat
  /\ failed \in BOOLEAN /\ overwritten \in BOOLEAN /\ overlapped \in BOOLEAN
  /\ nodes \in [Node -> IP \cup {None}] /\ service \in IP /\ slice \in SUBSET IP

MemoryTyped ==
  /\ nodeSet \in SUBSET IP /\ nodeNameToIP \in [Node -> IP \cup {None}]
  /\ apiServerPeers \in (SUBSET Address) \ {{}} /\ crdSeen \in BOOLEAN

EventsOf(h) == IF h \in Node THEN NodeEvent ELSE IF h = "service" THEN (SUBSET IP) \ {{}} ELSE SUBSET IP
QueueTyped == DOMAIN queue = Handler /\ \A h \in Handler : queue[h] \in Seq(EventsOf(h))

TaskOK(h, t) ==
  /\ t \in TaskState
  /\ t.at = "idle" => t = Idle
  /\ t.at = "update" \/ (t.at = "fetch" /\ h = "service") => t.peers # {}
  /\ (t.copy # None) <=> (t.at \in {"np apply", "ap apply"})
  /\ t.copy # None => t.copy.gen \in 1..pkg.gen
  /\ t.at \in {"fetch", "update"} => h \notin Node

TasksTyped == task \in [Handler -> TaskState] /\ \A h \in Handler : TaskOK(h, task[h])

PoliciesTyped ==
  /\ policy \in [Kind -> Generated \cup {None}]
  /\ \A k \in Kind : policy[k] = None \/ policy[k].gen \in 1..pkg.gen
  /\ pkg \in [at : PkgAt, gen : Nat, peers : SUBSET Address]
  /\ pkg.at # "idle" => pkg.gen > 0

Typed == ClusterTyped /\ MemoryTyped /\ QueueTyped /\ TasksTyped /\ PoliciesTyped

(* Appending to a sequence, its head and its tail.                        *)
LEMMA SeqFacts ==
  ASSUME NEW S, NEW s \in Seq(S), NEW e \in S
  PROVE  /\ Append(s, e) \in Seq(S) /\ <<e>> \in Seq(S) /\ <<>> \in Seq(S)
         /\ s # <<>> => Head(s) \in S /\ Tail(s) \in Seq(S)
OBVIOUS

(* A step of one handler's queue, and of its task.                         *)
LEMMA QueueStep ==
  ASSUME QueueTyped, NEW h \in Handler, NEW q \in Seq(EventsOf(h)), queue' = [queue EXCEPT ![h] = q]
  PROVE  QueueTyped'
BY DEF QueueTyped, EventsOf

(* A later generation of the package does not make a task ill-typed.       *)
LEMMA TasksKept == ASSUME TasksTyped, UNCHANGED task, pkg'.gen >= pkg.gen, pkg.gen \in Nat, pkg'.gen \in Nat
  PROVE  TasksTyped'
<1>1. \A h \in Handler : TaskOK(h, task[h])
  BY DEF TasksTyped
<1>2. ASSUME NEW h \in Handler PROVE TaskOK(h, task[h])'
  <2>1. TaskOK(h, task[h])
    BY <1>1
  <2>2. task[h].copy # None => task[h].copy.gen \in 1..pkg'.gen
    <3>1. \A g \in 1..pkg.gen : g \in 1..pkg'.gen
      OBVIOUS
    <3>2. QED
      BY <2>1, <3>1, Zenon DEF TaskOK
  <2>3. task'[h] = task[h]
    OBVIOUS
  <2>4. QED
    BY <2>1, <2>2, <2>3, Zenon DEF TaskOK
<1>3. QED
  BY <1>2 DEF TasksTyped

LEMMA TaskStep ==
  ASSUME TasksTyped, UNCHANGED pkg, NEW h \in Handler, NEW t, TaskOK(h, t), task' = [task EXCEPT ![h] = t]
  PROVE  TasksTyped'
<1>1. task' \in [Handler -> TaskState]
  BY DEF TasksTyped, TaskOK
<1>2. \A g \in Handler : task'[g] = IF g = h THEN t ELSE task[g]
  BY DEF TasksTyped
<1>3. ASSUME NEW g \in Handler PROVE TaskOK(g, task'[g])
  BY <1>2 DEF TasksTyped
<1>4. ASSUME NEW g \in Handler PROVE TaskOK(g, task[g])'
  BY <1>3 DEF TaskOK
<1>5. QED
  BY <1>1, <1>4 DEF TasksTyped

(* What EXCEPT makes of a task, and of a policy.                           *)
LEMMA MovesTask ==
  ASSUME NEW r \in TaskState, NEW at
  PROVE  [r EXCEPT !.at = at] = [at |-> at, peers |-> r.peers, copy |-> r.copy]
BY DEF TaskState

LEMMA MovesWithPeers ==
  ASSUME NEW r \in TaskState, NEW at, NEW peers
  PROVE  [r EXCEPT !.at = at, !.peers = peers] = [at |-> at, peers |-> peers, copy |-> r.copy]
<1>1. PICK s : s = [at |-> at, peers |-> r.peers, copy |-> r.copy]
  OBVIOUS
<1>2. [r EXCEPT !.at = at] = s
  BY <1>1, MovesTask
<1>3. [r EXCEPT !.at = at, !.peers = peers] = [[r EXCEPT !.at = at] EXCEPT !.peers = peers]
  OBVIOUS
<1>4. [s EXCEPT !.peers = peers] = [at |-> at, peers |-> peers, copy |-> r.copy]
  BY <1>1
<1>5. QED
  BY <1>2, <1>3, <1>4

LEMMA MovesWithCopy ==
  ASSUME NEW r \in TaskState, NEW at, NEW copy
  PROVE  [r EXCEPT !.at = at, !.copy = copy] = [at |-> at, peers |-> r.peers, copy |-> copy]
<1>1. PICK s : s = [at |-> at, peers |-> r.peers, copy |-> r.copy]
  OBVIOUS
<1>2. [r EXCEPT !.at = at] = s
  BY <1>1, MovesTask
<1>3. [r EXCEPT !.at = at, !.copy = copy] = [[r EXCEPT !.at = at] EXCEPT !.copy = copy]
  OBVIOUS
<1>4. [s EXCEPT !.copy = copy] = [at |-> at, peers |-> r.peers, copy |-> copy]
  BY <1>1
<1>5. QED
  BY <1>2, <1>3, <1>4

LEMMA PolicyUpdate ==
  ASSUME NEW c \in Generated, NEW peers
  PROVE  [c EXCEPT !.peers = peers] = [gen |-> c.gen, peers |-> peers]
BY DEF Generated

(* The stages of the two kinds.                                            *)
LEMMA Stages ==
  /\ ApplyStage["np"] = "np apply" /\ ApplyStage["ap"] = "ap apply"
  /\ PurgeStage["np"] = "np purge" /\ PurgeStage["ap"] = "ap purge"
  /\ \A k \in Kind : k = "np" \/ k = "ap"
BY DEF ApplyStage, PurgeStage, Kind

(* A handler may end at any stage.                                        *)
LEMMA IdleOK == ASSUME NEW h PROVE TaskOK(h, Idle) /\ TaskOK(h, Idle)'
BY DEF TaskOK, TaskState, Idle, At

-----------------------------------------------------------------------------
(* The parts together are the type invariant.                             *)
LEMMA TypedIsTypeOK == Typed => PeersTypeOK
<1>1. QueueTyped <=> /\ DOMAIN queue = Handler
                     /\ \A n \in Node : queue[n] \in Seq(NodeEvent)
                     /\ queue["service"] \in Seq((SUBSET IP) \ {{}}) /\ queue["slice"] \in Seq(SUBSET IP)
  BY PeersFacts DEF QueueTyped, EventsOf, Handler, ApiHandler
<1>2. TasksTyped =>  /\ task \in [Handler -> TaskState]
                     /\ \A h \in Handler :
                          /\ task[h].at = "idle" => task[h] = Idle
                          /\ task[h].at = "update" \/ (task[h].at = "fetch" /\ h = "service") => task[h].peers # {}
                          /\ (task[h].copy # None) <=> (task[h].at \in {"np apply", "ap apply"})
                          /\ task[h].at \in {"fetch", "update"} => h \notin Node
  BY DEF TasksTyped, TaskOK
<1>3. QED
  BY <1>1, <1>2 DEF Typed, PeersTypeOK, ClusterTyped, MemoryTyped, PoliciesTyped, TaskState

(* The initial states.                                                    *)
LEMMA PeersInitTyped == PeersInit => Typed
<1> SUFFICES ASSUME PeersInit PROVE Typed
  OBVIOUS
<1>1. ClusterTyped
  BY PeersAssumption DEF PeersInit, ClusterTyped
<1>2. MemoryTyped
  <2>1. Endpoints \cup {service} \in (SUBSET Address) \ {{}}
    <3>1. slice \in SUBSET IP /\ service \in IP
      BY PeersAssumption DEF PeersInit
    <3>2. Endpoints \in SUBSET Address /\ service \in Address
      BY <3>1, PeersFacts, Zenon
    <3>3. QED
      BY <3>2
  <2>2. QED
    BY <2>1, PeersAssumption DEF PeersInit, MemoryTyped
<1>3. QueueTyped
  BY DEF PeersInit, QueueTyped
<1>4. TasksTyped
  BY IdleOK DEF PeersInit, TasksTyped, TaskOK
<1>5. PoliciesTyped
  BY DEF PeersInit, NoPackage, PkgAt, PoliciesTyped
<1>6. QED
  BY <1>1, <1>2, <1>3, <1>4, <1>5 DEF Typed

(* The generation of the package.                                         *)
LEMMA PkgTyped == Typed => pkg.gen \in Nat /\ pkg.gen >= pkg.gen
BY DEF Typed, PoliciesTyped

(* Changes of the cluster.                                                *)
LEMMA ClusterStepTyped ==
  ASSUME Typed,
         \/ \E n \in Node : Heartbeat(n) \/ \E ip \in IP \cup {None} : ChangeNode(n, ip)
         \/ \E ip \in IP : ChangeService(ip)
         \/ \E ips \in (SUBSET IP) \ {{}} : ChangeSlice(ips)
         \/ InstallCRD
  PROVE  Typed'
<1> USE DEF Typed
<1>1. ASSUME NEW n \in Node, Heartbeat(n) PROVE Typed'
  <2>1. [deleted |-> FALSE, ip |-> nodes[n]] \in NodeEvent
    BY <1>1 DEF Heartbeat, NodeEvent, ClusterTyped
  <2>2. QueueTyped'
    <3>1. <<[deleted |-> FALSE, ip |-> nodes[n]]>> \in Seq(EventsOf(n))
      BY <2>1 DEF EventsOf
    <3>2. queue' = [queue EXCEPT ![n] = <<[deleted |-> FALSE, ip |-> nodes[n]]>>] /\ n \in Handler
      BY <1>1 DEF Heartbeat, Handler
    <3>3. QED
      BY <3>1, <3>2, QueueStep
  <2>3. QED
    BY <1>1, <2>2, PkgTyped, TasksKept DEF Heartbeat, ClusterTyped, MemoryTyped, PoliciesTyped, cluster, memory, history
<1>2. ASSUME NEW n \in Node, NEW ip \in IP \cup {None}, ChangeNode(n, ip) PROVE Typed'
  <2> DEFINE e == IF ip = None THEN [deleted |-> TRUE, ip |-> nodes[n]] ELSE [deleted |-> FALSE, ip |-> ip]
  <2>1. e \in NodeEvent
    BY <1>2 DEF ChangeNode, NodeEvent, ClusterTyped
  <2>2. Append(queue[n], e) \in Seq(NodeEvent)
    BY <2>1, SeqFacts DEF QueueTyped, EventsOf, Handler
  <2>3. queue' = [queue EXCEPT ![n] = Append(queue[n], e)]
    BY <1>2 DEF ChangeNode
  <2>4. QueueTyped'
    BY <2>2, <2>3, QueueStep DEF EventsOf, Handler
  <2>5. ClusterTyped'
    BY <1>2 DEF ChangeNode, ClusterTyped, history
  <2>6. QED
    BY <1>2, <2>4, <2>5, PkgTyped, TasksKept DEF ChangeNode, MemoryTyped, PoliciesTyped, memory
<1>3. ASSUME NEW ip \in IP, ChangeService(ip) PROVE Typed'
  <2>1. Append(queue["service"], {ip}) \in Seq(EventsOf("service"))
    <3>1. queue["service"] \in Seq(EventsOf("service")) /\ EventsOf("service") = (SUBSET IP) \ {{}}
      BY PeersFacts DEF QueueTyped, EventsOf, Handler, ApiHandler
    <3>2. {ip} \in EventsOf("service")
      BY <3>1
    <3>3. QED
      BY <3>1, <3>2, SeqFacts
  <2>2. QueueTyped'
    BY <1>3, <2>1, QueueStep DEF ChangeService, Handler, ApiHandler
  <2>3. ClusterTyped'
    BY <1>3 DEF ChangeService, ClusterTyped, history
  <2>4. QED
    BY <1>3, <2>2, <2>3, PkgTyped, TasksKept DEF ChangeService, MemoryTyped, PoliciesTyped, memory
<1>4. ASSUME NEW ips \in (SUBSET IP) \ {{}}, ChangeSlice(ips) PROVE Typed'
  <2>1. Append(queue["slice"], ips) \in Seq(EventsOf("slice"))
    BY SeqFacts, PeersFacts DEF QueueTyped, EventsOf, Handler, ApiHandler
  <2>2. QueueTyped'
    BY <1>4, <2>1, QueueStep DEF ChangeSlice, Handler, ApiHandler
  <2>3. ClusterTyped'
    BY <1>4 DEF ChangeSlice, ClusterTyped, history
  <2>4. QED
    BY <1>4, <2>2, <2>3, PkgTyped, TasksKept DEF ChangeSlice, MemoryTyped, PoliciesTyped, memory
<1>5. CASE InstallCRD
  BY <1>5, PkgTyped, TasksKept DEF InstallCRD, ClusterTyped, MemoryTyped, QueueTyped, PoliciesTyped, cluster, memory, history
<1>6. QED
  BY <1>1, <1>2, <1>3, <1>4, <1>5

(* A handler takes a snapshot of its node.                                *)
LEMMA StartNodeTyped ==
  ASSUME Typed, NEW n \in Node, StartNode(n)
  PROVE  Typed'
<1> USE DEF Typed
<1>1. queue[n] \in Seq(NodeEvent) /\ queue[n] # <<>> /\ n \in Handler /\ EventsOf(n) = NodeEvent
  BY DEF QueueTyped, StartNode, EventsOf, Handler
<1>2. PICK e \in NodeEvent : e = Head(queue[n])
  BY <1>1, SeqFacts
<1>3. Tail(queue[n]) \in Seq(NodeEvent)
  BY <1>1, <1>2, SeqFacts
<1>4. MemoryTyped'
  BY <1>2 DEF MemoryTyped, StartNode, WithAddress, NodeEvent
<1>5. TaskOK(n, [at |-> "np list", peers |-> nodeSet', copy |-> None])
  BY <1>4, PeersFacts DEF TaskOK, TaskState, At, MemoryTyped
<1>6. TasksTyped'
  BY <1>1, <1>5, TaskStep DEF StartNode
<1>7. QueueTyped'
  BY <1>1, <1>3, QueueStep DEF StartNode
<1>8. QED
  BY <1>4, <1>6, <1>7 DEF StartNode, ClusterTyped, PoliciesTyped, cluster, history

(* A handler takes a snapshot of its object.                              *)
LEMMA StartApiTyped ==
  ASSUME Typed, NEW h \in ApiHandler, StartApi(h)
  PROVE  Typed'
<1> USE DEF Typed
<1>1. h \in Handler /\ h \notin Node /\ queue[h] \in Seq(EventsOf(h)) /\ queue[h] # <<>>
  BY PeersFacts DEF QueueTyped, StartApi, Handler
<1>2. PICK e \in EventsOf(h) : e = Head(queue[h])
  BY <1>1, SeqFacts
<1>3. Tail(queue[h]) \in Seq(EventsOf(h))
  BY <1>1, <1>2, SeqFacts
<1>4. e \in SUBSET Address /\ (h = "service" => e # {})
  <2>1. e \in SUBSET IP
    BY <1>1, <1>2 DEF EventsOf
  <2>2. QED
    BY <1>1, <1>2, <2>1, PeersFacts DEF EventsOf
<1>5. TaskOK(h, [at |-> "fetch", peers |-> e, copy |-> None])
  BY <1>1, <1>4 DEF TaskOK, TaskState, At
<1>6. TasksTyped'
  BY <1>1, <1>2, <1>5, TaskStep DEF StartApi
<1>7. QueueTyped'
  BY <1>1, <1>3, QueueStep DEF StartApi
<1>8. overlapped' \in BOOLEAN
  BY DEF StartApi, ClusterTyped
<1>9. QED
  BY <1>6, <1>7, <1>8 DEF StartApi, ClusterTyped, MemoryTyped, PoliciesTyped, cluster, memory

(* What the steps of a handler leave alone, as far as types go.            *)
LEMMA HandlerStepTyped ==
  ASSUME Typed, NEW h \in Handler, NEW t, TaskOK(h, t), task' = [task EXCEPT ![h] = t],
         UNCHANGED <<cluster, queue, crd, pkg>>, changes' \in Nat,
         failed' \in BOOLEAN, overwritten' \in BOOLEAN, overlapped' \in BOOLEAN,
         MemoryTyped', PoliciesTyped'
  PROVE  Typed'
<1>1. TasksTyped'
  BY TaskStep DEF Typed
<1>2. QED
  BY <1>1 DEF Typed, ClusterTyped, QueueTyped, cluster

(* The typed parts a step does not touch.                                  *)
LEMMA Unread == ASSUME Typed PROVE (UNCHANGED <<policy, pkg>> => PoliciesTyped') /\ (UNCHANGED memory => MemoryTyped')
BY DEF Typed, PoliciesTyped, MemoryTyped, memory

(* It looks the other object up.                                          *)
LEMMA FetchTyped ==
  ASSUME Typed, NEW h \in ApiHandler, Fetch(h)
  PROVE  Typed'
<1>1. h \in Handler /\ TaskOK(h, task[h]) /\ h \notin Node
  BY PeersFacts DEF Typed, TasksTyped, Handler
<1> DEFINE found == IF h = "slice" THEN {service} ELSE Endpoints
           t == [task[h] EXCEPT !.at = "update", !.peers = task[h].peers \cup found]
<1>2. found \in SUBSET Address /\ (h = "slice" => found # {})
  BY PeersFacts DEF Typed, ClusterTyped
<1>3. task[h].peers \in SUBSET Address /\ task[h].peers \cup found # {} /\ task[h].copy = None
  BY <1>1, <1>2 DEF Fetch, TaskOK, TaskState, ApiHandler
<1>4. t = [at |-> "update", peers |-> task[h].peers \cup found, copy |-> None]
  <2>1. task[h] \in TaskState
    BY <1>1 DEF TaskOK
  <2> HIDE DEF found
  <2>2. PICK r \in TaskState : r = task[h]
    BY <2>1
  <2>6. PICK peers : peers = task[h].peers \cup found
    OBVIOUS
  <2>3. [r EXCEPT !.at = "update", !.peers = peers] = [at |-> "update", peers |-> peers, copy |-> r.copy]
    BY MovesWithPeers
  <2>4. t = [at |-> "update", peers |-> task[h].peers \cup found, copy |-> task[h].copy]
    BY <2>2, <2>3, <2>6
  <2>5. QED
    BY <1>3, <2>4
<1>5. TaskOK(h, t)
  <2>1. task[h].peers \cup found \in SUBSET Address
    BY <1>2, <1>3
  <2>2. task[h].peers \cup found # {} /\ h \notin Node
    BY <1>1, <1>3
  <2> HIDE DEF found, t
  <2>3. PICK peers \in SUBSET Address : peers = task[h].peers \cup found /\ peers # {}
    BY <2>1, <2>2
  <2>4. t = [at |-> "update", peers |-> peers, copy |-> None]
    BY <1>4, <2>3
  <2>5. QED
    BY <2>2, <2>3, <2>4 DEF TaskOK, TaskState, At
<1>6. task' = [task EXCEPT ![h] = t]
  <2>1. task' = [task EXCEPT ![h] = [task[h] EXCEPT !.at = "update",
                    !.peers = @ \cup (IF h = "slice" THEN {service} ELSE Endpoints)]]
    BY Zenon DEF Fetch
  <2>2. QED
    BY <2>1, Zenon
<1> HIDE DEF t
<1>7. QED
  BY <1>1, <1>5, <1>6, HandlerStepTyped, Unread DEF Fetch, history, Typed, ClusterTyped

(* It replaces the cache.                                                 *)
LEMMA UpdateTyped ==
  ASSUME Typed, NEW h \in ApiHandler, UpdateAPIServerCIDR(h)
  PROVE  Typed'
<1>1. h \in Handler /\ TaskOK(h, task[h]) /\ h \notin Node
  BY PeersFacts DEF Typed, TasksTyped, Handler
<1> DEFINE t == [task[h] EXCEPT !.at = "np list"]
<1>2. task[h].peers \in (SUBSET Address) \ {{}} /\ task[h].copy = None
  BY <1>1 DEF UpdateAPIServerCIDR, TaskOK, TaskState
<1>3. t = [at |-> "np list", peers |-> task[h].peers, copy |-> None]
  BY <1>1, <1>2, MovesTask DEF TaskOK
<1>4. TaskOK(h, t)
  <2> HIDE DEF t
  <2>1. PICK peers \in SUBSET Address : peers = task[h].peers /\ peers # {}
    BY <1>2
  <2>2. t = [at |-> "np list", peers |-> peers, copy |-> None]
    BY <1>3, <2>1
  <2>3. QED
    BY <1>1, <2>1, <2>2 DEF TaskOK, TaskState, At
<1>5. task' = [task EXCEPT ![h] = t]
  BY DEF UpdateAPIServerCIDR, Goto
<1>6. MemoryTyped'
  BY <1>2 DEF UpdateAPIServerCIDR, MemoryTyped, Typed
<1> HIDE DEF t
<1>7. QED
  BY <1>1, <1>4, <1>5, <1>6, HandlerStepTyped, Unread DEF UpdateAPIServerCIDR, history, Typed, ClusterTyped

(* It turns to the authorization policies.                                *)
LEMMA TurnToApOK ==
  ASSUME Typed, NEW h \in Handler
  PROVE  TaskOK(h, TurnToAp(h))
<1>1. nodeSet \in SUBSET Address /\ task[h].peers \in SUBSET Address
  BY PeersFacts DEF Typed, MemoryTyped, TasksTyped, TaskState
<1>2. QED
  BY <1>1, PeersFacts DEF TurnToAp, TaskOK, TaskState, At

(* A listing ends in the next task or in one that holds the listed policy. *)
LEMMA ListedOK ==
  ASSUME Typed, NEW h \in Handler, NEW k \in Kind, NEW next, TaskOK(h, next)
  PROVE  \E t : /\ TaskOK(h, t) /\ Listed(h, k, next) = [task EXCEPT ![h] = t]
                /\ \/ /\ policy[k] # None /\ policy[k].peers # task[h].peers
                      /\ t = [at |-> ApplyStage[k], peers |-> task[h].peers, copy |-> policy[k]]
                   \/ /\ policy[k] = None \/ policy[k].peers = task[h].peers
                      /\ t = next
<1> DEFINE p == policy[k]
           stale == p # None /\ p.peers # task[h].peers
           t == [task[h] EXCEPT !.at = ApplyStage[k], !.copy = p]
<1>1. ApplyStage[k] \in {"np apply", "ap apply"}
  BY Stages
<1>2. task[h] \in TaskState /\ p \in Generated \cup {None}
  BY DEF Typed, TasksTyped, PoliciesTyped
<1>3. t = [at |-> ApplyStage[k], peers |-> task[h].peers, copy |-> p]
  BY <1>2, MovesWithCopy
<1>4. ASSUME stale PROVE TaskOK(h, t)
  <2>1. t.at \in {"np apply", "ap apply"} /\ t.at \in At /\ t.copy # None
    BY <1>1, <1>3, <1>4 DEF At
  <2>2. p.gen \in 1..pkg.gen
    BY <1>4 DEF Typed, PoliciesTyped
  <2> HIDE DEF t, p
  <2>3. QED
    BY <1>1, <1>2, <1>3, <2>1, <2>2 DEF TaskOK, TaskState
<1>5. Listed(h, k, next) = [task EXCEPT ![h] = IF stale THEN t ELSE next]
  BY DEF Listed
<1> HIDE DEF t
<1>6. CASE stale
  BY <1>3, <1>4, <1>5, <1>6
<1>7. CASE ~stale
  BY <1>5, <1>7
<1>8. QED
  BY <1>6, <1>7

(* Listing policies, and applying one of them.                            *)
LEMMA ListTyped ==
  ASSUME Typed, NEW h \in Handler, ListNetworkPolicies(h) \/ ListAuthorizationPolicies(h)
  PROVE  Typed'
<1>1. \A k \in Kind : \A next : TaskOK(h, next) /\ task' = Listed(h, k, next)
        /\ UNCHANGED <<cluster, queue, memory, policy, pkg, crd, changes, history>> => Typed'
  <2> SUFFICES ASSUME NEW k \in Kind, NEW next, TaskOK(h, next), task' = Listed(h, k, next),
                      UNCHANGED <<cluster, queue, memory, policy, pkg, crd, changes, history>>
               PROVE  Typed'
    OBVIOUS
  <2>1. PICK t : TaskOK(h, t) /\ task' = [task EXCEPT ![h] = t]
    BY ListedOK
  <2>2. QED
    BY <2>1, HandlerStepTyped, Unread DEF history, Typed, ClusterTyped
<1>2. CASE ListNetworkPolicies(h)
  BY <1>1, <1>2, TurnToApOK DEF ListNetworkPolicies, Kind
<1>3. CASE ListAuthorizationPolicies(h)
  BY <1>1, <1>3, IdleOK DEF ListAuthorizationPolicies, Kind
<1>4. QED
  BY <1>2, <1>3

(* What applying a listed policy makes of it.                              *)
LEMMA AppliedFacts ==
  ASSUME Typed, NEW h \in Handler, NEW k \in Kind, Applied(h, k),
         task[h].at \in {"np apply", "ap apply"}, UNCHANGED pkg
  PROVE  /\ PoliciesTyped' /\ overwritten' \in BOOLEAN
         /\ [gen |-> task[h].copy.gen, peers |-> task[h].peers] \in Generated
         /\ policy' = [policy EXCEPT ![k] = [gen |-> task[h].copy.gen, peers |-> task[h].peers]]
<1>1. /\ task[h].copy \in Generated /\ task[h].peers \in SUBSET Address
      /\ task[h].copy.gen \in 1..pkg.gen
  BY DEF Typed, TasksTyped, TaskOK, TaskState
<1>2. [task[h].copy EXCEPT !.peers = task[h].peers] = [gen |-> task[h].copy.gen, peers |-> task[h].peers]
  BY <1>1, PolicyUpdate
<1>3. [gen |-> task[h].copy.gen, peers |-> task[h].peers] \in Generated
  BY <1>1 DEF Generated
<1>4. policy' = [policy EXCEPT ![k] = [gen |-> task[h].copy.gen, peers |-> task[h].peers]]
  BY <1>2 DEF Applied
<1>5. overwritten' \in BOOLEAN
  BY DEF Applied, Typed, ClusterTyped
<1>6. QED
  BY <1>1, <1>3, <1>4, <1>5 DEF Typed, PoliciesTyped

LEMMA ApplyTyped ==
  ASSUME Typed, NEW h \in Handler, ApplyNetworkPolicy(h) \/ ApplyAuthorizationPolicy(h)
  PROVE  Typed'
<1>1. CASE ApplyNetworkPolicy(h)
  <2>1. PoliciesTyped' /\ overwritten' \in BOOLEAN
    BY <1>1, AppliedFacts DEF ApplyNetworkPolicy, Kind
  <2>2. QED
    BY <1>1, <2>1, TurnToApOK, HandlerStepTyped, Unread
       DEF ApplyNetworkPolicy, Applied, Typed, ClusterTyped
<1>2. CASE ApplyAuthorizationPolicy(h)
  <2>1. PoliciesTyped' /\ overwritten' \in BOOLEAN
    BY <1>2, AppliedFacts DEF ApplyAuthorizationPolicy, Kind
  <2>2. QED
    BY <1>2, <2>1, IdleOK, HandlerStepTyped, Unread
       DEF ApplyAuthorizationPolicy, Applied, Typed, ClusterTyped
<1>3. QED
  BY <1>1, <1>2

(* A refused request.                                                     *)
LEMMA FailTyped ==
  ASSUME Typed, NEW h \in Handler, FailRequest(h)
  PROVE  Typed'
<1>1. changes' \in Nat /\ failed' \in BOOLEAN
  <2>1. changes' = changes + 1 /\ failed' = TRUE /\ changes \in Nat
    BY DEF FailRequest, Typed, ClusterTyped
  <2>2. QED
    BY <2>1
<1>2. UNCHANGED <<cluster, queue, crd, pkg, policy, memory, overwritten, overlapped>> /\ task' = [task EXCEPT ![h] = Idle]
  BY DEF FailRequest
<1>3. QED
  BY <1>1, <1>2, IdleOK, HandlerStepTyped, Unread DEF Typed, ClusterTyped

(* The lookup of the CRD.                                                 *)
LEMMA LookTyped ==
  ASSUME Typed, NEW h \in Handler, LookForCRD(h)
  PROVE  Typed'
<1>1. MemoryTyped' /\ crdSeen' \in BOOLEAN
  BY DEF LookForCRD, Typed, MemoryTyped, ClusterTyped
<1>2. task[h] \in TaskState /\ task[h].at = "ap" /\ task[h].copy = None
  BY DEF LookForCRD, Typed, TasksTyped, TaskOK
<1> DEFINE t == IF crdSeen' THEN [at |-> "ap list", peers |-> task[h].peers, copy |-> None] ELSE Idle
<1>3. TaskOK(h, t)
  <2>1. PICK peers \in SUBSET Address : peers = task[h].peers
    BY <1>2 DEF TaskState
  <2>2. TaskOK(h, [at |-> "ap list", peers |-> peers, copy |-> None])
    BY DEF TaskOK, TaskState, At
  <2>3. QED
    BY <2>1, <2>2, IdleOK
<1>4. task' = [task EXCEPT ![h] = t]
  <2>1. [task[h] EXCEPT !.at = "ap list"] = [at |-> "ap list", peers |-> task[h].peers, copy |-> None]
    BY <1>2, MovesTask
  <2>2. QED
    BY <2>1 DEF LookForCRD, Goto
<1> HIDE DEF t
<1>5. QED
  BY <1>1, <1>3, <1>4, HandlerStepTyped, Unread DEF LookForCRD, history, Typed, ClusterTyped

(* A restart refreshes every policy with one set of addresses.            *)
LEMMA RestartPolicies ==
  ASSUME Typed, Restart
  PROVE  \E peers \in SUBSET Address : policy' = [k \in Kind |-> Refreshed(k, peers)]
<1>1. nodeSet' \in SUBSET Address /\ apiServerPeers' \in SUBSET Address
  BY PeersFacts DEF Restart, Typed, MemoryTyped, ClusterTyped, Present
<1>2. QED
  BY <1>1 DEF Restart

LEMMA RestartTyped ==
  ASSUME Typed, Restart
  PROVE  Typed'
<1>1. MemoryTyped'
  BY PeersFacts DEF Restart, Typed, MemoryTyped, ClusterTyped, Present
<1>2. TasksTyped'
  <2>1. task' = [h \in Handler |-> Idle]
    BY DEF Restart
  <2>2. Idle \in TaskState /\ \A h : TaskOK(h, Idle)'
    BY IdleOK DEF TaskOK
  <2>3. ASSUME NEW h \in Handler PROVE TaskOK(h, task[h])'
    BY <2>1, <2>2 DEF TaskOK
  <2>4. QED
    BY <2>1, <2>2, <2>3 DEF TasksTyped
<1>3. QueueTyped'
  <2>1. queue' = [h \in Handler |-> queue'[h]]
    BY DEF Restart
  <2>2. ASSUME NEW h \in Handler PROVE queue'[h] \in Seq(EventsOf(h))
    <3>1. CASE ~(h \in Node <=> source = "nodes")
      <4>1. queue'[h] = CASE ~(h \in Node <=> source = "nodes") -> <<>>
                          [] h = "service" /\ source = "api" -> <<{service}>>
                          [] h = "slice" /\ source = "api" -> <<slice>>
                          [] OTHER -> IF nodes[h] = None THEN <<>> ELSE <<[deleted |-> FALSE, ip |-> nodes[h]]>>
        BY DEF Restart
      <4>2. ~(h = "service" /\ source = "api") /\ ~(h = "slice" /\ source = "api")
        BY <3>1, PeersFacts DEF ApiHandler, Typed, ClusterTyped, Source
      <4>3. queue'[h] = <<>>
        BY <3>1, <4>1, <4>2
      <4>4. QED
        BY <4>3
    <3>2. CASE h \in Node /\ source = "nodes"
      <4>1. h # "service" /\ h # "slice"
        BY <3>2, PeersFacts DEF ApiHandler
      <4>2. queue'[h] = IF nodes[h] = None THEN <<>> ELSE <<[deleted |-> FALSE, ip |-> nodes[h]]>>
        BY <3>2, <4>1 DEF Restart
      <4>3. nodes[h] # None => [deleted |-> FALSE, ip |-> nodes[h]] \in NodeEvent
        BY <3>2 DEF NodeEvent, Typed, ClusterTyped
      <4>4. QED
        BY <3>2, <4>2, <4>3 DEF EventsOf
    <3>3. CASE h \notin Node /\ source = "api"
      <4>1. h = "service" \/ h = "slice"
        BY <3>3 DEF Handler, ApiHandler
      <4>2. queue'[h] = IF h = "service" THEN <<{service}>> ELSE <<slice>>
        BY <3>3, <4>1 DEF Restart
      <4>3. {service} \in (SUBSET IP) \ {{}} /\ slice \in SUBSET IP
        BY DEF Typed, ClusterTyped
      <4>4. CASE h = "service"
        BY <3>3, <4>2, <4>3, <4>4 DEF EventsOf
      <4>5. CASE h = "slice"
        BY <3>3, <4>2, <4>3, <4>5 DEF EventsOf
      <4>6. QED
        BY <4>1, <4>4, <4>5
    <3>4. QED
      BY <3>1, <3>2, <3>3 DEF Typed, ClusterTyped, Source
  <2>3. QED
    BY <2>1, <2>2 DEF QueueTyped
<1>4. PoliciesTyped'
  <2>1. /\ pkg' \in [at : PkgAt, gen : Nat, peers : SUBSET Address] /\ pkg'.gen = pkg.gen
        /\ pkg'.at # "idle" => pkg.at # "idle"
    BY DEF Restart, Typed, PoliciesTyped, PkgAt
  <2>2. PICK peers \in SUBSET Address : policy' = [k \in Kind |-> Refreshed(k, peers)]
    BY RestartPolicies
  <2>3. ASSUME NEW k \in Kind
        PROVE  /\ Refreshed(k, peers) \in Generated \cup {None}
               /\ Refreshed(k, peers) = None \/ Refreshed(k, peers).gen \in 1..pkg.gen
    <3>1. policy[k] \in Generated \cup {None} /\ (policy[k] = None \/ policy[k].gen \in 1..pkg.gen)
      BY DEF Typed, PoliciesTyped
    <3>2. ASSUME policy[k] # None
          PROVE  /\ [policy[k] EXCEPT !.peers = peers] \in Generated
                 /\ [policy[k] EXCEPT !.peers = peers].gen = policy[k].gen
      <4>1. [policy[k] EXCEPT !.peers = peers] = [gen |-> policy[k].gen, peers |-> peers]
        BY <3>1, <3>2, PolicyUpdate
      <4>2. QED
        BY <3>1, <3>2, <4>1 DEF Generated
    <3>3. QED
      BY <3>1, <3>2, Zenon DEF Refreshed
  <2>4. QED
    BY <2>1, <2>2, <2>3 DEF PoliciesTyped, Typed
<1>5. QED
  BY <1>1, <1>2, <1>3, <1>4 DEF Restart, Typed, ClusterTyped, cluster, history

(* What the package generates.                                            *)
LEMMA GeneratedPeersTyped == Typed => GeneratedPeers \in SUBSET Address
BY PeersFacts DEF GeneratedPeers, KubeNodes, KubeAPI, Typed, MemoryTyped, Address

(* The steps of the package.                                              *)
LEMMA PackageStepTyped ==
  ASSUME Typed, ReconcilePackage \/ ApplyGenerated \/ PurgeGenerated
  PROVE  Typed'
<1>1. CASE ReconcilePackage
  <2> DEFINE grown == IF pkg.at = "idle" THEN pkg.gen + 1 ELSE pkg.gen
  <2>1. /\ pkg' = [at |-> "np apply", gen |-> grown, peers |-> GeneratedPeers]
        /\ changes' = changes + 1 \/ changes' = changes
    BY <1>1 DEF ReconcilePackage
  <2>6. pkg.gen \in Nat /\ grown \in Nat /\ grown >= pkg.gen /\ changes' \in Nat
    <3>1. pkg.gen \in Nat /\ changes \in Nat
      BY DEF Typed, PoliciesTyped, ClusterTyped
    <3>2. changes' \in Nat
      <4>1. changes' = changes + 1 \/ changes' = changes
        BY <2>1
      <4>2. QED
        BY <3>1, <4>1
    <3>3. grown = pkg.gen + 1 \/ grown = pkg.gen
      OBVIOUS
    <3> HIDE DEF grown
    <3>4. QED
      BY <3>1, <3>2, <3>3
  <2>7. pkg'.at # "idle" => grown > 0
    <3>1. pkg.at = "idle" => grown = pkg.gen + 1
      OBVIOUS
    <3>2. pkg.at # "idle" => grown = pkg.gen /\ pkg.gen > 0
      BY DEF Typed, PoliciesTyped
    <3> HIDE DEF grown
    <3>3. QED
      BY <2>6, <3>1, <3>2
  <2> HIDE DEF grown
  <2>2. pkg' \in [at : PkgAt, gen : Nat, peers : SUBSET Address] /\ pkg'.gen = grown
    BY <2>1, <2>6, GeneratedPeersTyped DEF PkgAt
  <2>3. PoliciesTyped'
    <3>1. ASSUME NEW k \in Kind PROVE policy'[k] = None \/ policy'[k].gen \in 1..pkg'.gen
      <4>1. policy'[k] = policy[k] /\ (policy[k] = None \/ policy[k].gen \in 1..pkg.gen)
        BY <1>1 DEF ReconcilePackage, Typed, PoliciesTyped
      <4>2. \A g \in 1..pkg.gen : g \in 1..pkg'.gen
        BY <2>2, <2>6
      <4>3. QED
        BY <4>1, <4>2, Zenon
    <3>2. QED
      BY <1>1, <2>2, <2>7, <3>1 DEF ReconcilePackage, Typed, PoliciesTyped
  <2>4. TasksTyped'
    BY <1>1, <2>2, <2>6, PkgTyped, TasksKept DEF ReconcilePackage, Typed
  <2>5. QED
    BY <1>1, <2>3, <2>4, <2>6 DEF ReconcilePackage, Typed, ClusterTyped, MemoryTyped, QueueTyped, cluster, memory, history
<1>2. ASSUME pkg' \in [at : PkgAt, gen : Nat, peers : SUBSET Address], pkg'.gen = pkg.gen,
             policy' \in [Kind -> Generated \cup {None}], pkg'.at # "idle" => pkg.at # "idle",
             \A k \in Kind : policy'[k] = None \/ policy'[k].gen \in 1..pkg.gen,
             UNCHANGED <<cluster, queue, memory, task, crd, changes, failed, overwritten>>,
             overlapped' \in BOOLEAN
      PROVE  Typed'
  <2>1. TasksTyped'
    BY <1>2, PkgTyped, TasksKept DEF Typed
  <2>2. QED
    BY <1>2, <2>1 DEF Typed, ClusterTyped, MemoryTyped, QueueTyped, PoliciesTyped, cluster, memory
<1>3. CASE ApplyGenerated
  <2>1. PICK k \in Kind :
          /\ pkg.at = ApplyStage[k]
          /\ policy' = [policy EXCEPT ![k] = [gen |-> pkg.gen, peers |-> pkg.peers]]
          /\ pkg' = [pkg EXCEPT !.at = PurgeStage[k]]
    BY <1>3 DEF ApplyGenerated
  <2>2. pkg \in [at : PkgAt, gen : Nat, peers : SUBSET Address] /\ PurgeStage[k] \in PkgAt
    BY Stages DEF Typed, PoliciesTyped, PkgAt
  <2>3. pkg' \in [at : PkgAt, gen : Nat, peers : SUBSET Address] /\ pkg'.gen = pkg.gen
    BY <2>1, <2>2
  <2>4. [gen |-> pkg.gen, peers |-> pkg.peers] \in Generated
    BY <2>2 DEF Generated
  <2>8. pkg.at # "idle"
    BY <2>1, Stages
  <2>5. ASSUME NEW j \in Kind PROVE policy'[j] = None \/ policy'[j].gen \in 1..pkg.gen
    <3>1. k = j => policy'[j].gen = pkg.gen /\ policy[j] \in Generated \cup {None}
      BY <2>1 DEF Typed, PoliciesTyped
    <3>2. pkg.gen \in 1..pkg.gen
      BY <2>2, <2>8 DEF Typed, PoliciesTyped
    <3>3. QED
      BY <2>1, <3>1, <3>2 DEF Typed, PoliciesTyped
  <2>6. overlapped' \in BOOLEAN /\ policy' \in [Kind -> Generated \cup {None}]
    BY <1>3, <2>1, <2>4 DEF ApplyGenerated, Typed, ClusterTyped, PoliciesTyped
  <2>7. QED
    BY <1>2, <1>3, <2>3, <2>5, <2>6, <2>8 DEF ApplyGenerated
<1>4. CASE PurgeGenerated
  <2>1. PICK k \in Kind :
          /\ pkg.at = PurgeStage[k]
          /\ policy' = [policy EXCEPT ![k] = IF policy[k] # None /\ policy[k].gen # pkg.gen THEN None ELSE policy[k]]
          /\ pkg' = IF k = "np" THEN [pkg EXCEPT !.at = "ap apply", !.peers = GeneratedPeers]
                    ELSE [NoPackage EXCEPT !.gen = pkg.gen]
    BY <1>4 DEF PurgeGenerated
  <2>2. pkg \in [at : PkgAt, gen : Nat, peers : SUBSET Address]
    BY DEF Typed, PoliciesTyped
  <2>3. pkg' \in [at : PkgAt, gen : Nat, peers : SUBSET Address] /\ pkg'.gen = pkg.gen
    BY <2>1, <2>2, GeneratedPeersTyped DEF PkgAt, NoPackage
  <2>4. pkg.at # "idle"
    BY <2>1, Stages
  <2>5. QED
    BY <1>2, <1>4, <2>1, <2>3, <2>4 DEF PurgeGenerated, history, Typed, ClusterTyped, PoliciesTyped
<1>5. QED
  BY <1>1, <1>3, <1>4

(* Every step.                                                            *)
LEMMA PeersStepTyped ==
  ASSUME Typed, [PeersNext]_peerVars
  PROVE  Typed'
<1>1. CASE UNCHANGED peerVars
  <2>1. TasksTyped'
    BY <1>1, PkgTyped, TasksKept DEF Typed, peerVars
  <2>2. QED
    BY <1>1, <2>1 DEF peerVars, Typed, ClusterTyped, MemoryTyped, QueueTyped, PoliciesTyped
<1>2. ASSUME PeersNext PROVE Typed'
  BY <1>2, ClusterStepTyped, StartNodeTyped, StartApiTyped, FetchTyped, UpdateTyped, ListTyped, ApplyTyped,
     FailTyped, LookTyped, RestartTyped, PackageStepTyped DEF PeersNext, HandleApi, Refresh
<1>3. QED
  BY <1>1, <1>2

(* The types of PeerRefresh.                                               *)
THEOREM PeersTypeCorrect == PeersSpec => []PeersTypeOK
<1>1. Typed /\ [PeersNext]_peerVars => Typed'
  BY PeersStepTyped
<1>2. QED
  BY <1>1, PeersInitTyped, TypedIsTypeOK, PTL DEF PeersSpec

-----------------------------------------------------------------------------
(* PoliciesInPlace.                                                        *)

(* A policy is not None.                                                  *)
LEMMA GeneratedIsSome == \A x \in Generated : x # None
BY PeersFacts

(* A step that leaves the package where it is and no policy of another     *)
(* generation.                                                             *)
LEMMA PlacesKept ==
  ASSUME PlaceInv, UNCHANGED pkg, overwritten' = FALSE => overwritten = FALSE, overwritten \in BOOLEAN, overwritten' \in BOOLEAN,
         ~overwritten' => \A k \in {"np", "ap"} : Placed(k) => Placed(k)'
  PROVE  PlaceInv'
BY DEF PlaceInv

(* A refresh keeps what the package placed, or overwrote it.              *)
LEMMA HandlersKeepPlaces ==
  ASSUME Typed, Typed', PlaceInv, NEW h \in Handler, ApplyNetworkPolicy(h) \/ ApplyAuthorizationPolicy(h)
  PROVE  PlaceInv'
<1>1. ASSUME NEW k \in Kind, Applied(h, k), UNCHANGED pkg, task[h].at \in {"np apply", "ap apply"}
      PROVE  PlaceInv'
  <2>1. policy' = [policy EXCEPT ![k] = [gen |-> task[h].copy.gen, peers |-> task[h].peers]]
    BY <1>1, AppliedFacts
  <2>5. [gen |-> task[h].copy.gen, peers |-> task[h].peers] \in Generated
    BY <1>1, AppliedFacts
  <2>2. ~overwritten' => ~overwritten /\ policy[k] # None /\ policy[k].gen = task[h].copy.gen
    BY <1>1 DEF Applied
  <2>3. ASSUME ~overwritten', NEW j \in Kind, Placed(j) PROVE Placed(j)'
    <3>1. policy'[j] # None
      BY GeneratedIsSome, <2>1, <2>3, <2>5 DEF Typed, PoliciesTyped, Placed
    <3>2. policy'[j].gen = policy[j].gen
      BY <2>1, <2>2, <2>3 DEF Typed, PoliciesTyped
    <3>3. QED
      BY <1>1, <2>3, <3>1, <3>2 DEF Placed
  <2>4. QED
    BY <1>1, <2>2, <2>3, PlacesKept DEF Kind, Typed, ClusterTyped
<1>2. QED
  BY <1>1 DEF ApplyNetworkPolicy, ApplyAuthorizationPolicy, Kind

LEMMA RestartKeepsPlaces ==
  ASSUME Typed, PlaceInv, Restart
  PROVE  PlaceInv'
<1>1. pkg \in [at : PkgAt, gen : Nat, peers : SUBSET Address] /\ UNCHANGED overwritten
  BY DEF Restart, history, Typed, PoliciesTyped
<1>2. pkg'.gen = pkg.gen /\ pkg'.at = IF pkg.at = "idle" THEN "idle" ELSE "lost"
  BY <1>1 DEF Restart
<1>3. ASSUME NEW k \in Kind, Placed(k) PROVE Placed(k)'
  <2>1. PICK peers \in SUBSET Address : policy'[k] = Refreshed(k, peers)
    BY RestartPolicies
  <2>2. policy[k] \in Generated
    BY <1>3 DEF Placed, Typed, PoliciesTyped
  <2>3. [policy[k] EXCEPT !.peers = peers] = [gen |-> policy[k].gen, peers |-> peers]
    BY <2>2, PolicyUpdate
  <2>4. policy'[k] # None
    <3>1. [gen |-> policy[k].gen, peers |-> peers] \in Generated
      BY <2>2 DEF Generated
    <3>2. QED
      BY <2>1, <2>2, <2>3, <3>1, GeneratedIsSome DEF Refreshed
  <2>5. QED
    BY <1>2, <1>3, <2>1, <2>3, <2>4 DEF Refreshed, Placed
<1>4. QED
  BY <1>1, <1>2, <1>3 DEF PlaceInv, Kind

LEMMA PackageKeepsPlaces ==
  ASSUME Typed, Typed', PlaceInv, ReconcilePackage \/ ApplyGenerated \/ PurgeGenerated
  PROVE  PlaceInv'
<1>1. pkg \in [at : PkgAt, gen : Nat, peers : SUBSET Address] /\ DOMAIN policy = Kind
  BY DEF Typed, PoliciesTyped
<1>2. CASE ReconcilePackage
  <2>1. pkg'.at = "np apply"
    <3>1. \E n : pkg' = [at |-> "np apply", gen |-> n, peers |-> GeneratedPeers]
      BY <1>2 DEF ReconcilePackage
    <3>2. PICK n : pkg' = [at |-> "np apply", gen |-> n, peers |-> GeneratedPeers]
      BY <3>1
    <3>3. QED
      BY <3>2
  <2>2. QED
    BY <2>1 DEF PlaceInv
<1>3. CASE ApplyGenerated
  <2>1. PICK k \in Kind :
          /\ pkg.at = ApplyStage[k]
          /\ policy' = [policy EXCEPT ![k] = [gen |-> pkg.gen, peers |-> pkg.peers]]
          /\ pkg' = [pkg EXCEPT !.at = PurgeStage[k]]
    BY <1>3 DEF ApplyGenerated
  <2>2. pkg'.gen = pkg.gen /\ pkg'.at = PurgeStage[k]
    BY <1>1, <2>1
  <2>3. policy'[k].gen = pkg.gen /\ policy'[k] # None /\ \A j \in Kind \ {k} : policy'[j] = policy[j]
    <3>1. [gen |-> pkg.gen, peers |-> pkg.peers] \in Generated
      BY <1>1 DEF Generated
    <3>2. QED
      BY <1>1, <2>1, <3>1, GeneratedIsSome
  <2>4. UNCHANGED overwritten
    BY <1>3 DEF ApplyGenerated
  <2>5. CASE k = "np"
    BY <2>1, <2>2, <2>3, <2>4, <2>5, Stages DEF PlaceInv, Placed
  <2>6. CASE k = "ap"
    BY <2>1, <2>2, <2>3, <2>4, <2>6, Stages DEF PlaceInv, Placed, Kind
  <2>7. QED
    BY <2>5, <2>6, Stages
<1>4. CASE PurgeGenerated
  <2>1. PICK k \in Kind :
          /\ pkg.at = PurgeStage[k]
          /\ policy' = [policy EXCEPT ![k] = IF policy[k] # None /\ policy[k].gen # pkg.gen THEN None ELSE policy[k]]
          /\ pkg' = IF k = "np" THEN [pkg EXCEPT !.at = "ap apply", !.peers = GeneratedPeers]
                    ELSE [NoPackage EXCEPT !.gen = pkg.gen]
    BY <1>4 DEF PurgeGenerated
  <2>2. UNCHANGED overwritten
    BY <1>4 DEF PurgeGenerated, history
  <2>3. pkg'.gen = pkg.gen /\ pkg'.at = IF k = "np" THEN "ap apply" ELSE "idle"
    BY <1>1, <2>1 DEF NoPackage
  <2>4. \A j \in Kind : Placed(j) => policy'[j] = policy[j]
    BY <1>1, <2>1 DEF Placed
  <2>5. CASE k = "np"
    BY <2>1, <2>2, <2>3, <2>4, <2>5, Stages DEF PlaceInv, Placed, Kind
  <2>6. CASE k = "ap"
    BY <2>1, <2>2, <2>3, <2>4, <2>6, Stages DEF PlaceInv, Placed, Kind
  <2>7. QED
    BY <2>5, <2>6, Stages
<1>5. QED
  BY <1>2, <1>3, <1>4

(* Every step.                                                            *)
LEMMA StepKeepsPlaces ==
  ASSUME Typed, PlaceInv, [PeersNext]_peerVars
  PROVE  PlaceInv'
<1>1. Typed'
  BY PeersStepTyped
<1>2. UNCHANGED <<pkg, policy, overwritten>> => PlaceInv'
  <2> SUFFICES ASSUME UNCHANGED <<pkg, policy, overwritten>> PROVE PlaceInv'
    OBVIOUS
  <2>1. pkg' = pkg /\ policy' = policy /\ overwritten' = overwritten
    OBVIOUS
  <2>2. \A k : Placed(k)' <=> Placed(k)
    BY <2>1 DEF Placed
  <2>3. overwritten \in BOOLEAN
    BY DEF Typed, ClusterTyped
  <2>4. QED
    BY <2>1, <2>2, <2>3, PlacesKept
<1>3. CASE UNCHANGED peerVars
  BY <1>2, <1>3 DEF peerVars
<1>4. ASSUME NEW n \in Node, Heartbeat(n) \/ StartNode(n) PROVE PlaceInv'
  BY <1>2, <1>4 DEF Heartbeat, StartNode, history
<1>5. ASSUME NEW n \in Node, NEW ip \in IP \cup {None}, ChangeNode(n, ip) PROVE PlaceInv'
  BY <1>2, <1>5 DEF ChangeNode, history
<1>6. ASSUME NEW ip, ChangeService(ip) \/ ChangeSlice(ip) PROVE PlaceInv'
  BY <1>2, <1>6 DEF ChangeService, ChangeSlice, history
<1>7. ASSUME NEW h \in ApiHandler, HandleApi(h) PROVE PlaceInv'
  BY <1>2, <1>7 DEF HandleApi, StartApi, Fetch, UpdateAPIServerCIDR, history
<1>8. ASSUME NEW h \in Handler, FailRequest(h) \/ ListNetworkPolicies(h) \/ LookForCRD(h) \/ ListAuthorizationPolicies(h)
      PROVE  PlaceInv'
  BY <1>2, <1>8 DEF FailRequest, ListNetworkPolicies, LookForCRD, ListAuthorizationPolicies, history
<1>9. CASE InstallCRD
  BY <1>2, <1>9 DEF InstallCRD, history
<1>10. ASSUME PeersNext PROVE PlaceInv'
  BY <1>1, <1>4, <1>5, <1>6, <1>7, <1>8, <1>9, <1>10, HandlersKeepPlaces, RestartKeepsPlaces, PackageKeepsPlaces
     DEF PeersNext, Refresh
<1>11. QED
  BY <1>3, <1>10

(* A reconciled package has its policies, whatever the handlers of nodes    *)
(* and API server did meanwhile, unless one wrote back an older copy.       *)
THEOREM PoliciesStayInPlace == PeersSpec => []PoliciesInPlace
<1>1. PeersInit => PlaceInv
  BY DEF PeersInit, NoPackage, PlaceInv
<1>2. Typed /\ PlaceInv /\ [PeersNext]_peerVars => Typed' /\ PlaceInv'
  BY PeersStepTyped, StepKeepsPlaces
<1>3. PlaceInv => PoliciesInPlace
  BY DEF PlaceInv, Placed, PoliciesInPlace, Kind
<1>4. QED
  BY <1>1, <1>2, <1>3, PeersInitTyped, PTL DEF PeersSpec

-----------------------------------------------------------------------------
(* ApiPoliciesCurrent.                                                     *)

(* The two handlers of the API server.                                    *)
LEMMA ApiHandlers ==
  /\ \A h \in ApiHandler : h \in Handler /\ h \notin Node /\ (h = "service" \/ h = "slice")
  /\ "service" \in ApiHandler /\ "slice" \in ApiHandler
  /\ \A h \in Handler : h \in Node \/ h \in ApiHandler
BY PeersFacts DEF Handler, ApiHandler

(* While one handler works the other one waits.                            *)
LEMMA OthersIdle ==
  ASSUME Alone, NEW h \in ApiHandler, task[h] # Idle, NEW g \in ApiHandler, g # h
  PROVE  task[g] = Idle
BY DEF Alone

LEMMA NotIdle == \A t : t.at # "idle" => t # Idle
BY DEF Idle

(* What a step changes the queues, the addresses and the policies of does   *)
(* not disturb.                                                            *)
LEMMA ApiFactsKept ==
  ASSUME ApiFacts, UNCHANGED <<service, slice, queue, apiServerPeers, task, policy>>
  PROVE  ApiFacts'
<1>1. Alone'
  BY DEF ApiFacts, Alone
<1>2. ASSUME NEW h \in ApiHandler PROVE HandlerInv(h)'
  BY DEF ApiFacts, HandlerInv, Own, Current, Settled, Looking
<1>3. CacheInv'
  BY DEF ApiFacts, CacheInv, Current, Settled, Looking
<1>4. PolicyInv'
  BY DEF ApiFacts, PolicyInv
<1>5. QED
  BY <1>1, <1>2, <1>3, <1>4 DEF ApiFacts

(* A change of the Service or the EndpointSlice.                           *)
LEMMA ChangeKeepsFacts ==
  ASSUME Typed, ApiFacts, NEW g \in ApiHandler, NEW e \in EventsOf(g),
         queue' = [queue EXCEPT ![g] = Append(queue[g], e)],
         Own(g)' = e, \A h \in ApiHandler \ {g} : Own(h)' = Own(h),
         UNCHANGED <<apiServerPeers, task, policy>>
  PROVE  ApiFacts'
<1>1. Alone' /\ PolicyInv'
  BY DEF ApiFacts, Alone, PolicyInv
<1>2. queue[g] \in Seq(EventsOf(g)) /\ \A h \in ApiHandler : queue'[h] = IF h = g THEN Append(queue[g], e) ELSE queue[h]
  BY ApiHandlers DEF Typed, QueueTyped
<1>3. queue'[g] # <<>> /\ queue'[g][Len(queue'[g])] = e
  <2>1. PICK q \in Seq(EventsOf(g)) : q = queue[g]
    BY <1>2
  <2>2. Append(q, e) # <<>> /\ Append(q, e)[Len(Append(q, e))] = e
    OBVIOUS
  <2>3. QED
    BY <1>2, <2>1, <2>2
<1>4. ~Settled'
  BY <1>3, ApiHandlers DEF Settled
<1>5. ASSUME NEW h \in ApiHandler PROVE HandlerInv(h)'
  <2>1. CASE h = g
    BY <1>3, <1>4, <2>1 DEF ApiFacts, HandlerInv, Looking
  <2>2. CASE h # g
    <3>1. queue'[h] = queue[h] /\ Own(h)' = Own(h)
      BY <1>2, <2>2
    <3>2. HandlerInv(h)
      BY DEF ApiFacts
    <3>3. QED
      BY <1>4, <3>1, <3>2 DEF HandlerInv, Looking
  <2>3. QED
    BY <2>1, <2>2
<1>6. CacheInv'
  BY <1>4 DEF CacheInv
<1>7. QED
  BY <1>1, <1>5, <1>6 DEF ApiFacts

(* A change of the cluster waits in a queue.                              *)
LEMMA ClusterKeepsFacts ==
  ASSUME Typed, ApiFacts, Undisturbed,
         \/ \E n \in Node : Heartbeat(n) \/ StartNode(n) \/ \E ip \in IP \cup {None} : ChangeNode(n, ip)
         \/ \E ip \in IP : ChangeService(ip)
         \/ \E ips \in (SUBSET IP) \ {{}} : ChangeSlice(ips)
         \/ InstallCRD,
         NodesIdle
  PROVE  ApiFacts'
<1>1. ASSUME NEW n \in Node, Heartbeat(n) \/ StartNode(n) \/ \E ip \in IP \cup {None} : ChangeNode(n, ip)
      PROVE  ApiFacts'
  BY <1>1 DEF Undisturbed, NodesIdle, Heartbeat, StartNode, ChangeNode
<1>2. ASSUME NEW ip \in IP, ChangeService(ip) PROVE ApiFacts'
  <2>1. {ip} \in EventsOf("service") /\ "slice" # "service"
    BY ApiHandlers DEF EventsOf
  <2>2. Own("service")' = {ip} /\ Own("slice")' = Own("slice")
    BY <1>2 DEF Own, ChangeService
  <2>3. queue' = [queue EXCEPT !["service"] = Append(queue["service"], {ip})] /\ UNCHANGED <<apiServerPeers, task, policy>>
    BY <1>2 DEF ChangeService, memory
  <2>4. \A h \in ApiHandler \ {"service"} : h = "slice"
    BY DEF ApiHandler
  <2>5. QED
    BY <2>1, <2>2, <2>3, <2>4, ApiHandlers, ChangeKeepsFacts
<1>3. ASSUME NEW ips \in (SUBSET IP) \ {{}}, ChangeSlice(ips) PROVE ApiFacts'
  <2>1. ips \in EventsOf("slice") /\ "slice" # "service"
    BY ApiHandlers DEF EventsOf
  <2>2. Own("slice")' = ips /\ Own("service")' = Own("service")
    BY <1>3 DEF Own, ChangeSlice
  <2>3. queue' = [queue EXCEPT !["slice"] = Append(queue["slice"], ips)] /\ UNCHANGED <<apiServerPeers, task, policy>>
    BY <1>3 DEF ChangeSlice, memory
  <2>4. \A h \in ApiHandler \ {"slice"} : h = "service"
    BY DEF ApiHandler
  <2>5. QED
    BY <2>1, <2>2, <2>3, <2>4, ApiHandlers, ChangeKeepsFacts
<1>4. CASE InstallCRD
  BY <1>4, ApiFactsKept DEF InstallCRD, cluster, memory
<1>5. QED
  BY <1>1, <1>2, <1>3, <1>4

(* A handler starts while no other is at work.                            *)
LEMMA StartKeepsFacts ==
  ASSUME Typed, ApiFacts, Undisturbed', NEW h \in ApiHandler, StartApi(h)
  PROVE  ApiFacts'
<1>1. \A g \in ApiHandler : task[g] = Idle
  BY DEF StartApi, Undisturbed, ApiHandler
<1> DEFINE q == queue[h]
<1>2. h \in Handler /\ q \in Seq(EventsOf(h)) /\ q # <<>> /\ q[Len(q)] = Own(h)
  BY ApiHandlers DEF Typed, QueueTyped, StartApi, ApiFacts, HandlerInv
<1>3. /\ Tail(q) # <<>> => Tail(q)[Len(Tail(q))] = q[Len(q)]
      /\ Tail(q) = <<>> => Head(q) = q[Len(q)]
  <2> HIDE DEF q
  <2>1. Len(q) \in Nat /\ Len(q) # 0 /\ Len(Tail(q)) = Len(q) - 1
    BY <1>2
  <2>2. Tail(q) # <<>> => Tail(q)[Len(Tail(q))] = q[Len(q)]
    BY <1>2, <2>1
  <2>3. Tail(q) = <<>> => Len(q) = 1
    <3>1. Len(<<>>) = 0
      OBVIOUS
    <3>2. QED
      BY <2>1, <3>1
  <2>4. QED
    BY <1>2, <2>2, <2>3
<1>4. \A g \in ApiHandler :
        /\ queue'[g] = IF g = h THEN Tail(q) ELSE queue[g]
        /\ task'[g] = IF g = h THEN [at |-> "fetch", peers |-> Head(q), copy |-> None] ELSE Idle
  BY <1>1, ApiHandlers DEF StartApi, Typed, QueueTyped, TasksTyped
<1> HIDE DEF q
<1>5. UNCHANGED <<service, slice, apiServerPeers, policy>>
  BY DEF StartApi, cluster, memory
<1>6. Alone'
  BY <1>4 DEF Alone
<1>7. ASSUME NEW g \in ApiHandler PROVE HandlerInv(g)'
  <2>1. Own(g)' = Own(g) /\ HandlerInv(g)
    BY <1>5 DEF Own, ApiFacts
  <2>2. CASE g = h
    <3>1. queue'[g] = Tail(q) /\ task'[g].at = "fetch" /\ task'[g].peers = Head(q)
      <4>1. task'[g] = [at |-> "fetch", peers |-> Head(q), copy |-> None] /\ queue'[g] = Tail(q)
        BY <1>4, <2>2
      <4>2. QED
        BY <4>1
    <3>2. queue'[g] # <<>> => queue'[g][Len(queue'[g])] = Own(g)'
      BY <1>2, <1>3, <2>1, <2>2, <3>1
    <3>3. queue'[g] = <<>> => task'[g].peers = Own(g)'
      BY <1>2, <1>3, <2>1, <2>2, <3>1
    <3>4. QED
      BY <3>1, <3>2, <3>3 DEF HandlerInv, Looking
  <2>3. CASE g # h
    BY <1>4, <2>1, <2>3 DEF HandlerInv, Looking, Idle
  <2>4. QED
    BY <2>2, <2>3
<1>8. CacheInv'
  <2>1. Looking(h)'
    BY <1>4 DEF Looking
  <2>2. QED
    BY <2>1 DEF CacheInv
<1>9. PolicyInv'
  <2>1. \A g \in ApiHandler : task[g].at \notin {"np list", "np apply"}
    <3>1. Idle.at = "idle"
      BY DEF Idle
    <3>2. QED
      BY <1>1, <3>1
  <2>2. QED
    BY <1>5, <2>1 DEF PolicyInv, ApiFacts
<1>10. QED
  BY <1>6, <1>7, <1>8, <1>9 DEF ApiFacts

(* What it finds is current, unless a change waits already.               *)
LEMMA FetchKeepsFacts ==
  ASSUME Typed, ApiFacts, Undisturbed, NEW h \in ApiHandler, Fetch(h)
  PROVE  ApiFacts'
<1>1. h \in Handler /\ task[h] \in TaskState /\ task[h].at = "fetch" /\ task[h] # Idle
  BY ApiHandlers, NotIdle DEF Typed, TasksTyped, Fetch
<1> DEFINE found == IF h = "slice" THEN {service} ELSE Endpoints
           t == [at |-> "update", peers |-> task[h].peers \cup found, copy |-> task[h].copy]
<1>2. task' = [task EXCEPT ![h] = t]
  <2>1. PICK r \in TaskState : r = task[h]
    BY <1>1
  <2>5. PICK peers : peers = task[h].peers \cup found
    OBVIOUS
  <2>2. [r EXCEPT !.at = "update", !.peers = peers] = t
    BY <2>1, <2>5, MovesWithPeers
  <2>3. task' = [task EXCEPT ![h] = [task[h] EXCEPT !.at = "update", !.peers = task[h].peers \cup found]]
    BY DEF Fetch
  <2>4. QED
    BY <2>1, <2>2, <2>3, <2>5
<1>3. \A g \in ApiHandler : task'[g] = IF g = h THEN t ELSE Idle
  BY <1>1, <1>2, ApiHandlers, OthersIdle DEF ApiFacts, Typed, TasksTyped
<1>4. t.at = "update" /\ t.peers = task[h].peers \cup found
  OBVIOUS
<1>5. UNCHANGED <<service, slice, apiServerPeers, policy, queue>>
  BY DEF Fetch, cluster, memory
<1>6. Settled => t.peers = Current
  <2>1. ASSUME Settled PROVE queue[h] = <<>>
    BY <2>1 DEF Settled, ApiHandler
  <2>2. Settled => task[h].peers = Own(h)
    BY <1>1, <2>1 DEF ApiFacts, HandlerInv
  <2>3. found = IF h = "slice" THEN {service} ELSE slice
    BY DEF Undisturbed, Endpoints
  <2> HIDE DEF t, found
  <2>4. QED
    BY <1>4, <2>2, <2>3 DEF Own, Current
<1> HIDE DEF t, found
<1>7. Alone'
  BY <1>3 DEF Alone
<1>8. ASSUME NEW g \in ApiHandler PROVE HandlerInv(g)'
  <2>1. /\ Own(g)' = Own(g) /\ Current' = Current /\ Settled' = Settled
        /\ HandlerInv(g) /\ queue'[g] = queue[g]
    BY <1>5 DEF Own, Current, Settled, ApiFacts
  <2>2. CASE g = h
    <3>1. task'[g].at = "update" /\ task'[g].peers = t.peers
      BY <1>3, <1>4, <2>2
    <3>2. Settled' => task'[g].peers = Current'
      BY <1>6, <2>1, <3>1
    <3>3. QED
      BY <2>1, <3>1, <3>2 DEF HandlerInv, Looking
  <2>3. CASE g # h
    <3>1. task'[g].at = "idle"
      BY <1>3, <2>3 DEF Idle
    <3>2. QED
      BY <2>1, <3>1 DEF HandlerInv, Looking
  <2>4. QED
    BY <2>2, <2>3
<1>9. CacheInv'
  <2>1. Looking(h)'
    BY <1>3, <1>4 DEF Looking
  <2>2. QED
    BY <2>1 DEF CacheInv
<1>10. PolicyInv'
  <2>1. ASSUME NEW g \in ApiHandler PROVE task[g].at \notin {"np list", "np apply"}
    <3>1. CASE g = h
      BY <1>1, <3>1
    <3>2. CASE g # h
      <4>1. task[g] = Idle /\ Idle.at = "idle"
        BY <1>1, <3>2, OthersIdle DEF ApiFacts, Idle
      <4>2. QED
        BY <4>1
    <3>3. QED
      BY <3>1, <3>2
  <2>2. QED
    BY <1>5, <2>1 DEF PolicyInv, ApiFacts
<1>11. QED
  BY <1>7, <1>8, <1>9, <1>10 DEF ApiFacts

(* The cache is replaced: the policies of the API server are next.         *)
LEMMA UpdateKeepsFacts ==
  ASSUME Typed, ApiFacts, NEW h \in ApiHandler, UpdateAPIServerCIDR(h)
  PROVE  ApiFacts'
<1>1. h \in Handler /\ task[h] \in TaskState /\ task[h].at = "update" /\ task[h] # Idle
  BY ApiHandlers, NotIdle DEF Typed, TasksTyped, UpdateAPIServerCIDR
<1>2. PICK t : t = [at |-> "np list", peers |-> task[h].peers, copy |-> task[h].copy]
  OBVIOUS
<1>3. task' = [task EXCEPT ![h] = t]
  BY <1>1, <1>2, MovesTask DEF UpdateAPIServerCIDR, Goto
<1>4. \A g \in ApiHandler : task'[g] = IF g = h THEN t ELSE Idle
  BY <1>1, <1>3, ApiHandlers, OthersIdle DEF ApiFacts, Typed, TasksTyped
<1>5. t.at = "np list" /\ t.peers = apiServerPeers'
  BY <1>2 DEF UpdateAPIServerCIDR
<1>6. UNCHANGED <<service, slice, policy, queue>> /\ apiServerPeers' = task[h].peers
  BY DEF UpdateAPIServerCIDR, cluster
<1>7. Alone'
  BY <1>4 DEF Alone
<1>8. ASSUME NEW g \in ApiHandler PROVE HandlerInv(g)'
  <2>1. Own(g)' = Own(g) /\ HandlerInv(g) /\ queue'[g] = queue[g]
    BY <1>6 DEF Own, ApiFacts
  <2>2. CASE g = h
    BY <1>4, <1>5, <2>1, <2>2 DEF HandlerInv, Looking
  <2>3. CASE g # h
    <3>1. task'[g].at = "idle"
      BY <1>4, <2>3 DEF Idle
    <3>2. QED
      BY <2>1, <3>1 DEF HandlerInv, Looking
  <2>4. QED
    BY <2>2, <2>3
<1>9. CacheInv'
  <2>1. Settled => task[h].peers = Current
    BY <1>1 DEF ApiFacts, HandlerInv
  <2>2. QED
    BY <1>6, <2>1 DEF CacheInv, Current, Settled
<1>10. PolicyInv'
  BY <1>4, <1>5 DEF PolicyInv
<1>11. QED
  BY <1>7, <1>8, <1>9, <1>10 DEF ApiFacts

(* A step of a refresh: the handler goes on with the addresses it has, or   *)
(* ends.                                                                   *)
LEMMA RefreshKeepsFacts ==
  ASSUME Typed, ApiFacts, NEW h \in ApiHandler, task[h].at \notin {"idle", "fetch", "update"},
         NEW t, task' = [task EXCEPT ![h] = t],
         t = Idle \/ (t.at \notin {"idle", "fetch", "update"} /\ t.peers = task[h].peers),
         UNCHANGED <<service, slice, queue, apiServerPeers>>, PolicyInv'
  PROVE  ApiFacts'
<1>1. h \in Handler /\ task[h] # Idle
  BY ApiHandlers, NotIdle
<1>2. \A g \in ApiHandler : task'[g] = IF g = h THEN t ELSE Idle
  BY <1>1, ApiHandlers, OthersIdle DEF ApiFacts, Typed, TasksTyped
<1>3. \A g \in ApiHandler : g # h => task[g] = Idle
  BY <1>1, OthersIdle DEF ApiFacts
<1>4. Idle.at = "idle"
  BY DEF Idle
<1>5. Alone'
  BY <1>2 DEF Alone
<1>6. ASSUME NEW g \in ApiHandler PROVE HandlerInv(g)' /\ ~Looking(g) /\ ~Looking(g)'
  <2>1. Own(g)' = Own(g) /\ HandlerInv(g) /\ queue'[g] = queue[g]
    BY DEF Own, ApiFacts
  <2>2. CASE g = h
    <3>1. task'[g] = t /\ ~Looking(h) /\ task[h].at # "idle"
      BY <1>2, <2>2 DEF Looking
    <3>2. task[h].peers = apiServerPeers
      BY <3>1, <2>1, <2>2 DEF HandlerInv
    <3>3. QED
      BY <1>4, <2>1, <2>2, <3>1, <3>2 DEF HandlerInv, Looking
  <2>3. CASE g # h
    <3>1. task'[g].at = "idle" /\ task[g].at = "idle"
      BY <1>2, <1>3, <1>4, <2>3
    <3>2. QED
      BY <2>1, <3>1 DEF HandlerInv, Looking
  <2>4. QED
    BY <2>2, <2>3
<1>7. CacheInv'
  <2>1. Settled' = Settled /\ Current' = Current
    BY DEF Settled, Current
  <2>2. QED
    BY <1>6, <2>1 DEF CacheInv, ApiFacts
<1>8. QED
  BY <1>5, <1>6, <1>7 DEF ApiFacts

(* A refresh lists the network policy, and applies it.                    *)
LEMMA ListNetworkKeepsFacts ==
  ASSUME Typed, ApiFacts, NEW h \in ApiHandler, ListNetworkPolicies(h)
  PROVE  ApiFacts'
<1>1. h \in Handler /\ h \notin Node /\ task[h].at = "np list" /\ "np" \in Kind
  BY ApiHandlers DEF ListNetworkPolicies, Kind
<1>2. TaskOK(h, TurnToAp(h))
  BY <1>1, TurnToApOK
<1>3. PICK t : /\ task' = [task EXCEPT ![h] = t]
               /\ \/ /\ policy["np"] # None /\ policy["np"].peers # task[h].peers
                     /\ t = [at |-> ApplyStage["np"], peers |-> task[h].peers, copy |-> policy["np"]]
                  \/ /\ policy["np"] = None \/ policy["np"].peers = task[h].peers
                     /\ t = TurnToAp(h)
  <2>1. task' = Listed(h, "np", TurnToAp(h))
    BY DEF ListNetworkPolicies
  <2>2. PICK t : /\ TaskOK(h, t) /\ Listed(h, "np", TurnToAp(h)) = [task EXCEPT ![h] = t]
                 /\ \/ /\ policy["np"] # None /\ policy["np"].peers # task[h].peers
                       /\ t = [at |-> ApplyStage["np"], peers |-> task[h].peers, copy |-> policy["np"]]
                    \/ /\ policy["np"] = None \/ policy["np"].peers = task[h].peers
                       /\ t = TurnToAp(h)
    BY <1>1, <1>2, ListedOK
  <2>3. QED
    BY <2>1, <2>2, Zenon
<1>4. UNCHANGED <<service, slice, queue, apiServerPeers, policy>>
  BY DEF ListNetworkPolicies, cluster, memory
<1>5. CASE policy["np"] # None /\ policy["np"].peers # task[h].peers
  <2>1. t = [at |-> "np apply", peers |-> task[h].peers, copy |-> policy["np"]]
    BY <1>3, <1>5, Stages
  <2>2. t.at = "np apply" /\ t.peers = task[h].peers
    BY <2>1
  <2>3. task'[h] = t
    BY <1>1, <1>3 DEF Typed, TasksTyped
  <2>4. PolicyInv'
    BY <2>2, <2>3 DEF PolicyInv
  <2>5. QED
    BY <1>1, <1>3, <1>4, <2>2, <2>4, RefreshKeepsFacts
<1>6. CASE policy["np"] = None \/ policy["np"].peers = task[h].peers
  <2>1. t = [at |-> "ap", peers |-> task[h].peers, copy |-> None]
    BY <1>1, <1>3, <1>6 DEF TurnToAp
  <2>2. t.at = "ap" /\ t.peers = task[h].peers
    BY <2>1
  <2>3. task[h].peers = apiServerPeers
    BY <1>1 DEF ApiFacts, HandlerInv, Looking
  <2>4. PolicyInv'
    BY <1>4, <1>6, <2>3 DEF PolicyInv
  <2>5. QED
    BY <1>1, <1>3, <1>4, <2>2, <2>4, RefreshKeepsFacts
<1>7. QED
  BY <1>5, <1>6

LEMMA ApplyNetworkKeepsFacts ==
  ASSUME Typed, ApiFacts, NEW h \in ApiHandler, ApplyNetworkPolicy(h)
  PROVE  ApiFacts'
<1>1. h \in Handler /\ h \notin Node /\ task[h].at = "np apply" /\ "np" \in Kind
  BY ApiHandlers DEF ApplyNetworkPolicy, Kind
<1>2. policy' = [policy EXCEPT !["np"] = [gen |-> task[h].copy.gen, peers |-> task[h].peers]]
  BY <1>1, AppliedFacts DEF ApplyNetworkPolicy
<1>3. policy'["np"].peers = apiServerPeers
  <2>1. policy'["np"] = [gen |-> task[h].copy.gen, peers |-> task[h].peers]
    BY <1>1, <1>2 DEF Typed, PoliciesTyped
  <2>2. task[h].peers = apiServerPeers
    BY <1>1 DEF ApiFacts, HandlerInv, Looking
  <2>3. QED
    BY <2>1, <2>2
<1>4. UNCHANGED <<service, slice, queue, apiServerPeers>>
  BY DEF ApplyNetworkPolicy, cluster, memory
<1>5. TurnToAp(h).at = "ap" /\ TurnToAp(h).peers = task[h].peers
  BY <1>1 DEF TurnToAp
<1>6. PolicyInv'
  BY <1>3, <1>4 DEF PolicyInv
<1>7. task' = [task EXCEPT ![h] = TurnToAp(h)]
  BY DEF ApplyNetworkPolicy
<1>8. QED
  BY <1>1, <1>4, <1>5, <1>6, <1>7, RefreshKeepsFacts

(* Past the network policies every policy of theirs has the addresses.     *)
LEMMA PastNetworkPolicies ==
  ASSUME Typed, ApiFacts, NEW h \in ApiHandler, task[h].at \in {"ap", "ap list", "ap apply"},
         policy'["np"] = policy["np"], UNCHANGED apiServerPeers
  PROVE  PolicyInv'
<1>1. task[h] # Idle /\ Idle.at = "idle"
  BY NotIdle DEF Idle
<1>2. \A g \in ApiHandler : task[g].at \notin {"np list", "np apply"}
  BY <1>1, OthersIdle DEF ApiFacts
<1>3. QED
  BY <1>2 DEF ApiFacts, PolicyInv

(* The refresh of the authorization policies.                             *)
LEMMA ApKeepsFacts ==
  ASSUME Typed, ApiFacts, NEW h \in ApiHandler,
         LookForCRD(h) \/ ListAuthorizationPolicies(h) \/ ApplyAuthorizationPolicy(h)
  PROVE  ApiFacts'
<1>1. h \in Handler /\ h \notin Node /\ "ap" \in Kind /\ "np" \in Kind
  BY ApiHandlers DEF Kind
<1>2. task[h].at \in {"ap", "ap list", "ap apply"}
  BY DEF LookForCRD, ListAuthorizationPolicies, ApplyAuthorizationPolicy
<1>3. UNCHANGED <<service, slice, queue, apiServerPeers>>
  BY DEF LookForCRD, ListAuthorizationPolicies, ApplyAuthorizationPolicy, cluster, memory
<1>4. policy'["np"] = policy["np"]
  <2>1. CASE ApplyAuthorizationPolicy(h)
    <3>1. policy' = [policy EXCEPT !["ap"] = [gen |-> task[h].copy.gen, peers |-> task[h].peers]]
      BY <1>1, <2>1, AppliedFacts DEF ApplyAuthorizationPolicy
    <3>2. QED
      BY <1>1, <3>1 DEF Typed, PoliciesTyped
  <2>2. QED
    BY <2>1 DEF LookForCRD, ListAuthorizationPolicies
<1>5. PolicyInv'
  BY <1>2, <1>3, <1>4, PastNetworkPolicies
<1>6. \E t : /\ task' = [task EXCEPT ![h] = t]
             /\ t = Idle \/ (t.at \notin {"idle", "fetch", "update"} /\ t.peers = task[h].peers)
  <2>1. CASE LookForCRD(h)
    <3>1. PICK t : t = [at |-> "ap list", peers |-> task[h].peers, copy |-> task[h].copy]
      OBVIOUS
    <3>2. t.at = "ap list" /\ t.peers = task[h].peers
      BY <3>1
    <3>3. [task[h] EXCEPT !.at = "ap list"] = t
      BY <1>1, <3>1, MovesTask DEF Typed, TasksTyped
    <3>4. task' = [task EXCEPT ![h] = IF crdSeen' THEN t ELSE Idle]
      BY <2>1, <3>3 DEF LookForCRD, Goto
    <3>5. QED
      BY <3>2, <3>4
  <2>2. CASE ListAuthorizationPolicies(h)
    <3>1. PICK t : /\ task' = [task EXCEPT ![h] = t]
                   /\ \/ /\ policy["ap"] # None /\ policy["ap"].peers # task[h].peers
                         /\ t = [at |-> ApplyStage["ap"], peers |-> task[h].peers, copy |-> policy["ap"]]
                      \/ /\ policy["ap"] = None \/ policy["ap"].peers = task[h].peers
                         /\ t = Idle
      <4>1. task' = Listed(h, "ap", Idle)
        BY <2>2 DEF ListAuthorizationPolicies
      <4>2. PICK t : /\ TaskOK(h, t) /\ Listed(h, "ap", Idle) = [task EXCEPT ![h] = t]
                     /\ \/ /\ policy["ap"] # None /\ policy["ap"].peers # task[h].peers
                           /\ t = [at |-> ApplyStage["ap"], peers |-> task[h].peers, copy |-> policy["ap"]]
                        \/ /\ policy["ap"] = None \/ policy["ap"].peers = task[h].peers
                           /\ t = Idle
        BY <1>1, IdleOK, ListedOK
      <4>3. QED
        BY <4>1, <4>2, Zenon
    <3>2. t = Idle \/ t = [at |-> "ap apply", peers |-> task[h].peers, copy |-> policy["ap"]]
      BY <3>1, Stages
    <3>3. CASE t = Idle
      BY <3>1, <3>3
    <3>4. CASE t = [at |-> "ap apply", peers |-> task[h].peers, copy |-> policy["ap"]]
      <4>1. t.at = "ap apply" /\ t.peers = task[h].peers
        BY <3>4
      <4>2. QED
        BY <3>1, <4>1
    <3>5. QED
      BY <3>2, <3>3, <3>4
  <2>3. CASE ApplyAuthorizationPolicy(h)
    BY <2>3 DEF ApplyAuthorizationPolicy
  <2>4. QED
    BY <2>1, <2>2, <2>3
<1>7. QED
  BY <1>2, <1>3, <1>5, <1>6, RefreshKeepsFacts

(* A restart reads everything anew.                                       *)
LEMMA RestartKeepsFacts ==
  ASSUME Typed, Typed', Undisturbed, Restart
  PROVE  ApiFacts'
<1>1. source = "api" /\ StaticApiCIDR = None
  BY DEF Undisturbed
<1>2. task' = [h \in Handler |-> Idle] /\ \A h \in ApiHandler : task'[h] = Idle
  BY ApiHandlers DEF Restart
<1>3. UNCHANGED <<service, slice>> /\ apiServerPeers' = Current
  BY <1>1 DEF Restart, cluster, Endpoints, Current
<1>4. queue'["service"] = <<{service}>> /\ queue'["slice"] = <<slice>>
  BY <1>1, ApiHandlers DEF Restart
<1>5. Alone'
  BY <1>2 DEF Alone
<1>6. ASSUME NEW h \in ApiHandler PROVE HandlerInv(h)'
  <2>1. task'[h].at = "idle"
    <3>1. Idle.at = "idle"
      BY DEF Idle
    <3>2. QED
      BY <1>2, <3>1
  <2>2. queue'[h] = <<Own(h)'>>
    BY <1>3, <1>4, ApiHandlers DEF Own
  <2>3. queue'[h][Len(queue'[h])] = Own(h)'
    BY <2>2
  <2>4. QED
    BY <2>1, <2>3 DEF HandlerInv, Looking
<1>7. CacheInv'
  BY <1>4 DEF CacheInv, Settled
<1>8. PolicyInv'
  <2>1. policy'["np"] = Refreshed("np", apiServerPeers')
    BY <1>1 DEF Restart, Kind
  <2>2. policy["np"] # None => policy'["np"] = [gen |-> policy["np"].gen, peers |-> apiServerPeers']
    BY <2>1, PolicyUpdate DEF Refreshed, Typed, PoliciesTyped, Kind
  <2>3. policy["np"] = None => policy'["np"] = None
    BY <2>1 DEF Refreshed
  <2>4. policy["np"] # None => policy'["np"].peers = apiServerPeers'
    BY <2>2
  <2>5. QED
    BY <2>3, <2>4 DEF PolicyInv
<1>9. QED
  BY <1>5, <1>6, <1>7, <1>8 DEF ApiFacts

(* What the package applies is what the cache holds.                      *)
LEMMA PackageKeepsFacts ==
  ASSUME Typed, ApiFacts, Undisturbed, Undisturbed', ReconcilePackage \/ ApplyGenerated \/ PurgeGenerated
  PROVE  ApiFacts'
<1>1. GeneratedPeers = apiServerPeers
  BY DEF GeneratedPeers, KubeAPI, Undisturbed, Typed, MemoryTyped
<1>2. UNCHANGED <<service, slice, queue, apiServerPeers, task>>
  BY DEF ReconcilePackage, ApplyGenerated, PurgeGenerated, cluster, memory
<1>3. policy'["np"] = None \/ policy'["np"] = policy["np"] \/ policy'["np"].peers = apiServerPeers
  <2>1. CASE ReconcilePackage
    BY <2>1 DEF ReconcilePackage
  <2>2. CASE ApplyGenerated
    <3>1. PICK k \in Kind : policy' = [policy EXCEPT ![k] = [gen |-> pkg.gen, peers |-> pkg.peers]]
      BY <2>2 DEF ApplyGenerated
    <3>2. pkg.peers = GeneratedPeers
      BY <2>2 DEF ApplyGenerated, Undisturbed
    <3>3. policy'["np"] = [gen |-> pkg.gen, peers |-> pkg.peers] \/ policy'["np"] = policy["np"]
      BY <3>1 DEF Typed, PoliciesTyped, Kind
    <3>4. QED
      BY <1>1, <3>2, <3>3
  <2>3. CASE PurgeGenerated
    <3>1. PICK k \in Kind :
            policy' = [policy EXCEPT ![k] = IF policy[k] # None /\ policy[k].gen # pkg.gen THEN None ELSE policy[k]]
      BY <2>3 DEF PurgeGenerated
    <3>2. QED
      BY <3>1 DEF Typed, PoliciesTyped, Kind
  <2>4. QED
    BY <2>1, <2>2, <2>3
<1>4. Alone'
  BY <1>2 DEF ApiFacts, Alone
<1>5. ASSUME NEW h \in ApiHandler PROVE HandlerInv(h)'
  BY <1>2 DEF ApiFacts, HandlerInv, Own, Current, Settled, Looking
<1>6. CacheInv'
  BY <1>2 DEF ApiFacts, CacheInv, Current, Settled, Looking
<1>7. PolicyInv'
  BY <1>2, <1>3 DEF ApiFacts, PolicyInv
<1>8. QED
  BY <1>4, <1>5, <1>6, <1>7 DEF ApiFacts

(* What was overlapped or failed stays so.                                 *)
LEMMA HistoryGrows ==
  ASSUME Typed, PeersNext
  PROVE  UNCHANGED source /\ (failed => failed') /\ (overlapped => overlapped')
<1> DEFINE Grows == UNCHANGED source /\ (failed => failed') /\ (overlapped => overlapped')
<1>1. failed \in BOOLEAN /\ overlapped \in BOOLEAN
  BY DEF Typed, ClusterTyped
<1>2. ASSUME UNCHANGED <<source, failed, overlapped>> PROVE Grows
  BY <1>1, <1>2
<1>3. ASSUME NEW n \in Node, Heartbeat(n) \/ StartNode(n) \/ \E ip : ChangeNode(n, ip) PROVE Grows
  BY <1>2, <1>3 DEF Heartbeat, StartNode, ChangeNode, cluster, history
<1>4. ASSUME NEW ip, ChangeService(ip) \/ ChangeSlice(ip) PROVE Grows
  BY <1>2, <1>4 DEF ChangeService, ChangeSlice, history
<1>5. ASSUME NEW h \in ApiHandler, StartApi(h) PROVE Grows
  BY <1>1, <1>5 DEF StartApi, cluster
<1>6. ASSUME NEW h \in ApiHandler, Fetch(h) \/ UpdateAPIServerCIDR(h) PROVE Grows
  BY <1>2, <1>6 DEF Fetch, UpdateAPIServerCIDR, cluster, history
<1>7. ASSUME NEW h \in Handler, Refresh(h) PROVE Grows
  BY <1>2, <1>7 DEF Refresh, ListNetworkPolicies, ApplyNetworkPolicy, LookForCRD, ListAuthorizationPolicies,
     ApplyAuthorizationPolicy, Applied, cluster, history
<1>8. ASSUME NEW h \in Handler, FailRequest(h) PROVE Grows
  BY <1>1, <1>8 DEF FailRequest, cluster
<1>9. CASE InstallCRD \/ Restart \/ ReconcilePackage \/ PurgeGenerated
  BY <1>2, <1>9 DEF InstallCRD, Restart, ReconcilePackage, PurgeGenerated, cluster, history
<1>10. CASE ApplyGenerated
  BY <1>1, <1>10 DEF ApplyGenerated, cluster
<1>11. QED
  BY <1>3, <1>4, <1>5, <1>6, <1>7, <1>8, <1>9, <1>10 DEF PeersNext, HandleApi

(* Every step of an undisturbed behaviour.                                *)
LEMMA StepKeepsFacts ==
  ASSUME Typed, ApiInv, Undisturbed', [PeersNext]_peerVars
  PROVE  ApiFacts'
<1>1. Typed'
  BY PeersStepTyped
<1>2. CASE UNCHANGED peerVars
  BY <1>2, ApiFactsKept DEF peerVars, ApiInv, Undisturbed
<1>3. ASSUME PeersNext PROVE Undisturbed /\ ApiFacts /\ NodesIdle
  <2>1. UNCHANGED source /\ (failed => failed') /\ (overlapped => overlapped')
    BY <1>3, HistoryGrows
  <2>2. QED
    BY <2>1 DEF Undisturbed, ApiInv
<1>4. ASSUME NEW h \in Handler, Refresh(h) \/ FailRequest(h), Undisturbed, ApiFacts, NodesIdle PROVE ApiFacts'
  <2>1. ~FailRequest(h)
    BY DEF FailRequest, Undisturbed
  <2>2. h \in ApiHandler
    <3>1. task[h] # Idle
      BY <1>4, <2>1, NotIdle DEF Refresh, ListNetworkPolicies, ApplyNetworkPolicy, LookForCRD,
         ListAuthorizationPolicies, ApplyAuthorizationPolicy
    <3>2. QED
      BY <1>4, <3>1, ApiHandlers DEF NodesIdle, Undisturbed
  <2>3. QED
    BY <1>4, <2>1, <2>2, ListNetworkKeepsFacts, ApplyNetworkKeepsFacts, ApKeepsFacts DEF Refresh
<1>5. ASSUME PeersNext, Undisturbed, ApiFacts, NodesIdle PROVE ApiFacts'
  BY <1>1, <1>4, <1>5, ClusterKeepsFacts, StartKeepsFacts, FetchKeepsFacts, UpdateKeepsFacts, RestartKeepsFacts,
     PackageKeepsFacts DEF PeersNext, HandleApi
<1>6. QED
  BY <1>2, <1>3, <1>5

(* Nothing ever happens to the nodes in a behaviour about the API server.  *)
LEMMA StepKeepsNodesIdle ==
  ASSUME Typed, NodesIdle, [PeersNext]_peerVars
  PROVE  NodesIdle'
<1> SUFFICES ASSUME source' = "api", NEW n \in Node
             PROVE  queue'[n] = <<>> /\ task'[n] = Idle
  BY DEF NodesIdle
<1>1. UNCHANGED source
  BY DEF PeersNext, HandleApi, Refresh, Heartbeat, StartNode, ChangeNode, ChangeService, ChangeSlice, StartApi,
         Fetch, UpdateAPIServerCIDR, ListNetworkPolicies, ApplyNetworkPolicy, LookForCRD,
         ListAuthorizationPolicies, ApplyAuthorizationPolicy, FailRequest, InstallCRD, Restart,
         ReconcilePackage, ApplyGenerated, PurgeGenerated, cluster, peerVars
<1>2. source = "api" /\ queue[n] = <<>> /\ task[n] = Idle /\ \A m \in Node : queue[m] = <<>> /\ task[m] = Idle
  BY <1>1 DEF NodesIdle
<1>3. n \in Handler /\ n \notin ApiHandler /\ n # "service" /\ n # "slice"
  BY ApiHandlers DEF Handler
<1>4. DOMAIN queue = Handler /\ DOMAIN task = Handler
  BY DEF Typed, QueueTyped, TasksTyped
<1>5. CASE UNCHANGED <<queue, task>>
  BY <1>2, <1>5
<1>6. ASSUME NEW h \in ApiHandler, NEW q, NEW t,
             queue' = queue \/ queue' = [queue EXCEPT ![h] = q], task' = task \/ task' = [task EXCEPT ![h] = t]
      PROVE  queue'[n] = <<>> /\ task'[n] = Idle
  BY <1>2, <1>3, <1>4, <1>6
<1>7. ASSUME NEW m \in Node PROVE ~Heartbeat(m) /\ ~StartNode(m) /\ \A ip : ~ChangeNode(m, ip)
  BY <1>2 DEF Heartbeat, StartNode, ChangeNode
<1>8. ASSUME NEW ip, ChangeService(ip) \/ ChangeSlice(ip) PROVE queue'[n] = <<>> /\ task'[n] = Idle
  BY <1>2, <1>3, <1>4, <1>8 DEF ChangeService, ChangeSlice
<1>9. ASSUME NEW h \in ApiHandler, HandleApi(h) PROVE queue'[n] = <<>> /\ task'[n] = Idle
  BY <1>2, <1>3, <1>4, <1>9 DEF HandleApi, StartApi, Fetch, UpdateAPIServerCIDR, Goto
<1>10. ASSUME NEW h \in Handler, Refresh(h) \/ FailRequest(h) PROVE queue'[n] = <<>> /\ task'[n] = Idle
  <2>1. UNCHANGED queue
    BY <1>10 DEF Refresh, FailRequest, ListNetworkPolicies, ApplyNetworkPolicy, LookForCRD,
       ListAuthorizationPolicies, ApplyAuthorizationPolicy
  <2>2. h \in Node => task[h].at = "idle"
    BY <1>2 DEF Idle
  <2>3. h \in ApiHandler \/ (FailRequest(h) /\ task' = [task EXCEPT ![h] = Idle])
    BY <1>10, <2>2, ApiHandlers DEF Refresh, FailRequest, ListNetworkPolicies, ApplyNetworkPolicy, LookForCRD,
       ListAuthorizationPolicies, ApplyAuthorizationPolicy
  <2>4. \E t : task' = [task EXCEPT ![h] = t]
    BY <1>10 DEF Refresh, FailRequest, ListNetworkPolicies, ApplyNetworkPolicy, LookForCRD,
       ListAuthorizationPolicies, ApplyAuthorizationPolicy, Listed, Goto
  <2>5. QED
    BY <1>2, <1>3, <1>4, <2>1, <2>3, <2>4
<1>11. CASE Restart
  <2>1. task'[n] = Idle
    BY <1>3, <1>11 DEF Restart
  <2>2. ~(n \in Node <=> source = "nodes")
    BY <1>2
  <2>3. queue'[n] = <<>>
    <3>1. queue'[n] = CASE ~(n \in Node <=> source = "nodes") -> <<>>
                        [] n = "service" /\ source = "api" -> <<{service}>>
                        [] n = "slice" /\ source = "api" -> <<slice>>
                        [] OTHER -> IF nodes[n] = None THEN <<>> ELSE <<[deleted |-> FALSE, ip |-> nodes[n]]>>
      BY <1>3, <1>11 DEF Restart
    <3>2. QED
      BY <1>3, <2>2, <3>1
  <2>4. QED
    BY <2>1, <2>3
<1>12. CASE InstallCRD \/ ReconcilePackage \/ ApplyGenerated \/ PurgeGenerated
  BY <1>5, <1>12 DEF InstallCRD, ReconcilePackage, ApplyGenerated, PurgeGenerated
<1>13. CASE UNCHANGED peerVars
  BY <1>5, <1>13 DEF peerVars
<1>14. QED
  BY <1>7, <1>8, <1>9, <1>10, <1>11, <1>12, <1>13 DEF PeersNext

(* Addresses of the API server that were looked up by handlers one after    *)
(* the other are those of now, in the cache and in the network policies,    *)
(* once all is quiet and no request failed.                                *)
THEOREM ApiPoliciesAreCurrent == PeersSpec => []ApiPoliciesCurrent
<1>1. PeersInit => ApiInv
  <2> SUFFICES ASSUME PeersInit PROVE ApiInv
    OBVIOUS
  <2>1. \A h \in Handler : task[h] = Idle /\ queue[h] = <<>>
    BY DEF PeersInit
  <2>2. NodesIdle
    BY <2>1 DEF NodesIdle, Handler
  <2>3. Idle.at = "idle"
    BY DEF Idle
  <2>4. \A h \in ApiHandler : task[h].at = "idle" /\ queue[h] = <<>>
    BY <2>1, <2>3, ApiHandlers
  <2>5. Alone /\ \A h \in ApiHandler : HandlerInv(h)
    BY <2>1, <2>4, ApiHandlers DEF Alone, HandlerInv, Looking
  <2>6. StaticApiCIDR = None => CacheInv
    BY DEF PeersInit, CacheInv, Current, Endpoints
  <2>7. PolicyInv
    BY DEF PeersInit, PolicyInv, Kind
  <2>8. QED
    BY <2>2, <2>5, <2>6, <2>7 DEF ApiInv, ApiFacts, Undisturbed
<1>2. Typed /\ ApiInv /\ [PeersNext]_peerVars => Typed' /\ ApiInv'
  BY PeersStepTyped, StepKeepsFacts, StepKeepsNodesIdle DEF ApiInv
<1>3. Typed /\ ApiInv => ApiPoliciesCurrent
  <2> SUFFICES ASSUME ApiInv, source = "api", Quiet, ~overlapped, ~failed, StaticApiCIDR = None
               PROVE  /\ apiServerPeers = slice \cup {service}
                      /\ policy["np"] # None => policy["np"].peers = apiServerPeers
    BY DEF ApiPoliciesCurrent
  <2>1. ApiFacts
    BY DEF ApiInv, Undisturbed
  <2>2. \A h \in ApiHandler : task[h] = Idle /\ queue[h] = <<>> /\ Idle.at = "idle"
    BY ApiHandlers DEF Quiet, Idle
  <2>3. Settled /\ \A h \in ApiHandler : task[h].at = "idle"
    BY <2>2, ApiHandlers DEF Settled
  <2>4. QED
    BY <2>1, <2>3 DEF ApiFacts, CacheInv, PolicyInv, Current, Looking
<1>4. QED
  BY <1>1, <1>2, <1>3, PeersInitTyped, PTL DEF PeersSpec
=============================================================================
