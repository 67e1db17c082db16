----------------------- MODULE AuthserviceConfigProofs -----------------------
(***************************************************************************)
(* Proofs about AuthserviceConfig for every set of callers and every       *)
(* bound: whoever holds the lock works on the newest configuration, and no *)
(* change that waits for its write is lost.                                *)
(***************************************************************************)
EXTENDS AuthserviceConfig, FiniteSetTheorems, SequenceTheorems, TLAPS

-----------------------------------------------------------------------------
(* The inductive invariant.                                                *)

(* The one who holds the lock, and the configuration it works on.          *)
LockInv ==
    /\ \A c \in Callers : task[c] \in {"locked", "building"} => lock
    /\ lock => \E c \in Callers : task[c] \in {"locked", "building"}
    /\ \A c, d \in Callers : task[c] \in {"locked", "building"} /\ task[d] \in {"locked", "building"}
                                => c = d
    /\ \A c \in Callers : base[c] # Null <=> task[c] = "building"
    /\ lock => ready

(* The timers that are not armed any more were left behind by a write.     *)
TimerInv ==
    /\ armed => timers # <<>>
    /\ Len(timers) + Len(writes) <= MaxWrites + (IF armed THEN 1 ELSE 0)

(* Before the setup of the secret nothing is in memory, and afterwards the *)
(* secret is there and whoever has a configuration can roll back.          *)
SetupInv ==
    /\ ready => secret # Null
    /\ ~ready => /\ mem = Null /\ last = Null /\ timers = <<>> /\ writes = <<>>
                 /\ \A c \in Callers : task[c] = "none"
                 /\ \A c \in Adds : promise[c] = "none"
    /\ mem # Null => last # Null
    /\ timers # <<>> \/ writes # <<>> => mem # Null
    /\ \A c \in Callers : base[c] # Null => mem # Null

(* A change that waits is in the copy in memory, and in the configuration  *)
(* from which the holder of the lock makes the next copy.                  *)
WaitingInv ==
    \A c \in Callers : task[c] = "waiting" =>
        /\ mem # Null /\ Reflected(c, Encoded(mem))
        /\ \A d \in Callers : base[d] # Null => Reflected(c, Encoded(base[d]))

(* c's change is in the secret and in everything that may be written.      *)
InFlight(c) ==
    /\ \A i \in DOMAIN timers : Reflected(c, Encoded(timers[i]))
    /\ \A i \in DOMAIN writes : Reflected(c, writes[i].made)

Everywhere(c) ==
    /\ Reflected(c, secret)
    /\ mem # Null => Reflected(c, Encoded(mem))
    /\ last # Null => Reflected(c, Encoded(last))
    /\ \A d \in Callers : base[d] # Null => Reflected(c, Encoded(base[d]))
    /\ InFlight(c)

(* One call at a time.                                                     *)
SerialInv ==
    /\ \A c, d \in Callers : task[c] # "none" /\ task[d] # "none" => c = d
    /\ \A c \in Callers : task[c] # "queued"
    /\ \A c \in Callers : promise[c] = "resolved" => task[c] = "none" /\ Everywhere(c)
    /\ (\A c \in Callers : task[c] # "waiting") => timers = <<>> /\ writes = <<>>
    /\ \A c \in Callers : task[c] = "waiting" =>
          /\ Len(timers) + Len(writes) = 1
          /\ InFlight(c)
          /\ \A i \in DOMAIN writes : writes[i].stage = "checksum" =>
                Reflected(c, secret) /\ last # Null /\ Reflected(c, Encoded(last))

WriteType == [made : SUBSET Callers, stage : {"apply", "checksum"}]

Structure == TypeOK /\ LockInv /\ TimerInv /\ SetupInv

-----------------------------------------------------------------------------
(* Sequences.                                                              *)

LEMMA FrontElements ==
  ASSUME NEW S, NEW s \in Seq(S), s # <<>>
  PROVE  /\ Front(s) \in Seq(S)
         /\ Len(Front(s)) = Len(s) - 1
         /\ \A i \in DOMAIN Front(s) : i \in DOMAIN s /\ Front(s)[i] = s[i]
<1> DEFINE n == Len(s) - 1
           front == SubSeq(s, 1, n)
<1>1. n \in Nat /\ Len(s) = n + 1 /\ DOMAIN s = 1 .. n + 1
  OBVIOUS
<1>2. \A i \in 1 .. n : s[i] \in S
  BY <1>1
<1> HIDE DEF n
<1>3. /\ front \in Seq(S)
      /\ Len(front) = IF 1 <= n THEN n - 1 + 1 ELSE 0
      /\ \A i \in 1 .. n - 1 + 1 : front[i] = s[1 + i - 1]
  BY <1>1, <1>2, SubSeqProperties
<1> HIDE DEF front
<1>4. front \in Seq(S) /\ Len(front) = n /\ DOMAIN front = 1 .. n /\ n - 1 + 1 = n
  BY <1>1, <1>3
<1>5. ASSUME NEW i \in 1 .. n
      PROVE  i \in 1 .. n + 1 /\ front[i] = s[i]
  <2>1. 1 + i - 1 = i /\ i \in 1 .. n + 1
    BY <1>1
  <2>2. front[i] = s[1 + i - 1]
    BY <1>3, <1>4
  <2>3. QED
    BY <2>1, <2>2
<1>6. Front(s) = front
  BY DEF Front, front, n
<1>7. QED
  BY <1>1, <1>4, <1>5, <1>6

LEMMA RemoveAtElements ==
  ASSUME NEW S, NEW s \in Seq(S), NEW i \in DOMAIN s
  PROVE  /\ RemoveAt(s, i) \in Seq(S)
         /\ Len(RemoveAt(s, i)) = Len(s) - 1
         /\ \A j \in DOMAIN RemoveAt(s, i) : \E k \in DOMAIN s : RemoveAt(s, i)[j] = s[k]
<1> DEFINE n == Len(s)
           before == SubSeq(s, 1, i - 1)
           after == SubSeq(s, i + 1, n)
           joined == before \o after
<1>1. n \in Nat /\ i \in 1 .. n /\ DOMAIN s = 1 .. n /\ Len(s) = n
  OBVIOUS
<1>2. \A j \in 1 .. n : s[j] \in S
  BY <1>1
<1> HIDE DEF n
<1>3. /\ before \in Seq(S) /\ Len(before) = i - 1
      /\ \A j \in 1 .. i - 1 : before[j] = s[j]
  BY <1>1, <1>2, SubSeqProperties
<1>4. /\ after \in Seq(S) /\ Len(after) = n - i
      /\ \A j \in 1 .. n - i : after[j] = s[i + j]
  <2>1. \A j \in i + 1 .. n : s[j] \in S
    BY <1>1, <1>2
  <2>2. /\ after \in Seq(S) /\ Len(after) = n - i
        /\ \A j \in 1 .. n - (i + 1) + 1 : after[j] = s[i + 1 + j - 1]
    BY <1>1, <2>1, SubSeqProperties
  <2>3. \A j \in 1 .. n - i : after[j] = s[i + j]
    BY <1>1, <2>2
  <2>4. QED
    BY <2>2, <2>3
<1> HIDE DEF before, after
<1>5. /\ joined \in Seq(S)
      /\ Len(joined) = Len(before) + Len(after)
      /\ \A j \in 1 .. Len(before) + Len(after) :
            joined[j] = IF j <= Len(before) THEN before[j] ELSE after[j - Len(before)]
  BY <1>3, <1>4, ConcatProperties, Zenon
<1> HIDE DEF joined
<1>6. Len(joined) = n - 1 /\ DOMAIN joined = 1 .. n - 1
  BY <1>1, <1>3, <1>4, <1>5
<1>7. ASSUME NEW j \in 1 .. n - 1
      PROVE  \E k \in 1 .. n : joined[j] = s[k]
  <2>1. Len(before) = i - 1 /\ j \in 1 .. Len(before) + Len(after)
    BY <1>1, <1>3, <1>4
  <2>2. joined[j] = IF j <= Len(before) THEN before[j] ELSE after[j - Len(before)]
    BY <1>5, <2>1
  <2>3. CASE j <= i - 1
    BY <1>1, <1>3, <2>1, <2>2, <2>3
  <2>4. CASE ~(j <= i - 1)
    <3>1. joined[j] = after[j - (i - 1)]
      BY <2>1, <2>2, <2>4
    <3>2. j - (i - 1) \in 1 .. n - i /\ i + (j - (i - 1)) \in 1 .. n
      BY <1>1, <2>4
    <3>3. QED
      BY <1>4, <3>1, <3>2
  <2>5. QED
    BY <2>3, <2>4
<1>8. RemoveAt(s, i) = joined
  BY DEF RemoveAt, joined, before, after, n
<1>9. QED
  BY <1>1, <1>5, <1>6, <1>7, <1>8

-----------------------------------------------------------------------------
(* The heap: an object for a parsed secret is one nobody refers to.        *)

(* A configuration is not the absent one.                                  *)
LEMMA ConfigIsNotNull == Null \notin Configs
  BY ChainsAssumption, ConfigBoundsAssumption DEF Configs, Objects, Chains

(* Fresh exists, and no configuration in memory refers to it.              *)
LEMMA FreshUnused ==
  ASSUME TypeOK, LockInv, TimerInv
  PROVE  /\ Fresh \in Objects
         /\ mem # Null => mem.oidc # Fresh
         /\ last # Null => last.oidc # Fresh
         /\ \A c \in Callers : base[c] # Null => base[c].oidc # Fresh
         /\ \A i \in DOMAIN timers : timers[i].oidc # Fresh
<1> DEFINE used == {config.oidc : config \in ({mem, last} \cup Range(base) \cup Range(timers)) \ {Null}}
<1>1. /\ mem # Null => mem.oidc \in used
      /\ last # Null => last.oidc \in used
      /\ \A c \in Callers : base[c] # Null => base[c].oidc \in used
      /\ \A i \in DOMAIN timers : timers[i].oidc \in used
  <2>1. DOMAIN base = Callers
    BY DEF TypeOK
  <2>2. \A i \in DOMAIN timers : timers[i] # Null
    BY ConfigIsNotNull DEF TypeOK
  <2>3. QED
    BY <2>1, <2>2 DEF Range
<1>2. \E o \in Objects : o \notin used
  <2>1. SUFFICES ASSUME \A o \in Objects : o \in used
                 PROVE  FALSE
    OBVIOUS
  <2> DEFINE n == Len(timers) + 3
             oid(config) == IF config = Null THEN 1 ELSE config.oidc
             builds == {c \in Callers : base[c] # Null}
             third == IF builds = {} THEN 1 ELSE base[CHOOSE c \in builds : TRUE].oidc
             f == [i \in 1 .. n |-> IF i = 1 THEN oid(mem)
                                    ELSE IF i = 2 THEN oid(last)
                                    ELSE IF i = 3 THEN third ELSE timers[i - 3].oidc]
  <2>2. n \in Nat /\ n <= MaxWrites + 4 /\ n >= 3 /\ DOMAIN timers = 1 .. (n - 3)
    BY ConfigBoundsAssumption DEF TypeOK, TimerInv
  <2>10. /\ f[1] = oid(mem) /\ f[2] = oid(last) /\ f[3] = third
         /\ \A i \in 1 .. (n - 3) : f[i + 3] = timers[i].oidc
         /\ f = [i \in 1 .. n |-> f[i]]
    BY <2>2
  <2>3. 1 \in Objects
    BY ConfigBoundsAssumption DEF Objects
  <2>4. \A i \in 1 .. n : f[i] \in Objects
    <3>1. oid(mem) \in Objects /\ oid(last) \in Objects
      BY <2>3 DEF TypeOK, Configs
    <3>2. third \in Objects
      <4>1. CASE builds = {}
        BY <4>1, <2>3
      <4>2. CASE builds # {}
        <5>1. PICK c \in builds : third = base[c].oidc
          BY <4>2
        <5>2. base[c] \in Configs
          BY DEF TypeOK
        <5>3. QED
          BY <5>1, <5>2 DEF Configs
      <4>3. QED
        BY <4>1, <4>2
    <3>3. \A i \in 1 .. (n - 3) : timers[i].oidc \in Objects
      <4>1. TAKE i \in 1 .. (n - 3)
      <4>2. timers[i] \in Configs
        BY <2>2 DEF TypeOK
      <4>3. QED
        BY <4>2 DEF Configs
    <3>4. QED
      BY <2>2, <3>1, <3>2, <3>3
  <2>5. \A o \in Objects : \E i \in 1 .. n : f[i] = o
    <3>1. TAKE o \in Objects
    <3>2. PICK config \in ({mem, last} \cup Range(base) \cup Range(timers)) \ {Null} : o = config.oidc
      BY <2>1
    <3>3. CASE config = mem
      BY <3>2, <3>3, <2>2, <2>10
    <3>4. CASE config = last
      BY <3>2, <3>4, <2>2, <2>10
    <3>5. CASE config \in Range(base)
      <4>1. PICK c \in Callers : config = base[c]
        BY <3>5 DEF Range, TypeOK
      <4>2. builds # {} /\ \A d \in builds : d = c
        BY <4>1, <3>2 DEF LockInv
      <4>3. third = o
        BY <4>1, <4>2, <3>2
      <4>4. QED
        BY <4>3, <2>2, <2>10
    <3>6. CASE config \in Range(timers)
      <4>1. PICK i \in 1 .. (n - 3) : config = timers[i]
        BY <3>6, <2>2 DEF Range
      <4>2. i + 3 \in 1 .. n
        BY <2>2
      <4> HIDE DEF n, f
      <4>3. f[i + 3] = timers[i].oidc
        BY <2>10
      <4>4. QED
        BY <4>1, <4>2, <4>3, <3>2
    <3>7. QED
      BY <3>2, <3>3, <3>4, <3>5, <3>6
  <2>6. f \in Surjection(1 .. n, Objects)
    BY <2>4, <2>5 DEF Surjection
  <2>7. Cardinality(Objects) <= Cardinality(1 .. n)
    BY <2>2, <2>6, FS_Interval, FS_Surjection
  <2>8. Cardinality(1 .. n) = n /\ Cardinality(Objects) = MaxWrites + 5
    BY <2>2, FS_Interval, ConfigBoundsAssumption DEF Objects
  <2>9. QED
    BY <2>2, <2>7, <2>8, ConfigBoundsAssumption
<1>3. Fresh \in Objects /\ Fresh \notin used
  BY <1>2 DEF Fresh
<1>4. QED
  BY <1>1, <1>3

-----------------------------------------------------------------------------
(* Operators of the model.                                                 *)

LEMMA Bounds == MaxWrites \in Nat /\ MaxFaults \in Nat /\ MaxCrashes \in Nat
  BY ConfigBoundsAssumption

(* A write in flight, and the writes when it ends.                         *)
LEMMA WriteTyped ==
  ASSUME TypeOK, NEW i \in DOMAIN writes
  PROVE  /\ writes \in Seq(WriteType) /\ Len(writes) \in Nat
         /\ writes[i] \in WriteType
         /\ writes[i].made \in SUBSET Callers
         /\ RemoveAt(writes, i) \in Seq(WriteType)
         /\ Len(RemoveAt(writes, i)) = Len(writes) - 1
<1>1. writes \in Seq(WriteType)
  BY DEF TypeOK, WriteType
<1>2. writes[i] \in WriteType /\ Len(writes) \in Nat
  BY <1>1
<1>3. QED
  BY <1>1, <1>2, RemoveAtElements DEF WriteType

LEMMA NothingScheduled == <<>> \in Seq(Configs) /\ <<>> \in Seq(WriteType)
  OBVIOUS

LEMMA ParsedTyped ==
  ASSUME Fresh \in Objects, NEW made \in SUBSET Callers
  PROVE  Parsed(made) \in Configs /\ Parsed(made).oidc = Fresh
  BY DEF Parsed, Configs

(* What a configuration made in memory from another one holds.             *)
LEMMA BuildTyped ==
  ASSUME NEW config \in Configs, NEW c \in Callers
  PROVE  /\ BuildConfig(config, c) \in Configs
         /\ BuildConfig(config, c).oidc = config.oidc
         /\ \A d \in Callers : d # c => (d \in BuildConfig(config, c).chains) = (d \in config.chains)
         /\ c \in Adds => c \in BuildConfig(config, c).chains
         /\ c \in Removes => c \notin BuildConfig(config, c).chains
<1>1. CASE c \in Adds
  BY <1>1, ChainsAssumption DEF BuildConfig, Configs, Chains, Callers
<1>2. CASE c \in Removes
  BY <1>2, ChainsAssumption DEF BuildConfig, Configs, Chains, Callers
<1>3. CASE c \notin Adds /\ c \notin Removes
  BY <1>3 DEF BuildConfig, Configs, Chains, Callers
<1>4. QED
  BY <1>1, <1>2, <1>3

LEMMA EncodedTyped ==
  ASSUME TypeOK, NEW config \in Configs
  PROVE  Encoded(config) \in SUBSET Callers
  BY DEF Encoded, Configs, TypeOK, Callers

(* Clearing the armed timer and setting a new one.                         *)
LEMMA RearmedTimers ==
  ASSUME TypeOK, TimerInv, NEW config \in Configs
  PROVE  LET rearmed == Append(IF armed THEN Front(timers) ELSE timers, config)
         IN  /\ rearmed \in Seq(Configs)
             /\ rearmed # <<>>
             /\ Len(rearmed) = IF armed THEN Len(timers) ELSE Len(timers) + 1
             /\ \A i \in DOMAIN rearmed : \/ rearmed[i] = config
                                          \/ i \in DOMAIN timers /\ rearmed[i] = timers[i]
<1>1. timers \in Seq(Configs) /\ Len(timers) \in Nat
  BY DEF TypeOK
<1>2. CASE armed
  <2>1. timers # <<>>
    BY <1>2 DEF TimerInv
  <2>2. /\ Front(timers) \in Seq(Configs) /\ Len(Front(timers)) = Len(timers) - 1
        /\ \A i \in DOMAIN Front(timers) : i \in DOMAIN timers /\ Front(timers)[i] = timers[i]
    BY <1>1, <2>1, FrontElements
  <2>3. QED
    BY <1>1, <1>2, <2>2
<1>3. CASE ~armed
  BY <1>1, <1>3
<1>4. QED
  BY <1>2, <1>3 DEF TypeOK

-----------------------------------------------------------------------------
(* Type correctness and the structure it rests on.                         *)

LEMMA InitStructure == Init => Structure
<1> USE Bounds
<1> SUFFICES ASSUME Init
             PROVE  Structure
  OBVIOUS
<1>1. secret = Null \/ secret \in SUBSET Callers
  BY DEF Init, Callers, Chains
<1>2. timers = <<>> /\ writes = <<>> /\ Len(timers) = 0 /\ Len(writes) = 0
  BY DEF Init
<1>3. TypeOK
  <2>1. oidc \in [Objects -> SUBSET Globals] /\ {mem, last} \subseteq Configs \cup {Null}
    BY DEF Init
  <2>2. base \in [Callers -> Configs \cup {Null}]
    BY DEF Init
  <2>3. faults \in 0 .. MaxFaults /\ crashes \in 0 .. MaxCrashes
    BY Bounds DEF Init
  <2>4. task \in [Callers -> {"none", "queued", "locked", "building", "waiting"}]
    BY DEF Init
  <2>5. promise \in [Callers -> {"none", "open", "resolved", "rejected"}]
    BY DEF Init
  <2>6. timers \in Seq(Configs) /\ writes \in Seq(WriteType)
    BY <1>2, NothingScheduled
  <2>7. lock \in BOOLEAN /\ armed \in BOOLEAN /\ ready \in BOOLEAN /\ overlapped \in BOOLEAN
    BY DEF Init
  <2>8. QED
    BY <1>1, <2>1, <2>2, <2>3, <2>4, <2>5, <2>6, <2>7 DEF TypeOK, WriteType
<1>4. LockInv
  BY DEF Init, LockInv
<1>5. TimerInv
  BY <1>2 DEF Init, TimerInv
<1>6. SetupInv
  BY DEF Init, SetupInv, Callers, Chains
<1>7. QED
  BY <1>3, <1>4, <1>5, <1>6 DEF Structure

LEMMA StepTyped == Structure /\ [Next]_vars => TypeOK'
<1> SUFFICES ASSUME Structure, [Next]_vars
             PROVE  TypeOK'
  OBVIOUS
<1> USE DEF Structure
<1>1. Fresh \in Objects
  BY FreshUnused
<1>2. \A made \in SUBSET Callers : Parsed(made) \in Configs
  BY <1>1, ParsedTyped
<1>3. CASE SetupFindsSecret
  BY <1>3 DEF SetupFindsSecret, TypeOK
<1>4. CASE SetupCreatesSecret
  <2>1. secret' \in SUBSET Globals /\ secret' \in SUBSET Callers
    BY <1>4 DEF SetupCreatesSecret, Callers
  <2>2. oidc' \in [Objects -> SUBSET Globals] /\ last' \in Configs
    BY <1>1, <1>2, <1>4, <2>1 DEF SetupCreatesSecret, TypeOK
  <2>3. faults' \in 0 .. MaxFaults
    BY <1>4, Bounds DEF SetupCreatesSecret, UseFault, TypeOK
  <2>4. QED
    BY <1>4, <2>1, <2>2, <2>3 DEF SetupCreatesSecret, TypeOK
<1>5. ASSUME NEW c \in Callers, Call(c)
      PROVE  TypeOK'
  BY <1>5 DEF Call, MayCall, TypeOK
<1>6. ASSUME NEW c \in Callers, Retry(c)
      PROVE  TypeOK'
  BY <1>6 DEF Retry, TypeOK
<1>7. ASSUME NEW c \in Callers, GetAuthserviceConfig(c)
      PROVE  TypeOK'
  <2>1. secret # Null /\ secret \in SUBSET Callers
    BY <1>7 DEF GetAuthserviceConfig, LockInv, SetupInv, TypeOK
  <2>2. mem' \in Configs /\ last' \in Configs \cup {Null} /\ oidc' \in [Objects -> SUBSET Globals]
    BY <1>1, <1>2, <1>7, <2>1 DEF GetAuthserviceConfig, TypeOK
  <2>3. QED
    BY <1>7, <2>2 DEF GetAuthserviceConfig, TypeOK
<1>8. ASSUME NEW c \in Callers, FetchFails(c)
      PROVE  TypeOK'
  <2>1. faults' \in 0 .. MaxFaults
    BY <1>8, Bounds DEF FetchFails, UseFault, TypeOK
  <2>2. promise' \in [Callers -> {"none", "open", "resolved", "rejected"}]
    BY <1>8 DEF FetchFails, TypeOK
  <2>3. QED
    BY <1>8, <2>1, <2>2 DEF FetchFails, TypeOK
<1>9. ASSUME NEW c \in Callers, UpdateAuthServiceSecret(c)
      PROVE  TypeOK'
  <2>1. base[c] \in Configs
    BY <1>9 DEF UpdateAuthServiceSecret, LockInv, TypeOK
  <2>2. mem' \in Configs
    BY <1>9, <2>1, BuildTyped DEF UpdateAuthServiceSecret
  <2>3. timers' \in Seq(Configs)
    BY <1>9, <2>2, RearmedTimers DEF UpdateAuthServiceSecret
  <2>4. oidc' \in [Objects -> SUBSET Globals]
    BY <1>9, <2>1 DEF UpdateAuthServiceSecret, TypeOK, Configs
  <2>5. QED
    BY <1>9, <2>2, <2>3, <2>4 DEF UpdateAuthServiceSecret, TypeOK
<1>10. CASE TimerFires
  <2>1. Head(timers) \in Configs /\ Tail(timers) \in Seq(Configs)
    BY <1>10 DEF TimerFires, TypeOK
  <2>2. [made |-> Encoded(Head(timers)), stage |-> "apply"] \in WriteType
    BY <2>1, EncodedTyped DEF WriteType
  <2>3. writes' \in Seq(WriteType)
    BY <1>10, <2>2 DEF TimerFires, TypeOK, WriteType
  <2>4. armed' \in BOOLEAN
    BY <1>10, Zenon DEF TimerFires
  <2>5. QED
    BY <1>10, <2>1, <2>3, <2>4 DEF TimerFires, TypeOK, WriteType
<1>11. ASSUME NEW i \in DOMAIN writes, SecretApplied(i)
       PROVE  TypeOK'
  <2>1. [writes[i] EXCEPT !.stage = "checksum"] \in WriteType
    BY WriteTyped DEF WriteType
  <2>2. writes' \in Seq(WriteType)
    <3>1. writes' = [writes EXCEPT ![i] = [writes[i] EXCEPT !.stage = "checksum"]]
      BY <1>11 DEF SecretApplied
    <3>2. QED
      BY <2>1, <3>1, WriteTyped
  <2>3. secret' \in SUBSET Callers /\ last' \in Configs /\ oidc' \in [Objects -> SUBSET Globals]
    BY <1>1, <1>2, <1>11, WriteTyped DEF SecretApplied, TypeOK
  <2>4. QED
    BY <1>11, <2>2, <2>3 DEF SecretApplied, TypeOK, WriteType
<1>12. ASSUME NEW i \in DOMAIN writes, DeploymentChecksummed(i)
       PROVE  TypeOK'
  <2>1. writes' \in Seq(WriteType)
    BY <1>12, WriteTyped DEF DeploymentChecksummed
  <2>2. QED
    BY <1>12, <2>1 DEF DeploymentChecksummed, Settle, TypeOK, WriteType
<1>13. ASSUME NEW i \in DOMAIN writes, WriteFails(i)
       PROVE  TypeOK'
  <2>1. writes' \in Seq(WriteType)
    BY <1>13, WriteTyped DEF WriteFails
  <2>2. secret' = Null \/ secret' \in SUBSET Callers
    BY <1>13, WriteTyped DEF WriteFails, TypeOK
  <2>3. faults' \in 0 .. MaxFaults
    BY <1>13, Bounds DEF WriteFails, UseFault, TypeOK
  <2>4. QED
    BY <1>13, <2>1, <2>2, <2>3 DEF WriteFails, Settle, TypeOK, WriteType
<1>14. CASE Crash
  <2>1. promise' \in [Callers -> {"none", "open", "resolved", "rejected"}]
    BY <1>14 DEF Crash, TypeOK
  <2>2. crashes' \in 0 .. MaxCrashes
    BY <1>14, Bounds DEF Crash, TypeOK
  <2>3. QED
    BY <1>14, <2>1, <2>2, NothingScheduled DEF Crash, TypeOK, WriteType
<1>15. CASE UNCHANGED vars
  BY <1>15 DEF vars, TypeOK
<1>16. QED
  BY <1>3, <1>4, <1>5, <1>6, <1>7, <1>8, <1>9, <1>10, <1>11, <1>12, <1>13, <1>14, <1>15
     DEF Next, Setup, Caller, Writer

LEMMA StepLock == Structure /\ [Next]_vars => LockInv'
<1> SUFFICES ASSUME Structure, [Next]_vars
             PROVE  LockInv'
  OBVIOUS
<1> USE DEF Structure
<1>1. task \in [Callers -> {"none", "queued", "locked", "building", "waiting"}] /\ DOMAIN base = Callers
  BY DEF TypeOK
<1>2. CASE Setup
  BY <1>2 DEF Setup, SetupFindsSecret, SetupCreatesSecret, LockInv
<1>3. ASSUME NEW c \in Callers, Call(c)
      PROVE  LockInv'
  <2>1. task' = [task EXCEPT ![c] = IF lock THEN "queued" ELSE "locked"] /\ base' = base
    BY <1>3 DEF Call
  <2>2. lock' /\ ready' /\ task[c] = "none"
    BY <1>3 DEF Call, MayCall
  <2>3. CASE lock
    BY <1>1, <2>1, <2>2, <2>3 DEF LockInv
  <2>4. CASE ~lock
    BY <1>1, <2>1, <2>2, <2>4 DEF LockInv
  <2>5. QED
    BY <2>3, <2>4
<1>4. ASSUME NEW c \in Callers, Retry(c)
      PROVE  LockInv'
  BY <1>1, <1>4 DEF Retry, LockInv, SetupInv, TypeOK
<1>5. ASSUME NEW c \in Callers, GetAuthserviceConfig(c)
      PROVE  LockInv'
  <2>1. mem' # Null
    <3>1. CASE mem = Null
      <4>1. secret \in SUBSET Callers
        BY <1>5 DEF GetAuthserviceConfig, LockInv, SetupInv, TypeOK
      <4>2. Parsed(secret) # Null
        BY <4>1, FreshUnused, ParsedTyped, ConfigIsNotNull
      <4>3. QED
        BY <1>5, <3>1, <4>2 DEF GetAuthserviceConfig
    <3>2. QED
      BY <1>5, <3>1 DEF GetAuthserviceConfig
  <2>2. /\ task' = [task EXCEPT ![c] = "building"] /\ base' = [base EXCEPT ![c] = mem']
        /\ lock' = lock /\ ready' = ready /\ task[c] = "locked"
    BY <1>5 DEF GetAuthserviceConfig
  <2>3. QED
    BY <1>1, <2>1, <2>2 DEF LockInv
<1>6. ASSUME NEW c \in Callers, FetchFails(c)
      PROVE  LockInv'
  BY <1>1, <1>6 DEF FetchFails, LockInv
<1>7. ASSUME NEW c \in Callers, UpdateAuthServiceSecret(c)
      PROVE  LockInv'
  <2>1. /\ task' = [task EXCEPT ![c] = "waiting"] /\ base' = [base EXCEPT ![c] = Null]
        /\ ~lock' /\ task[c] = "building"
    BY <1>7 DEF UpdateAuthServiceSecret
  <2>2. QED
    BY <1>1, <2>1 DEF LockInv
<1>8. CASE TimerFires
  BY <1>8 DEF TimerFires, LockInv
<1>9. ASSUME NEW i \in DOMAIN writes, SecretApplied(i)
      PROVE  LockInv'
  BY <1>9 DEF SecretApplied, LockInv
<1>10. ASSUME NEW i \in DOMAIN writes, DeploymentChecksummed(i) \/ WriteFails(i)
       PROVE  LockInv'
  <2>1. /\ task' = [c \in Callers |-> IF task[c] = "waiting" THEN "none" ELSE task[c]]
        /\ base' = base /\ lock' = lock /\ ready' = ready
    BY <1>10 DEF DeploymentChecksummed, WriteFails, Settle
  <2>2. QED
    BY <1>1, <2>1 DEF LockInv
<1>11. CASE Crash
  BY <1>11 DEF Crash, LockInv
<1>12. CASE UNCHANGED vars
  BY <1>12 DEF vars, LockInv
<1>13. QED
  BY <1>2, <1>3, <1>4, <1>5, <1>6, <1>7, <1>8, <1>9, <1>10, <1>11, <1>12 DEF Next, Caller, Writer

LEMMA StepTimers == Structure /\ [Next]_vars => TimerInv'
<1> SUFFICES ASSUME Structure, [Next]_vars
             PROVE  TimerInv'
  OBVIOUS
<1> USE DEF Structure
<1>1. Len(timers) \in Nat /\ Len(writes) \in Nat /\ MaxWrites \in Nat
  BY Bounds DEF TypeOK
<1>2. CASE \/ Setup \/ UNCHANGED vars
           \/ \E c \in Callers : Call(c) \/ Retry(c) \/ GetAuthserviceConfig(c) \/ FetchFails(c)
  <2>1. timers' = timers /\ writes' = writes /\ armed' = armed
    BY <1>2 DEF Setup, SetupFindsSecret, SetupCreatesSecret, vars, Call, Retry, GetAuthserviceConfig,
                FetchFails
  <2>2. QED
    BY <2>1 DEF TimerInv
<1>3. ASSUME NEW c \in Callers, UpdateAuthServiceSecret(c)
      PROVE  TimerInv'
  <2>1. base[c] \in Configs
    BY <1>3 DEF UpdateAuthServiceSecret, LockInv, TypeOK
  <2>2. mem' \in Configs
    BY <1>3, <2>1, BuildTyped DEF UpdateAuthServiceSecret
  <2>3. timers' # <<>> /\ Len(timers') = IF armed THEN Len(timers) ELSE Len(timers) + 1
    BY <1>3, <2>2, RearmedTimers DEF UpdateAuthServiceSecret
  <2>4. writes' = writes /\ armed'
    BY <1>3 DEF UpdateAuthServiceSecret
  <2>5. QED
    BY <1>1, <2>3, <2>4 DEF TimerInv
<1>4. CASE TimerFires
  <2>1. timers # <<>> /\ timers \in Seq(Configs) /\ timers' = Tail(timers)
    BY <1>4 DEF TimerFires, TypeOK
  <2>2. Len(timers') = Len(timers) - 1 /\ Len(timers) >= 1
    BY <2>1
  <2>3. writes \in Seq(WriteType) /\ Len(writes') = Len(writes) + 1 /\ Len(writes) < MaxWrites
    BY <1>4 DEF TimerFires, TypeOK, WriteType
  <2>4. armed' <=> armed /\ Len(timers) > 1
    BY <1>4, Zenon DEF TimerFires
  <2>5. Len(timers') # 0 => timers' # <<>>
    BY <2>1
  <2>6. CASE armed
    BY <1>1, <2>2, <2>3, <2>4, <2>5, <2>6 DEF TimerInv
  <2>7. CASE ~armed
    BY <1>1, <2>2, <2>3, <2>4, <2>7 DEF TimerInv
  <2>8. QED
    BY <2>6, <2>7
<1>5. ASSUME NEW i \in DOMAIN writes, SecretApplied(i)
      PROVE  TimerInv'
  <2>1. Len(writes') = Len(writes)
    BY <1>5, WriteTyped DEF SecretApplied
  <2>2. QED
    BY <1>5, <2>1 DEF SecretApplied, TimerInv
<1>6. ASSUME NEW i \in DOMAIN writes, DeploymentChecksummed(i) \/ WriteFails(i)
      PROVE  TimerInv'
  <2>1. Len(writes') = Len(writes) - 1 /\ timers' = timers /\ ~armed'
    BY <1>6, WriteTyped DEF DeploymentChecksummed, WriteFails
  <2>2. QED
    BY <1>1, <2>1 DEF TimerInv
<1>7. CASE Crash
  <2>1. ~armed' /\ Len(timers') = 0 /\ Len(writes') = 0
    BY <1>7 DEF Crash
  <2>2. QED
    BY <1>1, <2>1 DEF TimerInv
<1>8. QED
  BY <1>2, <1>3, <1>4, <1>5, <1>6, <1>7 DEF Next, Caller, Writer

LEMMA StepSetup == Structure /\ [Next]_vars => SetupInv'
<1> SUFFICES ASSUME Structure, [Next]_vars
             PROVE  SetupInv'
  OBVIOUS
<1> USE DEF Structure
<1>1. \A made \in SUBSET Callers : Parsed(made) \in Configs /\ Parsed(made) # Null /\ made # Null
  BY FreshUnused, ParsedTyped, ConfigIsNotNull, ChainsAssumption DEF Callers, Chains
<1>2. DOMAIN base = Callers /\ DOMAIN task = Callers /\ DOMAIN promise = Callers
  BY DEF TypeOK
<1>3. CASE Setup
  <2>1. CASE SetupFindsSecret
    BY <2>1 DEF SetupFindsSecret, SetupInv
  <2>2. CASE SetupCreatesSecret
    <3>1. secret' \in SUBSET Callers /\ {} \in SUBSET Callers
      BY <2>2 DEF SetupCreatesSecret, Callers
    <3>2. secret' # Null /\ last' # Null /\ ready'
      BY <1>1, <2>2, <3>1 DEF SetupCreatesSecret
    <3>3. QED
      BY <2>2, <3>2 DEF SetupCreatesSecret, SetupInv
  <2>3. QED
    BY <1>3, <2>1, <2>2 DEF Setup
<1>4. ASSUME NEW c \in Callers, Call(c) \/ Retry(c) \/ FetchFails(c)
      PROVE  SetupInv'
  <2>1. ready
    BY <1>4 DEF Call, MayCall, Retry, FetchFails, LockInv, SetupInv
  <2>2. UNCHANGED <<secret, mem, last, base, timers, writes, ready>>
    BY <1>4 DEF Call, Retry, FetchFails
  <2>3. QED
    BY <2>1, <2>2 DEF SetupInv
<1>5. ASSUME NEW c \in Callers, GetAuthserviceConfig(c)
      PROVE  SetupInv'
  <2>1. ready /\ secret # Null /\ secret \in SUBSET Callers
    BY <1>5 DEF GetAuthserviceConfig, LockInv, SetupInv, TypeOK
  <2>2. mem' # Null /\ last' # Null
    BY <1>1, <1>5, <2>1 DEF GetAuthserviceConfig, SetupInv
  <2>3. QED
    BY <1>5, <2>1, <2>2 DEF GetAuthserviceConfig, SetupInv
<1>6. ASSUME NEW c \in Callers, UpdateAuthServiceSecret(c)
      PROVE  SetupInv'
  <2>1. base[c] \in Configs /\ base[c] # Null /\ ready
    BY <1>6 DEF UpdateAuthServiceSecret, LockInv, TypeOK
  <2>2. mem' # Null
    BY <1>6, <2>1, BuildTyped, ConfigIsNotNull DEF UpdateAuthServiceSecret
  <2>3. ready' /\ secret' = secret /\ last' = last
    BY <1>6, <2>1 DEF UpdateAuthServiceSecret
  <2>4. QED
    BY <2>1, <2>2, <2>3 DEF SetupInv
<1>7. CASE TimerFires
  <2>1. ready /\ mem # Null
    BY <1>7 DEF TimerFires, SetupInv
  <2>2. QED
    BY <1>7, <2>1 DEF TimerFires, SetupInv
<1>8. ASSUME NEW i \in DOMAIN writes, SecretApplied(i) \/ DeploymentChecksummed(i) \/ WriteFails(i)
      PROVE  SetupInv'
  <2>1. writes # <<>>
    BY <1>8 DEF TypeOK
  <2>2. ready /\ mem # Null /\ last # Null /\ secret # Null
    BY <2>1 DEF SetupInv
  <2>3. writes[i].made \in SUBSET Callers
    BY WriteTyped
  <2>4. secret' # Null /\ last' # Null /\ mem' # Null /\ ready'
    BY <1>1, <1>8, <2>2, <2>3 DEF SecretApplied, DeploymentChecksummed, WriteFails
  <2>5. QED
    BY <2>4 DEF SetupInv
<1>9. CASE Crash
  <2>1. \A c \in Adds : promise'[c] = "none"
    BY <1>9, ChainsAssumption DEF Crash, Callers, Chains
  <2>2. QED
    BY <1>9, <2>1 DEF Crash, SetupInv
<1>10. CASE UNCHANGED vars
  BY <1>10 DEF vars, SetupInv
<1>11. QED
  BY <1>3, <1>4, <1>5, <1>6, <1>7, <1>8, <1>9, <1>10 DEF Next, Caller, Writer

(* Every variable keeps its type, whoever holds the lock is the only one,  *)
(* and every configuration in memory has an object of its own or shares    *)
(* one on purpose.                                                         *)
THEOREM StructureHolds == Spec => []Structure
<1>1. Structure /\ [Next]_vars => Structure'
  BY StepTyped, StepLock, StepTimers, StepSetup DEF Structure
<1>2. QED
  BY InitStructure, <1>1, PTL DEF Spec

(* The types of the variables, and the bounds of their counters.           *)
THEOREM TypeCorrect == Spec => []TypeOK
  BY StructureHolds, PTL DEF Structure

-----------------------------------------------------------------------------
(* No change that waits for its write is lost.                             *)

(* A newly parsed secret leaves every configuration in memory as it was.   *)
LEMMA HeapKept ==
  ASSUME TypeOK, LockInv, TimerInv, NEW made, oidc' = [oidc EXCEPT ![Fresh] = made]
  PROVE  /\ mem # Null => oidc'[mem.oidc] = oidc[mem.oidc]
         /\ last # Null => oidc'[last.oidc] = oidc[last.oidc]
         /\ \A d \in Callers : base[d] # Null => oidc'[base[d].oidc] = oidc[base[d].oidc]
         /\ \A i \in DOMAIN timers : oidc'[timers[i].oidc] = oidc[timers[i].oidc]
<1>1. \A config \in Configs : config.oidc # Fresh => oidc'[config.oidc] = oidc[config.oidc]
  BY DEF TypeOK, Configs
<1>2. \A i \in DOMAIN timers : timers[i] \in Configs
  BY DEF TypeOK
<1>3. \A d \in Callers : base[d] # Null => base[d] \in Configs
  BY DEF TypeOK
<1>4. (mem # Null => mem \in Configs) /\ (last # Null => last \in Configs)
  BY DEF TypeOK
<1>5. QED
  BY <1>1, <1>2, <1>3, <1>4, FreshUnused

(* The copy that c makes shows c's change, and every change its base shows. *)
LEMMA UpdateReflects ==
  ASSUME Structure, NEW c \in Callers, UpdateAuthServiceSecret(c)
  PROVE  /\ mem' \in Configs /\ mem' # Null
         /\ Reflected(c, Encoded(mem)')
         /\ \A d \in Callers : Reflected(d, Encoded(base[c])) => Reflected(d, Encoded(mem)')
         /\ \A d \in Callers : \A config \in Configs :
               Reflected(d, Encoded(config)) => d = c \/ Reflected(d, config.chains \cup oidc'[config.oidc])
<1>1. base[c] \in Configs
  BY DEF Structure, UpdateAuthServiceSecret, LockInv, TypeOK
<1> DEFINE o == base[c].oidc
<1>2. mem' \in Configs /\ mem' # Null /\ mem'.oidc = o
  BY <1>1, BuildTyped, ConfigIsNotNull DEF UpdateAuthServiceSecret
<1>3. o \in Objects /\ oidc \in [Objects -> SUBSET Globals] /\ oidc' = [oidc EXCEPT ![o] = @ \cup ({c} \cap Globals)]
  BY <1>1 DEF Structure, UpdateAuthServiceSecret, TypeOK, Configs
<1>4. \A p \in Objects : /\ oidc[p] \subseteq Globals
                         /\ oidc'[p] = IF p = o THEN oidc[p] \cup ({c} \cap Globals) ELSE oidc[p]
  BY <1>3
<1>5. Encoded(mem)' = mem'.chains \cup oidc'[o]
  BY <1>2 DEF Encoded
<1>6. Encoded(base[c]) = base[c].chains \cup oidc[o]
  BY DEF Encoded
<1>7. /\ \A d \in Callers : d # c => (d \in mem'.chains <=> d \in base[c].chains)
      /\ c \in Adds => c \in mem'.chains
      /\ c \in Removes => c \notin mem'.chains
  BY <1>1, BuildTyped DEF UpdateAuthServiceSecret
<1>8. Globals \cap Removes = {} /\ Adds \cap Removes = {}
  BY ChainsAssumption
<1> HIDE DEF o
<1>9. Reflected(c, Encoded(mem)')
  <2>1. CASE c \in Removes
    BY <1>3, <1>4, <1>5, <1>7, <1>8, <2>1 DEF Reflected
  <2>2. CASE c \in Adds
    BY <1>5, <1>7, <1>8, <2>2 DEF Reflected
  <2>3. CASE c \in Globals
    BY <1>3, <1>4, <1>5, <1>8, <2>3 DEF Reflected
  <2>4. QED
    BY <2>1, <2>2, <2>3 DEF Callers, Chains
<1>10. ASSUME NEW d \in Callers, Reflected(d, Encoded(base[c]))
       PROVE  Reflected(d, Encoded(mem)')
  <2>1. CASE d = c
    BY <1>9, <2>1
  <2>2. CASE d # c
    BY <1>3, <1>4, <1>5, <1>6, <1>7, <1>10, <2>2 DEF Reflected
  <2>3. QED
    BY <2>1, <2>2
<1>11. ASSUME NEW d \in Callers, NEW config \in Configs, Reflected(d, Encoded(config)), d # c
       PROVE  Reflected(d, config.chains \cup oidc'[config.oidc])
  <2>1. config.oidc \in Objects
    BY DEF Configs
  <2>2. QED
    BY <1>4, <1>11, <2>1 DEF Reflected, Encoded
<1>12. QED
  BY <1>2, <1>9, <1>10, <1>11

LEMMA StepWaiting == Structure /\ WaitingInv /\ [Next]_vars => WaitingInv'
<1> SUFFICES ASSUME Structure, WaitingInv, [Next]_vars
             PROVE  WaitingInv'
  OBVIOUS
<1> USE DEF Structure
<1>1. DOMAIN task = Callers /\ DOMAIN base = Callers
  BY DEF TypeOK
<1>2. CASE Setup
  BY <1>2 DEF Setup, SetupFindsSecret, SetupCreatesSecret, SetupInv, WaitingInv, Encoded
<1>3. ASSUME NEW c \in Callers, Call(c) \/ Retry(c) \/ FetchFails(c)
      PROVE  WaitingInv'
  <2>1. UNCHANGED <<mem, base, oidc>> /\ \A d \in Callers : task'[d] = "waiting" => task[d] = "waiting"
    BY <1>1, <1>3 DEF Call, Retry, FetchFails
  <2>2. QED
    BY <2>1 DEF WaitingInv, Encoded
<1>4. ASSUME NEW c \in Callers, GetAuthserviceConfig(c)
      PROVE  WaitingInv'
  <2>1. \A d \in Callers : task'[d] = "waiting" => task[d] = "waiting"
    BY <1>1, <1>4 DEF GetAuthserviceConfig
  <2>2. CASE mem = Null
    BY <2>1, <2>2 DEF WaitingInv
  <2>3. CASE mem # Null
    <3>1. mem' = mem /\ oidc' = oidc /\ base' = [base EXCEPT ![c] = mem]
      BY <1>4, <2>3 DEF GetAuthserviceConfig
    <3>2. QED
      BY <1>1, <2>1, <3>1 DEF WaitingInv, Encoded
  <2>4. QED
    BY <2>2, <2>3
<1>5. ASSUME NEW c \in Callers, UpdateAuthServiceSecret(c)
      PROVE  WaitingInv'
  <2>1. base[c] # Null /\ base' = [base EXCEPT ![c] = Null]
    BY <1>5 DEF UpdateAuthServiceSecret, LockInv
  <2>2. \A d \in Callers : base'[d] = Null
    BY <1>1, <1>5, <2>1 DEF UpdateAuthServiceSecret, LockInv
  <2>3. \A d \in Callers : task'[d] = "waiting" => d = c \/ task[d] = "waiting"
    BY <1>1, <1>5 DEF UpdateAuthServiceSecret
  <2>4. \A d \in Callers : task'[d] = "waiting" => mem' # Null /\ Reflected(d, Encoded(mem)')
    BY <1>5, <2>1, <2>3, UpdateReflects DEF WaitingInv
  <2>5. QED
    BY <2>2, <2>4 DEF WaitingInv
<1>6. CASE TimerFires \/ UNCHANGED vars
  BY <1>6 DEF TimerFires, vars, WaitingInv, Encoded
<1>7. ASSUME NEW i \in DOMAIN writes, SecretApplied(i)
      PROVE  WaitingInv'
  <2>1. UNCHANGED <<mem, base, task>> /\ oidc' = [oidc EXCEPT ![Fresh] = writes[i].made \cap Globals]
    BY <1>7 DEF SecretApplied
  <2>2. /\ mem # Null => oidc'[mem.oidc] = oidc[mem.oidc]
        /\ \A d \in Callers : base[d] # Null => oidc'[base[d].oidc] = oidc[base[d].oidc]
    BY <2>1, HeapKept
  <2>3. QED
    BY <2>1, <2>2 DEF WaitingInv, Encoded
<1>8. ASSUME NEW i \in DOMAIN writes, DeploymentChecksummed(i) \/ WriteFails(i)
      PROVE  WaitingInv'
  BY <1>8 DEF DeploymentChecksummed, WriteFails, Settle, WaitingInv
<1>9. CASE Crash
  BY <1>9 DEF Crash, WaitingInv
<1>10. QED
  BY <1>2, <1>3, <1>4, <1>5, <1>6, <1>7, <1>8, <1>9 DEF Next, Caller, Writer

(* However calls overlap, fail and restart, the change of every caller that *)
(* waits is in the configuration from which the next one is made.          *)
THEOREM ChangesSurvive == Spec => []NoLostUpdate
<1>1. Init => WaitingInv
  BY DEF Init, WaitingInv
<1>2. WaitingInv => NoLostUpdate
  BY DEF WaitingInv, NoLostUpdate
<1>3. QED
  BY <1>1, <1>2, StepWaiting, StructureHolds, PTL DEF Spec

-----------------------------------------------------------------------------
(* A resolved call is in the secret, while calls do not overlap.           *)

LEMMA ParsedEncoded ==
  ASSUME TypeOK, Fresh \in Objects, NEW made \in SUBSET Callers,
         oidc' = [oidc EXCEPT ![Fresh] = made \cap Globals]
  PROVE  Parsed(made).chains \cup oidc'[Parsed(made).oidc] = made
BY DEF Parsed, TypeOK, Callers

(* While nobody waits, nothing is scheduled; otherwise exactly one thing is. *)
LEMMA OneInFlight ==
  ASSUME Structure, SerialInv
  PROVE  /\ timers # <<>> => Len(timers) = 1 /\ writes = <<>>
         /\ writes # <<>> => Len(writes) = 1 /\ timers = <<>>
         /\ timers # <<>> \/ writes # <<>> => \E c \in Callers : task[c] = "waiting"
<1>1. timers \in Seq(Configs) /\ writes \in Seq(WriteType)
  BY DEF Structure, TypeOK, WriteType
<1>2. CASE \A c \in Callers : task[c] # "waiting"
  BY <1>2 DEF SerialInv
<1>3. CASE \E c \in Callers : task[c] = "waiting"
  <2>1. Len(timers) + Len(writes) = 1
    BY <1>3 DEF SerialInv
  <2>2. Len(timers) \in Nat /\ Len(writes) \in Nat
    BY <1>1
  <2>3. (Len(timers) = 0 => timers = <<>>) /\ (Len(writes) = 0 => writes = <<>>)
    BY <1>1
  <2>4. (timers # <<>> => Len(timers) # 0) /\ (writes # <<>> => Len(writes) # 0)
    BY <1>1
  <2>5. \/ Len(timers) = 0 /\ Len(writes) = 1
        \/ Len(timers) = 1 /\ Len(writes) = 0
    <3> DEFINE t == Len(timers)
               w == Len(writes)
    <3>1. t \in Nat /\ w \in Nat /\ t + w = 1
      BY <2>1, <2>2
    <3> HIDE DEF t, w
    <3>2. (t = 0 /\ w = 1) \/ (t = 1 /\ w = 0)
      BY <3>1
    <3>3. QED
      BY <3>2 DEF t, w
  <2>6. QED
    BY <1>3, <2>3, <2>4, <2>5
<1>4. QED
  BY <1>2, <1>3

LEMMA SetupSerial ==
  ASSUME Structure, SerialInv, Setup
  PROVE  SerialInv'
<1> USE DEF Structure
<1>1. CASE SetupFindsSecret
  BY <1>1 DEF SetupFindsSecret, SerialInv, Everywhere, InFlight, Encoded
<1>2. CASE SetupCreatesSecret
  <2>1. /\ mem' = Null /\ timers' = <<>> /\ writes' = <<>> /\ task' = task /\ promise' = promise
        /\ \A c \in Callers : task[c] = "none" /\ base'[c] = Null
        /\ \A c \in Adds : promise[c] = "none"
    BY <1>2 DEF SetupCreatesSecret, SetupInv, LockInv
  <2>2. secret' = {c \in Globals : promise[c] # "none"} /\ secret' \cap Globals = secret'
    BY <1>2 DEF SetupCreatesSecret
  <2>3. last' # Null => Encoded(last)' = secret'
    <3>1. Fresh \in Objects /\ last' = Parsed({}) /\ oidc' = [oidc EXCEPT ![Fresh] = secret']
      BY <1>2, FreshUnused DEF SetupCreatesSecret
    <3>2. Parsed({}).chains = {} /\ Parsed({}).oidc = Fresh
      BY DEF Parsed
    <3>3. QED
      BY <3>1, <3>2 DEF Encoded, TypeOK
  <2>4. \A c \in Callers : promise[c] = "resolved" => Reflected(c, secret')
    BY <2>1, <2>2, ChainsAssumption DEF Reflected, Callers, Chains
  <2>5. \A i \in DOMAIN timers' : FALSE
    BY <2>1
  <2>6. \A i \in DOMAIN writes' : FALSE
    BY <2>1
  <2>7. \A c \in Callers : promise'[c] = "resolved" => task'[c] = "none" /\ Everywhere(c)'
    BY <2>1, <2>3, <2>4, <2>5, <2>6 DEF Everywhere, InFlight
  <2>8. QED
    BY <2>1, <2>7 DEF SerialInv
<1>3. QED
  BY <1>1, <1>2 DEF Setup

LEMMA CallSerial ==
  ASSUME Structure, SerialInv, NEW c \in Callers, Call(c), ~overlapped'
  PROVE  SerialInv'
<1> USE DEF Structure
<1>1. \A d \in Callers : task[d] = "none"
  BY DEF Call, Active
<1>2. ~lock
  BY <1>1 DEF LockInv
<1>3. /\ task' = [task EXCEPT ![c] = "locked"] /\ promise' = [promise EXCEPT ![c] = "open"]
      /\ UNCHANGED <<secret, oidc, mem, last, base, timers, writes>>
  BY <1>2 DEF Call
<1>4. timers = <<>> /\ writes = <<>>
  BY <1>1 DEF SerialInv
<1>5. /\ \A d \in Callers : task'[d] = IF d = c THEN "locked" ELSE "none"
      /\ \A d \in Callers : promise'[d] = "resolved" => d # c /\ promise[d] = "resolved"
  BY <1>1, <1>3 DEF TypeOK
<1>6. \A d \in Callers : Everywhere(d) => Everywhere(d)'
  BY <1>3 DEF Everywhere, InFlight, Encoded
<1>7. QED
  BY <1>3, <1>4, <1>5, <1>6 DEF SerialInv

LEMMA GetSerial ==
  ASSUME Structure, SerialInv, NEW c \in Callers, GetAuthserviceConfig(c)
  PROVE  SerialInv'
<1> USE DEF Structure
<1>1. /\ task' = [task EXCEPT ![c] = "building"] /\ base' = [base EXCEPT ![c] = mem']
      /\ UNCHANGED <<secret, promise, timers, writes>> /\ task[c] = "locked"
  BY DEF GetAuthserviceConfig
<1>2. \A d \in Callers : d # c => task[d] = "none"
  BY <1>1 DEF SerialInv
<1>3. timers = <<>> /\ writes = <<>>
  BY <1>1, <1>2 DEF SerialInv
<1>4. \A d \in Callers : task'[d] = IF d = c THEN "building" ELSE "none"
  BY <1>1, <1>2 DEF TypeOK
<1>5. \A d \in Callers : base'[d] = IF d = c THEN mem' ELSE base[d]
  BY <1>1 DEF TypeOK
<1>6. \A d \in Callers : d # c => base[d] = Null
  BY <1>2 DEF LockInv
<1>7. ASSUME NEW d \in Callers, promise[d] = "resolved"
      PROVE  d # c /\ Everywhere(d)'
  <2>1. d # c /\ Everywhere(d)
    BY <1>1, <1>7 DEF SerialInv
  <2>2. CASE mem = Null
    <3>1. secret \in SUBSET Callers
      BY <1>1 DEF LockInv, SetupInv, TypeOK
    <3>2. Encoded(mem)' = secret /\ Encoded(last)' = secret
      <4>1. /\ mem' = Parsed(secret) /\ last' = Parsed(secret)
            /\ oidc' = [oidc EXCEPT ![Fresh] = secret \cap Globals]
        BY <2>2 DEF GetAuthserviceConfig
      <4>2. QED
        BY <3>1, <4>1, ParsedEncoded, FreshUnused DEF Encoded
    <3>3. Reflected(d, secret) /\ secret' = secret
      BY <1>1, <2>1 DEF Everywhere
    <3>4. \A e \in Callers : base'[e] # Null => base'[e] = mem'
      BY <1>5, <1>6
    <3>5. \A e \in Callers : base'[e] # Null => Encoded(base[e])' = secret
      BY <3>2, <3>4 DEF Encoded
    <3>6. InFlight(d)'
      BY <1>1, <1>3 DEF InFlight
    <3>7. QED
      BY <2>1, <3>2, <3>3, <3>5, <3>6 DEF Everywhere
  <2>3. CASE mem # Null
    <3>1. mem' = mem /\ last' = last /\ oidc' = oidc
      BY <2>3 DEF GetAuthserviceConfig
    <3>2. QED
      BY <1>1, <1>5, <2>1, <2>3, <3>1 DEF Everywhere, InFlight, Encoded
  <2>4. QED
    BY <2>2, <2>3
<1>8. QED
  BY <1>1, <1>3, <1>4, <1>7 DEF SerialInv

LEMMA FetchFailsSerial ==
  ASSUME Structure, SerialInv, NEW c \in Callers, FetchFails(c)
  PROVE  SerialInv'
<1> USE DEF Structure
<1>1. /\ task' = [task EXCEPT ![c] = "none"] /\ task[c] = "locked"
      /\ promise' = [promise EXCEPT ![c] = IF @ = "open" THEN "rejected" ELSE @]
      /\ UNCHANGED <<secret, oidc, mem, last, base, timers, writes>>
  BY DEF FetchFails
<1>2. \A d \in Callers : d # c => task[d] = "none"
  BY <1>1 DEF SerialInv
<1>3. timers = <<>> /\ writes = <<>>
  BY <1>1, <1>2 DEF SerialInv
<1>4. /\ \A d \in Callers : task'[d] = "none"
      /\ \A d \in Callers : promise'[d] = "resolved" => promise[d] = "resolved"
  BY <1>1, <1>2 DEF TypeOK
<1>5. \A d \in Callers : Everywhere(d) => Everywhere(d)'
  BY <1>1 DEF Everywhere, InFlight, Encoded
<1>6. QED
  BY <1>1, <1>3, <1>4, <1>5 DEF SerialInv

LEMMA UpdateSerial ==
  ASSUME Structure, SerialInv, NEW c \in Callers, UpdateAuthServiceSecret(c)
  PROVE  SerialInv'
<1> USE DEF Structure
<1>1. /\ task' = [task EXCEPT ![c] = "waiting"] /\ base' = [base EXCEPT ![c] = Null]
      /\ UNCHANGED <<secret, last, promise, writes>> /\ task[c] = "building"
  BY DEF UpdateAuthServiceSecret
<1>2. \A d \in Callers : d # c => task[d] = "none"
  BY <1>1 DEF SerialInv
<1>3. timers = <<>> /\ writes = <<>> /\ ~armed
  BY <1>1, <1>2 DEF SerialInv, TimerInv
<1>4. timers' = <<mem'>> /\ DOMAIN timers' = {1} /\ timers'[1] = mem' /\ Len(timers') + Len(writes') = 1
  BY <1>1, <1>3 DEF UpdateAuthServiceSecret
<1>5. \A d \in Callers : task'[d] = IF d = c THEN "waiting" ELSE "none"
  BY <1>1, <1>2 DEF TypeOK
<1>6. \A d \in Callers : base'[d] = Null
  BY <1>1, <1>2 DEF LockInv, TypeOK
<1>7. \A i \in DOMAIN writes' : FALSE
  BY <1>1, <1>3
<1>8. \A d \in Callers : Reflected(d, Encoded(mem)') => InFlight(d)'
  BY <1>4, <1>7 DEF InFlight, Encoded
<1>9. InFlight(c)'
  BY <1>8, UpdateReflects
<1>10. ASSUME NEW d \in Callers, promise[d] = "resolved"
       PROVE  d # c /\ Everywhere(d)'
  <2>1. d # c /\ Everywhere(d)
    BY <1>1, <1>10 DEF SerialInv
  <2>2. base[c] # Null
    BY <1>1 DEF LockInv
  <2>3. Reflected(d, Encoded(mem)')
    BY <2>1, <2>2, UpdateReflects DEF Everywhere
  <2>4. last' # Null => Reflected(d, Encoded(last)')
    <3>1. last # Null => last \in Configs /\ Reflected(d, Encoded(last))
      BY <2>1 DEF Everywhere, TypeOK
    <3>2. last # Null => Reflected(d, last.chains \cup oidc'[last.oidc])
      BY <2>1, <3>1, UpdateReflects
    <3>3. QED
      BY <1>1, <3>2 DEF Encoded
  <2>5. QED
    BY <1>1, <1>6, <1>8, <2>1, <2>3, <2>4 DEF Everywhere
<1>11. QED
  BY <1>1, <1>4, <1>5, <1>7, <1>9, <1>10 DEF SerialInv

LEMMA TimerSerial ==
  ASSUME Structure, SerialInv, TimerFires
  PROVE  SerialInv'
<1> USE DEF Structure
<1>1. timers # <<>> /\ Len(timers) = 1 /\ writes = <<>> /\ timers \in Seq(Configs)
  BY OneInFlight DEF TimerFires, TypeOK
<1>2. /\ timers' = <<>> /\ Head(timers) = timers[1] /\ 1 \in DOMAIN timers
      /\ writes' = <<[made |-> Encoded(Head(timers)), stage |-> "apply"]>>
  BY <1>1 DEF TimerFires
<1>3. /\ DOMAIN writes' = {1} /\ writes'[1].made = Encoded(timers[1]) /\ writes'[1].stage = "apply"
      /\ Len(timers') + Len(writes') = 1
  BY <1>2
<1>4. UNCHANGED <<secret, oidc, mem, last, base, task, promise>>
  BY DEF TimerFires
<1>5. \A i \in DOMAIN timers' : FALSE
  BY <1>2
<1>6. \A d \in Callers : InFlight(d) => InFlight(d)'
  BY <1>2, <1>3, <1>5 DEF InFlight
<1>7. \A d \in Callers : Everywhere(d) => Everywhere(d)'
  BY <1>4, <1>6 DEF Everywhere, Encoded
<1>8. \E c \in Callers : task[c] = "waiting"
  BY <1>1, OneInFlight
<1>9. QED
  BY <1>3, <1>4, <1>6, <1>7, <1>8 DEF SerialInv

LEMMA AppliedSerial ==
  ASSUME Structure, SerialInv, NEW i \in DOMAIN writes, SecretApplied(i)
  PROVE  SerialInv'
<1> USE DEF Structure
<1>1. writes # <<>> /\ Len(writes) = 1 /\ timers = <<>> /\ i = 1 /\ writes \in Seq(WriteType)
  <2>1. writes \in Seq(WriteType) /\ writes # <<>>
    BY WriteTyped
  <2>2. Len(writes) = 1 /\ timers = <<>>
    BY <2>1, OneInFlight
  <2>3. QED
    BY <2>1, <2>2
<1> DEFINE made == writes[i].made
<1>2. /\ secret' = made /\ last' = Parsed(made) /\ oidc' = [oidc EXCEPT ![Fresh] = made \cap Globals]
      /\ UNCHANGED <<mem, task, base, promise, timers>>
      /\ writes' = [writes EXCEPT ![i].stage = "checksum"]
  BY DEF SecretApplied
<1>3. Len(writes') = 1 /\ DOMAIN writes' = DOMAIN writes /\ DOMAIN writes = {1} /\ writes'[1].made = made
  BY <1>1, <1>2, WriteTyped DEF WriteType
<1>4. made \in SUBSET Callers
  BY WriteTyped
<1> HIDE DEF made
<1>5. Encoded(last)' = made
  BY <1>2, <1>4, ParsedEncoded, FreshUnused DEF Encoded
<1>6. /\ mem # Null => Encoded(mem)' = Encoded(mem)
      /\ \A d \in Callers : base[d] # Null => Encoded(base[d])' = Encoded(base[d])
  BY <1>2, HeapKept DEF Encoded
<1>7. ASSUME NEW d \in Callers, InFlight(d)
      PROVE  Reflected(d, made) /\ InFlight(d)'
  <2>1. Reflected(d, made)
    BY <1>1, <1>3, <1>7 DEF InFlight, made
  <2>2. \A j \in DOMAIN timers' : FALSE
    BY <1>1, <1>2
  <2>3. QED
    BY <1>3, <2>1, <2>2 DEF InFlight
<1>8. ASSUME NEW d \in Callers, Everywhere(d)
      PROVE  Everywhere(d)'
  BY <1>2, <1>5, <1>6, <1>7, <1>8 DEF Everywhere
<1>9. last' # Null
  BY <1>2, <1>4, FreshUnused, ParsedTyped, ConfigIsNotNull
<1>10. \E c \in Callers : task[c] = "waiting"
  BY <1>1, OneInFlight
<1>11. Len(timers') + Len(writes') = 1
  BY <1>1, <1>2, <1>3
<1>12. QED
  BY <1>2, <1>5, <1>7, <1>8, <1>9, <1>10, <1>11 DEF SerialInv

(* Nothing is scheduled when the only write has ended.                     *)
LEMMA WriteEnds ==
  ASSUME Structure, SerialInv, NEW i \in DOMAIN writes, timers' = timers,
         writes' = RemoveAt(writes, i)
  PROVE  timers' = <<>> /\ writes' = <<>>
<1>1. Len(writes) = 1 /\ timers = <<>>
  <2>1. writes # <<>>
    BY DEF Structure, TypeOK
  <2>2. QED
    BY <2>1, OneInFlight
<1>2. RemoveAt(writes, i) \in Seq(WriteType) /\ Len(RemoveAt(writes, i)) = 0
  BY <1>1, WriteTyped DEF Structure
<1>3. QED
  BY <1>1, <1>2

LEMMA ChecksummedSerial ==
  ASSUME Structure, WaitingInv, SerialInv, NEW i \in DOMAIN writes, DeploymentChecksummed(i)
  PROVE  SerialInv'
<1> USE DEF Structure
<1>1. /\ UNCHANGED <<secret, oidc, mem, last, base, timers>> /\ writes' = RemoveAt(writes, i)
      /\ promise' = [c \in Callers |-> IF task[c] = "waiting" /\ promise[c] = "open"
                                       THEN "resolved" ELSE promise[c]]
      /\ task' = [c \in Callers |-> IF task[c] = "waiting" THEN "none" ELSE task[c]]
  BY DEF DeploymentChecksummed, Settle
<1>2. timers' = <<>> /\ writes' = <<>>
  BY <1>1, WriteEnds
<1>3. (\A j \in DOMAIN timers' : FALSE) /\ (\A j \in DOMAIN writes' : FALSE)
  BY <1>2
<1>4. PICK c \in Callers : task[c] = "waiting"
  <2>1. writes # <<>>
    BY DEF TypeOK
  <2>2. QED
    BY <2>1, OneInFlight
<1>5. \A d \in Callers : d # c => task[d] = "none"
  BY <1>4 DEF SerialInv
<1>6. /\ \A d \in Callers : task'[d] = "none"
      /\ \A d \in Callers : promise'[d] = "resolved" => d = c \/ promise[d] = "resolved"
  BY <1>1, <1>4, <1>5
<1>7. \A d \in Callers : Everywhere(d) => Everywhere(d)'
  BY <1>1, <1>3 DEF Everywhere, InFlight, Encoded
<1>8. Everywhere(c)'
  <2>1. Reflected(c, secret) /\ Reflected(c, Encoded(last))
    BY <1>4 DEF SerialInv, DeploymentChecksummed
  <2>2. Reflected(c, Encoded(mem))
    BY <1>4 DEF WaitingInv
  <2>3. \A d \in Callers : base[d] = Null
    BY <1>4, <1>5 DEF LockInv
  <2>4. QED
    BY <1>1, <1>3, <2>1, <2>2, <2>3 DEF Everywhere, InFlight, Encoded
<1>9. QED
  BY <1>2, <1>6, <1>7, <1>8 DEF SerialInv

LEMMA WriteFailsSerial ==
  ASSUME Structure, SerialInv, NEW i \in DOMAIN writes, WriteFails(i)
  PROVE  SerialInv'
<1> USE DEF Structure
<1>1. /\ UNCHANGED <<oidc, last, base, timers>> /\ writes' = RemoveAt(writes, i) /\ mem' = last
      /\ promise' = [c \in Callers |-> IF task[c] = "waiting" /\ promise[c] = "open"
                                       THEN "rejected" ELSE promise[c]]
      /\ task' = [c \in Callers |-> IF task[c] = "waiting" THEN "none" ELSE task[c]]
      /\ secret' = secret \/ secret' = writes[i].made
  BY DEF WriteFails, Settle
<1>2. timers' = <<>> /\ writes' = <<>>
  BY <1>1, WriteEnds
<1>3. (\A j \in DOMAIN timers' : FALSE) /\ (\A j \in DOMAIN writes' : FALSE)
  BY <1>2
<1>4. PICK c \in Callers : task[c] = "waiting"
  <2>1. writes # <<>>
    BY DEF TypeOK
  <2>2. QED
    BY <2>1, OneInFlight
<1>5. \A d \in Callers : d # c => task[d] = "none"
  BY <1>4 DEF SerialInv
<1>6. /\ \A d \in Callers : task'[d] = "none"
      /\ \A d \in Callers : promise'[d] = "resolved" => promise[d] = "resolved"
  BY <1>1, <1>4, <1>5
<1>7. ASSUME NEW d \in Callers, Everywhere(d)
      PROVE  Everywhere(d)'
  <2>1. Reflected(d, secret')
    BY <1>1, <1>7 DEF Everywhere, InFlight
  <2>2. mem' # Null => Reflected(d, Encoded(mem)')
    BY <1>1, <1>7 DEF Everywhere, Encoded
  <2>3. QED
    BY <1>1, <1>3, <1>7, <2>1, <2>2 DEF Everywhere, InFlight, Encoded
<1>8. QED
  BY <1>2, <1>6, <1>7 DEF SerialInv

LEMMA CrashSerial ==
  ASSUME Structure, SerialInv, Crash
  PROVE  SerialInv'
<1>1. /\ mem' = Null /\ last' = Null /\ timers' = <<>> /\ writes' = <<>> /\ secret' = secret
      /\ \A c \in Callers : task'[c] = "none" /\ base'[c] = Null
  BY DEF Crash
<1>2. (\A j \in DOMAIN timers' : FALSE) /\ (\A j \in DOMAIN writes' : FALSE)
  BY <1>1
<1>3. \A c \in Callers : promise'[c] = "resolved" => promise[c] = "resolved"
  BY DEF Crash
<1>4. \A c \in Callers : Everywhere(c) => Everywhere(c)'
  BY <1>1, <1>2 DEF Everywhere, InFlight
<1>5. QED
  BY <1>1, <1>3, <1>4 DEF SerialInv

LEMMA StepSerial ==
  ASSUME Structure, WaitingInv, ~overlapped => SerialInv, [Next]_vars
  PROVE  ~overlapped' => SerialInv'
<1> SUFFICES ASSUME ~overlapped'
             PROVE  SerialInv'
  OBVIOUS
<1>1. SerialInv
  BY DEF Next, Setup, SetupFindsSecret, SetupCreatesSecret, Caller, Call, Retry, GetAuthserviceConfig,
         FetchFails, UpdateAuthServiceSecret, TimerFires, Writer, SecretApplied,
         DeploymentChecksummed, WriteFails, Crash, vars
<1>2. CASE Setup
  BY <1>1, <1>2, SetupSerial
<1>3. ASSUME NEW c \in Callers, Caller(c)
      PROVE  SerialInv'
  <2>1. ~Retry(c)
    BY <1>1 DEF Retry, SerialInv
  <2>2. QED
    BY <1>1, <1>3, <2>1, CallSerial, GetSerial, FetchFailsSerial, UpdateSerial DEF Caller
<1>4. CASE TimerFires
  BY <1>1, <1>4, TimerSerial
<1>5. ASSUME NEW i \in DOMAIN writes, SecretApplied(i) \/ DeploymentChecksummed(i) \/ WriteFails(i)
      PROVE  SerialInv'
  BY <1>1, <1>5, AppliedSerial, ChecksummedSerial, WriteFailsSerial
<1>6. CASE Crash
  BY <1>1, <1>6, CrashSerial
<1>7. CASE UNCHANGED vars
  BY <1>1, <1>7 DEF vars, SerialInv, Everywhere, InFlight, Encoded
<1>8. QED
  BY <1>2, <1>3, <1>4, <1>5, <1>6, <1>7 DEF Next, Writer

(* When updateConfig resolves, and calls do not overlap, the secret shows  *)
(* the change and keeps it through failures, rollbacks and restarts.       *)
THEOREM ResolvedIsWritten == Spec => []ResolvedMeansWritten
<1> DEFINE Inv == WaitingInv /\ (~overlapped => SerialInv)
<1>1. Init => Inv
  <2>1. SUFFICES ASSUME Init
                 PROVE  WaitingInv /\ SerialInv
    OBVIOUS
  <2>2. \A c \in Callers : task[c] = "none" /\ promise[c] = "none"
    BY <2>1 DEF Init
  <2>3. timers = <<>> /\ writes = <<>>
    BY <2>1 DEF Init
  <2>4. QED
    BY <2>2, <2>3 DEF WaitingInv, SerialInv
<1>2. Structure /\ Inv /\ [Next]_vars => Inv'
  BY StepWaiting, StepSerial
<1>3. Inv => ResolvedMeansWritten
  BY DEF SerialInv, Everywhere, ResolvedMeansWritten
<1> HIDE DEF Inv
<1>4. QED
  BY <1>1, <1>2, <1>3, StructureHolds, PTL DEF Spec

=============================================================================
