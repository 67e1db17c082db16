-------------------------- MODULE AuthserviceConfig --------------------------
(***************************************************************************)
(* The authservice configuration shared by every package: updateConfig's   *)
(* lock, the in-memory copy, the debounced write of the authservice-uds    *)
(* secret with its rollback, the promises the callers wait on, and the     *)
(* placeholder written when the operator starts without a secret.  A       *)
(* caller adds or removes the chain of one client, or makes one change of  *)
(* the global settings.  A step of the model is the code between two       *)
(* awaits.                                                                 *)
(*                                                                         *)
(* In memory the chains are a value, copied by every change, while the     *)
(* global settings are one nested object that successive configurations    *)
(* share until the secret is parsed again.                                 *)
(***************************************************************************)
EXTENDS Naturals, SequencesExt

CONSTANTS
    Adds,        \* chains whose package adds a client
    Removes,     \* chains whose package removes a client
    Globals,     \* changes of the global settings: Redis URI, trusted CAs
    Null,        \* the in-memory copy before the first fetch
    MaxCallers,  \* bound: calls of updateConfig that may overlap
    MaxWrites,   \* bound: writes of the secret in flight at the same time
    MaxFaults,   \* bound: failing requests to the API server
    MaxCrashes   \* bound: restarts of the watcher pod

ASSUME ChainsAssumption ==
    /\ Adds \cap Removes = {}
    /\ Globals \cap (Adds \cup Removes) = {}
    /\ Null \notin [chains : SUBSET (Adds \cup Removes), oidc : Nat]
    /\ \A made \in SUBSET (Adds \cup Removes \cup Globals) : made # Null

ASSUME ConfigBoundsAssumption == {MaxCallers, MaxWrites, MaxFaults, MaxCrashes} \subseteq Nat

VARIABLES
    secret,   \* chains and global changes in the secret of the cluster
    oidc,     \* object of the heap -> global changes in it (default_oidc_config)
    mem,      \* inMemorySecret
    last,     \* lastSuccessfulSecret
    lock,     \* updateConfig's lock
    task,     \* how far each caller's updateConfig has come
    base,     \* the configuration a caller's buildConfig works on
    promise,  \* what the caller of updateConfig was told
    timers,   \* configurations of the debounce timers that have not fired, oldest first
    armed,    \* debounceTimer refers to a timer that has not fired: the newest
    writes,   \* timer callbacks in flight
    ready,    \* setupAuthserviceSecret is done: packages are reconciled
    faults,   \* used part of MaxFaults
    crashes,  \* used part of MaxCrashes
    overlapped  \* history: a call was made while another was open

vars == <<secret, oidc, mem, last, lock, task, base, promise, timers, armed, writes, ready,
          faults, crashes, overlapped>>

Chains  == Adds \cup Removes
Callers == Chains \cup Globals

(* Enough objects for what may refer to one, and one to spare: see Fresh.  *)
Objects == 1 .. (MaxWrites + 5)
Configs == [chains : SUBSET Chains, oidc : Objects]

Init ==
    /\ secret \in {Null, Removes}
    /\ oidc = [o \in Objects |-> {}]
    /\ mem = Null /\ last = Null
    /\ lock = FALSE
    /\ task = [c \in Callers |-> "none"]
    /\ base = [c \in Callers |-> Null]
    /\ promise = [c \in Callers |-> "none"]
    /\ timers = <<>> /\ armed = FALSE
    /\ writes = <<>>
    /\ ready = FALSE
    /\ faults = 0 /\ crashes = 0 /\ overlapped = FALSE

-----------------------------------------------------------------------------
UseFault == faults < MaxFaults /\ faults' = faults + 1

Active == {c \in Callers : task[c] # "none"}

(* An object nothing refers to, for the next parsed secret.                *)
Fresh ==
    LET used == {config.oidc : config \in ({mem, last} \cup Range(base) \cup Range(timers)) \ {Null}}
    IN  CHOOSE o \in Objects : o \notin used

Parsed(made) == [chains |-> made \cap Chains, oidc |-> Fresh]

(* The configuration as it is written: what the object holds by then.      *)
Encoded(config) == config.chains \cup oidc[config.oidc]

(* setupAuthserviceSecret: nothing else calls updateConfig before it ends. *)
SetupFindsSecret ==
    /\ ~ready /\ secret # Null
    /\ ready' = TRUE
    /\ UNCHANGED <<secret, oidc, mem, last, lock, task, base, promise, timers, armed, writes,
                   faults, crashes, overlapped>>

(* Any error of the Get is taken for a missing secret: the placeholder is  *)
(* written, with the global settings of the moment.                        *)
SetupCreatesSecret ==
    /\ ~ready
    /\ IF secret = Null THEN UNCHANGED faults ELSE UseFault
    /\ secret' = {c \in Globals : promise[c] # "none"}
    /\ oidc' = [oidc EXCEPT ![Fresh] = secret']
    /\ last' = Parsed({})
    /\ ready' = TRUE
    /\ UNCHANGED <<mem, lock, task, base, promise, timers, armed, writes, crashes, overlapped>>

(* A package whose call was rejected is reconciled again, a change of the  *)
(* global settings is not.                                                 *)
MayCall(c) ==
    /\ ready
    /\ task[c] = "none"
    /\ promise[c] = "none" \/ (c \in Chains /\ promise[c] = "rejected")
    /\ Cardinality(Active) < MaxCallers

(* Mutant: updateConfig does not look at the lock.                         *)
CallWithoutLock(c) ==
    /\ MayCall(c)
    /\ lock' = TRUE
    /\ task' = [task EXCEPT ![c] = "locked"]
    /\ promise' = [promise EXCEPT ![c] = "open"]
    /\ overlapped' = (overlapped \/ Active # {})
    /\ UNCHANGED <<secret, oidc, mem, last, base, timers, armed, writes, ready, faults, crashes>>

(* While the lock is held updateConfig returns at once, and a timer calls  *)
(* it again behind the caller's back.                                      *)
Call(c) ==
    /\ MayCall(c)
    /\ lock' = TRUE
    /\ task' = [task EXCEPT ![c] = IF lock THEN "queued" ELSE "locked"]
    /\ promise' = [promise EXCEPT ![c] = IF lock THEN "resolved" ELSE "open"]
    /\ overlapped' = (overlapped \/ Active # {})
    /\ UNCHANGED <<secret, oidc, mem, last, base, timers, armed, writes, ready, faults, crashes>>

Retry(c) ==
    /\ task[c] = "queued" /\ ~lock
    /\ lock' = TRUE
    /\ task' = [task EXCEPT ![c] = "locked"]
    /\ UNCHANGED <<secret, oidc, mem, last, base, promise, timers, armed, writes, ready, faults,
                   crashes, overlapped>>

(* getAuthserviceConfig: the in-memory copy, or the secret of the cluster. *)
GetAuthserviceConfig(c) ==
    /\ task[c] = "locked"
    /\ IF mem = Null
       THEN /\ mem' = Parsed(secret) /\ last' = Parsed(secret)
            /\ oidc' = [oidc EXCEPT ![Fresh] = secret \cap Globals]
       ELSE UNCHANGED <<mem, last, oidc>>
    /\ base' = [base EXCEPT ![c] = mem']
    /\ task' = [task EXCEPT ![c] = "building"]
    /\ UNCHANGED <<secret, lock, promise, timers, armed, writes, ready, faults, crashes, overlapped>>

FetchFails(c) ==
    /\ task[c] = "locked" /\ mem = Null
    /\ UseFault
    /\ lock' = FALSE
    /\ task' = [task EXCEPT ![c] = "none"]
    /\ promise' = [promise EXCEPT ![c] = IF @ = "open" THEN "rejected" ELSE @]
    /\ UNCHANGED <<secret, oidc, mem, last, base, timers, armed, writes, ready, crashes, overlapped>>

BuildConfig(config, c) ==
    CASE c \in Adds    -> [config EXCEPT !.chains = @ \cup {c}]
      [] c \in Removes -> [config EXCEPT !.chains = @ \ {c}]
      [] OTHER         -> config

(* Mutant: a timer that is already set is left to write its configuration. *)
UpdateAuthServiceSecretLeading(c) ==
    /\ task[c] = "building"
    /\ oidc' = [oidc EXCEPT ![base[c].oidc] = @ \cup ({c} \cap Globals)]
    /\ mem' = BuildConfig(base[c], c)
    /\ base' = [base EXCEPT ![c] = Null]
    /\ lock' = FALSE
    /\ task' = [task EXCEPT ![c] = "waiting"]
    /\ timers' = IF armed THEN timers ELSE Append(timers, mem')
    /\ armed' = TRUE
    /\ UNCHANGED <<secret, last, promise, writes, ready, faults, crashes, overlapped>>

(* buildConfig, which changes the global settings in place, then           *)
(* setAuthserviceConfig, unlock, and updateAuthServiceSecret up to its     *)
(* setTimeout: the timer of the handle is cleared and a new one armed.     *)
UpdateAuthServiceSecret(c) ==
    /\ task[c] = "building"
    /\ oidc' = [oidc EXCEPT ![base[c].oidc] = @ \cup ({c} \cap Globals)]
    /\ mem' = BuildConfig(base[c], c)
    /\ base' = [base EXCEPT ![c] = Null]
    /\ lock' = FALSE
    /\ task' = [task EXCEPT ![c] = "waiting"]
    /\ timers' = Append(IF armed THEN Front(timers) ELSE timers, mem')
    /\ armed' = TRUE
    /\ UNCHANGED <<secret, last, promise, writes, ready, faults, crashes, overlapped>>

(* All timers have the same delay, so they fire in the order they were set. *)
TimerFires ==
    /\ timers # <<>> /\ Len(writes) < MaxWrites
    /\ writes' = Append(writes, [made |-> Encoded(Head(timers)), stage |-> "apply"])
    /\ timers' = Tail(timers)
    /\ armed' = (armed /\ Len(timers) > 1)
    /\ UNCHANGED <<secret, oidc, mem, last, lock, task, base, promise, ready, faults, crashes, overlapped>>

(* The answer to the Apply is parsed into lastSuccessfulSecret.            *)
SecretApplied(i) ==
    /\ writes[i].stage = "apply"
    /\ secret' = writes[i].made
    /\ last' = Parsed(writes[i].made)
    /\ oidc' = [oidc EXCEPT ![Fresh] = writes[i].made \cap Globals]
    /\ writes' = [writes EXCEPT ![i].stage = "checksum"]
    /\ UNCHANGED <<mem, lock, task, base, promise, timers, armed, ready, faults, crashes, overlapped>>

(* pendingPackages: every caller that waits now, whenever it joined.       *)
Settle(outcome) ==
    /\ promise' = [c \in Callers |-> IF task[c] = "waiting" /\ promise[c] = "open"
                                     THEN outcome ELSE promise[c]]
    /\ task' = [c \in Callers |-> IF task[c] = "waiting" THEN "none" ELSE task[c]]

DeploymentChecksummed(i) ==
    /\ writes[i].stage = "checksum"
    /\ Settle("resolved")
    /\ armed' = FALSE
    /\ writes' = RemoveAt(writes, i)
    /\ UNCHANGED <<secret, oidc, mem, last, lock, base, timers, ready, faults, crashes, overlapped>>

(* Mutant: the callers of a failed write are told that it succeeded.       *)
WriteFailsSilently(i) ==
    /\ UseFault
    /\ IF writes[i].stage = "apply" THEN secret' \in {secret, writes[i].made}
                                    ELSE UNCHANGED secret
    /\ mem' = last
    /\ Settle("resolved")
    /\ armed' = FALSE
    /\ writes' = RemoveAt(writes, i)
    /\ UNCHANGED <<oidc, last, lock, base, timers, ready, crashes, overlapped>>

(* A failing request may still have taken effect in the cluster.           *)
WriteFails(i) ==
    /\ UseFault
    /\ IF writes[i].stage = "apply" THEN secret' \in {secret, writes[i].made}
                                    ELSE UNCHANGED secret
    /\ mem' = last
    /\ Settle("rejected")
    /\ armed' = FALSE
    /\ writes' = RemoveAt(writes, i)
    /\ UNCHANGED <<oidc, last, lock, base, timers, ready, crashes, overlapped>>

(* The pod restarts.  Packages that add a client are reconciled again; one *)
(* that was told its client is removed is not, nor is a change of the      *)
(* global settings that was begun.                                         *)
Crash ==
    /\ crashes < MaxCrashes
    /\ crashes' = crashes + 1
    /\ oidc' = [o \in Objects |-> {}]
    /\ mem' = Null /\ last' = Null /\ lock' = FALSE
    /\ task' = [c \in Callers |-> "none"]
    /\ base' = [c \in Callers |-> Null]
    /\ promise' = [c \in Callers |->
                     CASE c \in Removes /\ promise[c] = "resolved" -> "resolved"
                       [] c \in Globals /\ promise[c] = "open"     -> "rejected"
                       [] c \in Globals                            -> promise[c]
                       [] OTHER                                    -> "none"]
    /\ timers' = <<>> /\ armed' = FALSE /\ writes' = <<>>
    /\ ready' = FALSE
    /\ UNCHANGED <<secret, faults, overlapped>>

-----------------------------------------------------------------------------
Caller(c) ==
    \/ Call(c) \/ Retry(c) \/ GetAuthserviceConfig(c) \/ FetchFails(c)
    \/ UpdateAuthServiceSecret(c)

Writer ==
    \E i \in DOMAIN writes : SecretApplied(i) \/ DeploymentChecksummed(i) \/ WriteFails(i)

Setup == SetupFindsSecret \/ SetupCreatesSecret

Next == Setup \/ (\E c \in Callers : Caller(c)) \/ TimerFires \/ Writer \/ Crash

Spec == Init /\ [][Next]_vars

(* The event loop runs what is ready, timers fire and requests are         *)
(* answered.  Strong fairness for a queued caller: its timer polls a lock  *)
(* that others keep taking and releasing.  Nothing obliges a crash.        *)
FairSpec ==
    /\ Spec
    /\ WF_vars(Setup)
    /\ \A c \in Callers : SF_vars(Caller(c))
    /\ WF_vars(TimerFires)
    /\ WF_vars(Writer)

-----------------------------------------------------------------------------
(* The types of the variables and the bounds of the counters.              *)
TypeOK ==
    /\ secret = Null \/ secret \in SUBSET Callers
    /\ oidc \in [Objects -> SUBSET Globals]
    /\ {mem, last} \subseteq Configs \cup {Null}
    /\ lock \in BOOLEAN
    /\ task \in [Callers -> {"none", "queued", "locked", "building", "waiting"}]
    /\ base \in [Callers -> Configs \cup {Null}]
    /\ promise \in [Callers -> {"none", "open", "resolved", "rejected"}]
    /\ timers \in Seq(Configs)
    /\ armed \in BOOLEAN
    /\ writes \in Seq([made : SUBSET Callers, stage : {"apply", "checksum"}])
    /\ ready \in BOOLEAN
    /\ faults \in 0 .. MaxFaults
    /\ crashes \in 0 .. MaxCrashes
    /\ overlapped \in BOOLEAN

Reflected(c, made) == c \in made <=> c \notin Removes

(* updateConfig resolves only when the secret in the cluster shows the     *)
(* caller's change, and later calls, failures, rollbacks and restarts keep *)
(* it there, as long as calls do not overlap.  When they do, the one that  *)
(* meets the lock resolves before its change is made.                      *)
ResolvedMeansWritten ==
    ~overlapped => \A c \in Callers : promise[c] = "resolved" => Reflected(c, secret)

(* The lock and the rollback: however calls overlap, no change that waits  *)
(* for its write is lost from the in-memory copy, of which the next        *)
(* configuration is made.                                                  *)
NoLostUpdate ==
    \A c \in Callers : task[c] = "waiting" => mem # Null /\ Reflected(c, Encoded(mem))

(* Every requested change reaches the secret in the end and stays there.   *)
(* A global change is never repeated, and overlapping calls hide failures: *)
(* what is lost then stays lost.                                           *)
EventuallyWritten ==
    LET troubled == faults + crashes > 0
    IN  <>[](\/ overlapped /\ troubled
             \/ /\ secret # Null
                /\ \A c \in Chains : Reflected(c, secret)
                /\ \A c \in Globals : troubled \/ Reflected(c, secret))

=============================================================================
