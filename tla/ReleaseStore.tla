---------------------------- MODULE ReleaseStore ----------------------------
(***************************************************************************)
(* One application's persistent release data and the operations on it:     *)
(*   - its policy directory <policy>/apps/<id> with the two state slots    *)
(*     state.a and state.b (platform/src/storage/state_store.cpp);         *)
(*   - its release payloads <store>/apps/<id>/releases/<counter>           *)
(*     (platform/src/storage/safe_path.cpp);                               *)
(*   - install, launch-failure rollback, manual rollback and removal       *)
(*     (platform/src/package/package_installer.cpp,                        *)
(*     platform/src/session/session_daemon.cpp).                           *)
(* One process at a time operates on an application (lvgl-sessiond holds   *)
(* session.lock and is single threaded; the manager only installs the      *)
(* platform, an id that lvgl-sessiond refuses), but it can be killed, or   *)
(* the device can lose power, between any two system calls.                *)
(*                                                                         *)
(* Durability: a directory entry (mkdir, rename) is visible at once and    *)
(* certain to survive a power loss only after an fsync of its directory.   *)
(* For each entry x the model keeps what is visible and the set xDisk of   *)
(* values a power loss can leave: a change adds to the set, a successful   *)
(* fsync shrinks it to the visible value.  File contents are written and   *)
(* fsynced under a temporary name that nothing reads before the rename, so *)
(* a slot or a release is never torn; the temporary files and .stage-      *)
(* directories a failure leaves are therefore not represented.             *)
(***************************************************************************)
EXTENDS ReleaseState, FiniteSets

CONSTANTS
    Packages,   \* packages of this application that may be presented
    Faults,     \* which faults occur: a subset of FaultKinds
    MaxFaults   \* bound on their number in one behaviour

FaultKinds == {"io", "sync", "kill", "power"}

ASSUME StoreAssumption ==
    /\ Packages \subseteq PackageRecords
    /\ Faults \subseteq FaultKinds
    /\ MaxFaults \in Nat

VARIABLES
    dir, dirDisk,           \* the directories <policy>/apps and <policy>/apps/<id>
    slot, slotDisk,         \* the two slots of the policy directory
    payload, payloadDisk,   \* digest of the release under each counter, 0 if none
    pc,                     \* the running operation's next system call
    pkg,                    \* the package being installed
    target,                 \* the state being persisted
    second,                 \* persist_release_state: second_write succeeded
    result,                 \* what the last operation returned
    faults,                 \* faults so far
    acked,                  \* history: the last state reported persisted
    quarantinedEver,        \* history: counters quarantined by a reported rollback
    removed                 \* history: payload removed since the last reported install

dirVars     == <<dir, dirDisk>>
slotVars    == <<slot, slotDisk>>
payloadVars == <<payload, payloadDisk>>
history     == <<acked, quarantinedEver, removed>>
vars == <<dirVars, slotVars, payloadVars, pc, pkg, target, second, result, faults, history>>

Dirs     == {"apps", "app"}
Slots    == {"a", "b"}
Counters == {p.counter : p \in Packages}

Labels == {"idle", "stage", "stage_sync", "activate", "apps", "apps_sync", "app",
           "app_sync", "first", "first_sync", "second", "second_sync", "parents",
           "remove_sync"}

Results == {"none", "trust_rejected", "state_unavailable", "policy_rejected",
            "storage_failed", "transition_failed", "state_commit_failed",
            "written", "second_slot_degraded", "parent_sync_degraded",
            "rollback_refused", "removed", "remove_failed"}

-----------------------------------------------------------------------------
(* Reading the store.                                                      *)

Stored == select_release_state(slot["a"], slot["b"])

\* A slot that cannot be opened or read counts as an invalid one; such an error that
\* passes by itself is not modelled.
load_status ==
    IF ~dir["apps"] \/ ~dir["app"] THEN "not_found"
    ELSE IF slot["a"] = NoState /\ slot["b"] = NoState THEN "uninitialized"
    ELSE IF Stored = NoState THEN "state_invalid"
    ELSE IF redundancy_degraded(slot["a"], slot["b"]) THEN "loaded_degraded"
    ELSE "loaded"

Loaded == load_status \in {"loaded", "loaded_degraded"}

\* verify_application_release: the release under this counter is the one expected.
verify_application_release(counter, digest) ==
    /\ counter \in Counters
    /\ payload[counter] = digest

FirstSlot(s)  == IF s.generation % 2 = 0 THEN "b" ELSE "a"
SecondSlot(s) == IF s.generation % 2 = 0 THEN "a" ELSE "b"

-----------------------------------------------------------------------------
Init ==
    /\ \E present \in BOOLEAN :    \* <policy>/apps exists once any application was installed
          /\ dir     = [d \in Dirs |-> d = "apps" /\ present]
          /\ dirDisk = [d \in Dirs |-> {d = "apps" /\ present}]
    /\ slot        = [s \in Slots |-> NoState]
    /\ slotDisk    = [s \in Slots |-> {NoState}]
    /\ payload     = [c \in Counters |-> 0]
    /\ payloadDisk = [c \in Counters |-> {0}]
    /\ pc = "idle"
    /\ pkg = NoPackage
    /\ target = NoState
    /\ second = FALSE
    /\ result = "none"
    /\ faults = 0
    /\ acked = NoState
    /\ quarantinedEver = {}
    /\ removed = FALSE

Return(r) ==
    /\ pc' = "idle"
    /\ pkg' = NoPackage
    /\ target' = NoState
    /\ second' = FALSE
    /\ result' = r

Goto(label) ==
    /\ pc' = label
    /\ UNCHANGED <<pkg, target, second, result>>

Fault(kind) ==
    /\ kind \in Faults
    /\ faults < MaxFaults
    /\ faults' = faults + 1

-----------------------------------------------------------------------------
(* install_official_package_with_state_root up to staging.  The next state *)
(* depends only on the package and on the state loaded here, so it is      *)
(* computed here; the code looks at it only after staging (Activate).      *)

InstallRefusal(p) ==
    IF ~p.trusted THEN "trust_rejected"
    ELSE IF ~Loaded /\ load_status # "not_found" THEN "state_unavailable"
    ELSE IF ~evaluate_install_policy(p, Stored) THEN "policy_rejected"
    ELSE "none"

Install(p) ==
    /\ pc = "idle"
    /\ \/ /\ InstallRefusal(p) # "none"
          /\ Return(InstallRefusal(p))
       \/ /\ InstallRefusal(p) = "none"
          /\ pc' = "stage"
          /\ pkg' = p
          /\ target' = activation_state_for(p, Stored)
          /\ UNCHANGED <<second, result>>
    /\ UNCHANGED <<dirVars, slotVars, payloadVars, faults, history>>

(* stage_verified_release *)

StageExisting ==
    /\ pc = "stage"
    /\ payload[pkg.counter] # 0
    /\ \/ payload[pkg.counter] = pkg.digest /\ Goto("activate")
       \/ payload[pkg.counter] # pkg.digest /\ Return("storage_failed")
    /\ UNCHANGED <<dirVars, slotVars, payloadVars, faults, history>>

StageFails ==
    /\ pc = "stage"
    /\ payload[pkg.counter] = 0
    /\ Fault("io")
    /\ Return("storage_failed")
    /\ UNCHANGED <<dirVars, slotVars, payloadVars, history>>

StageRename ==
    /\ pc = "stage"
    /\ payload[pkg.counter] = 0
    /\ payload' = [payload EXCEPT ![pkg.counter] = pkg.digest]
    /\ payloadDisk' = [payloadDisk EXCEPT ![pkg.counter] = @ \cup {pkg.digest}]
    /\ Goto("stage_sync")
    /\ UNCHANGED <<dirVars, slotVars, faults, history>>

StageSync ==
    /\ pc = "stage_sync"
    /\ \/ /\ payloadDisk' = [c \in Counters |-> {payload[c]}]
          /\ Goto("activate")
          /\ UNCHANGED faults
       \/ /\ Fault("sync")
          /\ Return("storage_failed")
          /\ UNCHANGED payloadDisk
    /\ UNCHANGED <<dirVars, slotVars, payload, history>>

Activate ==
    /\ pc = "activate"
    /\ \/ target = NoState /\ Return("transition_failed")
       \/ target # NoState /\ Goto("apps")
    /\ UNCHANGED <<dirVars, slotVars, payloadVars, faults, history>>

-----------------------------------------------------------------------------
(* rollback_application_after_failure (recordFailure) and the policy part  *)
(* of rollback_installed_application (~recordFailure).                     *)

RollbackState(recordFailure) ==
    IF /\ Loaded
       /\ Stored.previous # 0
       /\ verify_application_release(Stored.previous, Stored.previousDigest)
    THEN rollback_release(Stored, recordFailure)
    ELSE NoState

Rollback(recordFailure) ==
    /\ pc = "idle"
    /\ \/ /\ RollbackState(recordFailure) = NoState
          /\ Return("rollback_refused")
       \/ /\ RollbackState(recordFailure) # NoState
          /\ pc' = "apps"
          /\ target' = RollbackState(recordFailure)
          /\ UNCHANGED <<pkg, second, result>>
    /\ UNCHANGED <<dirVars, slotVars, payloadVars, faults, history>>

-----------------------------------------------------------------------------
(* persist_release_state *)

SyncLabel(d) == IF d = "apps" THEN "apps_sync" ELSE "app_sync"

\* ensure_directory_at: mkdir, then fsync only if this call created it.
EnsureDirectory(d, next) ==
    /\ pc = d
    /\ \/ /\ dir[d]
          /\ Goto(next)
          /\ UNCHANGED <<dirVars, faults>>
       \/ /\ ~dir[d]
          /\ dir' = [dir EXCEPT ![d] = TRUE]
          /\ dirDisk' = [dirDisk EXCEPT ![d] = @ \cup {TRUE}]
          /\ Goto(SyncLabel(d))
          /\ UNCHANGED faults
       \/ /\ ~dir[d]
          /\ Fault("io")
          /\ Return("state_commit_failed")
          /\ UNCHANGED dirVars
    /\ UNCHANGED <<slotVars, payloadVars, history>>

SyncDirectory(d, next) ==
    /\ pc = SyncLabel(d)
    /\ \/ /\ dirDisk' = [dirDisk EXCEPT ![d] = {TRUE}]
          /\ Goto(next)
          /\ UNCHANGED faults
       \/ /\ Fault("sync")
          /\ Return("state_commit_failed")
          /\ UNCHANGED dirDisk
    /\ UNCHANGED <<dir, slotVars, payloadVars, history>>

\* write_slot up to the rename.
RenameInto(s) ==
    /\ slot' = [slot EXCEPT ![s] = target]
    /\ slotDisk' = [slotDisk EXCEPT ![s] = @ \cup {target}]

\* fsync of the policy directory: both slots are now what is visible.
SyncSlots ==
    slotDisk' = [s \in Slots |-> {slot[s]}]

WriteFirst ==
    /\ pc = "first"
    /\ \/ /\ RenameInto(FirstSlot(target))
          /\ Goto("first_sync")
          /\ UNCHANGED faults
       \/ /\ Fault("io")
          /\ Return("state_commit_failed")
          /\ UNCHANGED slotVars
    /\ UNCHANGED <<dirVars, payloadVars, history>>

\* Wrong variant: a failed fsync of the first slot does not stop the persist.
SyncFirst_IgnoresFailure ==
    /\ pc = "first_sync"
    /\ Goto("second")
    /\ \/ SyncSlots /\ UNCHANGED faults
       \/ Fault("sync") /\ UNCHANGED slotDisk
    /\ UNCHANGED <<dirVars, slot, payloadVars, history>>

SyncFirst ==
    /\ pc = "first_sync"
    /\ \/ /\ SyncSlots
          /\ Goto("second")
          /\ UNCHANGED faults
       \/ /\ Fault("sync")
          /\ Return("state_commit_failed")
          /\ UNCHANGED slotDisk
    /\ UNCHANGED <<dirVars, slot, payloadVars, history>>

WriteSecond ==
    /\ pc = "second"
    /\ \/ /\ RenameInto(SecondSlot(target))
          /\ Goto("second_sync")
          /\ UNCHANGED faults
       \/ /\ Fault("io")
          /\ Goto("parents")
          /\ UNCHANGED slotVars
    /\ UNCHANGED <<dirVars, payloadVars, history>>

SyncSecond ==
    /\ pc = "second_sync"
    /\ pc' = "parents"
    /\ \/ /\ SyncSlots
          /\ second' = TRUE
          /\ UNCHANGED faults
       \/ /\ Fault("sync")
          /\ UNCHANGED <<slotDisk, second>>
    /\ UNCHANGED <<dirVars, slot, payloadVars, pkg, target, result, history>>

\* Wrong variant: success is reported without syncing the parent directories.
SyncParents_Skipped ==
    /\ pc = "parents"
    /\ Return("written")
    /\ acked' = target
    /\ quarantinedEver' = quarantinedEver \cup ({target.quarantined} \ {0})
    /\ removed' = (removed /\ pkg = NoPackage)
    /\ UNCHANGED <<dirVars, slotVars, payloadVars, faults>>

\* fsync of <policy>/apps, then of <policy>.
SyncParents ==
    /\ pc = "parents"
    /\ \/ /\ dirDisk' = [d \in Dirs |-> {TRUE}]
          /\ Return(IF second THEN "written" ELSE "second_slot_degraded")
          /\ acked' = target
          /\ quarantinedEver' = quarantinedEver \cup ({target.quarantined} \ {0})
          /\ removed' = (removed /\ pkg = NoPackage)
          /\ UNCHANGED faults
       \/ /\ Fault("sync")
          /\ \/ UNCHANGED dirDisk
             \/ dirDisk' = [dirDisk EXCEPT !["app"] = {TRUE}]
          /\ Return("parent_sync_degraded")
          /\ UNCHANGED history
    /\ UNCHANGED <<dir, slotVars, payloadVars>>

-----------------------------------------------------------------------------
(* remove_installed_application: the payload tree is renamed to a          *)
(* tombstone; the policy directory is not touched.                         *)

RemoveRename ==
    /\ pc = "idle"
    /\ \E c \in Counters : payload[c] # 0
    /\ payload' = [c \in Counters |-> 0]
    /\ payloadDisk' = [c \in Counters |-> payloadDisk[c] \cup {0}]
    /\ Goto("remove_sync")
    /\ removed' = TRUE
    /\ UNCHANGED <<dirVars, slotVars, faults, acked, quarantinedEver>>

RemoveSync ==
    /\ pc = "remove_sync"
    /\ \/ /\ payloadDisk' = [c \in Counters |-> {0}]
          /\ Return("removed")
          /\ UNCHANGED faults
       \/ /\ Fault("sync")
          /\ Return("remove_failed")
          /\ UNCHANGED payloadDisk
    /\ UNCHANGED <<dirVars, slotVars, payload, history>>

-----------------------------------------------------------------------------
(* Faults that end the process.                                            *)

Kill ==
    /\ pc # "idle"
    /\ Fault("kill")
    /\ Return("none")
    /\ UNCHANGED <<dirVars, slotVars, payloadVars, history>>

\* Every entry comes back as one of the values it can have on disk; what was
\* inside a directory that did not survive is gone with it.
PowerLoss ==
    /\ Fault("power")
    /\ \E apps \in dirDisk["apps"], app \in dirDisk["app"],
          a \in slotDisk["a"], b \in slotDisk["b"] :
          LET kept == apps /\ app
          IN /\ dir' = [d \in Dirs |-> IF d = "apps" THEN apps ELSE kept]
             /\ dirDisk' = [d \in Dirs |-> {dir'[d]}]
             /\ slot' = [s \in Slots |-> IF ~kept THEN NoState
                                         ELSE IF s = "a" THEN a ELSE b]
             /\ slotDisk' = [s \in Slots |-> {slot'[s]}]
    /\ payload' \in {f \in [Counters -> UNION {payloadDisk[c] : c \in Counters}] :
                        \A c \in Counters : f[c] \in payloadDisk[c]}
    /\ payloadDisk' = [c \in Counters |-> {payload'[c]}]
    /\ Return("none")
    /\ UNCHANGED history

-----------------------------------------------------------------------------
Step ==
    \/ StageExisting \/ StageFails \/ StageRename \/ StageSync \/ Activate
    \/ EnsureDirectory("apps", "app") \/ SyncDirectory("apps", "app")
    \/ EnsureDirectory("app", "first") \/ SyncDirectory("app", "first")
    \/ WriteFirst \/ SyncFirst \/ WriteSecond \/ SyncSecond \/ SyncParents
    \/ RemoveSync

Next ==
    \/ \E p \in Packages : Install(p)
    \/ \E recordFailure \in BOOLEAN : Rollback(recordFailure)
    \/ RemoveRename
    \/ Step
    \/ Kill
    \/ PowerLoss

Spec == Init /\ [][Next]_vars

\* The operation in progress runs on, and whoever wants a package installed
\* presents it again when an attempt did not succeed.
FairSpec ==
    /\ Spec
    /\ WF_vars(Step)
    /\ \A p \in Packages : SF_vars(Install(p))

-----------------------------------------------------------------------------
(* ReleaseStore implements ReleaseRegister.                                *)

\* What a load returns if a power loss leaves this.
Survivors ==
    {select_release_state(a, b) : a \in slotDisk["a"], b \in slotDisk["b"]}
        \cup (IF FALSE \in dirDisk["apps"] \cup dirDisk["app"] THEN {NoState} ELSE {})

Register == INSTANCE ReleaseRegister WITH reg <- Stored, may <- Survivors

-----------------------------------------------------------------------------
(* Properties *)

\* The two-slot store behaves like one crash-safe register that moves only by
\* policy-approved activations and rollbacks (persist_release_state and
\* load_release_state as used by the installer and the session daemon).
ImplementsRegister == Register!Spec

\* Every variable keeps its type; in particular the states that operations compute
\* are states (counters, generations and failure counts never leave Nat).
TypeOK ==
    /\ dir \in [Dirs -> BOOLEAN]
    /\ dirDisk \in [Dirs -> SUBSET BOOLEAN]
    /\ slot \in [Slots -> ReleaseStates]
    /\ slotDisk \in [Slots -> SUBSET ReleaseStates]
    /\ payload \in [Counters -> Nat]
    /\ payloadDisk \in [Counters -> SUBSET Nat]
    /\ pc \in Labels
    /\ pkg \in Packages \cup {NoPackage}
    /\ target \in ReleaseStates
    /\ second \in BOOLEAN
    /\ result \in Results
    /\ faults \in 0..MaxFaults
    /\ acked \in ReleaseStates
    /\ quarantinedEver \subseteq Nat
    /\ removed \in BOOLEAN

\* Whatever a power loss leaves of the two slots, select_release_state never
\* finds two different states of the same generation.
NoSplitBrain ==
    \A a \in slotDisk["a"], b \in slotDisk["b"] : ~split_brain(a, b)

\* A state whose persist was reported successful (both parents synced) is never
\* lost: from then on the store loads, and what it loads is at least as new and
\* has at least its high-water counter and security epoch, and its signer.
AckedPolicySurvives ==
    acked # NoState =>
        /\ Loaded
        /\ Stored.generation >= acked.generation
        /\ Stored.high >= acked.high
        /\ Stored.epoch >= acked.epoch
        /\ Stored.key = acked.key

\* A release quarantined by a rollback that was reported done is never the
\* active release again, nor the one a further rollback would return to, nor
\* what a running operation is about to make active.
QuarantineIsForever ==
    \A q \in quarantinedEver :
        /\ Stored.current # q
        /\ Stored.previous # q
        /\ target.current # q

\* An installation that is repeated after interruptions succeeds in the end
\* (docs/superpowers/plans/2026-08-24-lvgl-commercial-platform.md:98: install is
\* to be idempotent and power-interruption recoverable).
RetriedInstallSucceeds == <>(acked # NoState)

\* Unless it was removed, the active release's payload is on disk, after a power
\* loss too.
ActivePayloadSurvives ==
    Loaded /\ ~removed =>
        verify_application_release(Stored.current, Stored.currentDigest)
-----------------------------------------------------------------------------
(* The inductive invariant behind NoSplitBrain, AckedPolicySurvives and    *)
(* QuarantineIsForever (proved in ReleaseStoreProofs).                     *)

OnDisk == slotDisk["a"] \cup slotDisk["b"]

BeforeRename == {"stage", "stage_sync", "activate", "apps", "apps_sync", "app",
                 "app_sync", "first"}
AfterSync    == {"second", "second_sync", "parents"}
Persisting   == {"apps", "apps_sync", "app", "app_sync", "first", "first_sync"} \cup AfterSync

SlotsInv ==
    /\ \A s \in Slots : slot[s] \in slotDisk[s]
    /\ \A u \in OnDisk : u = NoState \/ Sound(u)
    /\ \A u, v \in OnDisk : u.generation <= v.generation => Older(u, v)
    /\ \A u \in OnDisk : u.generation <= Stored.generation

TargetInv ==
    /\ pc \in {"idle", "remove_sync"} => target = NoState
    /\ pc \in Persisting => target # NoState
    /\ target # NoState => Sound(target) /\ \A q \in quarantinedEver : Clean(q, target)
    /\ pc \in BeforeRename /\ target # NoState => Follows(target, Stored)
    /\ pc \in AfterSync \cup {"first_sync"} =>
          target = Stored /\ slot[FirstSlot(target)] = target
    /\ pc \in AfterSync => slotDisk[FirstSlot(target)] = {target}

DirsInv ==
    /\ \A d \in Dirs : dir[d] \in dirDisk[d]
    /\ pc \in Persisting \ {"apps"} => dir["apps"]
    /\ pc \in Persisting \ {"apps", "apps_sync", "app"} => dir["app"]

AckedInv ==
    acked # NoState =>
        /\ Sound(acked)
        /\ \A d \in Dirs : dirDisk[d] = {TRUE}
        /\ \A u \in slotDisk[FirstSlot(acked)] : acked.generation <= u.generation
        /\ \A u \in OnDisk : acked.generation <= u.generation => Older(acked, u)

QuarantineInv ==
    /\ acked = NoState => quarantinedEver = {}
    /\ 0 \notin quarantinedEver
    /\ \A q \in quarantinedEver, u \in OnDisk :
          acked.generation <= u.generation => Clean(q, u)

\* The store's inductive invariant: the values the slots can come back with form
\* a chain whose newest member is the visible state, the state being persisted
\* extends that chain, and nothing older than the last reported state is left in
\* the slot that state was written to first.
StoreInv ==
    TypeOK /\ SlotsInv /\ TargetInv /\ DirsInv /\ AckedInv /\ QuarantineInv

\* What is about to be made visible is a move the register may make from here
\* (behind ImplementsRegister): the policy was asked about this very state.
TargetIsNext ==
    pc \in BeforeRename /\ target # NoState => target \in Register!Successors(Stored)
=============================================================================
