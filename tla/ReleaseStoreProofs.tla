------------------------- MODULE ReleaseStoreProofs -------------------------
(***************************************************************************)
(* For every set of packages, fault budget and generation limit: the two-  *)
(* slot release store keeps its inductive invariant StoreInv, and with it  *)
(* TypeOK, NoSplitBrain, AckedPolicySurvives and QuarantineIsForever.      *)
(***************************************************************************)
EXTENDS ReleaseStore, ReleaseStateProofs

-----------------------------------------------------------------------------
(* Types *)

DirTypes     == dir \in [Dirs -> BOOLEAN] /\ dirDisk \in [Dirs -> SUBSET BOOLEAN]
SlotTypes    == slot \in [Slots -> ReleaseStates] /\ slotDisk \in [Slots -> SUBSET ReleaseStates]
PayloadTypes == payload \in [Counters -> Nat] /\ payloadDisk \in [Counters -> SUBSET Nat]
ControlTypes ==
    /\ pc \in Labels
    /\ pkg \in Packages \cup {NoPackage}
    /\ target \in ReleaseStates
    /\ second \in BOOLEAN
    /\ result \in Results
FaultTypes   == faults \in 0..MaxFaults
HistoryTypes == acked \in ReleaseStates /\ quarantinedEver \subseteq Nat /\ removed \in BOOLEAN

\* TypeOK, grouped as the actions change it.
LEMMA TypeParts ==
    TypeOK <=> /\ DirTypes
               /\ SlotTypes
               /\ PayloadTypes
               /\ ControlTypes
               /\ FaultTypes
               /\ HistoryTypes
BY DEF TypeOK, DirTypes, SlotTypes, PayloadTypes, ControlTypes, FaultTypes, HistoryTypes

\* A step that leaves a group of variables alone keeps their types.
LEMMA UnchangedTypes ==
    /\ DirTypes /\ UNCHANGED dirVars => DirTypes'
    /\ SlotTypes /\ UNCHANGED slotVars => SlotTypes'
    /\ PayloadTypes /\ UNCHANGED payloadVars => PayloadTypes'
    /\ HistoryTypes /\ UNCHANGED history => HistoryTypes'
    /\ FaultTypes /\ UNCHANGED faults => FaultTypes'
BY DEF DirTypes, SlotTypes, PayloadTypes, HistoryTypes, FaultTypes,
       dirVars, slotVars, payloadVars, history

\* Returning, moving on and failing keep the control variables' types.
LEMMA ReturnTypes ==
    ASSUME NEW r \in Results, Return(r)
    PROVE  ControlTypes'
BY NoStateFacts DEF Return, ControlTypes, Labels

\* Moving to another label keeps the control variables' types.
LEMMA GotoTypes ==
    ASSUME NEW label \in Labels, ControlTypes, Goto(label)
    PROVE  ControlTypes'
BY DEF Goto, ControlTypes

\* Counting a fault keeps the fault counter within its bound.
LEMMA FaultStep ==
    ASSUME NEW kind, FaultTypes, Fault(kind)
    PROVE  FaultTypes'
BY StoreAssumption DEF Fault, FaultTypes

\* What load_release_state selects is a state.
LEMMA StoredType ==
    ASSUME SlotTypes
    PROVE  Stored \in ReleaseStates
BY SelectType DEF SlotTypes, Stored, Slots

\* A package of the instance has the fields of PackageRecords.
LEMMA PackageType ==
    ASSUME NEW p \in Packages
    PROVE  p \in PackageRecords /\ p.counter \in Counters /\ p.digest \in Nat
BY StoreAssumption DEF PackageRecords, Counters

\* An empty store is well typed.
LEMMA InitTypeOK == Init => TypeOK
<1> SUFFICES ASSUME Init PROVE TypeOK
  OBVIOUS
<1>1. DirTypes
  BY DEF Init, DirTypes, Dirs
<1>2. SlotTypes
  BY NoStateFacts DEF Init, SlotTypes
<1>3. PayloadTypes
  BY DEF Init, PayloadTypes
<1>4. ControlTypes
  BY NoStateFacts DEF Init, ControlTypes, Labels, Results
<1>5. FaultTypes
  BY StoreAssumption DEF Init, FaultTypes
<1>6. HistoryTypes
  BY NoStateFacts DEF Init, HistoryTypes
<1> QED BY <1>1, <1>2, <1>3, <1>4, <1>5, <1>6, TypeParts

\* Every step of every operation, and every fault, keeps the types.
LEMMA NextTypeOK ==
    ASSUME TypeOK, [Next]_vars
    PROVE  TypeOK'
<1>0. /\ DirTypes /\ SlotTypes /\ PayloadTypes
      /\ ControlTypes /\ FaultTypes /\ HistoryTypes
  BY TypeParts
<1> DEFINE Typed == /\ DirTypes' /\ SlotTypes' /\ PayloadTypes'
                    /\ ControlTypes' /\ FaultTypes' /\ HistoryTypes'
<1> SUFFICES Typed
  <2>1. TypeOK' <=> Typed
    BY TypeParts, PTL DEF Typed
  <2> QED BY <2>1
<1>l. /\ "idle" \in Labels /\ "stage" \in Labels /\ "stage_sync" \in Labels /\ "activate" \in Labels
      /\ "apps" \in Labels /\ "apps_sync" \in Labels /\ "app" \in Labels /\ "app_sync" \in Labels
      /\ "first" \in Labels /\ "first_sync" \in Labels /\ "second" \in Labels
      /\ "second_sync" \in Labels /\ "parents" \in Labels /\ "remove_sync" \in Labels
  BY DEF Labels
<1>r. /\ "none" \in Results /\ "storage_failed" \in Results /\ "transition_failed" \in Results
      /\ "state_commit_failed" \in Results /\ "written" \in Results
      /\ "second_slot_degraded" \in Results /\ "parent_sync_degraded" \in Results
      /\ "rollback_refused" \in Results /\ "removed" \in Results /\ "remove_failed" \in Results
  BY DEF Results
<1>1. ASSUME NEW p \in Packages, Install(p) PROVE Typed
  <2>1. activation_state_for(p, Stored) \in ReleaseStates
    BY <1>0, StoredType, PackageType, TransitionTypes
  <2>2. ControlTypes'
    <3>1. CASE Return(InstallRefusal(p))
      <4>1. InstallRefusal(p) \in Results
        BY DEF InstallRefusal, Results
      <4> QED BY <3>1, <4>1, ReturnTypes
    <3>2. CASE ~Return(InstallRefusal(p))
      BY <1>0, <1>1, <1>l, <2>1, <3>2 DEF Install, ControlTypes
    <3> QED BY <3>1, <3>2
  <2> QED BY <1>0, <1>1, <2>2, UnchangedTypes DEF Install
<1>2. ASSUME NEW recordFailure \in BOOLEAN, Rollback(recordFailure) PROVE Typed
  <2>1. RollbackState(recordFailure) \in ReleaseStates
    BY <1>0, StoredType, TransitionTypes, NoStateFacts DEF RollbackState
  <2>2. ControlTypes'
    <3>1. CASE Return("rollback_refused")
      BY <3>1, <1>r, ReturnTypes
    <3>2. CASE ~Return("rollback_refused")
      BY <1>0, <1>2, <1>l, <2>1, <3>2 DEF Rollback, ControlTypes
    <3> QED BY <3>1, <3>2
  <2> QED BY <1>0, <1>2, <2>2, UnchangedTypes DEF Rollback
<1>3. CASE StageExisting
  BY <1>0, <1>3, <1>l, <1>r, UnchangedTypes, ReturnTypes, GotoTypes DEF StageExisting
<1>4. CASE StageFails
  BY <1>0, <1>4, <1>r, UnchangedTypes, ReturnTypes, FaultStep DEF StageFails
<1>5. CASE StageRename
  <2>1. pkg.digest \in Nat
    BY <1>0, PackageType DEF NoPackage, ControlTypes
  <2>2. PayloadTypes'
    BY <1>0, <1>5, <2>1 DEF StageRename, PayloadTypes
  <2> QED BY <1>0, <1>5, <1>l, <2>2, UnchangedTypes, GotoTypes DEF StageRename
<1>6. CASE StageSync
  <2>1. PayloadTypes'
    BY <1>0, <1>6 DEF StageSync, PayloadTypes
  <2> QED BY <1>0, <1>6, <1>l, <1>r, <2>1, UnchangedTypes, ReturnTypes, GotoTypes, FaultStep DEF StageSync
<1>7. CASE Activate
  BY <1>0, <1>7, <1>l, <1>r, UnchangedTypes, ReturnTypes, GotoTypes DEF Activate
<1>8. ASSUME NEW d \in Dirs, NEW next \in Labels, EnsureDirectory(d, next) PROVE Typed
  <2>1. DirTypes'
    BY <1>0, <1>8 DEF EnsureDirectory, DirTypes, dirVars
  <2>2. ControlTypes'
    <3>1. SyncLabel(d) \in Labels
      BY <1>l DEF SyncLabel
    <3> QED BY <1>0, <1>8, <1>r, <3>1, ReturnTypes, GotoTypes DEF EnsureDirectory
  <2> QED BY <1>0, <1>8, <2>1, <2>2, UnchangedTypes, FaultStep DEF EnsureDirectory
<1>9. ASSUME NEW d \in Dirs, NEW next \in Labels, SyncDirectory(d, next) PROVE Typed
  <2>1. DirTypes'
    BY <1>0, <1>9 DEF SyncDirectory, DirTypes
  <2>2. ControlTypes'
    BY <1>0, <1>9, <1>r, ReturnTypes, GotoTypes DEF SyncDirectory
  <2> QED BY <1>0, <1>9, <2>1, <2>2, UnchangedTypes, FaultStep DEF SyncDirectory
<1>10. ASSUME NEW s \in Slots, RenameInto(s) PROVE SlotTypes'
  BY <1>0, <1>10 DEF RenameInto, SlotTypes, ControlTypes
<1>11. FirstSlot(target) \in Slots /\ SecondSlot(target) \in Slots
  BY DEF FirstSlot, SecondSlot, Slots
<1>12. CASE WriteFirst
  BY <1>0, <1>10, <1>11, <1>12, <1>l, <1>r, UnchangedTypes, ReturnTypes, GotoTypes, FaultStep
     DEF WriteFirst
<1>13. ASSUME SyncSlots \/ UNCHANGED slotDisk, UNCHANGED slot PROVE SlotTypes'
  BY <1>0, <1>13 DEF SyncSlots, SlotTypes
<1>14. CASE SyncFirst
  BY <1>0, <1>13, <1>14, <1>l, <1>r, UnchangedTypes, ReturnTypes, GotoTypes, FaultStep DEF SyncFirst
<1>15. CASE WriteSecond
  BY <1>0, <1>10, <1>11, <1>15, <1>l, UnchangedTypes, GotoTypes, FaultStep DEF WriteSecond
<1>16. CASE SyncSecond
  <2>1. ControlTypes'
    BY <1>0, <1>16, <1>l DEF SyncSecond, ControlTypes
  <2> QED BY <1>0, <1>13, <1>16, <2>1, UnchangedTypes, FaultStep DEF SyncSecond
<1>17. CASE SyncParents
  <2>1. DirTypes'
    <3>1. dir' = dir
      BY <1>17 DEF SyncParents
    <3>2. \/ dirDisk' = [d \in Dirs |-> {TRUE}]
          \/ dirDisk' = dirDisk
          \/ dirDisk' = [dirDisk EXCEPT !["app"] = {TRUE}]
      BY <1>17 DEF SyncParents
    <3>3. dirDisk' \in [Dirs -> SUBSET BOOLEAN]
      <4>1. {TRUE} \in SUBSET BOOLEAN
        OBVIOUS
      <4>2. ASSUME NEW B, {TRUE} \in SUBSET B, NEW D, NEW f \in [D -> SUBSET B]
            PROVE  [f EXCEPT !["app"] = {TRUE}] \in [D -> SUBSET B]
        BY <4>2
      <4> QED BY <1>0, <3>2, <4>1, <4>2 DEF DirTypes
    <3> QED BY <1>0, <3>1, <3>3 DEF DirTypes
  <2>2. target.quarantined \in Nat
    BY <1>0 DEF ReleaseStates, ControlTypes
  <2>3. HistoryTypes'
    <3>1. CASE UNCHANGED history
      BY <1>0, <3>1, UnchangedTypes
    <3>2. CASE ~UNCHANGED history
      <4>1. /\ acked' = target
            /\ quarantinedEver' = quarantinedEver \cup ({target.quarantined} \ {0})
            /\ removed' = (removed /\ pkg = NoPackage)
        BY <1>17, <3>2 DEF SyncParents
      <4>2. removed' \in BOOLEAN
        BY <4>1
      <4>3. acked' \in ReleaseStates /\ quarantinedEver' \subseteq Nat
        BY <1>0, <2>2, <4>1 DEF HistoryTypes, ControlTypes
      <4> QED BY <4>2, <4>3 DEF HistoryTypes
    <3> QED BY <3>1, <3>2
  <2> QED BY <1>0, <1>17, <1>r, <2>1, <2>3, UnchangedTypes, ReturnTypes, FaultStep DEF SyncParents
<1>18. CASE RemoveRename
  <2>1. PayloadTypes'
    BY <1>0, <1>18 DEF RemoveRename, PayloadTypes
  <2>2. HistoryTypes'
    BY <1>0, <1>18 DEF RemoveRename, HistoryTypes
  <2> QED BY <1>0, <1>18, <1>l, <2>1, <2>2, UnchangedTypes, GotoTypes DEF RemoveRename
<1>19. CASE RemoveSync
  <2>1. PayloadTypes'
    BY <1>0, <1>19 DEF RemoveSync, PayloadTypes
  <2> QED BY <1>0, <1>19, <1>r, <2>1, UnchangedTypes, ReturnTypes, FaultStep DEF RemoveSync
<1>20. CASE Kill
  BY <1>0, <1>20, <1>r, UnchangedTypes, ReturnTypes, FaultStep DEF Kill
<1>21. CASE PowerLoss
  <2>1. DirTypes'
    BY <1>0, <1>21 DEF PowerLoss, DirTypes, Dirs
  <2>2. SlotTypes'
    BY <1>0, <1>21, NoStateFacts DEF PowerLoss, SlotTypes, Slots
  <2>3. PayloadTypes'
    BY <1>0, <1>21 DEF PowerLoss, PayloadTypes
  <2> QED BY <1>0, <1>21, <1>r, <2>1, <2>2, <2>3, UnchangedTypes, ReturnTypes, FaultStep DEF PowerLoss
<1>22. CASE UNCHANGED vars
  <2>1. ControlTypes'
    BY <1>0, <1>22 DEF ControlTypes, vars
  <2> QED BY <1>0, <1>22, <2>1, UnchangedTypes DEF vars
<1>23. "apps" \in Dirs /\ "app" \in Dirs
  BY DEF Dirs
<1> HIDE DEF Typed
<1> QED
  BY <1>1, <1>2, <1>3, <1>4, <1>5, <1>6, <1>7, <1>8, <1>9, <1>12, <1>14, <1>15, <1>16, <1>17,
     <1>18, <1>19, <1>20, <1>21, <1>22, <1>23, <1>l DEF Next, Step

\* TypeOK holds throughout.
THEOREM TypeCorrectness == Spec => []TypeOK
<1>1. Init => TypeOK
  BY InitTypeOK
<1>2. TypeOK /\ [Next]_vars => TypeOK'
  BY NextTypeOK
<1> QED BY <1>1, <1>2, PTL DEF Spec

-----------------------------------------------------------------------------
(* The slots form a chain and the visible state is its newest member.      *)

\* A state that every other can be replaced by is the one that is selected.
LEMMA SelectTop ==
    ASSUME NEW t, Sound(t), NEW o \in ReleaseStates, o = NoState \/ Sound(o), Older(o, t)
    PROVE  select_release_state(t, o) = t /\ select_release_state(o, t) = t
<1>1. valid_state(t) /\ t.generation \in Nat /\ o.generation \in Nat
  BY SoundFacts DEF ReleaseStates
<1>2. ~split_brain(t, o) /\ ~split_brain(o, t)
  BY DEF split_brain, Older
<1>3. o.generation <= t.generation /\ (o.generation = t.generation => o = t)
  BY DEF Older
<1> QED BY <1>1, <1>2, <1>3 DEF select_release_state

\* The state load_release_state selects is one of the slots' values, sound unless absent,
\* and every value a power loss can bring back can be replaced by it.
LEMMA StoredFacts ==
    ASSUME TypeOK, SlotsInv
    PROVE  /\ Stored \in OnDisk
           /\ Stored \in ReleaseStates
           /\ Stored = NoState \/ Sound(Stored)
           /\ \A u \in OnDisk : u \in ReleaseStates /\ Older(u, Stored)
<1>1. \A u \in OnDisk : u \in ReleaseStates
  BY DEF TypeOK, OnDisk, Slots
<1>2. slot["a"] \in OnDisk /\ slot["b"] \in OnDisk
  BY DEF SlotsInv, OnDisk, Slots
<1>3. Stored \in {slot["a"], slot["b"]}
  BY <1>1, <1>2, SelectNewest DEF SlotsInv, Stored
<1> QED BY <1>1, <1>2, <1>3 DEF SlotsInv

\* The last reported state is no newer than the visible one.
LEMMA AckedBelowStored ==
    ASSUME TypeOK, SlotsInv, AckedInv, acked # NoState
    PROVE  /\ acked.generation <= Stored.generation
           /\ Older(acked, Stored)
           /\ Stored # NoState
<1>1. FirstSlot(acked) \in Slots
  BY DEF FirstSlot, Slots
<1>2. slot[FirstSlot(acked)] \in slotDisk[FirstSlot(acked)] /\ slot[FirstSlot(acked)] \in OnDisk
  BY <1>1 DEF SlotsInv, OnDisk, Slots
<1>3. /\ acked.generation <= slot[FirstSlot(acked)].generation
      /\ slot[FirstSlot(acked)].generation <= Stored.generation
  BY <1>2 DEF AckedInv, SlotsInv
<1>4. /\ acked.generation \in Nat \ {0}
      /\ slot[FirstSlot(acked)].generation \in Nat
      /\ Stored.generation \in Nat
  BY <1>2, StoredFacts, SoundFacts DEF AckedInv, ReleaseStates
<1>5. acked.generation <= Stored.generation /\ Stored.generation # 0
  BY <1>3, <1>4
<1> QED BY <1>5, StoredFacts, NoStateFacts DEF AckedInv

\* A rename puts the new state on top of the chain.
LEMMA RenameSlots ==
    ASSUME TypeOK, TypeOK', SlotsInv, Sound(target), Follows(target, Stored),
           NEW x \in Slots, RenameInto(x)
    PROVE  /\ SlotsInv'
           /\ Stored' = target
           /\ OnDisk' = OnDisk \cup {target}
           /\ \A s \in Slots : slotDisk'[s] = slotDisk[s] \cup (IF s = x THEN {target} ELSE {})
           /\ \A s \in Slots : slot'[s] = IF s = x THEN target ELSE slot[s]
<1>1. /\ \A s \in Slots : slotDisk'[s] = slotDisk[s] \cup (IF s = x THEN {target} ELSE {})
      /\ \A s \in Slots : slot'[s] = IF s = x THEN target ELSE slot[s]
  BY DEF RenameInto, TypeOK
<1>2. OnDisk' = OnDisk \cup {target}
  BY <1>1 DEF OnDisk, Slots
<1>3. target \in ReleaseStates
  BY SoundFacts
<1>4. \A u \in OnDisk : u \in ReleaseStates /\ Older(u, target)
  BY <1>3, StoredFacts, OlderTransitive DEF Follows
<1>5. \A s \in Slots : slot[s] \in OnDisk
  BY DEF SlotsInv, OnDisk, Slots
<1>6. \A u \in OnDisk : u = NoState \/ Sound(u)
  BY DEF SlotsInv
<1>7. Stored' = target
  BY <1>1, <1>4, <1>5, <1>6, SelectTop DEF Stored, Slots
<1>8. \A s \in Slots : slot'[s] \in slotDisk'[s]
  BY <1>1 DEF SlotsInv
<1>9. \A u \in OnDisk' : u = NoState \/ Sound(u)
  BY <1>2, <1>6
<1>10. \A u \in OnDisk' : u.generation <= Stored'.generation
  BY <1>2, <1>3, <1>4, <1>7 DEF Older, ReleaseStates
<1>11. ASSUME NEW u \in OnDisk', NEW v \in OnDisk', u.generation <= v.generation
       PROVE  Older(u, v)
  <2>1. CASE u \in OnDisk /\ v \in OnDisk
    BY <2>1, <1>11 DEF SlotsInv
  <2>2. CASE v = target
    BY <2>2, <1>2, <1>3, <1>4, OlderReflexive
  <2>3. CASE u = target /\ v \in OnDisk
    <3>1. v.generation <= u.generation /\ (v.generation = u.generation => v = u)
      BY <2>3, <1>4 DEF Older
    <3>2. v.generation \in Nat /\ u.generation \in Nat
      BY <2>3, <1>3, <1>4 DEF ReleaseStates
    <3> QED BY <3>1, <3>2, <1>11, <2>3, <1>3, OlderReflexive
  <2> QED BY <1>2, <2>1, <2>2, <2>3
<1> QED BY <1>1, <1>2, <1>7, <1>8, <1>9, <1>10, <1>11 DEF SlotsInv

\* After an fsync, or a power loss that keeps the directory, each slot holds one
\* of the values it could come back with and nothing else.
LEMMA SettleSlots ==
    ASSUME TypeOK, TypeOK', SlotsInv,
           \A s \in Slots : slot'[s] \in slotDisk[s] /\ slotDisk'[s] = {slot'[s]}
    PROVE  /\ SlotsInv'
           /\ OnDisk' \subseteq OnDisk
<1>1. OnDisk' = {slot'["a"], slot'["b"]} /\ OnDisk' \subseteq OnDisk
  BY DEF OnDisk, Slots
<1>2. \A u \in OnDisk : u \in ReleaseStates
  BY StoredFacts
<1>3. \A u \in OnDisk' : u.generation <= Stored'.generation
  BY <1>1, <1>2, SelectNewest DEF SlotsInv, Stored
<1> QED BY <1>1, <1>3 DEF SlotsInv

\* Steps that do not touch the slots keep their chain.
LEMMA SlotsUnchanged ==
    ASSUME SlotsInv, UNCHANGED slotVars
    PROVE  SlotsInv' /\ Stored' = Stored /\ OnDisk' = OnDisk
BY DEF SlotsInv, slotVars, Stored, OnDisk


-----------------------------------------------------------------------------
(* What each kind of step does to the other parts of the invariant.        *)

\* Steps that touch neither the slots nor the history keep what was reported.
LEMMA AckedKept ==
    ASSUME AckedInv, UNCHANGED acked,
           \A s \in Slots : slotDisk'[s] \subseteq slotDisk[s],
           acked # NoState => \A d \in Dirs : dirDisk'[d] = {TRUE}
    PROVE  AckedInv'
<1> SUFFICES ASSUME acked # NoState
             PROVE  /\ Sound(acked)
                    /\ \A d \in Dirs : dirDisk'[d] = {TRUE}
                    /\ \A u \in slotDisk'[FirstSlot(acked)] : acked.generation <= u.generation
                    /\ \A u \in OnDisk' : acked.generation <= u.generation => Older(acked, u)
  BY DEF AckedInv, FirstSlot
<1>1. OnDisk' \subseteq OnDisk
  BY DEF OnDisk, Slots
<1>2. FirstSlot(acked) \in Slots
  BY DEF FirstSlot, Slots
<1> QED BY <1>1, <1>2 DEF AckedInv

\* Steps that touch neither the slots nor the history keep what was quarantined.
LEMMA QuarantineKept ==
    ASSUME QuarantineInv, UNCHANGED <<acked, quarantinedEver>>, OnDisk' \subseteq OnDisk
    PROVE  QuarantineInv'
BY DEF QuarantineInv

\* Steps that leave the slots and the history alone.
LEMMA Quiet ==
    ASSUME StoreInv, UNCHANGED <<slotVars, acked, quarantinedEver>>,
           acked # NoState => \A d \in Dirs : dirDisk'[d] = {TRUE}
    PROVE  SlotsInv' /\ AckedInv' /\ QuarantineInv' /\ Stored' = Stored
<1>1. \A s \in Slots : slotDisk'[s] \subseteq slotDisk[s]
  BY DEF slotVars
<1> QED BY <1>1, SlotsUnchanged, AckedKept, QuarantineKept DEF StoreInv

\* Adding a state that every value on disk can be replaced by keeps the history's promises.
LEMMA TopKeepsHistory ==
    ASSUME StoreInv, UNCHANGED <<dirVars, acked, quarantinedEver>>,
           Sound(target), Follows(target, Stored), NEW x \in Slots,
           \A q \in quarantinedEver : Clean(q, target),
           OnDisk' = OnDisk \cup {target},
           \A s \in Slots : slotDisk'[s] = slotDisk[s] \cup (IF s = x THEN {target} ELSE {})
    PROVE  AckedInv' /\ QuarantineInv'
<1>1. ASSUME acked # NoState
      PROVE  /\ Sound(acked)
             /\ \A d \in Dirs : dirDisk'[d] = {TRUE}
             /\ \A u \in slotDisk'[FirstSlot(acked)] : acked.generation <= u.generation
             /\ \A u \in OnDisk' : acked.generation <= u.generation => Older(acked, u)
  <2>1. Older(acked, Stored)
    BY <1>1, AckedBelowStored DEF StoreInv
  <2>2. acked \in ReleaseStates /\ target \in ReleaseStates /\ Stored \in ReleaseStates
    BY SoundFacts, StoredFacts DEF StoreInv, TypeOK
  <2>3. Older(acked, target)
    BY <2>1, <2>2, OlderTransitive DEF Follows
  <2>4. FirstSlot(acked) \in Slots
    BY DEF FirstSlot, Slots
  <2>5. acked.generation <= target.generation
    BY <2>3 DEF Older
  <2> QED BY <1>1, <2>3, <2>4, <2>5 DEF StoreInv, AckedInv, dirVars
<1>2. AckedInv'
  BY <1>1 DEF AckedInv, FirstSlot
<1>3. QuarantineInv'
  BY DEF StoreInv, QuarantineInv
<1> QED BY <1>2, <1>3

\* An operation that returns gives up its target.
LEMMA ReturnInv ==
    ASSUME NEW r, Return(r)
    PROVE  TargetInv'
BY DEF Return, TargetInv, Persisting, AfterSync, BeforeRename

\* A step on the way to the first rename.
LEMMA BeforeInv ==
    ASSUME StoreInv, NEW label, Goto(label), UNCHANGED <<slotVars, quarantinedEver>>,
           pc \in BeforeRename, label \in BeforeRename,
           label \in Persisting => target # NoState
    PROVE  TargetInv'
<1>1. Stored' = Stored
  BY SlotsUnchanged DEF StoreInv
<1>2. pc' = label /\ target' = target /\ quarantinedEver' = quarantinedEver
  BY DEF Goto
<1>3. label \notin {"idle", "remove_sync"} /\ label \notin AfterSync \cup {"first_sync"}
  BY DEF BeforeRename, AfterSync
<1> QED BY <1>1, <1>2, <1>3 DEF StoreInv, TargetInv

\* A step between the first slot's fsync and the report.
LEMMA AfterInv ==
    ASSUME StoreInv, NEW label, pc' = label, UNCHANGED <<target, slot, quarantinedEver>>,
           pc \in AfterSync, label \in AfterSync,
           UNCHANGED slotDisk \/ SyncSlots
    PROVE  TargetInv'
<1>1. Stored' = Stored
  BY DEF Stored
<1>2. target # NoState /\ Sound(target) /\ target = Stored /\ slot[FirstSlot(target)] = target
      /\ slotDisk[FirstSlot(target)] = {target}
      /\ \A q \in quarantinedEver : Clean(q, target)
  BY DEF StoreInv, TargetInv, AfterSync, Persisting
<1>3. FirstSlot(target) \in Slots
  BY DEF FirstSlot, Slots
<1>4. slotDisk'[FirstSlot(target)] = {target}
  BY <1>2, <1>3 DEF SyncSlots
<1>5. FirstSlot(target)' = FirstSlot(target)
  BY DEF FirstSlot
<1>6. label \notin {"idle", "remove_sync"} /\ label \notin BeforeRename
  BY DEF BeforeRename, AfterSync
<1> QED BY <1>1, <1>2, <1>4, <1>5, <1>6 DEF TargetInv


-----------------------------------------------------------------------------
(* Every step preserves the invariant.                                     *)

\* An empty store satisfies the invariant.
LEMMA InitInv == Init => StoreInv
<1> SUFFICES ASSUME Init PROVE StoreInv
  OBVIOUS
<1>1. OnDisk = {NoState} /\ slot["a"] = NoState /\ slot["b"] = NoState
  BY DEF Init, OnDisk, Slots
<1>2. Stored = NoState
  BY <1>1, NoStateFacts DEF Stored, select_release_state
<1>3. SlotsInv
  BY <1>1, <1>2, NoStateFacts, OlderReflexive DEF SlotsInv, Init
<1>4. TargetInv
  BY DEF Init, TargetInv, Persisting, AfterSync, BeforeRename
<1>5. DirsInv
  BY DEF Init, DirsInv, Persisting, AfterSync
<1>6. AckedInv /\ QuarantineInv
  BY DEF Init, AckedInv, QuarantineInv
<1> QED BY <1>3, <1>4, <1>5, <1>6, InitTypeOK DEF StoreInv

\* Any step that abandons the operation and changes no entry.
LEMMA ReturnPreserves ==
    ASSUME StoreInv, TypeOK', NEW r, Return(r),
           UNCHANGED <<dirVars, slotVars, acked, quarantinedEver>>
    PROVE  StoreInv'
<1>1. SlotsInv' /\ AckedInv' /\ QuarantineInv'
  BY Quiet DEF StoreInv, AckedInv, dirVars
<1>2. DirsInv'
  BY DEF StoreInv, DirsInv, Return, dirVars, Persisting, AfterSync
<1> QED BY <1>1, <1>2, ReturnInv DEF StoreInv

\* Any step before the first rename that moves on and changes no entry.
LEMMA GotoPreserves ==
    ASSUME StoreInv, TypeOK', NEW label, Goto(label),
           UNCHANGED <<dirVars, slotVars, acked, quarantinedEver>>,
           pc \in BeforeRename, label \in BeforeRename,
           label \in Persisting => target # NoState,
           label \in Persisting \ {"apps"} => dir["apps"],
           label \in Persisting \ {"apps", "apps_sync", "app"} => dir["app"]
    PROVE  StoreInv'
<1>1. SlotsInv' /\ AckedInv' /\ QuarantineInv'
  BY Quiet DEF StoreInv, AckedInv, dirVars
<1>2. DirsInv'
  BY DEF StoreInv, DirsInv, Goto, dirVars
<1>3. TargetInv'
  BY BeforeInv
<1> QED BY <1>1, <1>2, <1>3 DEF StoreInv

\* install_official_package up to its first state change.
LEMMA InstallPreserves ==
    ASSUME StoreInv, TypeOK', NEW p \in Packages, Install(p)
    PROVE  StoreInv'
<1>1. CASE Return(InstallRefusal(p))
  BY <1>1, ReturnPreserves DEF Install, history
<1>2. CASE ~Return(InstallRefusal(p))
  <2>1. /\ pc' = "stage" /\ target' = activation_state_for(p, Stored)
        /\ UNCHANGED <<dirVars, slotVars, acked, quarantinedEver>>
    BY <1>2 DEF Install, history
  <2>2. SlotsInv' /\ AckedInv' /\ QuarantineInv' /\ Stored' = Stored
    BY <2>1, Quiet DEF StoreInv, AckedInv, dirVars
  <2>3. DirsInv'
    BY <2>1 DEF StoreInv, DirsInv, dirVars, Persisting, AfterSync
  <2>4. ASSUME target' # NoState
        PROVE  /\ Sound(target') /\ Follows(target', Stored)
               /\ \A q \in quarantinedEver : Clean(q, target')
    <3>1. Stored \in ReleaseStates /\ (Stored = NoState \/ Sound(Stored)) /\ Stored \in OnDisk
      BY StoredFacts DEF StoreInv
    <3>2. ASSUME NEW q \in quarantinedEver
          PROVE  q \in Nat \ {0} /\ Stored # NoState /\ Clean(q, Stored)
      <4>1. acked # NoState /\ q \in Nat \ {0}
        BY <3>2 DEF StoreInv, QuarantineInv, TypeOK
      <4>2. acked.generation <= Stored.generation /\ Stored # NoState
        BY <4>1, AckedBelowStored DEF StoreInv
      <4> QED BY <3>1, <4>1, <4>2 DEF StoreInv, QuarantineInv
    <3> QED BY <2>1, <2>4, <3>1, <3>2, PackageType, ActivationFollows
  <2>5. TargetInv'
    BY <2>1, <2>2, <2>4 DEF TargetInv, Persisting, AfterSync, BeforeRename
  <2> QED BY <2>2, <2>3, <2>5 DEF StoreInv
<1> QED BY <1>1, <1>2

\* rollback_application_after_failure and rollback_installed_application up to the persist.
LEMMA RollbackPreserves ==
    ASSUME StoreInv, TypeOK', NEW recordFailure \in BOOLEAN, Rollback(recordFailure)
    PROVE  StoreInv'
<1>1. CASE Return("rollback_refused")
  BY <1>1, ReturnPreserves DEF Rollback, history
<1>2. CASE ~Return("rollback_refused")
  <2>1. /\ pc' = "apps" /\ target' = RollbackState(recordFailure) /\ target' # NoState
        /\ UNCHANGED <<dirVars, slotVars, acked, quarantinedEver>>
    BY <1>2 DEF Rollback, history
  <2>2. SlotsInv' /\ AckedInv' /\ QuarantineInv' /\ Stored' = Stored
    BY <2>1, Quiet DEF StoreInv, AckedInv, dirVars
  <2>3. DirsInv'
    BY <2>1 DEF StoreInv, DirsInv, dirVars, Persisting, AfterSync
  <2>4. /\ Sound(target') /\ Follows(target', Stored)
        /\ \A q \in quarantinedEver : Clean(q, target')
    <3>1. Stored \in ReleaseStates /\ (Stored = NoState \/ Sound(Stored)) /\ Stored \in OnDisk
      BY StoredFacts DEF StoreInv
    <3>2. target' = rollback_release(Stored, recordFailure) /\ Stored # NoState
      BY <2>1, NoStateFacts DEF RollbackState
    <3>3. ASSUME NEW q \in quarantinedEver
          PROVE  q \in Nat \ {0} /\ Clean(q, Stored)
      <4>1. acked # NoState /\ q \in Nat \ {0}
        BY <3>3 DEF StoreInv, QuarantineInv, TypeOK
      <4>2. acked.generation <= Stored.generation
        BY <4>1, AckedBelowStored DEF StoreInv
      <4> QED BY <3>1, <4>1, <4>2 DEF StoreInv, QuarantineInv
    <3> QED BY <2>1, <3>1, <3>2, <3>3, RollbackFollows
  <2>5. TargetInv'
    BY <2>1, <2>2, <2>4 DEF TargetInv, Persisting, AfterSync, BeforeRename
  <2> QED BY <2>2, <2>3, <2>5 DEF StoreInv
<1> QED BY <1>1, <1>2

\* write_slot of the slot that holds the older state: the new state goes on top of the chain.
LEMMA WriteFirstPreserves ==
    ASSUME StoreInv, TypeOK', WriteFirst
    PROVE  StoreInv'
<1>1. CASE Return("state_commit_failed") /\ UNCHANGED slotVars
  BY <1>1, ReturnPreserves DEF WriteFirst, history
<1>2. CASE RenameInto(FirstSlot(target)) /\ Goto("first_sync")
  <2>1. /\ Sound(target) /\ Follows(target, Stored) /\ target # NoState
        /\ \A q \in quarantinedEver : Clean(q, target)
    BY DEF WriteFirst, StoreInv, TargetInv, Persisting, BeforeRename
  <2>2. FirstSlot(target) \in Slots
    BY DEF FirstSlot, Slots
  <2>3. /\ SlotsInv'
        /\ Stored' = target
        /\ OnDisk' = OnDisk \cup {target}
        /\ \A s \in Slots : slotDisk'[s] = slotDisk[s] \cup (IF s = FirstSlot(target) THEN {target} ELSE {})
        /\ slot'[FirstSlot(target)] = target
    BY <1>2, <2>1, <2>2, RenameSlots DEF StoreInv
  <2>4. pc' = "first_sync" /\ UNCHANGED <<target, dirVars, acked, quarantinedEver>>
    BY <1>2 DEF WriteFirst, Goto, history
  <2>5. TargetInv'
    <3>1. FirstSlot(target)' = FirstSlot(target)
      BY <2>4 DEF FirstSlot
    <3> QED BY <2>1, <2>3, <2>4, <3>1 DEF TargetInv, Persisting, AfterSync, BeforeRename
  <2>6. DirsInv'
    BY <2>4 DEF WriteFirst, StoreInv, DirsInv, dirVars, Persisting, AfterSync
  <2>7. AckedInv' /\ QuarantineInv'
    BY <2>1, <2>2, <2>3, <2>4, TopKeepsHistory
  <2> QED BY <2>3, <2>5, <2>6, <2>7 DEF StoreInv
<1> QED BY <1>1, <1>2 DEF WriteFirst

\* write_slot of the other slot, which repeats the state of the first.
LEMMA WriteSecondPreserves ==
    ASSUME StoreInv, TypeOK', WriteSecond
    PROVE  StoreInv'
<1>1. /\ Sound(target) /\ Follows(target, Stored) /\ target # NoState /\ target = Stored
      /\ slot[FirstSlot(target)] = target /\ slotDisk[FirstSlot(target)] = {target}
      /\ \A q \in quarantinedEver : Clean(q, target)
  BY DEF WriteSecond, StoreInv, TargetInv, Persisting, AfterSync, Follows
<1>2. UNCHANGED <<target, dirVars, acked, quarantinedEver>>
  BY DEF WriteSecond, Goto, history
<1>3. pc = "second" /\ pc' \in {"second_sync", "parents"}
  BY DEF WriteSecond, Goto
<1>4. DirsInv'
  BY <1>2, <1>3 DEF StoreInv, DirsInv, dirVars, Persisting, AfterSync
<1>5. CASE UNCHANGED slotVars
  <2>1. SlotsInv' /\ AckedInv' /\ QuarantineInv'
    BY <1>2, <1>5, Quiet DEF StoreInv, AckedInv, dirVars
  <2>2. TargetInv'
    BY <1>2, <1>3, <1>5, AfterInv DEF AfterSync, slotVars
  <2> QED BY <1>4, <2>1, <2>2 DEF StoreInv
<1>6. CASE RenameInto(SecondSlot(target))
  <2>1. /\ FirstSlot(target) \in Slots /\ SecondSlot(target) \in Slots
        /\ FirstSlot(target) # SecondSlot(target)
    BY DEF FirstSlot, SecondSlot, Slots
  <2>2. /\ SlotsInv'
        /\ Stored' = target
        /\ OnDisk' = OnDisk \cup {target}
        /\ \A s \in Slots : slotDisk'[s] = slotDisk[s] \cup (IF s = SecondSlot(target) THEN {target} ELSE {})
        /\ \A s \in Slots : slot'[s] = IF s = SecondSlot(target) THEN target ELSE slot[s]
    BY <1>1, <1>6, <2>1, RenameSlots DEF StoreInv
  <2>3. TargetInv'
    <3>1. FirstSlot(target)' = FirstSlot(target)
      BY <1>2 DEF FirstSlot
    <3>2. slot'[FirstSlot(target)] = target /\ slotDisk'[FirstSlot(target)] = {target}
      BY <1>1, <2>1, <2>2
    <3> QED BY <1>1, <1>2, <1>3, <2>2, <3>1, <3>2 DEF TargetInv, Persisting, AfterSync, BeforeRename
  <2>4. AckedInv' /\ QuarantineInv'
    BY <1>1, <1>2, <2>1, <2>2, TopKeepsHistory
  <2> QED BY <1>4, <2>2, <2>3, <2>4 DEF StoreInv
<1> QED BY <1>5, <1>6 DEF WriteSecond

\* The fsync after the first slot: from here on the new state is durable.
LEMMA SyncFirstPreserves ==
    ASSUME StoreInv, TypeOK', SyncFirst
    PROVE  StoreInv'
<1>1. CASE Return("state_commit_failed") /\ UNCHANGED slotDisk
  BY <1>1, ReturnPreserves DEF SyncFirst, history, slotVars
<1>2. CASE SyncSlots /\ Goto("second")
  <2>1. UNCHANGED <<target, slot, dirVars, acked, quarantinedEver>> /\ pc' = "second" /\ pc = "first_sync"
    BY <1>2 DEF SyncFirst, Goto, history
  <2>2. /\ target # NoState /\ Sound(target) /\ target = Stored /\ slot[FirstSlot(target)] = target
        /\ \A q \in quarantinedEver : Clean(q, target)
    BY <2>1 DEF StoreInv, TargetInv, Persisting
  <2>3. \A s \in Slots : slot'[s] \in slotDisk[s] /\ slotDisk'[s] = {slot'[s]}
    BY <1>2, <2>1 DEF SyncSlots, StoreInv, SlotsInv
  <2>4. SlotsInv' /\ OnDisk' \subseteq OnDisk
    BY <2>3, SettleSlots DEF StoreInv
  <2>5. AckedInv' /\ QuarantineInv'
    <3>1. \A s \in Slots : slotDisk'[s] \subseteq slotDisk[s]
      BY <2>3
    <3>2. acked # NoState => \A d \in Dirs : dirDisk'[d] = {TRUE}
      BY <2>1 DEF StoreInv, AckedInv, dirVars
    <3> QED BY <2>1, <2>4, <3>1, <3>2, AckedKept, QuarantineKept DEF StoreInv
  <2>6. TargetInv'
    <3>1. FirstSlot(target)' = FirstSlot(target) /\ Stored' = Stored
      BY <2>1 DEF FirstSlot, Stored
    <3>2. slotDisk'[FirstSlot(target)] = {target}
      BY <2>1, <2>2, <2>3 DEF FirstSlot, Slots
    <3> QED BY <2>1, <2>2, <3>1, <3>2 DEF TargetInv, Persisting, AfterSync, BeforeRename
  <2>7. DirsInv'
    BY <2>1 DEF StoreInv, DirsInv, dirVars, Persisting, AfterSync
  <2> QED BY <2>4, <2>5, <2>6, <2>7 DEF StoreInv
<1> QED BY <1>1, <1>2 DEF SyncFirst

\* The fsync after the second slot.
LEMMA SyncSecondPreserves ==
    ASSUME StoreInv, TypeOK', SyncSecond
    PROVE  StoreInv'
<1>1. /\ UNCHANGED <<target, slot, dirVars, acked, quarantinedEver>>
      /\ pc = "second_sync" /\ pc' = "parents"
      /\ UNCHANGED slotDisk \/ SyncSlots
  BY DEF SyncSecond, history
<1>2. TargetInv'
  BY <1>1, AfterInv DEF AfterSync
<1>3. DirsInv'
  BY <1>1 DEF StoreInv, DirsInv, dirVars, Persisting, AfterSync
<1>4. CASE UNCHANGED slotDisk
  BY <1>1, <1>2, <1>3, <1>4, Quiet DEF StoreInv, AckedInv, dirVars, slotVars
<1>5. CASE SyncSlots
  <2>1. \A s \in Slots : slot'[s] \in slotDisk[s] /\ slotDisk'[s] = {slot'[s]}
    BY <1>1, <1>5 DEF SyncSlots, StoreInv, SlotsInv
  <2>2. SlotsInv' /\ OnDisk' \subseteq OnDisk
    BY <2>1, SettleSlots DEF StoreInv
  <2>3. AckedInv' /\ QuarantineInv'
    <3>1. \A s \in Slots : slotDisk'[s] \subseteq slotDisk[s]
      BY <2>1
    <3>2. acked # NoState => \A d \in Dirs : dirDisk'[d] = {TRUE}
      BY <1>1 DEF StoreInv, AckedInv, dirVars
    <3> QED BY <1>1, <2>2, <3>1, <3>2, AckedKept, QuarantineKept DEF StoreInv
  <2> QED BY <1>2, <1>3, <2>2, <2>3 DEF StoreInv
<1> QED BY <1>1, <1>4, <1>5

\* ensure_directory_at: mkdir of a state directory and the fsync of its parent.
LEMMA DirectoryPreserves ==
    ASSUME StoreInv, TypeOK', NEW d \in Dirs, NEW next,
           <<d, next>> \in {<<"apps", "app">>, <<"app", "first">>},
           EnsureDirectory(d, next) \/ SyncDirectory(d, next)
    PROVE  StoreInv'
<1>1. pc \in {d, SyncLabel(d)} /\ pc \in BeforeRename /\ pc \in Persisting
      /\ next \in BeforeRename /\ SyncLabel(d) \in BeforeRename
  BY DEF EnsureDirectory, SyncDirectory, SyncLabel, BeforeRename, Persisting
<1>2. target # NoState
  BY <1>1 DEF StoreInv, TargetInv
<1>3. UNCHANGED <<slotVars, acked, quarantinedEver>>
  BY DEF EnsureDirectory, SyncDirectory, history
<1>4. CASE Return("state_commit_failed") /\ UNCHANGED dirVars
  BY <1>3, <1>4, ReturnPreserves
<1>5. CASE Goto(next) /\ UNCHANGED dirVars /\ dir[d]
  <2>1. next \in Persisting \ {"apps"} => dir["apps"]
    BY <1>1, <1>5 DEF StoreInv, DirsInv, Persisting, SyncLabel
  <2>2. next \in Persisting \ {"apps", "apps_sync", "app"} => dir["app"]
    BY <1>5
  <2> QED BY <1>1, <1>2, <1>3, <1>5, <2>1, <2>2, GotoPreserves
<1>6. CASE /\ ~dir[d]
           /\ dir' = [dir EXCEPT ![d] = TRUE]
           /\ dirDisk' = [dirDisk EXCEPT ![d] = @ \cup {TRUE}]
           /\ Goto(SyncLabel(d))
           /\ pc = d
  <2>1. acked = NoState
    BY <1>6 DEF StoreInv, AckedInv, DirsInv
  <2>2. SlotsInv' /\ AckedInv' /\ QuarantineInv'
    BY <1>3, <2>1, Quiet
  <2>3. TargetInv'
    BY <1>1, <1>2, <1>3, <1>6, BeforeInv
  <2>4. DirsInv'
    <3>1. \A e \in Dirs : dir'[e] = IF e = d THEN TRUE ELSE dir[e]
      BY <1>6 DEF StoreInv, TypeOK
    <3>2. \A e \in Dirs : dirDisk'[e] = IF e = d THEN dirDisk[e] \cup {TRUE} ELSE dirDisk[e]
      BY <1>6 DEF StoreInv, TypeOK
    <3>3. pc' = SyncLabel(d)
      BY <1>6 DEF Goto
    <3>4. \A e \in Dirs : dir'[e] \in dirDisk'[e]
      BY <3>1, <3>2 DEF StoreInv, DirsInv
    <3>5. dir'["apps"]
      BY <1>6, <3>1 DEF StoreInv, DirsInv, Dirs, Persisting
    <3>6. d = "app" => dir'["app"]
      BY <3>1 DEF Dirs
    <3> QED BY <3>3, <3>4, <3>5, <3>6 DEF DirsInv, SyncLabel
  <2> QED BY <2>2, <2>3, <2>4 DEF StoreInv
<1>7. CASE /\ dirDisk' = [dirDisk EXCEPT ![d] = {TRUE}]
           /\ dir' = dir
           /\ Goto(next)
           /\ pc = SyncLabel(d)
  <2>1. \A e \in Dirs : dirDisk'[e] = IF e = d THEN {TRUE} ELSE dirDisk[e]
    BY <1>7 DEF StoreInv, TypeOK
  <2>2. SlotsInv' /\ AckedInv' /\ QuarantineInv'
    BY <1>3, <2>1, Quiet DEF StoreInv, AckedInv
  <2>3. TargetInv'
    BY <1>1, <1>2, <1>3, <1>7, BeforeInv
  <2>4. DirsInv'
    <3>1. dir["apps"] /\ (d = "app" => dir["app"])
      BY <1>7 DEF StoreInv, DirsInv, SyncLabel, Persisting
    <3>2. \A e \in Dirs : dir'[e] \in dirDisk'[e]
      BY <1>7, <2>1, <3>1, Zenon DEF StoreInv, DirsInv, TypeOK
    <3>3. pc' = next
      BY <1>7 DEF Goto
    <3> QED BY <1>7, <3>1, <3>2, <3>3 DEF DirsInv
  <2> QED BY <2>2, <2>3, <2>4 DEF StoreInv
<1> QED BY <1>4, <1>5, <1>6, <1>7 DEF EnsureDirectory, SyncDirectory, dirVars


\* fsync of the parents narrows what the directories can come back as.
LEMMA DirDiskAfterSync ==
    ASSUME StoreInv, SyncParents
    PROVE  \A d \in Dirs : dirDisk'[d] = dirDisk[d] \/ dirDisk'[d] = {TRUE}
<1>1. \/ dirDisk' = [d \in Dirs |-> {TRUE}]
      \/ dirDisk' = dirDisk
      \/ dirDisk' = [dirDisk EXCEPT !["app"] = {TRUE}]
  BY DEF SyncParents
<1>2. DOMAIN dirDisk = Dirs
  BY DEF StoreInv, TypeOK
<1> QED BY <1>1, <1>2

\* The last fsyncs of persist_release_state, after which success is reported.
LEMMA SyncParentsPreserves ==
    ASSUME StoreInv, TypeOK', SyncParents
    PROVE  StoreInv'
<1>1. /\ target # NoState /\ Sound(target) /\ target = Stored
      /\ slotDisk[FirstSlot(target)] = {target}
      /\ \A q \in quarantinedEver : Clean(q, target)
      /\ dir["apps"] /\ dir["app"]
  BY DEF SyncParents, StoreInv, TargetInv, DirsInv, Persisting, AfterSync
<1>2. UNCHANGED <<dir, slotVars>> /\ pc' = "idle"
  BY DEF SyncParents, Return
<1>3. TargetInv'
  BY ReturnInv DEF SyncParents
<1>4. SlotsInv' /\ OnDisk' = OnDisk
  BY <1>2, SlotsUnchanged DEF StoreInv
<1>5. \A d \in Dirs : dir[d] = TRUE
  BY <1>1, Zenon DEF StoreInv, TypeOK, Dirs
<1>6. CASE UNCHANGED history
  <2>1. \A d \in Dirs : dirDisk'[d] = dirDisk[d] \/ dirDisk'[d] = {TRUE}
    BY <1>6, DirDiskAfterSync
  <2>2. SlotsInv' /\ AckedInv' /\ QuarantineInv'
    BY <1>2, <1>6, <2>1, Quiet DEF StoreInv, AckedInv, history
  <2>3. DirsInv'
    BY <1>2, <1>5, <2>1 DEF StoreInv, DirsInv, Persisting, AfterSync
  <2> QED BY <1>3, <2>2, <2>3 DEF StoreInv
<1>7. CASE ~UNCHANGED history
  <2>1. /\ dirDisk' = [d \in Dirs |-> {TRUE}]
        /\ acked' = target
        /\ quarantinedEver' = quarantinedEver \cup ({target.quarantined} \ {0})
    BY <1>7 DEF SyncParents
  <2>2. DirsInv'
    BY <1>2, <1>5, <2>1 DEF DirsInv, Persisting, AfterSync
  <2>3. \A u \in OnDisk : target.generation <= u.generation => u = target
    <3>1. \A u \in OnDisk : Older(u, target) /\ u.generation \in Nat
      BY <1>1, StoredFacts DEF StoreInv, ReleaseStates
    <3>2. target.generation \in Nat
      BY <1>1, SoundFacts
    <3> QED BY <3>1, <3>2 DEF Older
  <2>4. target \in ReleaseStates /\ target.generation \in Nat
    BY <1>1, SoundFacts
  <2>5. AckedInv'
    <3>1. FirstSlot(acked)' = FirstSlot(target) /\ slotDisk' = slotDisk
      BY <1>2, <2>1 DEF FirstSlot, slotVars
    <3> QED BY <1>1, <1>4, <2>1, <2>3, <2>4, <3>1, OlderReflexive DEF AckedInv
  <2>6. QuarantineInv'
    <3>1. \A q \in quarantinedEver' : Clean(q, target)
      BY <1>1, <2>1, OwnQuarantineClean
    <3>2. 0 \notin quarantinedEver'
      BY <2>1 DEF StoreInv, QuarantineInv
    <3> QED BY <1>1, <1>4, <2>1, <2>3, <3>1, <3>2 DEF QuarantineInv
  <2> QED BY <1>3, <1>4, <2>2, <2>5, <2>6 DEF StoreInv
<1> QED BY <1>6, <1>7

\* remove_installed_application leaves the policy slots alone.
LEMMA RemovePreserves ==
    ASSUME StoreInv, TypeOK', RemoveRename \/ RemoveSync
    PROVE  StoreInv'
<1>1. UNCHANGED <<dirVars, slotVars, acked, quarantinedEver>>
  BY DEF RemoveRename, RemoveSync, history
<1>2. CASE RemoveSync
  BY <1>1, <1>2, ReturnPreserves DEF RemoveSync
<1>3. CASE RemoveRename
  <2>1. pc = "idle" /\ pc' = "remove_sync" /\ target' = target
    BY <1>3 DEF RemoveRename, Goto
  <2>2. TargetInv'
    BY <2>1 DEF StoreInv, TargetInv, Persisting, AfterSync, BeforeRename
  <2>3. DirsInv'
    BY <1>1, <2>1 DEF StoreInv, DirsInv, dirVars, Persisting, AfterSync
  <2> QED BY <1>1, <2>2, <2>3, Quiet DEF StoreInv, AckedInv, dirVars
<1> QED BY <1>2, <1>3

\* A power loss keeps one of the values each slot may come back with.
LEMMA PowerLossPreserves ==
    ASSUME StoreInv, TypeOK', PowerLoss
    PROVE  StoreInv'
<1>1. PICK apps \in dirDisk["apps"], app \in dirDisk["app"],
           a \in slotDisk["a"], b \in slotDisk["b"] :
        /\ dir' = [d \in Dirs |-> IF d = "apps" THEN apps ELSE apps /\ app]
        /\ dirDisk' = [d \in Dirs |-> {dir'[d]}]
        /\ slot' = [s \in Slots |-> IF ~(apps /\ app) THEN NoState
                                    ELSE IF s = "a" THEN a ELSE b]
        /\ slotDisk' = [s \in Slots |-> {slot'[s]}]
  BY DEF PowerLoss
<1>2. pc' = "idle" /\ UNCHANGED <<acked, quarantinedEver>>
  BY DEF PowerLoss, Return, history
<1>3. TargetInv'
  BY ReturnInv DEF PowerLoss
<1>4. DirsInv'
  BY <1>1, <1>2 DEF DirsInv, Persisting, AfterSync
<1>5. CASE apps /\ app
  <2>1. \A s \in Slots : slot'[s] \in slotDisk[s] /\ slotDisk'[s] = {slot'[s]}
    BY <1>1, <1>5 DEF Slots
  <2>2. SlotsInv' /\ OnDisk' \subseteq OnDisk
    BY <2>1, SettleSlots DEF StoreInv
  <2>3. \A s \in Slots : slotDisk'[s] \subseteq slotDisk[s]
    BY <2>1
  <2>4. \A d \in Dirs : dirDisk[d] = {TRUE} => dirDisk'[d] = {TRUE}
    BY <1>1, <1>5 DEF Dirs
  <2>5. AckedInv' /\ QuarantineInv'
    BY <1>2, <2>2, <2>3, <2>4, AckedKept, QuarantineKept DEF StoreInv, AckedInv
  <2> QED BY <1>3, <1>4, <2>2, <2>5 DEF StoreInv
<1>6. CASE ~(apps /\ app)
  <2>1. acked = NoState
    <3>1. ASSUME acked # NoState PROVE apps = TRUE /\ app = TRUE
      <4>1. dirDisk["apps"] = {TRUE} /\ dirDisk["app"] = {TRUE}
        BY <3>1 DEF StoreInv, AckedInv, Dirs
      <4> QED BY <4>1
    <3> QED BY <1>6, <3>1
  <2>2. \A s \in Slots : slot'[s] = NoState /\ slotDisk'[s] = {NoState}
    BY <1>1, <1>6
  <2>3. OnDisk' = {NoState} /\ Stored' = NoState
    BY <2>2, NoStateFacts DEF OnDisk, Stored, Slots, select_release_state
  <2>4. SlotsInv'
    BY <2>2, <2>3, NoStateFacts, OlderReflexive DEF SlotsInv
  <2>5. AckedInv' /\ QuarantineInv'
    BY <1>2, <2>1 DEF StoreInv, AckedInv, QuarantineInv
  <2> QED BY <1>3, <1>4, <2>4, <2>5 DEF StoreInv
<1> QED BY <1>5, <1>6

\* Every step preserves the invariant.
LEMMA NextInv ==
    ASSUME StoreInv, [Next]_vars
    PROVE  StoreInv'
<1>0. TypeOK'
  BY NextTypeOK DEF StoreInv
<1>1. ASSUME NEW p \in Packages, Install(p) PROVE StoreInv'
  BY <1>0, <1>1, InstallPreserves
<1>2. ASSUME NEW recordFailure \in BOOLEAN, Rollback(recordFailure) PROVE StoreInv'
  BY <1>0, <1>2, RollbackPreserves
<1>3. CASE StageExisting \/ StageFails \/ StageRename \/ StageSync \/ Activate
  <2>1. UNCHANGED <<dirVars, slotVars, acked, quarantinedEver>>
    BY <1>3 DEF StageExisting, StageFails, StageRename, StageSync, Activate, history
  <2>2. CASE Return("storage_failed") \/ Return("transition_failed")
    BY <1>0, <2>1, <2>2, ReturnPreserves
  <2>3. CASE ~(Return("storage_failed") \/ Return("transition_failed"))
    <3>1. \/ pc \in {"stage", "stage_sync"} /\ Goto("activate")
          \/ pc = "stage" /\ Goto("stage_sync")
          \/ pc = "activate" /\ target # NoState /\ Goto("apps")
      BY <1>3, <2>3 DEF StageExisting, StageFails, StageRename, StageSync, Activate
    <3> QED BY <1>0, <2>1, <3>1, GotoPreserves DEF BeforeRename, Persisting, AfterSync
  <2> QED BY <2>2, <2>3
<1>4. CASE \/ EnsureDirectory("apps", "app") \/ SyncDirectory("apps", "app")
           \/ EnsureDirectory("app", "first") \/ SyncDirectory("app", "first")
  <2>1. "apps" \in Dirs /\ "app" \in Dirs
    BY DEF Dirs
  <2>2. CASE EnsureDirectory("apps", "app") \/ SyncDirectory("apps", "app")
    BY <1>0, <2>1, <2>2, DirectoryPreserves
  <2>3. CASE EnsureDirectory("app", "first") \/ SyncDirectory("app", "first")
    BY <1>0, <2>1, <2>3, DirectoryPreserves
  <2> QED BY <1>4, <2>2, <2>3
<1>5. CASE WriteFirst
  BY <1>0, <1>5, WriteFirstPreserves
<1>6. CASE SyncFirst
  BY <1>0, <1>6, SyncFirstPreserves
<1>7. CASE WriteSecond
  BY <1>0, <1>7, WriteSecondPreserves
<1>8. CASE SyncSecond
  BY <1>0, <1>8, SyncSecondPreserves
<1>9. CASE SyncParents
  BY <1>0, <1>9, SyncParentsPreserves
<1>10. CASE RemoveRename \/ RemoveSync
  BY <1>0, <1>10, RemovePreserves
<1>11. CASE Kill
  BY <1>0, <1>11, ReturnPreserves DEF Kill, history
<1>12. CASE PowerLoss
  BY <1>0, <1>12, PowerLossPreserves
<1>13. CASE UNCHANGED vars
  <2>1. SlotsInv' /\ AckedInv' /\ QuarantineInv' /\ Stored' = Stored
    BY <1>13, Quiet DEF vars, history, StoreInv, AckedInv, dirVars
  <2>2. TargetInv'
    <3>1. UNCHANGED <<pc, target, slot, slotDisk, quarantinedEver, FirstSlot(target)>>
      BY <1>13 DEF vars, slotVars, history, FirstSlot
    <3> QED BY <2>1, <3>1 DEF StoreInv, TargetInv
  <2>3. DirsInv'
    BY <1>13 DEF vars, dirVars, StoreInv, DirsInv
  <2> QED BY <1>0, <2>1, <2>2, <2>3 DEF StoreInv
<1> QED
  BY <1>1, <1>2, <1>3, <1>4, <1>5, <1>6, <1>7, <1>8, <1>9, <1>10, <1>11, <1>12, <1>13
     DEF Next, Step

-----------------------------------------------------------------------------
(* The theorems *)

\* The store's invariant holds throughout.
THEOREM StoreInvariance == Spec => []StoreInv
<1> QED BY InitInv, NextInv, PTL DEF Spec

\* No power loss, at any point of any operation, leaves two different states of
\* the same generation for select_release_state to reject.
THEOREM SlotsNeverSplit == Spec => []NoSplitBrain
<1>1. ASSUME StoreInv, NEW a \in slotDisk["a"], NEW b \in slotDisk["b"]
      PROVE  ~split_brain(a, b)
  <2>1. a.generation <= b.generation => Older(a, b)
    BY <1>1 DEF StoreInv, SlotsInv, OnDisk
  <2>2. a.generation \in Nat /\ b.generation \in Nat
    BY <1>1 DEF StoreInv, TypeOK, Slots, ReleaseStates
  <2> QED BY <2>1, <2>2 DEF split_brain, Older
<1>2. StoreInv => NoSplitBrain
  BY <1>1 DEF NoSplitBrain
<1> QED BY <1>2, StoreInvariance, PTL

\* A persist reported successful is never undone: what load_release_state returns
\* afterwards is as new, and its high-water counter and epoch are as high.
THEOREM ReportedStateSurvives == Spec => []AckedPolicySurvives
<1>1. ASSUME StoreInv, acked # NoState
      PROVE  /\ Loaded
             /\ Stored.generation >= acked.generation
             /\ Stored.high >= acked.high
             /\ Stored.epoch >= acked.epoch
             /\ Stored.key = acked.key
  <2>1. Older(acked, Stored) /\ Stored # NoState
    BY <1>1, AckedBelowStored DEF StoreInv
  <2>2. Sound(acked) /\ acked \in ReleaseStates /\ Stored \in ReleaseStates
    BY <1>1, StoredFacts DEF StoreInv, AckedInv, TypeOK
  <2>3. acked.generation # 0
    BY <2>2, SoundFacts
  <2>4. dir["apps"] /\ dir["app"]
    BY <1>1 DEF StoreInv, AckedInv, DirsInv, Dirs
  <2>5. ~(slot["a"] = NoState /\ slot["b"] = NoState)
    BY <2>1, NoStateFacts DEF Stored, select_release_state
  <2>6. Loaded
    BY <2>1, <2>4, <2>5 DEF Loaded, load_status
  <2> QED BY <2>1, <2>2, <2>3, <2>6 DEF Older, ReleaseStates
<1>2. StoreInv => AckedPolicySurvives
  BY <1>1 DEF AckedPolicySurvives
<1> QED BY <1>2, StoreInvariance, PTL

\* A release quarantined by a reported rollback never becomes the active release
\* or the fallback again, whatever is installed, rolled back, removed or lost.
THEOREM QuarantineHolds == Spec => []QuarantineIsForever
<1>1. ASSUME StoreInv, NEW q \in quarantinedEver
      PROVE  Stored.current # q /\ Stored.previous # q /\ target.current # q
  <2>1. acked # NoState /\ q # 0
    BY <1>1 DEF StoreInv, QuarantineInv
  <2>2. acked.generation <= Stored.generation /\ Stored \in OnDisk
    BY <1>1, <2>1, AckedBelowStored, StoredFacts DEF StoreInv
  <2>3. Clean(q, Stored)
    BY <1>1, <2>2 DEF StoreInv, QuarantineInv
  <2>4. target # NoState => Clean(q, target)
    BY <1>1 DEF StoreInv, TargetInv
  <2> QED BY <2>1, <2>3, <2>4, NoStateFacts DEF Clean
<1>2. StoreInv => QuarantineIsForever
  BY <1>1 DEF QuarantineIsForever
<1> QED BY <1>2, StoreInvariance, PTL


-----------------------------------------------------------------------------
(* The store implements the register.                                      *)

\* The register takes the decisions of ReleaseState, as the store does.
LEMMA SameDecisions ==
    ASSUME NEW p, NEW s, NEW recordFailure
    PROVE  /\ Register!evaluate_install_policy(p, s) <=> evaluate_install_policy(p, s)
           /\ Register!activation_state_for(p, s) = activation_state_for(p, s)
           /\ Register!rollback_release(s, recordFailure) = rollback_release(s, recordFailure)
           /\ Register!select_release_state(p, s) = select_release_state(p, s)
           /\ Register!NoState = NoState
<1>1. Register!NoState = NoState
  BY DEF Register!NoState, NoState
<1>2. \A u : Register!valid_state(u) <=> valid_state(u)
  BY DEF Register!valid_state, valid_state
<1>3. Register!evaluate_install_policy(p, s) <=> evaluate_install_policy(p, s)
  BY <1>1 DEF Register!evaluate_install_policy, evaluate_install_policy
<1>4. Register!activation_refused(p, s) <=> activation_refused(p, s)
  BY <1>1, <1>2 DEF Register!activation_refused, activation_refused
<1>5. Register!activated(p, s) = activated(p, s)
  BY DEF Register!activated, activated, Register!Max2, Max2
<1>6. Register!activation_state_for(p, s) = activation_state_for(p, s)
  BY <1>1, <1>2, <1>4, <1>5 DEF Register!activation_state_for, activation_state_for
<1>7. Register!rolled_back(s, recordFailure) = rolled_back(s, recordFailure)
  BY DEF Register!rolled_back, rolled_back
<1>8. Register!rollback_release(s, recordFailure) = rollback_release(s, recordFailure)
  BY <1>1, <1>2, <1>7 DEF Register!rollback_release, rollback_release
<1>9. Register!split_brain(p, s) <=> split_brain(p, s)
  BY <1>2 DEF Register!split_brain, split_brain
<1>10. Register!select_release_state(p, s) = select_release_state(p, s)
  BY <1>1, <1>2, <1>9 DEF Register!select_release_state, select_release_state
<1> QED BY <1>1, <1>3, <1>6, <1>8, <1>10

\* What an allowed package or a rollback makes of a state is a move of the register.
LEMMA MovesAreSuccessors ==
    ASSUME NEW s
    PROVE  /\ \A p \in Packages :
                evaluate_install_policy(p, s) /\ activation_state_for(p, s) # NoState
                  => activation_state_for(p, s) \in Register!Successors(s)
           /\ \A recordFailure \in BOOLEAN :
                rollback_release(s, recordFailure) # NoState
                  => rollback_release(s, recordFailure) \in Register!Successors(s)
<1>1. Register!NoState = NoState
  BY SameDecisions
<1>2. ASSUME NEW p \in Packages, evaluate_install_policy(p, s), activation_state_for(p, s) # NoState
      PROVE  activation_state_for(p, s) \in Register!Successors(s)
  <2>1. Register!evaluate_install_policy(p, s)
        /\ Register!activation_state_for(p, s) = activation_state_for(p, s)
    BY <1>2, SameDecisions
  <2> QED BY <1>1, <1>2, <2>1 DEF Register!Successors
<1>3. ASSUME NEW recordFailure \in BOOLEAN, rollback_release(s, recordFailure) # NoState
      PROVE  rollback_release(s, recordFailure) \in Register!Successors(s)
  <2>1. Register!rollback_release(s, recordFailure) = rollback_release(s, recordFailure)
    BY SameDecisions
  <2> QED BY <1>1, <1>3, <2>1 DEF Register!Successors
<1> QED BY <1>2, <1>3

\* The operation in progress keeps to the move the policy was asked about until
\* its first rename.
LEMMA TargetIsNextStep ==
    ASSUME StoreInv, TargetIsNext, [Next]_vars
    PROVE  TargetIsNext'
<1> DEFINE Moved == pc' \in BeforeRename /\ target' # NoState => target' \in Register!Successors(Stored)
<1>1. ASSUME UNCHANGED slotVars, Moved PROVE TargetIsNext'
  <2>1. Stored' = Stored
    BY <1>1 DEF Stored, slotVars
  <2> QED BY <1>1, <2>1 DEF TargetIsNext, BeforeRename
<1>k. ASSUME pc \in BeforeRename \/ pc' \notin BeforeRename, target' = target PROVE Moved
  BY <1>k DEF TargetIsNext
<1>r. ASSUME NEW r, Return(r) PROVE Moved
  BY <1>r DEF Return
<1>2. ASSUME NEW p \in Packages, Install(p) PROVE TargetIsNext'
  <2>1. CASE Return(InstallRefusal(p))
    BY <1>1, <1>2, <1>r, <2>1 DEF Install
  <2>2. CASE InstallRefusal(p) = "none" /\ target' = activation_state_for(p, Stored)
    BY <1>1, <1>2, <2>2, MovesAreSuccessors DEF Install, InstallRefusal
  <2> QED BY <1>2, <2>1, <2>2 DEF Install
<1>3. ASSUME NEW recordFailure \in BOOLEAN, Rollback(recordFailure) PROVE TargetIsNext'
  <2>1. CASE Return("rollback_refused")
    BY <1>1, <1>3, <1>r, <2>1 DEF Rollback
  <2>2. CASE target' = RollbackState(recordFailure) /\ RollbackState(recordFailure) # NoState
    BY <1>1, <1>3, <2>2, MovesAreSuccessors DEF Rollback, RollbackState
  <2> QED BY <1>3, <2>1, <2>2 DEF Rollback
<1>4. CASE StageExisting \/ StageFails \/ StageRename \/ StageSync \/ Activate
  <2>1. UNCHANGED slotVars
    BY <1>4 DEF StageExisting, StageFails, StageRename, StageSync, Activate
  <2>2. pc \in BeforeRename
    BY <1>4 DEF StageExisting, StageFails, StageRename, StageSync, Activate, BeforeRename
  <2>3. Return("storage_failed") \/ Return("transition_failed") \/ target' = target
    BY <1>4 DEF StageExisting, StageFails, StageRename, StageSync, Activate, Goto
  <2> QED BY <1>1, <1>k, <1>r, <2>1, <2>2, <2>3
<1>5. CASE \/ EnsureDirectory("apps", "app") \/ SyncDirectory("apps", "app")
           \/ EnsureDirectory("app", "first") \/ SyncDirectory("app", "first")
  <2>1. UNCHANGED slotVars
    BY <1>5 DEF EnsureDirectory, SyncDirectory, slotVars
  <2>2. pc \in BeforeRename
    BY <1>5 DEF EnsureDirectory, SyncDirectory, SyncLabel, BeforeRename
  <2>3. Return("state_commit_failed") \/ target' = target
    BY <1>5 DEF EnsureDirectory, SyncDirectory, Goto
  <2> QED BY <1>1, <1>k, <1>r, <2>1, <2>2, <2>3
<1>6. CASE WriteFirst \/ SyncFirst \/ WriteSecond \/ SyncSecond \/ SyncParents \/ RemoveRename \/ RemoveSync
  <2>1. pc' \notin BeforeRename
    BY <1>6 DEF WriteFirst, SyncFirst, WriteSecond, SyncSecond, SyncParents, RemoveRename,
                RemoveSync, Goto, Return, BeforeRename
  <2> QED BY <2>1 DEF TargetIsNext, BeforeRename
<1>7. CASE Kill \/ PowerLoss
  <2>1. pc' \notin BeforeRename
    BY <1>7 DEF Kill, PowerLoss, Return, BeforeRename
  <2> QED BY <2>1 DEF TargetIsNext, BeforeRename
<1>8. CASE UNCHANGED vars
  BY <1>1, <1>8 DEF vars, slotVars, TargetIsNext
<1> QED BY <1>2, <1>3, <1>4, <1>5, <1>6, <1>7, <1>8 DEF Next, Step

\* What the slots can leave, and whether the directories can be lost.
Selected == {select_release_state(a, b) : a \in slotDisk["a"], b \in slotDisk["b"]}
CanVanish == FALSE \in dirDisk["apps"] \cup dirDisk["app"]

\* A value survives a power loss when two slots can select it, or when the
\* directories can vanish and leave none.
LEMMA SurvivorsParts ==
    \A u : u \in Survivors <=> u \in Selected \/ (u = NoState /\ CanVanish)
<1>1. Survivors = Selected \cup (IF CanVanish THEN {NoState} ELSE {})
  BY DEF Survivors, Selected, CanVanish
<1> QED BY <1>1

\* The same after a step.
LEMMA SurvivorsPartsPrime ==
    \A u : u \in Survivors' <=> u \in Selected' \/ (u = NoState /\ CanVanish')
<1>1. Survivors' = Selected' \cup (IF CanVanish' THEN {NoState} ELSE {})
  BY DEF Survivors, Selected, CanVanish, NoState
<1> QED BY <1>1

\* What a load returns now is among what a power loss can leave.
LEMMA StoredSurvives ==
    ASSUME StoreInv
    PROVE  Stored \in Survivors
<1>1. slot["a"] \in slotDisk["a"] /\ slot["b"] \in slotDisk["b"]
  BY DEF StoreInv, SlotsInv, Slots
<1>2. Stored \in Selected
  BY <1>1 DEF Stored, Selected
<1> QED BY <1>2, SurvivorsParts

\* The same after a step.
LEMMA StoredSurvivesPrime ==
    ASSUME StoreInv'
    PROVE  (Stored \in Survivors)'
BY StoredSurvives, PTL

\* Less on the disk, with the same files visible, is a step in which the register
\* gives up older values, or none.
LEMMA LessOnDisk ==
    ASSUME StoreInv, StoreInv', UNCHANGED <<slot, acked, quarantinedEver>>,
           \A s \in Slots : slotDisk'[s] \subseteq slotDisk[s],
           \A d \in Dirs : FALSE \in dirDisk'[d] => FALSE \in dirDisk[d]
    PROVE  Register!Settle
<1>1. Stored' = Stored
  BY DEF Stored
<1>2. Survivors' \subseteq Survivors
  <2>1. slotDisk'["a"] \subseteq slotDisk["a"] /\ slotDisk'["b"] \subseteq slotDisk["b"]
    BY DEF Slots
  <2>2. Selected' \subseteq Selected
    BY <2>1 DEF Selected
  <2>3. CanVanish' => CanVanish
    BY DEF CanVanish, Dirs
  <2> QED BY <2>2, <2>3, SurvivorsParts, SurvivorsPartsPrime
<1>3. Stored \in Survivors'
  <2>1. Stored' \in Survivors'
    BY StoredSurvivesPrime
  <2> QED BY <1>1, <2>1
<1> QED BY <1>1, <1>2, <1>3 DEF Register!Settle

\* A rename makes the target the visible value and adds it to what can survive.
LEMMA RenameAdds ==
    ASSUME StoreInv, StoreInv', UNCHANGED <<dirVars, acked, quarantinedEver>>,
           Sound(target), Follows(target, Stored),
           NEW x \in Slots, RenameInto(x)
    PROVE  Stored' = target /\ Survivors' = Survivors \cup {target}
<1>1. /\ Stored' = target /\ OnDisk' = OnDisk \cup {target}
      /\ \A s \in Slots : slotDisk'[s] = slotDisk[s] \cup (IF s = x THEN {target} ELSE {})
  BY RenameSlots DEF StoreInv
<1>2. \A u \in OnDisk : /\ u \in ReleaseStates /\ (u = NoState \/ Sound(u))
                        /\ Older(u, target)
  <2>1. \A u \in OnDisk : u \in ReleaseStates /\ Older(u, Stored) /\ (u = NoState \/ Sound(u))
    BY StoredFacts DEF StoreInv, SlotsInv
  <2> QED BY <2>1, StoredFacts, SoundFacts, OlderTransitive DEF Follows, StoreInv
<1>3. \A u \in OnDisk : select_release_state(target, u) = target
                        /\ select_release_state(u, target) = target
  BY <1>2, SelectTop
<1>4. select_release_state(target, target) = target
  BY SelectTop, OlderReflexive, SoundFacts
<1>5. slotDisk["a"] \subseteq OnDisk /\ slotDisk["b"] \subseteq OnDisk
      /\ slotDisk["a"] # {} /\ slotDisk["b"] # {}
  BY DEF OnDisk, StoreInv, SlotsInv, Slots
<1>6. Selected' = Selected \cup {target}
  <2>1. CASE x = "a"
    <3>1. slotDisk'["a"] = slotDisk["a"] \cup {target} /\ slotDisk'["b"] = slotDisk["b"]
      BY <1>1, <2>1 DEF Slots
    <3> QED BY <1>3, <1>5, <3>1 DEF Selected
  <2>2. CASE x = "b"
    <3>1. slotDisk'["b"] = slotDisk["b"] \cup {target} /\ slotDisk'["a"] = slotDisk["a"]
      BY <1>1, <2>2 DEF Slots
    <3> QED BY <1>3, <1>5, <3>1 DEF Selected
  <2> QED BY <2>1, <2>2 DEF Slots
<1>7. CanVanish' <=> CanVanish
  BY DEF CanVanish, dirVars
<1> QED BY <1>1, <1>6, <1>7, SurvivorsParts, SurvivorsPartsPrime

\* The first rename is the step in which the register moves.
LEMMA WriteFirstAdvances ==
    ASSUME StoreInv, StoreInv', TargetIsNext, WriteFirst
    PROVE  Register!Advance \/ UNCHANGED Register!registerVars
<1>0. UNCHANGED <<dirVars, acked, quarantinedEver>>
  BY DEF WriteFirst, history
<1>1. CASE UNCHANGED slotVars
  BY <1>0, <1>1 DEF Register!registerVars, Stored, Survivors, slotVars, dirVars
<1>2. CASE RenameInto(FirstSlot(target))
  <2>1. target # NoState /\ Sound(target) /\ Follows(target, Stored) /\ FirstSlot(target) \in Slots
    BY DEF WriteFirst, StoreInv, TargetInv, Persisting, BeforeRename, FirstSlot, Slots
  <2>2. Stored' = target /\ Survivors' = Survivors \cup {target}
    BY <1>0, <1>2, <2>1, RenameAdds
  <2>3. target \in Register!Successors(Stored)
    BY <2>1 DEF TargetIsNext, WriteFirst, BeforeRename
  <2> QED BY <1>0, <2>2, <2>3 DEF Register!Advance
<1> QED BY <1>1, <1>2 DEF WriteFirst

\* The second rename changes nothing the register shows.
LEMMA WriteSecondStutters ==
    ASSUME StoreInv, StoreInv', WriteSecond
    PROVE  UNCHANGED Register!registerVars
<1>0. UNCHANGED <<dirVars, acked, quarantinedEver>>
  BY DEF WriteSecond, history
<1>1. CASE UNCHANGED slotVars
  BY <1>0, <1>1 DEF Register!registerVars, Stored, Survivors, slotVars, dirVars
<1>2. CASE RenameInto(SecondSlot(target))
  <2>1. target = Stored /\ Sound(target) /\ SecondSlot(target) \in Slots
    BY DEF WriteSecond, StoreInv, TargetInv, Persisting, AfterSync, SecondSlot, Slots
  <2>2. Stored' = target /\ Survivors' = Survivors \cup {target}
    BY <1>0, <1>2, <2>1, RenameAdds DEF Follows
  <2> QED BY <1>0, <2>1, <2>2, StoredSurvives DEF Register!registerVars
<1> QED BY <1>1, <1>2 DEF WriteSecond

\* Success is reported only when the visible value is all a power loss can leave.
LEMMA SyncParentsReports ==
    ASSUME StoreInv, StoreInv', SyncParents
    PROVE  Register!Report \/ Register!Settle
<1>1. CASE dirDisk' = [d \in Dirs |-> {TRUE}] /\ acked' = target
           /\ quarantinedEver' = quarantinedEver \cup ({target.quarantined} \ {0})
  <2>1. /\ target = Stored /\ target # NoState /\ Sound(target)
        /\ slotDisk[FirstSlot(target)] = {target}
    BY DEF SyncParents, StoreInv, TargetInv, Persisting, AfterSync
  <2>2. UNCHANGED <<slot, slotDisk>> /\ Stored' = Stored
    BY DEF SyncParents, slotVars, Stored
  <2>3. \A u \in OnDisk : /\ u \in ReleaseStates /\ (u = NoState \/ Sound(u))
                          /\ Older(u, target)
    BY <2>1, StoredFacts DEF StoreInv, SlotsInv
  <2>4. \A u \in OnDisk : select_release_state(target, u) = target
                          /\ select_release_state(u, target) = target
    BY <2>1, <2>3, SelectTop
  <2>5. slotDisk["a"] \subseteq OnDisk /\ slotDisk["b"] \subseteq OnDisk
        /\ slotDisk["a"] # {} /\ slotDisk["b"] # {}
    BY DEF OnDisk, StoreInv, SlotsInv, Slots
  <2>6. {select_release_state(a, b) : a \in slotDisk["a"], b \in slotDisk["b"]} = {target}
    BY <2>1, <2>4, <2>5 DEF FirstSlot
  <2>7. FALSE \notin dirDisk'["apps"] \cup dirDisk'["app"]
    BY <1>1 DEF Dirs
  <2>8. Survivors' = {target}
    BY <2>2, <2>6, <2>7 DEF Survivors
  <2>9. Register!NoState = NoState
    BY SameDecisions
  <2> QED BY <1>1, <2>1, <2>2, <2>8, <2>9 DEF Register!Report
<1>2. CASE UNCHANGED history
  <2>1. \A d \in Dirs : FALSE \in dirDisk'[d] => FALSE \in dirDisk[d]
    BY DirDiskAfterSync
  <2>2. UNCHANGED <<slot, slotDisk, acked, quarantinedEver>>
    BY <1>2 DEF SyncParents, slotVars, history
  <2> QED BY <2>1, <2>2, LessOnDisk
<1> QED BY <1>1, <1>2 DEF SyncParents

\* A power loss leaves the register with one of the values it may leave.
LEMMA PowerLossCrashes ==
    ASSUME StoreInv, StoreInv', PowerLoss
    PROVE  Register!Crash
<1>1. PICK apps \in dirDisk["apps"], app \in dirDisk["app"],
           a \in slotDisk["a"], b \in slotDisk["b"] :
        /\ dir' = [d \in Dirs |-> IF d = "apps" THEN apps ELSE apps /\ app]
        /\ dirDisk' = [d \in Dirs |-> {dir'[d]}]
        /\ slot' = [s \in Slots |-> IF ~(apps /\ app) THEN NoState
                                    ELSE IF s = "a" THEN a ELSE b]
        /\ slotDisk' = [s \in Slots |-> {slot'[s]}]
  BY DEF PowerLoss
<1>2. UNCHANGED <<acked, quarantinedEver>>
  BY DEF PowerLoss, history
<1>3. Stored' = select_release_state(slot'["a"], slot'["b"])
  BY DEF Stored
<1>4. slotDisk'["a"] = {slot'["a"]} /\ slotDisk'["b"] = {slot'["b"]}
  BY <1>1 DEF Slots
<1>5. {select_release_state(u, v) : u \in slotDisk'["a"], v \in slotDisk'["b"]} = {Stored'}
  BY <1>3, <1>4
<1>6. /\ apps \in BOOLEAN /\ app \in BOOLEAN
      /\ dirDisk'["apps"] = {apps} /\ dirDisk'["app"] = {apps /\ app}
  BY <1>1 DEF StoreInv, TypeOK, Dirs
<1>7. CASE apps /\ app
  <2>1. apps = TRUE /\ (apps /\ app) = TRUE
    BY <1>6, <1>7
  <2>2. FALSE \notin dirDisk'["apps"] \cup dirDisk'["app"]
    BY <1>6, <2>1
  <2>3. Survivors' = {Stored'}
    BY <1>5, <2>2 DEF Survivors
  <2>4. Stored' \in Survivors
    <3>1. slot'["a"] = a /\ slot'["b"] = b
      BY <1>1, <1>7 DEF Slots
    <3>2. Stored' \in Selected
      BY <1>1, <1>3, <3>1 DEF Selected
    <3> QED BY <3>2, SurvivorsParts
  <2> QED BY <1>2, <2>3, <2>4 DEF Register!Crash
<1>8. CASE ~(apps /\ app)
  <2>1. FALSE \in dirDisk["apps"] \cup dirDisk["app"]
    BY <1>1, <1>6, <1>8
  <2>2. FALSE \in dirDisk'["apps"] \cup dirDisk'["app"]
    <3>1. (apps /\ app) = FALSE
      BY <1>6, <1>8
    <3> QED BY <1>6, <3>1
  <2>3. slot'["a"] = NoState /\ slot'["b"] = NoState
    BY <1>1, <1>8 DEF Slots
  <2>4. Stored' = NoState
    BY <1>3, <2>3, NoStateFacts DEF select_release_state
  <2>5. Survivors' = {Stored'}
    BY <1>5, <2>2, <2>4 DEF Survivors
  <2>6. Stored' \in Survivors
    BY <2>1, <2>4 DEF Survivors
  <2> QED BY <1>2, <2>5, <2>6 DEF Register!Crash
<1> QED BY <1>7, <1>8

\* Every step of the store is a step of the register, or changes nothing it shows.
LEMMA StepRefines ==
    ASSUME StoreInv, StoreInv', TargetIsNext, [Next]_vars
    PROVE  [Register!Next]_(Register!registerVars)
<1>q. ASSUME UNCHANGED <<dirVars, slotVars, acked, quarantinedEver>>
      PROVE  UNCHANGED Register!registerVars
  BY <1>q DEF Register!registerVars, Stored, Survivors, dirVars, slotVars
<1>1. CASE \/ \E p \in Packages : Install(p)
           \/ \E recordFailure \in BOOLEAN : Rollback(recordFailure)
  BY <1>1, <1>q DEF Install, Rollback, history
<1>2. CASE \/ StageExisting \/ StageFails \/ StageRename \/ StageSync \/ Activate
           \/ RemoveRename \/ RemoveSync \/ Kill
  BY <1>2, <1>q DEF StageExisting, StageFails, StageRename, StageSync, Activate,
                    RemoveRename, RemoveSync, Kill, history
<1>3. CASE \/ EnsureDirectory("apps", "app") \/ SyncDirectory("apps", "app")
           \/ EnsureDirectory("app", "first") \/ SyncDirectory("app", "first")
  <2>1. PICK d \in Dirs : \E next : EnsureDirectory(d, next) \/ SyncDirectory(d, next)
    BY <1>3 DEF Dirs
  <2>2. UNCHANGED <<slot, slotDisk, acked, quarantinedEver>>
    BY <2>1 DEF EnsureDirectory, SyncDirectory, slotVars, history
  <2>3. dirDisk \in [Dirs -> SUBSET BOOLEAN]
    BY DEF StoreInv, TypeOK
  <2>4. \A e \in Dirs : FALSE \in dirDisk'[e] => FALSE \in dirDisk[e]
    BY <2>1, <2>3 DEF EnsureDirectory, SyncDirectory, dirVars
  <2>5. Register!Settle
    BY <2>2, <2>4, LessOnDisk
  <2> QED BY <2>5 DEF Register!Next
<1>4. CASE WriteFirst
  BY <1>4, WriteFirstAdvances DEF Register!Next
<1>5. CASE WriteSecond
  BY <1>5, WriteSecondStutters
<1>6. CASE SyncFirst \/ SyncSecond
  <2>1. UNCHANGED <<slot, dirVars, acked, quarantinedEver>> /\ (SyncSlots \/ slotDisk' = slotDisk)
    BY <1>6 DEF SyncFirst, SyncSecond, slotVars, history
  <2>2. \A s \in Slots : slotDisk'[s] \subseteq slotDisk[s]
    BY <2>1 DEF SyncSlots, StoreInv, SlotsInv
  <2>3. \A d \in Dirs : FALSE \in dirDisk'[d] => FALSE \in dirDisk[d]
    BY <2>1 DEF dirVars
  <2>4. Register!Settle
    BY <2>1, <2>2, <2>3, LessOnDisk
  <2> QED BY <2>4 DEF Register!Next
<1>7. CASE SyncParents
  BY <1>7, SyncParentsReports DEF Register!Next
<1>8. CASE PowerLoss
  BY <1>8, PowerLossCrashes DEF Register!Next
<1>9. CASE UNCHANGED vars
  BY <1>9, <1>q DEF vars, history
<1> QED BY <1>1, <1>2, <1>3, <1>4, <1>5, <1>6, <1>7, <1>8, <1>9 DEF Next, Step

\* Two slots, two directories and their fsyncs are one crash-safe register that moves
\* only where the policy lets it and that a power loss never takes back behind the
\* last reported state (persist_release_state, load_release_state).
THEOREM StoreImplementsRegister == Spec => ImplementsRegister
<1>1. Init => Register!Init
  <2> SUFFICES ASSUME Init PROVE Register!Init
    OBVIOUS
  <2>1. slot["a"] = NoState /\ slot["b"] = NoState
        /\ slotDisk["a"] = {NoState} /\ slotDisk["b"] = {NoState}
    BY DEF Init, Slots
  <2>2. Stored = NoState /\ select_release_state(NoState, NoState) = NoState
    BY <2>1, NoStateFacts DEF Stored, select_release_state
  <2>3. Selected = {NoState}
    BY <2>1, <2>2 DEF Selected
  <2>4. Survivors = {NoState}
    BY <2>3, SurvivorsParts
  <2>5. Register!NoState = NoState
    BY SameDecisions
  <2> QED BY <2>2, <2>4, <2>5 DEF Init, Register!Init
<1>2. Init => TargetIsNext
  BY DEF Init, TargetIsNext
<1>3. StoreInv /\ StoreInv' /\ TargetIsNext /\ [Next]_vars
        => [Register!Next]_(Register!registerVars) /\ TargetIsNext'
  BY StepRefines, TargetIsNextStep
<1> QED BY <1>1, <1>2, <1>3, StoreInvariance, PTL DEF Spec, ImplementsRegister, Register!Spec

=============================================================================
