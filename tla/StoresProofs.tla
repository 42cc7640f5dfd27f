---------------------------- MODULE StoresProofs ----------------------------
(***************************************************************************)
(* Theorems about what the platform keeps on the disk besides the release  *)
(* state.  Each component's inductive invariant is defined in its module;  *)
(* here are its proofs, one step for each action.                          *)
(***************************************************************************)
EXTENDS Stores, Queues, FiniteSetTheorems, TLAPS

-----------------------------------------------------------------------------
(* What the desktop shows and starts (DesktopRegistry).                    *)

\* The instance counts as everybody does.
LEMMA SameCount ==
    ASSUME NEW S
    PROVE  /\ R!Cardinality(S) = Cardinality(S)
           /\ R!IsFiniteSet(S) <=> IsFiniteSet(S)
BY DEF R!Cardinality, Cardinality, R!IsFiniteSet, IsFiniteSet

\* The releases of an installed application: the current one is the first.
LEMMA CurrentRelease ==
    ASSUME R!RegistryInv, NEW a \in RegistryApps
    PROVE  /\ drStore[a] \in Seq(R!Release) /\ Len(drStore[a]) \in Nat
           /\ drStore[a] # <<>> <=> Len(drStore[a]) >= 1
           /\ drStore[a] # <<>> =>
                /\ 1 \in DOMAIN drStore[a] /\ drStore[a][1] \in R!Release
                /\ drStore[a][1].counter \in Nat \ {0}
                /\ drStore[a][1].name \in RegistryNames
<1>1. drStore[a] \in Seq(R!Release)
  BY DEF R!RegistryInv
<1>2. /\ Len(drStore[a]) \in Nat /\ DOMAIN drStore[a] = 1..Len(drStore[a])
      /\ drStore[a] # <<>> <=> Len(drStore[a]) >= 1
  BY <1>1, EmptySeq, LenProperties
<1>3. ASSUME drStore[a] # <<>> PROVE 1 \in DOMAIN drStore[a] /\ drStore[a][1] \in R!Release
  BY <1>1, <1>2, <1>3, ElementOfSeq
<1>4. \A r \in R!Release : r.counter \in Nat \ {0} /\ r.name \in RegistryNames
  BY RegistryInstance DEF R!Release, R!RegistryAssumption
<1> QED
  BY <1>1, <1>2, <1>3, <1>4

\* Where an entry comes from: an application that verifies, or a built-in program
\* that is not listed as an application.
LEMMA EntryOrigin ==
    ASSUME R!RegistryInv, NEW e \in R!RegistryEntries
    PROVE  \/ /\ e.app \in R!InstalledIds /\ e.app \in R!installed_application_ids
              /\ R!verify_installed_application(e.app)
              /\ e.name = drStore[e.app][1].name /\ e.counter = drStore[e.app][1].counter
              /\ e.counter # 0
              /\ e = [app |-> e.app, name |-> e.name, counter |-> e.counter]
           \/ /\ e.app \in {RegistryGame, RegistryInstaller} /\ e = R!BuiltInEntry(e.app)
              /\ e.counter = 0 /\ e.name = "plain"
              /\ \A f \in R!InstalledEntries : f.app # e.app
<1>1. CASE e \in R!InstalledEntries
  <2>1. PICK a \in R!installed_application_ids :
            /\ R!verify_installed_application(a)
            /\ e = [app |-> a, name |-> drStore[a][1].name, counter |-> drStore[a][1].counter]
    BY <1>1 DEF R!InstalledEntries
  <2>2. a \in R!InstalledIds /\ a \in RegistryApps /\ drStore[a] # <<>>
    BY DEF R!installed_application_ids, R!InstalledIds
  <2>3. drStore[a][1].counter # 0
    BY <2>2, CurrentRelease
  <2> QED
    BY <2>1, <2>2, <2>3
<1>2. CASE e \notin R!InstalledEntries
  <2>1. PICK a \in {RegistryGame, RegistryInstaller} :
            /\ a \notin {f.app : f \in R!InstalledEntries} /\ e = R!BuiltInEntry(a)
    BY <1>2 DEF R!RegistryEntries
  <2> QED
    BY <2>1 DEF R!BuiltInEntry
<1> QED
  BY <1>1, <1>2

\* No application is listed twice.
LEMMA OneEntryEach ==
    ASSUME R!RegistryInv, NEW e \in R!RegistryEntries, NEW f \in R!RegistryEntries,
           e.app = f.app
    PROVE  e = f
<1>1. ASSUME NEW g \in R!RegistryEntries, g.counter # 0 PROVE g \in R!InstalledEntries
  BY <1>1 DEF R!RegistryEntries, R!BuiltInEntry
<1>2. CASE e.counter # 0 /\ f.counter # 0
  BY <1>2, EntryOrigin
<1>3. CASE e.counter = 0 /\ f.counter = 0
  BY <1>3, EntryOrigin
<1>4. CASE e.counter # 0 /\ f.counter = 0
  BY <1>1, <1>4, EntryOrigin
<1>5. CASE e.counter = 0 /\ f.counter # 0
  BY <1>1, <1>5, EntryOrigin
<1> QED
  BY <1>2, <1>3, <1>4, <1>5

\* The limits of the registry, as DesktopLostOnlyToLimits names them.
BeyondLimits ==
    \/ \E a \in R!InstalledIds : drStore[a][1].name = "control"
    \/ Cardinality(R!InstalledIds \cup {RegistryGame, RegistryInstaller}) > RegistryMaxApplications

\* What cannot be encoded is beyond them.
LEMMA NotEncodable ==
    ASSUME R!RegistryInv, ~R!encode_application_registry(R!RegistryEntries)
    PROVE  BeyondLimits
<1> DEFINE entries == R!RegistryEntries
<1> DEFINE ids == R!InstalledIds \cup {RegistryGame, RegistryInstaller}
<1> USE RegistryInstance DEF R!RegistryAssumption
<1>1. IsFiniteSet(ids)
  <2>1. IsFiniteSet(R!InstalledIds)
    BY FS_Subset, SameCount DEF R!InstalledIds
  <2>2. ids = (R!InstalledIds \cup {RegistryGame}) \cup {RegistryInstaller}
    OBVIOUS
  <2> QED
    BY <2>1, <2>2, FS_AddElement
<1>2. \A e \in entries : e.app \in ids
  BY EntryOrigin
<1>3. /\ IsFiniteSet(entries) /\ Cardinality(entries) <= Cardinality(ids)
  <2> DEFINE f == [e \in entries |-> e.app]
  <2>1. f \in [entries -> ids]
    BY <1>2
  <2>2. \A e, g \in entries : f[e] = f[g] => e = g
    BY OneEntryEach
  <2>3. f \in Injection(entries, ids)
    BY <2>1, <2>2 DEF Injection, IsInjective
  <2> QED
    BY <1>1, <2>3, FS_Injection
<1>4. Cardinality(entries) \in Nat /\ Cardinality(ids) \in Nat
  BY <1>1, <1>3, FS_CardinalityType
<1>5. Cardinality(entries) # 0
  <2>1. R!BuiltInEntry(RegistryInstaller) \in entries
    <3>1. \A e \in R!InstalledEntries : e.app # RegistryInstaller
      <4>1. RegistryInstaller \notin R!installed_application_ids
        BY DEF R!installed_application_ids, R!InstalledIds, R!Reserved
      <4> QED
        BY <4>1 DEF R!InstalledEntries
    <3> QED
      BY <3>1 DEF R!RegistryEntries
  <2> QED
    BY <1>3, <2>1, FS_EmptySet
<1>6. \A e, g \in entries : e.app = g.app => e = g
  BY OneEntryEach
<1>7. CASE Cardinality(entries) \notin 1..RegistryMaxApplications
  <2>1. Cardinality(ids) > RegistryMaxApplications
    BY <1>3, <1>4, <1>5, <1>7
  <2> QED
    BY <2>1 DEF BeyondLimits
<1>8. CASE \E e \in entries : ~R!valid_application(e)
  <2>1. PICK e \in entries : e.name = "control"
    BY <1>8 DEF R!valid_application
  <2> QED
    BY <2>1, EntryOrigin DEF BeyondLimits
<1> QED
  BY <1>6, <1>7, <1>8, SameCount DEF R!encode_application_registry

\* A fresh listing is current.
LEMMA FreshListing ==
    ASSUME R!RegistryInv, NEW e \in R!RegistryEntries
    PROVE  R!StillCurrent(e)
<1>1. CASE e.app \in R!InstalledIds /\ e.counter = drStore[e.app][1].counter
  BY <1>1 DEF R!StillCurrent, R!InstalledIds
<1>2. CASE /\ e.app \in {RegistryGame, RegistryInstaller} /\ e.counter = 0
           /\ \A f \in R!InstalledEntries : f.app # e.app
  <2>1. ASSUME R!verify_installed_application(e.app)
        PROVE  e.app = RegistryGame /\ R!Cardinality(R!InstalledIds) > RegistryMaxApplications
    <3>1. e.app \in RegistryApps \ R!Reserved /\ Len(drStore[e.app]) >= 1
      BY <2>1 DEF R!verify_installed_application, R!verify_application_release
    <3>2. e.app \in R!InstalledIds
      BY <3>1, CurrentRelease DEF R!InstalledIds
    <3>3. e.app \notin R!installed_application_ids
      <4>1. ASSUME NEW a \in R!installed_application_ids, R!verify_installed_application(a)
            PROVE  \E f \in R!InstalledEntries : f.app = a
        <5> DEFINE entry == [app |-> a, name |-> drStore[a][1].name,
                             counter |-> drStore[a][1].counter]
        <5>1. entry \in R!InstalledEntries
          BY <4>1 DEF R!InstalledEntries
        <5>2. entry.app = a
          OBVIOUS
        <5> QED
          BY <5>1, <5>2
      <4> QED
        BY <1>2, <2>1, <4>1
    <3> QED
      BY <1>2, <3>1, <3>2, <3>3 DEF R!installed_application_ids, R!Reserved
  <2> QED
    BY <1>2, <2>1 DEF R!StillCurrent
<1> QED
  BY <1>1, <1>2, EntryOrigin

\* What a session without a listing needs for the invariant: its store, and the
\* reason why the last one ended.
LEMMA NotListed ==
    ASSUME drStore' \in [RegistryApps -> Seq(R!Release)],
           drHigh' \in [RegistryApps -> 0..RegistryMaxCounter],
           ~R!Listed', drResult' # 85
    PROVE  R!RegistryInv'
BY DEF R!RegistryInv, R!Listed, R!DesktopLostOnlyToLimits

\* A rollback leaves the previous release alone, or nothing changes.
LEMMA RollbackTypes ==
    ASSUME R!RegistryInv, NEW a
    PROVE  R!RolledBack(a) \in [RegistryApps -> Seq(R!Release)]
<1>1. drStore \in [RegistryApps -> Seq(R!Release)]
  BY DEF R!RegistryInv
<1>2. ASSUME a \in RegistryApps, R!verify_application_release(a, 2)
      PROVE  <<drStore[a][2]>> \in Seq(R!Release)
  <2>1. drStore[a] \in Seq(R!Release) /\ 2 \in 1..Len(drStore[a])
    BY <1>2, CurrentRelease DEF R!verify_application_release
  <2>2. drStore[a][2] \in R!Release
    BY <2>1, ElementOfSeq
  <2> QED
    BY <2>2
<1> QED
  BY <1>1, <1>2 DEF R!RolledBack

\* The installer runs, or a file is damaged: the store has releases still.
LEMMA InstallTypes ==
    ASSUME R!RegistryInv, NEW a \in RegistryApps, NEW name \in RegistryNames,
           R!InstallRelease(a, name)
    PROVE  /\ drStore' \in [RegistryApps -> Seq(R!Release)]
           /\ drHigh' \in [RegistryApps -> 0..RegistryMaxCounter]
<1> DEFINE new == [counter |-> drHigh[a] + 1, name |-> name, whole |-> TRUE]
<1>1. /\ drHigh \in [RegistryApps -> 0..RegistryMaxCounter] /\ drHigh[a] < RegistryMaxCounter
      /\ RegistryMaxCounter \in Nat
      /\ drHigh' = [drHigh EXCEPT ![a] = @ + 1]
      /\ drStore \in [RegistryApps -> Seq(R!Release)]
      /\ drStore' = [drStore EXCEPT ![a] = IF @ = <<>> THEN <<new>> ELSE <<new, @[1]>>]
  BY RegistryInstance DEF R!RegistryInv, R!InstallRelease, R!Changed, R!RegistryAssumption
<1>2. drHigh[a] + 1 \in 1..RegistryMaxCounter
  BY <1>1
<1>3. new \in R!Release
  BY <1>2 DEF R!Release
<1> HIDE DEF new
<1>4. (IF drStore[a] = <<>> THEN <<new>> ELSE <<new, drStore[a][1]>>) \in Seq(R!Release)
  <2>1. CASE drStore[a] = <<>>
    BY <1>3, <2>1
  <2>2. CASE drStore[a] # <<>>
    <3>1. drStore[a][1] \in R!Release
      BY <2>2, CurrentRelease
    <3>2. <<new, drStore[a][1]>> \in Seq(R!Release)
      BY <1>3, <3>1
    <3> QED
      BY <2>2, <3>2
  <2> QED
    BY <2>1, <2>2
<1>5. drStore' \in [RegistryApps -> Seq(R!Release)]
  BY <1>1, <1>4
<1>6. drHigh' \in [RegistryApps -> 0..RegistryMaxCounter]
  BY <1>1, <1>2
<1> QED
  BY <1>5, <1>6

\* Damage leaves every application with its releases, their counters and names.
LEMMA DamageOnly ==
    ASSUME R!RegistryInv, NEW a \in RegistryApps, R!Damage(a)
    PROVE  /\ drStore' \in [RegistryApps -> Seq(R!Release)] /\ drHigh' = drHigh
           /\ \A b \in RegistryApps :
                /\ Len(drStore'[b]) = Len(drStore[b])
                /\ drStore'[b] = <<>> <=> drStore[b] = <<>>
                /\ drStore[b] # <<>> =>
                    /\ drStore'[b][1].counter = drStore[b][1].counter
                    /\ drStore'[b][1].name = drStore[b][1].name
                    /\ drStore'[b][1].whole => drStore[b][1].whole
<1> DEFINE broken == [drStore[a][1] EXCEPT !.whole = FALSE]
<1> DEFINE damaged == [drStore[a] EXCEPT ![1] = broken]
<1>1. /\ drStore[a] # <<>> /\ drHigh' = drHigh
      /\ drStore \in [RegistryApps -> Seq(R!Release)]
      /\ drStore' = [drStore EXCEPT ![a] = damaged]
  BY DEF R!Damage, R!Changed, R!RegistryInv
<1>2. /\ drStore[a] \in Seq(R!Release) /\ 1 \in 1..Len(drStore[a]) /\ drStore[a][1] \in R!Release
      /\ Len(drStore[a]) \in Nat
  BY <1>1, CurrentRelease
<1>3. /\ broken \in R!Release /\ broken.counter = drStore[a][1].counter
      /\ broken.name = drStore[a][1].name /\ broken.whole = FALSE
  BY <1>2 DEF R!Release
<1> HIDE DEF broken
<1>4. /\ damaged \in Seq(R!Release) /\ Len(damaged) = Len(drStore[a]) /\ damaged[1] = broken
  BY <1>2, <1>3, ExceptSeq
<1>5. damaged # <<>>
  BY <1>2, <1>4, EmptySeq
<1> HIDE DEF damaged
<1>6. /\ drStore' \in [RegistryApps -> Seq(R!Release)]
      /\ drStore'[a] = damaged
      /\ \A b \in RegistryApps : b # a => drStore'[b] = drStore[b]
  BY <1>1, <1>4
<1> QED
  BY <1>1, <1>3, <1>4, <1>5, <1>6

\* What a listing may rely on stays when files are damaged, or nothing changes.
LEMMA CurrentStays ==
    ASSUME R!RegistryInv, drStore' \in [RegistryApps -> Seq(R!Release)],
           \A b \in RegistryApps :
                /\ Len(drStore'[b]) = Len(drStore[b])
                /\ drStore'[b] = <<>> <=> drStore[b] = <<>>
                /\ drStore[b] # <<>> =>
                    /\ drStore'[b][1].counter = drStore[b][1].counter
                    /\ drStore'[b][1].name = drStore[b][1].name
                    /\ drStore'[b][1].whole => drStore[b][1].whole
    PROVE  /\ R!InstalledIds' = R!InstalledIds
           /\ BeyondLimits => BeyondLimits'
           /\ \A e : R!StillCurrent(e) => R!StillCurrent(e)'
<1>1. R!InstalledIds' = R!InstalledIds
  BY DEF R!InstalledIds
<1>2. BeyondLimits => BeyondLimits'
  <2>1. \A a \in R!InstalledIds : a \in RegistryApps /\ drStore[a] # <<>>
    BY DEF R!InstalledIds
  <2> QED
    BY <1>1, <2>1 DEF BeyondLimits
<1>3. ASSUME NEW e, R!StillCurrent(e) PROVE R!StillCurrent(e)'
  <2>1. CASE /\ e.app \in RegistryApps \ R!Reserved /\ drStore[e.app] # <<>>
             /\ drStore[e.app][1].counter = e.counter
    BY <2>1 DEF R!StillCurrent, R!Reserved
  <2>2. CASE /\ e.app \in {RegistryGame, RegistryInstaller} /\ e.counter = 0
             /\ R!verify_installed_application(e.app) =>
                  /\ e.app = RegistryGame
                  /\ R!Cardinality(R!InstalledIds) > RegistryMaxApplications
    <3>1. R!verify_installed_application(e.app)' => R!verify_installed_application(e.app)
      <4>1. ASSUME R!verify_installed_application(e.app)'
            PROVE  R!verify_installed_application(e.app)
        <5>1. /\ e.app \in RegistryApps /\ e.app \notin R!Reserved /\ Len(drStore'[e.app]) >= 1
              /\ drStore'[e.app][1].whole
          BY <4>1 DEF R!verify_installed_application, R!verify_application_release,
                      R!installed_files_match, R!Reserved
        <5>2. Len(drStore[e.app]) >= 1 /\ drStore[e.app] # <<>>
          BY <5>1, CurrentRelease
        <5> QED
          BY <5>1, <5>2 DEF R!verify_installed_application, R!verify_application_release,
                            R!installed_files_match
      <4> QED
        BY <4>1
    <3> QED
      BY <1>1, <2>2, <3>1 DEF R!StillCurrent
  <2> QED
    BY <1>3, <2>1, <2>2 DEF R!StillCurrent
<1> QED
  BY <1>1, <1>2, <1>3

\* The instance's way to say that a session was lost to the limits.
LEMMA LimitsNamed == R!DesktopLostOnlyToLimits <=> (drResult = 85 => BeyondLimits)
BY SameCount DEF R!DesktopLostOnlyToLimits, BeyondLimits

\* Every action keeps the listing current until the desktop is served again.
LEMMA RegistryStep == R!RegistryInv /\ [R!Next]_(R!vars) => R!RegistryInv'
<1> SUFFICES ASSUME R!RegistryInv, [R!Next]_(R!vars) PROVE R!RegistryInv'
  OBVIOUS
<1>0. /\ drStore \in [RegistryApps -> Seq(R!Release)]
      /\ drHigh \in [RegistryApps -> 0..RegistryMaxCounter]
      /\ drResult = 85 => drPhase = "down"
  BY DEF R!RegistryInv
<1>1. CASE R!Start
  <2>1. ~R!Listed' /\ drResult' # 85 /\ UNCHANGED <<drStore, drHigh>>
    <3>1. drPhase' \in {"down", "starting"} /\ drForeground' = RegistryDesktop
      BY <1>1 DEF R!Start
    <3> QED
      BY <1>1, <3>1 DEF R!Start, R!Listed
  <2> QED
    BY <1>0, <2>1, NotListed
<1>2. CASE R!ServeDesktop
  <2>0. UNCHANGED <<drStore, drHigh, drForeground>> /\ drForeground = RegistryDesktop
    BY <1>2 DEF R!ServeDesktop, R!Runs, R!End
  <2>1. CASE R!encode_application_registry(R!RegistryEntries)
    <3>1. drRegistry' = R!RegistryEntries /\ drPhase' = "running" /\ drResult' = drResult
      BY <1>2, <2>1 DEF R!ServeDesktop, R!Runs, R!Registered
    <3>2. drResult' # 85
      BY <1>0, <1>2, <3>1 DEF R!ServeDesktop
    <3>3. \A e \in drRegistry' : R!StillCurrent(e)'
      <4>1. \A e \in R!RegistryEntries : R!StillCurrent(e)
        BY FreshListing
      <4>2. \A e : R!StillCurrent(e) => R!StillCurrent(e)'
        BY <1>0, <2>0, CurrentStays
      <4> QED
        BY <3>1, <4>1, <4>2
    <3> QED
      BY <1>0, <2>0, <3>1, <3>2, <3>3 DEF R!RegistryInv, R!DesktopLostOnlyToLimits
  <2>2. CASE ~R!encode_application_registry(R!RegistryEntries)
    <3>1. drPhase' = "down" /\ BeyondLimits
      BY <1>2, <2>2, NotEncodable DEF R!ServeDesktop, R!End
    <3>2. BeyondLimits'
      BY <1>0, <2>0, <3>1, CurrentStays
    <3>3. R!DesktopLostOnlyToLimits'
      BY <3>2, LimitsNamed, PTL
    <3> QED
      BY <1>0, <2>0, <3>1, <3>3 DEF R!RegistryInv, R!Listed
  <2> QED
    BY <2>1, <2>2
<1>3. CASE R!DesktopUnavailable \/ R!ExitSession
  <2>1. drPhase' = "down" /\ drResult' \in {0, 75} /\ UNCHANGED <<drStore, drHigh>>
    BY <1>3 DEF R!DesktopUnavailable, R!ExitSession, R!End
  <2> QED
    BY <1>0, <2>1, NotListed DEF R!Listed
<1>4. CASE R!RunProgram
  <2>1. /\ drPhase' = "running" /\ drForeground' = drForeground
        /\ drForeground # RegistryDesktop
        /\ UNCHANGED <<drStore, drHigh, drResult>> /\ drPhase = "starting"
    BY <1>4 DEF R!RunProgram, R!Runs
  <2> QED
    BY <1>0, <2>1, NotListed DEF R!Listed
<1>5. CASE R!ProgramUnavailable \/ R!Home \/ R!Crash
  <2>1. /\ drPhase' = "starting" /\ drForeground' = RegistryDesktop
        /\ drPhase \in {"starting", "running"} /\ UNCHANGED <<drHigh, drResult>>
        /\ \/ drStore' = drStore \/ drStore' = R!RolledBack(drForeground)
    BY <1>5 DEF R!ProgramUnavailable, R!Home, R!Crash, R!BackToDesktop
  <2>2. drStore' \in [RegistryApps -> Seq(R!Release)]
    BY <1>0, <2>1, RollbackTypes
  <2> QED
    BY <1>0, <2>1, <2>2, NotListed DEF R!Listed
<1>6. ASSUME NEW a \in RegistryApps \cup R!BuiltIn, R!Launch(a) PROVE R!RegistryInv'
  <2>1. /\ drPhase = "running" /\ drForeground = RegistryDesktop
        /\ a \in R!Shown \ {RegistryDesktop} /\ drForeground' = a /\ drPhase' = "starting"
        /\ UNCHANGED <<drStore, drHigh, drRegistry, drResult>>
    BY <1>6 DEF R!Launch
  <2>2. \A e \in drRegistry' : R!StillCurrent(e)'
    <3>1. \A e \in drRegistry : R!StillCurrent(e)
      BY <2>1 DEF R!RegistryInv, R!Listed
    <3>2. \A e : R!StillCurrent(e) => R!StillCurrent(e)'
      BY <1>0, <2>1, CurrentStays
    <3> QED
      BY <2>1, <3>1, <3>2
  <2>3. \E e \in drRegistry' : e.app = drForeground'
    BY <2>1 DEF R!Shown
  <2>4. drResult' # 85
    BY <1>0, <2>1
  <2> QED
    BY <1>0, <2>1, <2>2, <2>3, <2>4 DEF R!RegistryInv, R!DesktopLostOnlyToLimits
<1>7. ASSUME NEW a \in RegistryApps, NEW name \in RegistryNames, R!InstallRelease(a, name)
      PROVE  R!RegistryInv'
  <2>1. /\ drPhase = "running" /\ drForeground = RegistryInstaller
        /\ UNCHANGED <<drPhase, drForeground, drResult>>
    BY <1>7 DEF R!InstallRelease, R!Changed
  <2>2. ~R!Listed'
    BY <2>1, RegistryInstance DEF R!Listed, R!RegistryAssumption
  <2> QED
    BY <1>0, <1>7, <2>1, <2>2, InstallTypes, NotListed
<1>8. ASSUME NEW a \in RegistryApps, R!RemoveRelease(a) PROVE R!RegistryInv'
  <2>1. /\ drPhase = "running" /\ drForeground = RegistryInstaller
        /\ UNCHANGED <<drPhase, drForeground, drResult, drHigh>>
        /\ drStore' = [drStore EXCEPT ![a] = <<>>]
    BY <1>8 DEF R!RemoveRelease, R!Changed
  <2>2. ~R!Listed'
    BY <2>1, RegistryInstance DEF R!Listed, R!RegistryAssumption
  <2>3. drStore' \in [RegistryApps -> Seq(R!Release)]
    BY <1>0, <2>1, EmptySeq
  <2> QED
    BY <1>0, <2>1, <2>2, <2>3, NotListed
<1>9. CASE (\E a \in RegistryApps : R!Damage(a)) \/ UNCHANGED R!vars
  <2>1. /\ UNCHANGED <<drPhase, drForeground, drRegistry, drResult, drHigh>>
        /\ drStore' \in [RegistryApps -> Seq(R!Release)]
        /\ \A b \in RegistryApps :
                /\ Len(drStore'[b]) = Len(drStore[b])
                /\ drStore'[b] = <<>> <=> drStore[b] = <<>>
                /\ drStore[b] # <<>> =>
                    /\ drStore'[b][1].counter = drStore[b][1].counter
                    /\ drStore'[b][1].name = drStore[b][1].name
                    /\ drStore'[b][1].whole => drStore[b][1].whole
    <3>1. CASE UNCHANGED R!vars
      BY <1>0, <3>1 DEF R!vars
    <3>2. ASSUME NEW a \in RegistryApps, R!Damage(a) PROVE <2>1
      <4>1. UNCHANGED <<drPhase, drForeground, drRegistry, drResult, drHigh>>
        BY <3>2 DEF R!Damage, R!Changed
      <4> QED
        BY <3>2, <4>1, DamageOnly
    <3> QED
      BY <1>9, <3>1, <3>2
  <2>2. /\ BeyondLimits => BeyondLimits'
        /\ \A e : R!StillCurrent(e) => R!StillCurrent(e)'
    BY <2>1, CurrentStays
  <2>3. R!DesktopLostOnlyToLimits'
    <3>1. (drResult = 85)' => BeyondLimits'
      BY <2>1, <2>2, LimitsNamed DEF R!RegistryInv
    <3> QED
      BY <3>1, LimitsNamed, PTL
  <2>4. R!Listed' => \A e \in drRegistry' : R!StillCurrent(e)'
    BY <2>1, <2>2 DEF R!RegistryInv, R!Listed
  <2> QED
    BY <1>0, <2>1, <2>3, <2>4 DEF R!RegistryInv
<1> QED
  BY <1>1, <1>2, <1>3, <1>4, <1>5, <1>6, <1>7, <1>8, <1>9 DEF R!Next

\* What the invariant asks of the first state.
LEMMA RegistryStart == R!Init => R!RegistryInv
<1> SUFFICES ASSUME R!Init PROVE R!RegistryInv
  OBVIOUS
<1>1. /\ drStore = [a \in RegistryApps |-> <<>>] /\ drHigh = [a \in RegistryApps |-> 0]
      /\ drPhase = "down" /\ drResult = 0
  BY DEF R!Init
<1>2. drStore \in [RegistryApps -> Seq(R!Release)]
  BY <1>1, EmptySeq
<1>3. drHigh \in [RegistryApps -> 0..RegistryMaxCounter]
  BY <1>1, RegistryInstance DEF R!RegistryAssumption
<1> QED
  BY <1>1, <1>2, <1>3 DEF R!RegistryInv, R!Listed, R!DesktopLostOnlyToLimits

\* A session that had a verified platform release ends for want of a registry only
\* when a name or the number of applications is beyond what it holds
\* (build_desktop_registry, encode_application_registry).
THEOREM DesktopLostToLimits == R!Spec => []DesktopLostOnlyToLimits
<1>1. R!RegistryInv => DesktopLostOnlyToLimits
  BY DEF R!RegistryInv, DesktopLostOnlyToLimits
<1> QED
  BY <1>1, RegistryStart, RegistryStep, PTL DEF R!Spec

\* What a launch of a listed application meets: the listed release, or one of the
\* reasons the registry names.
LEMMA LaunchStep == R!RegistryInv /\ [R!Next]_(R!vars) => R!LaunchAsListed
<1> SUFFICES ASSUME R!RegistryInv, [R!Next]_(R!vars),
                    drPhase = "starting", drForeground # RegistryDesktop,
                    drPhase' = "running" \/ drForeground' = RegistryDesktop,
                    R!application_uid_is_unique(drForeground),
                    ~(/\ drForeground = RegistryGame
                      /\ R!Cardinality(R!InstalledIds) > RegistryMaxApplications),
                    ~(drForeground \in R!InstalledIds /\ ~drStore[drForeground][1].whole)
             PROVE  \E e \in drRegistry :
                      e.app = drForeground /\ drPhase' = "running" /\ drRunning' = e.counter
  BY DEF R!RegistryInv, R!LaunchAsListed
<1>1. PICK e \in drRegistry : e.app = drForeground /\ R!StillCurrent(e)
  BY DEF R!RegistryInv, R!Listed
<1>2. R!Openable(drForeground) = {e.counter}
  <2>1. CASE /\ drForeground \in RegistryApps \ R!Reserved /\ drStore[drForeground] # <<>>
             /\ drStore[drForeground][1].counter = e.counter
    <3>1. drForeground \in R!InstalledIds /\ Len(drStore[drForeground]) >= 1
      BY <2>1, CurrentRelease DEF R!InstalledIds
    <3>2. R!verify_installed_application(drForeground)
      BY <2>1, <3>1 DEF R!verify_installed_application, R!verify_application_release,
                        R!installed_files_match
    <3> QED
      BY <2>1, <3>2 DEF R!Openable
  <2>2. CASE /\ drForeground \in {RegistryGame, RegistryInstaller} /\ e.counter = 0
             /\ ~R!verify_installed_application(drForeground)
    BY <2>2 DEF R!Openable, R!BuiltIn
  <2> QED
    BY <1>1, <2>1, <2>2 DEF R!StillCurrent
<1>3. R!open_verified_program(drForeground) = {e.counter}
  BY <1>2 DEF R!open_verified_program
<1>4. R!RunProgram
  <2>1. ~R!Start /\ ~R!ServeDesktop /\ ~R!DesktopUnavailable /\ ~R!Home /\ ~R!Crash /\ ~R!ExitSession
    BY DEF R!Start, R!ServeDesktop, R!DesktopUnavailable, R!Home, R!Crash, R!ExitSession
  <2>2. ~R!ProgramUnavailable
    BY <1>3 DEF R!ProgramUnavailable
  <2>3. ~(\E a \in RegistryApps \cup R!BuiltIn : R!Launch(a))
    BY DEF R!Launch
  <2>4. ~(\E a \in RegistryApps, name \in RegistryNames : R!InstallRelease(a, name))
    BY DEF R!InstallRelease
  <2>5. ~(\E a \in RegistryApps : R!RemoveRelease(a) \/ R!Damage(a))
    BY DEF R!RemoveRelease, R!Damage, R!Changed
  <2>6. ~UNCHANGED R!vars
    BY DEF R!vars
  <2> QED
    BY <2>1, <2>2, <2>3, <2>4, <2>5, <2>6 DEF R!Next
<1>5. drPhase' = "running" /\ drRunning' = e.counter
  BY <1>3, <1>4 DEF R!RunProgram, R!Runs
<1> QED
  BY <1>1, <1>5

\* A launch runs the release the desktop listed, and whatever keeps it from that is
\* damage, a shared uid or a number of applications beyond the registry
\* (build_desktop_registry against open_verified_program).
THEOREM LaunchIsAsListed == R!Spec => LaunchesWhatWasListed
<1>1. R!Spec => []R!RegistryInv
  BY RegistryStart, RegistryStep, PTL DEF R!Spec
<1> QED
  BY <1>1, LaunchStep, PTL DEF R!Spec, LaunchesWhatWasListed, R!LaunchesWhatWasListed

-----------------------------------------------------------------------------
(* The installer and its broker (InstallerBroker).                         *)

\* Nothing is in a queue but what was put there.
LEMMA TakenFrom ==
    ASSUME NEW s, I!IsQueue(s), s # <<>>
    PROVE  /\ I!IsQueue(Tail(s)) /\ 1 \in DOMAIN s /\ Head(s) = s[1]
           /\ \A i \in DOMAIN Tail(s) : \E j \in DOMAIN s : Tail(s)[i] = s[j]
BY QueueTail DEF I!IsQueue

\* What is put at the end of a queue is the only thing that is new in it.
LEMMA AddedTo ==
    ASSUME NEW s, I!IsQueue(s), NEW x, NEW t, t = Append(s, x)
    PROVE  I!IsQueue(t) /\ \A i \in DOMAIN t : t[i] = x \/ \E j \in DOMAIN s : t[i] = s[j]
BY QueueAppend DEF I!IsQueue

\* A queue of one, and an empty one, are queues.
LEMMA SingleAndNone ==
    ASSUME NEW x
    PROVE  I!IsQueue(<<x>>) /\ I!IsQueue(<<>>)
<1>1. <<>> \in Seq({x}) /\ <<x>> \in Seq({x})
  OBVIOUS
<1>2. \A t \in Seq({x}) : t \in Seq({t[i] : i \in DOMAIN t})
  BY QueueOf
<1> QED
  BY <1>1, <1>2 DEF I!IsQueue

\* Requests and answers may be taken from the head and added at the end, approvals
\* and effects only added: what is on the way stays approved and true.
LEMMA StillOnTheWay ==
    ASSUME I!OnTheWay, ibApproved \subseteq ibApproved', ibEffects \subseteq ibEffects',
           \A e \in ibEffects' \ ibEffects : e.token \in ibApproved' /\ e.what \in ibApproved',
           \/ ibRequests' = ibRequests
           \/ ibRequests # <<>> /\ ibRequests' = Tail(ibRequests)
           \/ \E r : ibRequests' = Append(ibRequests, r) /\ I!RequestApproved(r)',
           \/ ibResponses' = ibResponses
           \/ ibResponses # <<>> /\ ibResponses' = Tail(ibResponses)
           \/ \E r : ibResponses' = Append(ibResponses, r) /\ I!AnswerIsTrue(r)'
    PROVE  I!OnTheWay'
<1>0. /\ I!IsQueue(ibRequests) /\ \A i \in DOMAIN ibRequests : I!RequestApproved(ibRequests[i])
      /\ I!IsQueue(ibResponses) /\ \A i \in DOMAIN ibResponses : I!AnswerIsTrue(ibResponses[i])
      /\ \A e \in ibEffects : e.token \in ibApproved /\ e.what \in ibApproved
  BY DEF I!OnTheWay
<1>1. \A e \in ibEffects' : e.token \in ibApproved' /\ e.what \in ibApproved'
  BY <1>0
<1>2. \A r : I!RequestApproved(r) => I!RequestApproved(r)'
  BY DEF I!RequestApproved
<1>3. \A r : I!AnswerIsTrue(r) => I!AnswerIsTrue(r)'
  BY DEF I!AnswerIsTrue
<1>4. (I!IsQueue(ibRequests) /\ \A i \in DOMAIN ibRequests : I!RequestApproved(ibRequests[i]))'
  <2>1. CASE ibRequests' = ibRequests
    BY <1>0, <1>2, <2>1
  <2>2. CASE ibRequests # <<>> /\ ibRequests' = Tail(ibRequests)
    <3>1. /\ I!IsQueue(ibRequests')
          /\ \A i \in DOMAIN ibRequests' : \E j \in DOMAIN ibRequests :
                ibRequests'[i] = ibRequests[j]
      BY <1>0, <2>2, TakenFrom
    <3> QED
      BY <1>0, <1>2, <3>1
  <2>3. ASSUME NEW r, ibRequests' = Append(ibRequests, r), I!RequestApproved(r)'
        PROVE  <1>4
    <3>1. ASSUME NEW t, t = Append(ibRequests, r)
          PROVE  /\ I!IsQueue(t)
                 /\ \A i \in DOMAIN t : t[i] = r \/ \E j \in DOMAIN ibRequests : t[i] = ibRequests[j]
      <4>1. I!IsQueue(t)
        BY <1>0, <3>1, AddedTo
      <4>2. \A i \in DOMAIN t : t[i] = r \/ \E j \in DOMAIN ibRequests : t[i] = ibRequests[j]
        BY <1>0, <3>1, AddedTo
      <4> QED
        BY <4>1, <4>2
    <3> QED
      BY <1>0, <1>2, <2>3, <3>1
  <2> QED
    BY <2>1, <2>2, <2>3
<1>5. (I!IsQueue(ibResponses) /\ \A i \in DOMAIN ibResponses : I!AnswerIsTrue(ibResponses[i]))'
  <2>1. CASE ibResponses' = ibResponses
    BY <1>0, <1>3, <2>1
  <2>2. CASE ibResponses # <<>> /\ ibResponses' = Tail(ibResponses)
    <3>1. /\ I!IsQueue(ibResponses')
          /\ \A i \in DOMAIN ibResponses' : \E j \in DOMAIN ibResponses :
                ibResponses'[i] = ibResponses[j]
      BY <1>0, <2>2, TakenFrom
    <3> QED
      BY <1>0, <1>3, <3>1
  <2>3. ASSUME NEW r, ibResponses' = Append(ibResponses, r), I!AnswerIsTrue(r)'
        PROVE  <1>5
    <3>1. ASSUME NEW t, t = Append(ibResponses, r)
          PROVE  /\ I!IsQueue(t)
                 /\ \A i \in DOMAIN t : t[i] = r \/ \E j \in DOMAIN ibResponses : t[i] = ibResponses[j]
      <4>1. I!IsQueue(t)
        BY <1>0, <3>1, AddedTo
      <4>2. \A i \in DOMAIN t : t[i] = r \/ \E j \in DOMAIN ibResponses : t[i] = ibResponses[j]
        BY <1>0, <3>1, AddedTo
      <4> QED
        BY <4>1, <4>2
    <3> QED
      BY <1>0, <1>3, <2>3, <3>1
  <2> QED
    BY <2>1, <2>2, <2>3
<1> QED
  BY <1>1, <1>4, <1>5 DEF I!OnTheWay

\* The broker answers the request at the head, if it can, and what it has done is on
\* record before it says so.
LEMMA Answered ==
    ASSUME I!BrokerInv, I!Serves(I!Mutations \cup I!Queries), NEW status, NEW count, NEW entry,
           I!Respond(I!Answer(status, count, entry)),
           UNCHANGED <<ibWaiting, ibNextId, ibList, ibSelected, ibConfirming, ibBusy, ibResult,
                       ibApproved>>,
           \/ ibEffects' = ibEffects
           \/ \E what \in ibApproved : I!Effect(what) /\ Head(ibRequests).command \in I!Mutations,
           \/ Head(ibRequests).command \notin I!Mutations \/ status # "ready"
           \/ \E what \in ibApproved : I!Effect(what)
    PROVE  I!BrokerInv'
<1> DEFINE request == Head(ibRequests)
<1>0. I!OnTheWay /\ I!OneAtATime /\ I!SuccessMeansDone
  BY DEF I!BrokerInv
<1>1. ibRequests # <<>> /\ request = ibRequests[1] /\ 1 \in DOMAIN ibRequests
      /\ I!RequestApproved(request)
  BY <1>0, TakenFrom DEF I!Serves, I!OnTheWay
<1>2. PICK answer : answer = I!Answer(status, count, entry)
  OBVIOUS
<1>9. answer.command = request.command /\ answer.id = request.id /\ answer.status = status
  BY <1>2 DEF I!Answer
<1>3. /\ ibEffects \subseteq ibEffects'
      /\ \A e \in ibEffects' \ ibEffects : e.token \in ibApproved' /\ e.what \in ibApproved'
  <2>1. CASE ibEffects' = ibEffects
    BY <2>1
  <2>2. ASSUME NEW what \in ibApproved, I!Effect(what), request.command \in I!Mutations
        PROVE  <1>3
    <3>1. request.token \in ibApproved
      BY <1>1, <2>2 DEF I!RequestApproved
    <3> QED
      BY <2>2, <3>1 DEF I!Effect
  <2> QED
    BY <2>1, <2>2
<1>4. I!AnswerIsTrue(answer)'
  <2>1. ASSUME NEW what, I!Effect(what) PROVE \E e \in ibEffects' : e.id = answer.id
    <3>1. PICK e : e = [id |-> request.id, command |-> request.command,
                        token |-> request.token, what |-> what]
      OBVIOUS
    <3>2. e.id = request.id /\ e \in ibEffects'
      BY <2>1, <3>1 DEF I!Effect
    <3> QED
      BY <1>9, <3>2
  <2>2. answer.command \in I!Mutations /\ answer.status = "ready"
          => \E e \in ibEffects' : e.id = answer.id
    BY <1>9, <2>1
  <2> QED
    BY <2>2 DEF I!AnswerIsTrue
<1>5. \/ ibRequests' = ibRequests /\ ibResponses' = ibResponses
      \/ ibRequests' = Tail(ibRequests) /\ ibResponses' = Append(ibResponses, answer)
  BY <1>2 DEF I!Respond, I!socket
<1>6. I!OnTheWay'
  BY <1>0, <1>1, <1>3, <1>4, <1>5, StillOnTheWay
<1>7. I!OneAtATime'
  BY <1>0 DEF I!OneAtATime, I!Idle, I!Entry
<1>8. I!SuccessMeansDone'
  BY <1>0, <1>3 DEF I!SuccessMeansDone
<1> QED
  BY <1>6, <1>7, <1>8 DEF I!BrokerInv

\* Everything the broker does.
LEMMA BrokerStep == I!BrokerInv /\ I!Broker => I!BrokerInv'
<1> SUFFICES ASSUME I!BrokerInv, I!Broker PROVE I!BrokerInv'
  OBVIOUS
<1> DEFINE Kept == UNCHANGED <<ibWaiting, ibNextId, ibList, ibSelected, ibConfirming, ibBusy,
                               ibResult, ibApproved>>
<1> DEFINE command == Head(ibRequests).command
<1> DEFINE token == Head(ibRequests).token
<1>1. ASSUME I!Serves(I!Mutations) PROVE token \in ibApproved /\ command \in I!Mutations
  <2>1. ibRequests # <<>> /\ command \in I!Mutations
    BY <1>1 DEF I!Serves
  <2>2. 1 \in DOMAIN ibRequests /\ Head(ibRequests) = ibRequests[1]
    BY <2>1, TakenFrom DEF I!BrokerInv, I!OnTheWay
  <2> QED
    BY <2>1, <2>2 DEF I!BrokerInv, I!OnTheWay, I!RequestApproved
<1>2. CASE I!ServeUnavailable
  BY <1>2, Answered DEF I!ServeUnavailable, I!client, I!view
<1>3. CASE I!ServeInbox \/ I!ServeInstalled
  <2>1. /\ I!Serves(I!Queries) /\ command \notin I!Mutations /\ Kept /\ ibEffects' = ibEffects
        /\ \E entries : I!Respond(I!Listed(entries))
    BY <1>3 DEF I!ServeInbox, I!ServeInstalled, I!Serves, I!Queries, I!Mutations, I!client, I!view
  <2>2. I!Serves(I!Mutations \cup I!Queries)
    BY <2>1 DEF I!Serves
  <2>3. \E status, count, entry : I!Respond(I!Answer(status, count, entry))
    BY <2>1 DEF I!Listed
  <2> QED
    BY <2>1, <2>2, <2>3, Answered
<1>4. CASE I!ServeInstall
  <2>1. /\ I!Serves(I!Mutations) /\ I!Serves(I!Mutations \cup I!Queries) /\ Kept
    BY <1>4 DEF I!ServeInstall, I!Serves, I!Mutations, I!client, I!view
  <2>2. \/ \E status : /\ status # "ready" /\ I!Respond(I!Answer(status, 0, I!NoEntry))
                       /\ ibEffects' = ibEffects
        \/ \E status : \E f \in ibInbox :
              /\ I!TokenMatches(f) /\ I!Effect(<<f.package.digest>>)
              /\ I!Respond(I!Answer(status, 0, I!NoEntry))
    BY <1>4 DEF I!ServeInstall
  <2>3. \A f : I!TokenMatches(f) => <<f.package.digest>> \in ibApproved
    BY <1>1, <2>1 DEF I!TokenMatches
  <2> QED
    BY <1>1, <2>1, <2>2, <2>3, Answered
<1>5. CASE I!ServeDebris
  <2>1. I!Serves(I!Mutations \cup I!Queries) /\ Kept /\ ibEffects' = ibEffects
        /\ I!Respond(I!Answer("io_error", 0, I!NoEntry))
    BY <1>5 DEF I!ServeDebris, I!Serves, I!Mutations, I!Queries, I!client, I!view
  <2> QED
    BY <2>1, Answered
<1>6. \A a \in I!Matching : I!Identity(a) \in ibApproved \/ ~I!Serves(I!Mutations)
  BY <1>1 DEF I!Matching, I!Identity, I!installed_snapshot_token
<1>7. CASE I!ServeRollback
  <2>1. /\ I!Serves(I!Mutations) /\ I!Serves(I!Mutations \cup I!Queries) /\ Kept
    BY <1>7 DEF I!ServeRollback, I!Serves, I!Mutations, I!client, I!view
  <2>2. \/ \E status : /\ status # "ready" /\ I!Respond(I!Answer(status, 0, I!NoEntry))
                       /\ ibEffects' = ibEffects
        \/ \E status : \E a \in I!Matching :
              /\ I!Effect(I!Identity(a)) /\ I!Respond(I!Answer(status, 0, I!NoEntry))
    BY <1>7 DEF I!ServeRollback
  <2> QED
    BY <1>1, <1>6, <2>1, <2>2, Answered
<1>8. CASE I!ServeRemove
  <2>1. /\ I!Serves(I!Mutations) /\ I!Serves(I!Mutations \cup I!Queries) /\ Kept
    BY <1>8 DEF I!ServeRemove, I!Serves, I!Mutations, I!client, I!view
  <2>2. \/ \E status : /\ status # "ready" /\ I!Respond(I!Answer(status, 0, I!NoEntry))
                       /\ ibEffects' = ibEffects
        \/ \E status : \E a \in I!Matching :
              /\ I!Effect(I!Identity(a)) /\ I!Respond(I!Answer(status, 0, I!NoEntry))
    BY <1>8 DEF I!ServeRemove, I!Removed
  <2> QED
    BY <1>1, <1>6, <2>1, <2>2, Answered
<1> QED
  BY <1>2, <1>3, <1>4, <1>5, <1>7, <1>8 DEF I!Broker

\* What sending a request means: it is the last one, and the client waits for it.
LEMMA Sent ==
    ASSUME I!OneAtATime, NEW command, NEW index, NEW token, I!Send(command, index, token)
    PROVE  /\ ibNextId' \in Nat /\ ibWaiting'.id = ibNextId' - 1
           /\ ibWaiting'.command = command /\ ibWaiting'.token = token
           /\ ibRequests' = Append(ibRequests, ibWaiting')
<1>1. PICK request : request = [command |-> command, id |-> ibNextId, index |-> index, token |-> token]
  OBVIOUS
<1>2. request.command = command /\ request.id = ibNextId /\ request.token = token
  BY <1>1
<1>3. ibWaiting' = request /\ ibRequests' = Append(ibRequests, request) /\ ibNextId' = ibNextId + 1
  BY <1>1 DEF I!Send
<1>4. ibNextId' \in Nat /\ ibNextId' - 1 = ibNextId
  BY <1>3 DEF I!OneAtATime
<1> QED
  BY <1>2, <1>3, <1>4

\* A request is on its way, answers may be taken: nothing else changes on the way.
LEMMA SentOnTheWay ==
    ASSUME I!BrokerInv, UNCHANGED ibEffects, ibApproved \subseteq ibApproved',
           \/ ibRequests' = ibRequests
           \/ \E command, index, token :
                /\ I!Send(command, index, token)
                /\ command \in I!Mutations => token \in ibApproved',
           ibResponses' = ibResponses \/ (ibResponses # <<>> /\ ibResponses' = Tail(ibResponses))
    PROVE  I!OnTheWay'
<1>1. ASSUME NEW command, NEW index, NEW token, I!Send(command, index, token),
             command \in I!Mutations => token \in ibApproved'
      PROVE  \E r : ibRequests' = Append(ibRequests, r) /\ I!RequestApproved(r)'
  <2>1. /\ ibWaiting'.command = command /\ ibWaiting'.token = token
        /\ ibRequests' = Append(ibRequests, ibWaiting')
    BY <1>1, Sent DEF I!BrokerInv
  <2>2. PICK r : r = ibWaiting'
    OBVIOUS
  <2>3. I!RequestApproved(r)'
    BY <1>1, <2>1, <2>2 DEF I!RequestApproved
  <2> QED
    BY <2>1, <2>2, <2>3
<1>2. \/ ibRequests' = ibRequests
      \/ \E r : ibRequests' = Append(ibRequests, r) /\ I!RequestApproved(r)'
  BY <1>1
<1> QED
  BY <1>2, StillOnTheWay DEF I!BrokerInv

\* The installer gets an answer, or waits for it in vain.
LEMMA AnswerStep == I!BrokerInv /\ (I!Receive \/ I!ReceiveTimesOut) => I!BrokerInv'
<1> SUFFICES ASSUME I!BrokerInv, I!Receive \/ I!ReceiveTimesOut PROVE I!BrokerInv'
  OBVIOUS
<1>0. I!OnTheWay /\ I!OneAtATime
  BY DEF I!BrokerInv
<1>1. /\ UNCHANGED <<ibEffects, ibApproved, ibConfirming>> /\ ~I!Idle
      /\ ibResponses' = ibResponses \/ (ibResponses # <<>> /\ ibResponses' = Tail(ibResponses))
      /\ ~ibConfirming /\ ibResult # "success" /\ ibWaiting.id = ibNextId - 1
      /\ ibBusy => ibWaiting.command \in I!Mutations
  <2>1. UNCHANGED <<ibEffects, ibApproved, ibConfirming>> /\ ~I!Idle
    BY DEF I!Receive, I!ReceiveTimesOut, I!Finished, I!Scanned, I!ScanAnswered, I!view
  <2>2. ibResponses' = ibResponses \/ (ibResponses # <<>> /\ ibResponses' = Tail(ibResponses))
    <3>1. CASE I!Receive
      BY <3>1 DEF I!Receive
    <3>2. CASE I!ReceiveTimesOut
      <4>1. UNCHANGED ibResponses
        BY <3>2 DEF I!ReceiveTimesOut
      <4> QED
        BY <4>1
    <3> QED
      BY <3>1, <3>2
  <2> QED
    BY <1>0, <2>1, <2>2 DEF I!OneAtATime
<1>2. CASE ibWaiting.command \in I!Mutations
  <2>1. /\ UNCHANGED <<ibRequests, ibNextId>> /\ ibWaiting' = I!NoRequest /\ ~ibBusy'
        /\ ibResult' = "success" =>
             I!Receive /\ I!Succeeds(Head(ibResponses), ibWaiting) /\ ibResponses # <<>>
    BY <1>2 DEF I!Receive, I!ReceiveTimesOut, I!Finished
  <2>2. I!OnTheWay'
    BY <1>1, <2>1, SentOnTheWay
  <2>3. I!OneAtATime'
    BY <1>0, <1>1, <2>1 DEF I!OneAtATime, I!Idle, I!NoRequest
  <2>4. ASSUME ibResult' = "success" PROVE \E e \in ibEffects : e.id = ibNextId - 1
    <3>1. I!AnswerIsTrue(Head(ibResponses))
      BY <1>0, <2>1, <2>4, TakenFrom DEF I!OnTheWay
    <3> QED
      BY <1>1, <1>2, <2>1, <2>4, <3>1 DEF I!AnswerIsTrue, I!Succeeds, I!Answers
  <2> QED
    BY <1>1, <2>1, <2>2, <2>3, <2>4 DEF I!BrokerInv, I!SuccessMeansDone
<1>3. CASE ibWaiting.command \notin I!Mutations
  <2>1. ~ibBusy
    BY <1>1, <1>3
  <2>2. /\ UNCHANGED <<ibBusy, ibResult>>
        /\ \/ UNCHANGED <<ibRequests, ibNextId>> /\ ibWaiting' = I!NoRequest
           \/ \E index : I!Send(I!FetchCommand(ibMode), index, <<>>)
    BY <1>3 DEF I!Receive, I!ReceiveTimesOut, I!Scanned, I!ScanAnswered, I!view
  <2>3. I!FetchCommand(ibMode) \notin I!Mutations
    BY DEF I!FetchCommand, I!Mutations
  <2>4. I!OnTheWay'
    BY <1>1, <2>2, <2>3, SentOnTheWay
  <2>5. ibNextId' \in Nat /\ (I!Idle' \/ ibWaiting'.id = ibNextId' - 1)
    BY <1>0, <2>2, Sent DEF I!OneAtATime, I!Idle, I!NoRequest
  <2>6. I!OneAtATime'
    BY <1>0, <1>1, <2>1, <2>2, <2>5 DEF I!OneAtATime
  <2>7. I!SuccessMeansDone'
    BY <1>1, <2>2 DEF I!SuccessMeansDone
  <2> QED
    BY <2>4, <2>6, <2>7 DEF I!BrokerInv
<1> QED
  BY <1>2, <1>3

\* The user and the untrusted installer: what is sent to the broker was approved, and
\* nothing else is begun before it is answered.
LEMMA ClientStep ==
    I!BrokerInv /\ (I!User \/ I!execute_operation \/ I!Replay) => I!BrokerInv'
<1> SUFFICES ASSUME I!BrokerInv, I!User \/ I!execute_operation \/ I!Replay PROVE I!BrokerInv'
  OBVIOUS
<1>0. I!OnTheWay /\ I!OneAtATime /\ I!SuccessMeansDone
  BY DEF I!BrokerInv
<1>1. CASE I!SwitchMode \/ I!Acknowledge
  <2>1. /\ I!Event /\ UNCHANGED <<ibConfirming, ibBusy, ibEffects, ibApproved, ibResponses>>
        /\ \/ /\ \E m : I!Send(I!ScanCommand(m), 0, <<>>)
              /\ ibResult' = "none"
           \/ UNCHANGED <<ibRequests, ibNextId, ibWaiting, ibResult>>
    BY <1>1 DEF I!SwitchMode, I!Acknowledge, I!Rescan, I!client
  <2>2. \A m : I!ScanCommand(m) \notin I!Mutations
    BY DEF I!ScanCommand, I!Mutations
  <2>3. I!OnTheWay'
    BY <2>1, <2>2, SentOnTheWay
  <2>4. ibNextId' \in Nat /\ (I!Idle' \/ ibWaiting'.id = ibNextId' - 1)
    BY <1>0, <2>1, Sent DEF I!OneAtATime, I!Event, I!Idle
  <2>5. I!OneAtATime'
    <3>1. ~ibBusy' /\ ~ibConfirming' /\ (ibResult' = "success" => I!Idle')
      BY <2>1 DEF I!Event, I!Idle
    <3> QED
      BY <2>4, <3>1 DEF I!OneAtATime
  <2>6. I!SuccessMeansDone'
    BY <1>0, <2>1 DEF I!SuccessMeansDone
  <2> QED
    BY <2>3, <2>5, <2>6 DEF I!BrokerInv
<1>2. CASE I!BeginInstall \/ I!Confirm
  <2>1. /\ UNCHANGED <<ibRequests, ibResponses, ibWaiting, ibNextId, ibList, ibSelected, ibResult,
                       ibEffects>>
        /\ I!Idle /\ ibResult # "success" /\ ~ibConfirming'
        /\ ibApproved' = ibApproved \cup {I!Entry.token}
    <3>1. CASE I!BeginInstall
      BY <3>1 DEF I!BeginInstall, I!Event, I!socket, I!client
    <3>2. CASE I!Confirm
      BY <1>0, <3>2 DEF I!Confirm, I!OneAtATime, I!socket, I!client
    <3> QED
      BY <1>2, <3>1, <3>2
  <2>2. I!OnTheWay'
    BY <2>1, SentOnTheWay
  <2>3. I!Entry.token \in ibApproved' /\ I!Entry' = I!Entry /\ I!Idle'
    BY <2>1 DEF I!Entry, I!Idle
  <2>4. I!OneAtATime'
    BY <1>0, <2>1, <2>3 DEF I!OneAtATime, I!Idle
  <2>5. I!SuccessMeansDone'
    BY <2>1 DEF I!SuccessMeansDone
  <2> QED
    BY <2>2, <2>4, <2>5 DEF I!BrokerInv
<1>3. CASE I!BeginLifecycle \/ I!Cancel \/ I!NextEntry
  <2>1. /\ UNCHANGED <<ibRequests, ibResponses, ibWaiting, ibNextId, ibBusy, ibResult, ibEffects,
                       ibApproved>>
        /\ I!Idle /\ ~ibBusy /\ (ibConfirming' => ibResult # "success")
    <3>1. CASE I!BeginLifecycle
      BY <3>1 DEF I!BeginLifecycle, I!Event, I!socket, I!client
    <3>2. CASE I!Cancel
      BY <1>0, <3>2 DEF I!Cancel, I!OneAtATime, I!socket, I!client
    <3>3. CASE I!NextEntry
      BY <1>0, <3>3 DEF I!NextEntry, I!Event, I!OneAtATime, I!socket, I!client
    <3> QED
      BY <1>3, <3>1, <3>2, <3>3
  <2>2. I!OnTheWay'
    BY <2>1, SentOnTheWay
  <2>3. I!OneAtATime'
    BY <1>0, <2>1 DEF I!OneAtATime, I!Idle
  <2>4. I!SuccessMeansDone'
    BY <1>0, <2>1 DEF I!SuccessMeansDone
  <2> QED
    BY <2>2, <2>3, <2>4 DEF I!BrokerInv
<1>4. CASE I!execute_operation
  <2>1. /\ UNCHANGED <<ibResponses, ibList, ibSelected, ibConfirming, ibBusy, ibResult, ibEffects,
                       ibApproved>>
        /\ ibBusy /\ ibPending \in I!Mutations
        /\ I!Send(ibPending, 0, I!Entry.token)
    BY <1>4 DEF I!execute_operation, I!view
  <2>2. I!Entry.token \in ibApproved /\ I!Entry' = I!Entry
    BY <1>0, <2>1 DEF I!OneAtATime, I!Entry
  <2>3. I!OnTheWay'
    BY <2>1, <2>2, SentOnTheWay
  <2>4. /\ ibNextId' \in Nat /\ ibWaiting'.id = ibNextId' - 1
        /\ ibWaiting'.command \in I!Mutations
    BY <1>0, <2>1, Sent
  <2>5. I!OneAtATime'
    BY <1>0, <2>1, <2>2, <2>4 DEF I!OneAtATime
  <2>6. I!SuccessMeansDone'
    BY <1>0, <2>1 DEF I!SuccessMeansDone, I!OneAtATime
  <2> QED
    BY <2>3, <2>5, <2>6 DEF I!BrokerInv
<1>5. CASE I!Replay
  <2>1. /\ UNCHANGED <<ibResponses, ibConfirming, ibBusy, ibResult, ibEffects, ibApproved>>
        /\ ~ibBusy /\ ~ibConfirming /\ ibResult = "none"
    BY <1>5 DEF I!Replay, I!view
  <2>2. PICK e \in ibEffects, c \in {"rollback", "remove"} : I!Send(c, 0, e.token)
    BY <1>5 DEF I!Replay
  <2>3. e.token \in ibApproved
    BY <1>0 DEF I!OnTheWay
  <2>4. I!OnTheWay'
    BY <2>1, <2>2, <2>3, SentOnTheWay
  <2>5. ibNextId' \in Nat /\ ibWaiting'.id = ibNextId' - 1
    BY <1>0, <2>2, Sent
  <2>6. I!OneAtATime'
    BY <2>1, <2>5 DEF I!OneAtATime
  <2>7. I!SuccessMeansDone'
    BY <2>1 DEF I!SuccessMeansDone
  <2> QED
    BY <2>4, <2>6, <2>7 DEF I!BrokerInv
<1> QED
  BY <1>1, <1>2, <1>3, <1>4, <1>5 DEF I!User

\* What happens around the installer, and the installer started again.
LEMMA WorldStep ==
    I!BrokerInv /\ (I!InboxChanges \/ I!StateDamaged \/ I!Restart \/ UNCHANGED I!vars)
      => I!BrokerInv'
<1> SUFFICES ASSUME I!BrokerInv,
                    I!InboxChanges \/ I!StateDamaged \/ I!Restart \/ UNCHANGED I!vars
             PROVE  I!BrokerInv'
  OBVIOUS
<1>0. I!OnTheWay /\ I!OneAtATime /\ I!SuccessMeansDone
  BY DEF I!BrokerInv
<1>1. CASE I!InboxChanges \/ I!StateDamaged \/ UNCHANGED I!vars
  <2>1. UNCHANGED <<ibRequests, ibResponses, ibWaiting, ibNextId, ibList, ibSelected, ibConfirming,
                    ibBusy, ibResult, ibEffects, ibApproved>>
    BY <1>1 DEF I!InboxChanges, I!StateDamaged, I!vars, I!socket, I!client, I!view
  <2>2. I!OnTheWay'
    BY <2>1, SentOnTheWay
  <2>3. I!OneAtATime'
    BY <1>0, <2>1 DEF I!OneAtATime, I!Idle, I!Entry
  <2>4. I!SuccessMeansDone'
    BY <1>0, <2>1 DEF I!SuccessMeansDone
  <2> QED
    BY <2>2, <2>3, <2>4 DEF I!BrokerInv
<1>2. CASE I!Restart
  <2>1. PICK r : r = [I!NoRequest EXCEPT !.command = "scan", !.id = ibNextId]
    OBVIOUS
  <2>2. r.command = "scan" /\ r.id = ibNextId
    BY <2>1 DEF I!NoRequest
  <2>3. /\ ibRequests' = <<r>> /\ ibResponses' = <<>> /\ ibWaiting' = r
        /\ ibNextId' = ibNextId + 1 /\ ~ibConfirming' /\ ~ibBusy' /\ ibResult' = "none"
        /\ UNCHANGED <<ibEffects, ibApproved>>
    BY <1>2, <2>1 DEF I!Restart
  <2>4. I!IsQueue(<<r>>) /\ I!IsQueue(<<>>)
    BY SingleAndNone
  <2>5. I!OnTheWay'
    BY <1>0, <2>2, <2>3, <2>4 DEF I!OnTheWay, I!RequestApproved, I!Mutations
  <2>6. ibNextId' \in Nat /\ ibWaiting'.id = ibNextId' - 1
    BY <1>0, <2>2, <2>3 DEF I!OneAtATime
  <2>7. I!OneAtATime'
    BY <2>3, <2>6 DEF I!OneAtATime
  <2>8. I!SuccessMeansDone'
    BY <2>3 DEF I!SuccessMeansDone
  <2> QED
    BY <2>5, <2>7, <2>8 DEF I!BrokerInv
<1> QED
  BY <1>1, <1>2

\* What holds when the platform is started.
LEMMA BrokerStart == I!Init => I!BrokerInv
<1> SUFFICES ASSUME I!Init PROVE I!BrokerInv
  OBVIOUS
<1>1. PICK r : r = [I!NoRequest EXCEPT !.command = "scan", !.id = 1]
  OBVIOUS
<1>2. r.command = "scan" /\ r.id = 1
  BY <1>1 DEF I!NoRequest
<1>3. /\ ibRequests = <<r>> /\ ibResponses = <<>> /\ ibWaiting = r /\ ibNextId = 2
      /\ ~ibConfirming /\ ~ibBusy /\ ibResult = "none" /\ ibEffects = {}
  BY <1>1 DEF I!Init
<1>4. I!OnTheWay
  BY <1>2, <1>3, SingleAndNone DEF I!OnTheWay, I!RequestApproved, I!Mutations
<1>5. I!OneAtATime
  BY <1>2, <1>3 DEF I!OneAtATime
<1>6. I!SuccessMeansDone
  BY <1>3 DEF I!SuccessMeansDone
<1> QED
  BY <1>4, <1>5, <1>6 DEF I!BrokerInv

\* In every state the socket carries approved mutations and true answers, and the
\* installer waits for no more than one of them.
LEMMA BrokerInvariance == I!Spec => []I!BrokerInv
<1>1. I!BrokerInv /\ [I!Next]_(I!vars) => I!BrokerInv'
  BY BrokerStep, AnswerStep, ClientStep, WorldStep DEF I!Next
<1> QED
  BY <1>1, BrokerStart, PTL DEF I!Spec

\* What the broker installs, rolls back or removes is what the user was shown and
\* approved (handle_installer_request: the digest, installed_snapshot_token).
THEOREM BrokerDoesWhatWasApproved == I!Spec => []ApprovedByUser
<1>1. I!BrokerInv => ApprovedByUser
  BY DEF I!BrokerInv, I!OnTheWay, ApprovedByUser, I!ApprovedByUser
<1> QED
  BY <1>1, BrokerInvariance, PTL

\* The installer reports done only what was carried out (InstallerClient::mutate,
\* finish_operation).
THEOREM DoneIsTrue == I!Spec => []SuccessMeansDone
<1>1. I!BrokerInv => SuccessMeansDone
  BY DEF I!BrokerInv, SuccessMeansDone
<1> QED
  BY <1>1, BrokerInvariance, PTL

\* The installer's module counts as everybody does.
LEMMA SameFinite ==
    ASSUME NEW S
    PROVE  /\ I!Cardinality(S) = Cardinality(S)
           /\ I!IsFiniteSet(S) <=> IsFiniteSet(S)
BY DEF I!Cardinality, Cardinality, I!IsFiniteSet, IsFiniteSet

\* One release more, or none left: what there is can still be counted.
LEMMA StillFinite ==
    ASSUME NEW S, I!IsFiniteSet(S), NEW c
    PROVE  I!IsFiniteSet(S \cup {c}) /\ I!IsFiniteSet({}) /\ I!Cardinality(S) \in Nat
<1>1. IsFiniteSet(S \cup {c}) /\ IsFiniteSet({}) /\ Cardinality(S) \in Nat
  BY SameFinite, FS_AddElement, FS_EmptySet, FS_CardinalityType
<1> QED
  BY <1>1, SameFinite

\* What the broker's answer changes of the socket.
LEMMA AnswerQueued ==
    ASSUME I!IsQueue(ibResponses), ibRequests # <<>>, NEW answer, I!Respond(answer)
    PROVE  I!IsQueue(ibResponses)'
<1>1. CASE ibResponses' = ibResponses
  BY <1>1
<1>2. CASE ibResponses' = Append(ibResponses, answer)
  <2>1. ASSUME NEW t, t = Append(ibResponses, answer) PROVE I!IsQueue(t)
    BY <2>1, AddedTo
  <2> QED
    BY <1>2, <2>1
<1> QED
  BY <1>1, <1>2 DEF I!Respond, I!socket

\* The broker keeps DebrisInv.
LEMMA DebrisServed == I!DebrisInv /\ I!Broker => I!DebrisInv'
<1> SUFFICES ASSUME I!DebrisInv, I!Broker PROVE I!DebrisInv'
  OBVIOUS
<1>0. /\ ibFaults \in Nat /\ ibDebris \in Nat /\ DOMAIN ibPayload = InstallerApps
      /\ \A a \in InstallerApps : I!IsFiniteSet(ibPayload[a])
      /\ I!IsQueue(ibResponses)
  BY DEF I!DebrisInv
<1>1. InstallerNodes \in Nat \ {0} /\ InstallerNodeLimit \in Nat \ {0}
  BY InstallerInstance DEF I!InstallerAssumption
<1>2. /\ ibRequests # <<>> /\ \E answer : I!Respond(answer)
      /\ \/ ibFaults' = ibFaults
         \/ ibFaults' = ibFaults + 1
  <2>1. CASE I!ServeUnavailable
    BY <2>1 DEF I!ServeUnavailable, I!Serves, I!Fault
  <2>2. CASE I!ServeInbox
    BY <2>2 DEF I!ServeInbox, I!Serves
  <2>3. CASE I!ServeInstall
    BY <2>3 DEF I!ServeInstall, I!Serves, I!Fault
  <2>4. CASE I!ServeDebris
    BY <2>4 DEF I!ServeDebris, I!Serves
  <2>5. CASE I!ServeInstalled
    BY <2>5 DEF I!ServeInstalled, I!Serves
  <2>6. CASE I!ServeRollback
    BY <2>6 DEF I!ServeRollback, I!Serves, I!Fault
  <2>7. CASE I!ServeRemove
    BY <2>7 DEF I!ServeRemove, I!Serves, I!Fault
  <2> QED
    BY <2>1, <2>2, <2>3, <2>4, <2>5, <2>6, <2>7 DEF I!Broker
<1>3. I!IsQueue(ibResponses)' /\ ibFaults' \in Nat
  BY <1>0, <1>2, AnswerQueued
<1>4. ASSUME NEW nodes \in Nat, NEW left,
             left \in IF nodes <= InstallerNodeLimit THEN {0}
                      ELSE (nodes - InstallerNodeLimit)..(nodes - 1)
      PROVE  left \in Nat
  <2>1. CASE nodes <= InstallerNodeLimit
    BY <1>4, <2>1
  <2>2. CASE ~(nodes <= InstallerNodeLimit)
    <3>1. left \in (nodes - InstallerNodeLimit)..(nodes - 1)
      BY <1>4, <2>2
    <3> QED
      BY <1>1, <2>2, <3>1
  <2> QED
    BY <2>1, <2>2
<1>5. \A a \in I!Matching : a \in InstallerApps
  BY DEF I!Matching, I!installed_application_ids
<1>6. ASSUME NEW a \in InstallerApps
      PROVE  /\ InstallerNodes * I!Cardinality(ibPayload[a]) \in Nat
             /\ [ibPayload EXCEPT ![a] = {}][a] = {}
  <2>1. I!Cardinality(ibPayload[a]) \in Nat
    BY <1>0, StillFinite
  <2> QED
    BY <1>0, <1>1, <2>1
<1>7. ibDebris' \in Nat
  <2>1. CASE UNCHANGED ibDebris \/ ibDebris' = 0
    BY <1>0, <2>1
  <2>2. CASE I!ServeDebris
    BY <1>0, <1>4, <2>2 DEF I!ServeDebris, I!cleanup_application_tombstones
  <2>3. CASE I!ServeRemove
    <3>1. \/ ibDebris' = 0
          \/ \E a \in I!Matching : I!Removed(a)
          \/ \E a \in I!Matching : ibDebris' = InstallerNodes * I!Cardinality(ibPayload[a])
      BY <2>3 DEF I!ServeRemove
    <3>2. ASSUME NEW a \in I!Matching, I!Removed(a) PROVE ibDebris' \in Nat
      <4> DEFINE nodes == InstallerNodes * I!Cardinality(ibPayload[a])
      <4>1. nodes \in Nat
        BY <1>5, <1>6
      <4>2. ibDebris' \in IF nodes <= InstallerNodeLimit THEN {0}
                          ELSE (nodes - InstallerNodeLimit)..(nodes - 1)
        BY <3>2 DEF I!Removed
      <4> QED
        BY <1>4, <4>1, <4>2
    <3> QED
      BY <1>5, <1>6, <3>1, <3>2
  <2> QED
    BY <2>1, <2>2, <2>3 DEF I!Broker, I!ServeUnavailable, I!ServeInbox, I!ServeInstall,
       I!ServeInstalled, I!ServeRollback, I!store
<1>8. DOMAIN ibPayload' = InstallerApps /\ \A a \in InstallerApps : I!IsFiniteSet(ibPayload'[a])
  <2>1. CASE UNCHANGED ibPayload
    BY <1>0, <2>1
  <2>2. ASSUME NEW a, NEW S, ibPayload' = [ibPayload EXCEPT ![a] = S], I!IsFiniteSet(S)
        PROVE  <1>8
    BY <1>0, <2>2
  <2>3. CASE I!ServeInstall
    <3>1. \/ UNCHANGED ibPayload
          \/ \E f \in ibInbox : /\ I!Candidate(f).installable
                                /\ ibPayload' = [ibPayload EXCEPT ![f.app] = @ \cup {f.package.counter}]
      BY <2>3 DEF I!ServeInstall, I!store
    <3>2. ASSUME NEW f \in ibInbox, I!Candidate(f).installable,
                 ibPayload' = [ibPayload EXCEPT ![f.app] = @ \cup {f.package.counter}]
          PROVE  <1>8
      <4>1. f.app \in InstallerApps
        BY <3>2 DEF I!Candidate
      <4>2. I!IsFiniteSet(ibPayload[f.app] \cup {f.package.counter})
        BY <1>0, <4>1, StillFinite
      <4> QED
        BY <2>2, <3>2, <4>2
    <3> QED
      BY <2>1, <3>1, <3>2
  <2>4. CASE I!ServeRemove
    <3>1. \/ UNCHANGED ibPayload
          \/ \E a \in I!Matching : ibPayload' = [ibPayload EXCEPT ![a] = {}]
      BY <2>4 DEF I!ServeRemove, I!Removed
    <3>2. I!IsFiniteSet({})
      BY SameFinite, FS_EmptySet
    <3> QED
      BY <2>1, <2>2, <3>1, <3>2
  <2> QED
    BY <2>1, <2>3, <2>4 DEF I!Broker, I!ServeUnavailable, I!ServeInbox, I!ServeDebris,
       I!ServeInstalled, I!ServeRollback, I!store
<1> QED
  BY <1>3, <1>7, <1>8 DEF I!DebrisInv

\* Everybody else leaves what is on the disk alone, and answers nothing.
LEMMA DebrisElsewhere ==
    ASSUME I!DebrisInv, [I!Next]_(I!vars), ~I!Broker
    PROVE  I!DebrisInv' /\ ~(Len(ibResponses') > Len(ibResponses))
<1>0. /\ ibFaults \in Nat /\ ibDebris \in Nat /\ DOMAIN ibPayload = InstallerApps
      /\ \A a \in InstallerApps : I!IsFiniteSet(ibPayload[a])
      /\ I!IsQueue(ibResponses)
  BY DEF I!DebrisInv
<1>1. UNCHANGED <<ibDebris, ibPayload>> /\ (ibFaults' = ibFaults \/ ibFaults' = ibFaults + 1)
      /\ \/ ibResponses' = ibResponses
         \/ ibResponses # <<>> /\ ibResponses' = Tail(ibResponses)
         \/ ibResponses' = <<>>
  <2>1. CASE I!User
    BY <2>1 DEF I!User, I!SwitchMode, I!Acknowledge, I!BeginInstall, I!BeginLifecycle, I!Confirm,
       I!Cancel, I!NextEntry, I!store, I!socket
  <2>2. CASE I!execute_operation \/ I!Replay \/ I!ReceiveTimesOut
    BY <2>2 DEF I!execute_operation, I!Replay, I!ReceiveTimesOut, I!Fault, I!store
  <2>3. CASE I!Receive
    BY <2>3 DEF I!Receive, I!store
  <2>4. CASE I!InboxChanges \/ I!StateDamaged \/ I!Restart \/ UNCHANGED I!vars
    BY <2>4 DEF I!InboxChanges, I!StateDamaged, I!Restart, I!Fault, I!vars, I!store, I!socket
  <2> QED
    BY <2>1, <2>2, <2>3, <2>4 DEF I!Next
<1>2. I!IsQueue(ibResponses)' /\ ~(Len(ibResponses') > Len(ibResponses))
  <2>1. Len(ibResponses) \in Nat
    BY <1>0, LenProperties DEF I!IsQueue
  <2>2. CASE ibResponses' = ibResponses
    BY <1>0, <2>1, <2>2
  <2>3. CASE ibResponses # <<>> /\ ibResponses' = Tail(ibResponses)
    <3>1. I!IsQueue(ibResponses)'
      BY <1>0, <2>3, TakenFrom
    <3>2. Len(Tail(ibResponses)) = Len(ibResponses) - 1
      BY <1>0, <2>3, TailOf DEF I!IsQueue
    <3> QED
      BY <2>1, <2>3, <3>1, <3>2
  <2>4. CASE ibResponses' = <<>>
    <3>1. I!IsQueue(ibResponses)'
      BY <2>4, SingleAndNone
    <3>2. Len(ibResponses') = 0
      BY <2>4
    <3> QED
      BY <2>1, <3>1, <3>2
  <2> QED
    BY <1>1, <2>2, <2>3, <2>4
<1> QED
  BY <1>0, <1>1, <1>2 DEF I!DebrisInv

\* What is on the disk can be counted, in every state.
LEMMA DebrisCounts == I!Spec => []I!DebrisInv
<1>1. I!Init => I!DebrisInv
  <2> SUFFICES ASSUME I!Init PROVE I!DebrisInv
    OBVIOUS
  <2>1. /\ ibFaults = 0 /\ ibDebris = 0 /\ ibResponses = <<>>
        /\ ibPayload = [a \in InstallerApps |->
                          {ibPolicy[a].current, ibPolicy[a].previous} \ {0}]
    BY DEF I!Init
  <2>2. ASSUME NEW x, NEW y PROVE I!IsFiniteSet({x, y} \ {0})
    <3>1. IsFiniteSet({x})
      BY FS_Singleton
    <3>2. IsFiniteSet({x} \cup {y})
      BY <3>1, FS_AddElement
    <3>3. {x, y} \ {0} \subseteq {x} \cup {y}
      OBVIOUS
    <3>4. IsFiniteSet({x, y} \ {0})
      BY <3>2, <3>3, FS_Subset
    <3> QED
      BY <3>4, SameFinite
  <2> QED
    BY <2>1, <2>2, SingleAndNone DEF I!DebrisInv
<1>2. I!DebrisInv /\ [I!Next]_(I!vars) => I!DebrisInv'
  BY DebrisServed, DebrisElsewhere
<1> QED
  BY <1>1, <1>2, PTL DEF I!Spec

\* Every request that is answered only with the refusal for unfinished removals has
\* brought them nearer to their end (cleanup_application_tombstones).
THEOREM RemovalsComeToAnEnd == I!Spec => CleanupProgresses
<1>1. I!DebrisInv /\ [I!Next]_(I!vars) =>
        [(/\ I!Serves({"installed_scan", "installed_candidate", "rollback", "remove"})
          /\ ibDebris > InstallerNodeLimit /\ Len(ibResponses') > Len(ibResponses)
          /\ ibFaults' = ibFaults)
           => ibDebris' < ibDebris]_(I!vars)
  <2> SUFFICES ASSUME I!DebrisInv, [I!Next]_(I!vars),
                      I!Serves({"installed_scan", "installed_candidate", "rollback", "remove"}),
                      ibDebris > InstallerNodeLimit, Len(ibResponses') > Len(ibResponses),
                      ibFaults' = ibFaults
               PROVE  ibDebris' < ibDebris
    OBVIOUS
  <2>0. ibFaults \in Nat /\ ibDebris \in Nat /\ InstallerNodeLimit \in Nat \ {0}
    BY InstallerInstance DEF I!InstallerAssumption, I!DebrisInv
  <2>1. I!Broker
    BY DebrisElsewhere
  <2>2. ibDebris > InstallerNodeLimit /\ ~(ibDebris <= InstallerNodeLimit)
    BY <2>0
  <2>3. ~I!ServeUnavailable
    BY <2>0 DEF I!ServeUnavailable, I!Fault
  <2>4. ~I!ServeInbox /\ ~I!ServeInstall
    BY DEF I!ServeInbox, I!ServeInstall, I!Serves
  <2>5. ~I!ServeInstalled /\ ~I!ServeRollback /\ ~I!ServeRemove
    BY <2>2 DEF I!ServeInstalled, I!ServeRollback, I!ServeRemove
  <2>6. ibDebris' \in (ibDebris - InstallerNodeLimit)..(ibDebris - 1)
    BY <2>1, <2>2, <2>3, <2>4, <2>5 DEF I!Broker, I!ServeDebris, I!cleanup_application_tombstones
  <2> QED
    BY <2>0, <2>6
<1> QED
  BY <1>1, DebrisCounts, PTL DEF I!Spec, CleanupProgresses, I!CleanupProgresses

-----------------------------------------------------------------------------
(* Packages (PackageFormat).                                               *)

\* Of the checks that fail there is a first one.
LEMMA FirstFailure ==
    ASSUME NEW failed \in SUBSET (1..10), failed # {}
    PROVE  \E i \in failed : \A j \in failed : i <= j
<1> SUFFICES ASSUME \A i \in failed : \E j \in failed : j < i
             PROVE  FALSE
  OBVIOUS
<1>1. 1 \notin failed /\ 2 \notin failed /\ 3 \notin failed
  OBVIOUS
<1>2. 4 \notin failed /\ 5 \notin failed /\ 6 \notin failed
  BY <1>1
<1>3. 7 \notin failed /\ 8 \notin failed /\ 9 \notin failed /\ 10 \notin failed
  BY <1>1, <1>2
<1>4. PICK i \in failed : i \in 1..10
  OBVIOUS
<1>5. i \in 1..3 \/ i \in 4..6 \/ i \in 7..10
  BY <1>4
<1> QED
  BY <1>1, <1>2, <1>3, <1>4, <1>5

\* No check reports that a package is good, so one that is called verified passed
\* them all, and one that passes them all is called so.
LEMMA VerifiedPassesAll ==
    ASSUME NEW package
    PROVE  P!verify_package(package) = "verified"
             <=> \A i \in 1..10 : P!Checks(package)[i][1]
<1> DEFINE checks == P!Checks(package)
<1> DEFINE failed == {i \in DOMAIN checks : ~checks[i][1]}
<1>1. DOMAIN checks = 1..10
  BY DEF P!Checks
<1>2. \A i \in 1..10 : checks[i][2] # "verified"
  <2>1. ASSUME NEW i \in 1..5 PROVE checks[i][2] # "verified"
    BY <2>1 DEF P!Checks
  <2>2. ASSUME NEW i \in 6..10 PROVE checks[i][2] # "verified"
    BY <2>2 DEF P!Checks
  <2> QED
    BY <2>1, <2>2
<1>3. ASSUME P!verify_package(package) = "verified" PROVE failed = {}
  <2>1. ASSUME failed # {} PROVE FALSE
    <3>1. failed \in SUBSET (1..10)
      BY <1>1
    <3>2. \E i \in failed : \A j \in failed : i <= j
      BY <2>1, <3>1, FirstFailure
    <3>3. (CHOOSE i \in failed : \A j \in failed : i <= j) \in 1..10
      BY <3>1, <3>2
    <3>4. P!verify_package(package) = checks[CHOOSE i \in failed : \A j \in failed : i <= j][2]
      BY <2>1 DEF P!verify_package
    <3> QED
      BY <1>2, <1>3, <3>3, <3>4
  <2> QED
    BY <2>1
<1>4. ASSUME failed = {} PROVE P!verify_package(package) = "verified"
  BY <1>4 DEF P!verify_package
<1>5. failed = {} <=> \A i \in 1..10 : checks[i][1]
  BY <1>1
<1> HIDE DEF failed
<1> QED
  BY <1>3, <1>4, <1>5

\* The signature of a package that is called verified is the official key's over it.
LEMMA VerifiedIsSigned ==
    ASSUME NEW package, P!verify_package(package) = "verified"
    PROVE  /\ package.signature.key = PackageOfficial
           /\ package.signature.over = P!Unsigned(package)
<1>1. P!Checks(package)[9][1] /\ P!Checks(package)[10][1]
  BY VerifiedPassesAll
<1> QED
  BY <1>1 DEF P!Checks

\* Some more signatures, or none: what was genuine is.
LEMMA StillGenuine ==
    ASSUME pfSignings \subseteq pfSignings', NEW package, P!Genuine(package)
    PROVE  P!Genuine(package)'
BY DEF P!Genuine, P!Made

\* Damage changes one part of a package, or takes it from another one.
LEMMA DamagedIsGenuine ==
    ASSUME NEW package, NEW other, P!Genuine(package), P!Genuine(other),
           package # P!NoPackage, other # P!NoPackage, NEW damaged \in P!Damaged(package, other)
    PROVE  P!Genuine(damaged)
<1>1. P!Fields \subseteq DOMAIN package /\ P!Made(package.signature) /\ P!Made(other.signature)
  BY DEF P!Genuine
<1>2. \/ damaged.signature = package.signature
      \/ damaged.signature = other.signature
  BY <1>1 DEF P!Damaged, P!Fields
<1>3. DOMAIN damaged = DOMAIN package
  BY DEF P!Damaged
<1> QED
  BY <1>1, <1>2, <1>3 DEF P!Genuine

\* Every action leaves what is built, signed or delivered genuine.
LEMMA PackageStep == P!PackageInv /\ [P!Next]_(P!vars) => P!PackageInv'
<1> SUFFICES ASSUME P!PackageInv, [P!Next]_(P!vars) PROVE P!PackageInv'
  OBVIOUS
<1>0. /\ DOMAIN pfBuilt = PackageProjects /\ DOMAIN pfSigned = PackageProjects
      /\ \A p \in PackageProjects : P!Genuine(pfBuilt[p]) /\ P!Genuine(pfSigned[p])
      /\ P!Genuine(pfDelivered)
  BY DEF P!PackageInv
<1>1. ASSUME NEW p \in PackageProjects, P!Build(p) PROVE P!PackageInv'
  <2>1. PICK package : package =
            [format |-> "LVAPP001", development |-> TRUE, layout |-> TRUE,
             manifest |-> P!Manifest(p, P!ZeroKey), table |-> p.contents,
             payload |-> p.contents, signature |-> P!NoSignature]
    OBVIOUS
  <2>2. P!Genuine(package)
    <3>1. DOMAIN package = P!Fields /\ package.signature = P!NoSignature
      BY <2>1 DEF P!Fields
    <3> QED
      BY <3>1 DEF P!Genuine, P!Made
  <2>3. /\ pfBuilt' = [pfBuilt EXCEPT ![p] = package]
        /\ UNCHANGED <<pfSigned, pfSignings, pfDelivered, pfVerdict>>
    BY <1>1, <2>1 DEF P!Build
  <2>4. \A q : P!Genuine(q) => P!Genuine(q)'
    BY <2>3, StillGenuine
  <2>5. /\ DOMAIN pfBuilt' = PackageProjects
        /\ \A q \in PackageProjects : pfBuilt'[q] = IF q = p THEN package ELSE pfBuilt[q]
    BY <1>0, <2>3
  <2> QED
    BY <1>0, <2>2, <2>3, <2>4, <2>5 DEF P!PackageInv
<1>2. ASSUME NEW p \in PackageProjects, NEW k \in PackageKeys, P!Sign(p, k) PROVE P!PackageInv'
  <2>1. PICK package : package =
            [pfBuilt[p] EXCEPT !.development = FALSE, !.manifest = P!Manifest(p, k)]
    OBVIOUS
  <2>2. PICK envelope : envelope = [key |-> k, over |-> P!Unsigned(package)]
    OBVIOUS
  <2>3. PICK new : new = [package EXCEPT !.signature = envelope]
    OBVIOUS
  <2>4. /\ pfBuilt[p] # P!NoPackage
        /\ pfSigned' = [pfSigned EXCEPT ![p] = new]
        /\ pfSignings' = pfSignings \cup
             {<<k, FALSE, P!Manifest(p, k), package.table, package.payload>>}
        /\ UNCHANGED <<pfBuilt, pfDelivered, pfVerdict>>
    BY <1>2, <2>1, <2>2, <2>3 DEF P!Sign
  <2>5. P!Genuine(new)'
    <3>1. P!Fields \subseteq DOMAIN pfBuilt[p]
      BY <1>0, <2>4 DEF P!Genuine
    <3>2. /\ DOMAIN package = DOMAIN pfBuilt[p] /\ DOMAIN new = DOMAIN package
          /\ package.development = FALSE /\ package.manifest = P!Manifest(p, k)
          /\ new.signature = envelope
      BY <2>1, <2>3, <3>1 DEF P!Fields
    <3>3. /\ envelope.key = k
          /\ envelope.over = <<FALSE, P!Manifest(p, k), package.table, package.payload>>
      <4>1. P!Unsigned(package) = <<FALSE, P!Manifest(p, k), package.table, package.payload>>
        BY <3>2 DEF P!Unsigned
      <4>2. envelope.key = k /\ envelope.over = P!Unsigned(package)
        BY <2>2
      <4> QED
        BY <4>1, <4>2
    <3>4. <<envelope.key, envelope.over[1], envelope.over[2], envelope.over[3], envelope.over[4]>>
            \in pfSignings'
      BY <2>4, <3>3
    <3> QED
      BY <3>1, <3>2, <3>4 DEF P!Genuine, P!Made
  <2>6. \A q : P!Genuine(q) => P!Genuine(q)'
    BY <2>4, StillGenuine
  <2>7. /\ DOMAIN pfSigned' = PackageProjects
        /\ \A q \in PackageProjects : pfSigned'[q] = IF q = p THEN new ELSE pfSigned[q]
    BY <1>0, <2>4
  <2> QED
    BY <1>0, <2>4, <2>5, <2>6, <2>7 DEF P!PackageInv
<1>3. ASSUME NEW p \in PackageProjects, P!Deliver(p) \/ P!Damage(p) PROVE P!PackageInv'
  <2>1. /\ UNCHANGED <<pfBuilt, pfSigned, pfSignings, pfVerdict>>
        /\ \/ pfDelivered = P!NoPackage /\ pfDelivered' \in {pfBuilt[p], pfSigned[p]}
           \/ /\ pfDelivered # P!NoPackage /\ pfVerdict = "none" /\ pfSigned[p] # P!NoPackage
              /\ pfDelivered' \in P!Damaged(pfDelivered, pfSigned[p])
    BY <1>3 DEF P!Deliver, P!Damage
  <2>2. P!Genuine(pfDelivered')
    BY <1>0, <2>1, DamagedIsGenuine
  <2>3. \A q : P!Genuine(q) => P!Genuine(q)'
    BY <2>1, StillGenuine
  <2>4. pfVerdict' # "verified"
    BY <2>1 DEF P!PackageInv
  <2> QED
    BY <1>0, <2>1, <2>2, <2>3, <2>4 DEF P!PackageInv
<1>4. CASE P!Verify
  <2>1. /\ UNCHANGED <<pfBuilt, pfSigned, pfSignings, pfDelivered>> /\ pfDelivered # P!NoPackage
        /\ pfVerdict' = "verified" => P!verify_package(pfDelivered) = "verified"
    BY <1>4 DEF P!Verify
  <2>2. \A q : P!Genuine(q) => P!Genuine(q)'
    BY <2>1, StillGenuine
  <2>3. pfVerdict' = "verified" =>
          /\ pfDelivered.signature.key = PackageOfficial
          /\ pfDelivered.signature.over = P!Unsigned(pfDelivered)
    BY <2>1, VerifiedIsSigned
  <2> QED
    BY <1>0, <2>1, <2>2, <2>3 DEF P!PackageInv, P!Unsigned
<1>5. CASE P!Replace \/ UNCHANGED P!vars
  <2>1. /\ UNCHANGED <<pfBuilt, pfSigned, pfSignings>>
        /\ \/ pfDelivered' = P!NoPackage /\ pfVerdict' = "none"
           \/ UNCHANGED <<pfDelivered, pfVerdict>>
    BY <1>5 DEF P!Replace, P!vars
  <2>2. \A q : P!Genuine(q) => P!Genuine(q)'
    BY <2>1, StillGenuine
  <2>3. P!Genuine(pfDelivered)'
    <3>1. CASE pfDelivered' = P!NoPackage
      BY <3>1 DEF P!Genuine
    <3>2. CASE pfDelivered' = pfDelivered
      BY <1>0, <2>2, <3>2
    <3> QED
      BY <2>1, <3>1, <3>2
  <2> QED
    BY <1>0, <2>1, <2>2, <2>3 DEF P!PackageInv, P!Unsigned
<1> QED
  BY <1>1, <1>2, <1>3, <1>4, <1>5 DEF P!Next

\* What the device accepts was signed as it is with the official key (verify_package,
\* OfficialTrustStore::verify): parts of signed packages do not make another.
THEOREM AcceptedAsSigned == P!Spec => []VerifiedMeansAsSigned
<1>1. P!Init => P!PackageInv
  BY DEF P!Init, P!PackageInv, P!Genuine
<1>2. P!PackageInv => VerifiedMeansAsSigned
  <2> SUFFICES ASSUME P!PackageInv, pfVerdict = "verified"
               PROVE  <<PackageOfficial, pfDelivered.development, pfDelivered.manifest,
                        pfDelivered.table, pfDelivered.payload>> \in pfSignings
    BY DEF VerifiedMeansAsSigned, P!VerifiedMeansAsSigned
  <2>1. /\ P!Made(pfDelivered.signature) /\ pfDelivered.signature.key = PackageOfficial
        /\ pfDelivered.signature.over =
             <<pfDelivered.development, pfDelivered.manifest, pfDelivered.table,
               pfDelivered.payload>>
    BY DEF P!PackageInv, P!Genuine, P!Unsigned
  <2>2. pfDelivered.signature # P!NoSignature
    <3>1. ASSUME pfDelivered.signature = P!NoSignature PROVE pfDelivered.signature.over = <<>>
      BY <3>1 DEF P!NoSignature
    <3> QED
      BY <2>1, <3>1
  <2> QED
    BY <2>1, <2>2 DEF P!Made
<1> QED
  BY <1>1, <1>2, PackageStep, PTL DEF P!Spec

\* What the tool takes for an id the device does too (app_id): separators stand
\* alone and never first or last.
LEMMA IdIsRead ==
    ASSUME NEW id \in Seq(STRING), P!IdPattern(id)
    PROVE  P!app_id(id)
<1>1. PICK cuts \in (SUBSET DOMAIN id) \ {{}} :
        /\ \A i \in DOMAIN id : id[i] \in (IF i \in cuts THEN P!Separators ELSE P!Letters)
        /\ \A i \in cuts : {i - 1, i + 1} \subseteq DOMAIN id \ cuts
  BY DEF P!IdPattern
<1>2. DOMAIN id = 1..Len(id) /\ Len(id) \in Nat
  OBVIOUS
<1>3. PICK c \in cuts : c \in 1..Len(id)
  BY <1>1, <1>2
<1>4. 1 \notin cuts /\ Len(id) \notin cuts /\ 1 \in DOMAIN id /\ Len(id) \in DOMAIN id
  <2>1. \A i \in cuts : i \in 1..Len(id) /\ i - 1 \in 1..Len(id) /\ i + 1 \in 1..Len(id)
    BY <1>1, <1>2
  <2>2. 1 \notin cuts
    BY <2>1
  <2>3. Len(id) \notin cuts
    BY <1>2, <2>1
  <2> QED
    BY <1>2, <1>3, <2>2, <2>3
<1>5. \A i \in DOMAIN id : id[i] \in P!Separators <=> i \in cuts
  BY <1>1 DEF P!Separators, P!Letters
<1>6. id # <<>> /\ id[1] # "." /\ id[Len(id)] \notin P!Separators
  BY <1>2, <1>4, <1>5 DEF P!Separators
<1>7. \A i \in DOMAIN id : id[i] \in P!Letters \cup P!Separators
  BY <1>1
<1>8. \A i \in 2..Len(id) : id[i - 1] \notin P!Separators \/ id[i] \notin P!Separators
  <2> SUFFICES ASSUME NEW i \in 2..Len(id), i - 1 \in cuts, i \in cuts PROVE FALSE
    BY <1>2, <1>5
  <2>1. (i - 1) + 1 \notin cuts
    BY <1>1
  <2>2. (i - 1) + 1 = i
    BY <1>2
  <2> QED
    BY <2>1, <2>2
<1>9. \E i \in DOMAIN id : id[i] \in P!Separators
  BY <1>2, <1>3, <1>5
<1> QED
  BY <1>6, <1>7, <1>8, <1>9 DEF P!app_id

\* A version of three numbers has two dots, each with a digit before it
\* (semantic_version).
LEMMA VersionIsRead ==
    ASSUME NEW version \in Seq(STRING), P!VersionPattern(version)
    PROVE  P!semantic_version(version)
<1>1. PICK i \in DOMAIN version, j \in DOMAIN version :
        /\ 1 < i /\ i + 1 < j /\ j < Len(version)
        /\ \A k \in DOMAIN version : version[k] = (IF k \in {i, j} THEN "." ELSE "0")
  BY DEF P!VersionPattern
<1>2. DOMAIN version = 1..Len(version) /\ Len(version) \in Nat
  OBVIOUS
<1>3. {k \in DOMAIN version : version[k] = "."} = {i, j}
  BY <1>1
<1>4. P!Cardinality({i, j}) = 2
  <2>1. IsFiniteSet({i}) /\ Cardinality({i}) = 1
    BY FS_Singleton
  <2>2. Cardinality({i} \cup {j}) = 2
    <3>1. j \notin {i}
      BY <1>1, <1>2
    <3>2. Cardinality({i} \cup {j}) = Cardinality({i}) + 1
      BY <2>1, <3>1, FS_AddElement
    <3>3. Cardinality({i} \cup {j}) = 1 + 1
      BY <2>1, <3>2, Zenon
    <3> QED
      BY <3>3
  <2>3. {i} \cup {j} = {i, j}
    OBVIOUS
  <2> QED
    BY <2>2, <2>3 DEF P!Cardinality, Cardinality
<1>5. \A k \in DOMAIN version :
        \/ version[k] = "0"
        \/ version[k] = "." /\ k > 1 /\ k < Len(version) /\ version[k - 1] = "0"
  BY <1>1, <1>2
<1> QED
  BY <1>3, <1>4, <1>5 DEF P!semantic_version

\* The place of a capability in the order of all of them.
LEMMA PlaceOfCapability ==
    ASSUME NEW k \in 1..3
    PROVE  P!Place(P!AllowedCapabilities[k]) = k
<1>1. DOMAIN P!AllowedCapabilities = 1..3
  BY DEF P!AllowedCapabilities
<1>2. \A l \in 1..3 : P!AllowedCapabilities[l] = P!AllowedCapabilities[k] => l = k
  BY DEF P!AllowedCapabilities
<1> QED
  BY <1>1, <1>2 DEF P!Place

\* A list that the tool finds sorted grows from each item to the next
\* (sorted_string_array).
LEMMA CapabilitiesAreRead ==
    ASSUME NEW list \in Seq(STRING), P!SortedUnique(list),
           \A i \in DOMAIN list : \E k \in DOMAIN P!AllowedCapabilities :
               list[i] = P!AllowedCapabilities[k]
    PROVE  /\ P!sorted_string_array(list)
           /\ \A i \in DOMAIN list : P!Place(list[i]) # 0
<1>1. DOMAIN P!AllowedCapabilities = 1..3 /\ DOMAIN list = 1..Len(list)
  BY DEF P!AllowedCapabilities
<1>2. ASSUME NEW i \in 2..Len(list) PROVE P!Place(list[i - 1]) < P!Place(list[i])
  <2>1. i - 1 \in DOMAIN list /\ i \in DOMAIN list /\ i - 1 < i
    BY <1>1
  <2>2. PICK k \in 1..3, l \in 1..3 :
          k < l /\ list[i - 1] = P!AllowedCapabilities[k] /\ list[i] = P!AllowedCapabilities[l]
    BY <1>1, <2>1 DEF P!SortedUnique
  <2> QED
    BY <2>2, PlaceOfCapability
<1>3. \A i \in DOMAIN list : P!Place(list[i]) # 0
  BY <1>1, PlaceOfCapability
<1> QED
  BY <1>2, <1>3 DEF P!sorted_string_array

\* A manifest that the tool finds valid the device can read, if its name is as long
\* in bytes as the tool counts it (validateManifest, parse_manifest).
LEMMA ManifestIsRead ==
    ASSUME NEW p \in PackageProjects, NEW manifest, manifest.project = p,
           P!ValidForTool(manifest), p.nameBytes = p.nameUnits
    PROVE  P!parse_manifest(manifest)
<1>1. p.id \in Seq(STRING) /\ p.version \in Seq(STRING) /\ p.path \in Seq(STRING)
      /\ p.capabilities \in Seq(STRING)
  BY PackageInstance DEF P!PackageAssumption
<1>2. P!app_id(p.id) /\ P!semantic_version(p.version)
  BY <1>1, IdIsRead, VersionIsRead DEF P!ValidForTool
<1>3. P!sorted_string_array(p.capabilities)
      /\ \A i \in DOMAIN p.capabilities : P!Place(p.capabilities[i]) # 0
  BY <1>1, CapabilitiesAreRead DEF P!ValidForTool
<1>4. P!valid_path(p.path)
  <2>1. P!validatePackagePath(p.path)
    BY DEF P!ValidForTool
  <2>2. p.path # <<>> /\ 1 \in DOMAIN p.path /\ Len(p.path) \in DOMAIN p.path
    <3>1. ASSUME NEW path \in Seq(STRING), path # <<>>
          PROVE  1 \in DOMAIN path /\ Len(path) \in DOMAIN path
      BY <3>1
    <3> QED
      BY <1>1, <2>1, <3>1 DEF P!validatePackagePath
  <2> QED
    BY <2>1, <2>2 DEF P!valid_path, P!validatePackagePath
<1>5. p.nameBytes \in 1..P!MAX_NAME /\ p.memory \in 8..512 /\ p.hasEntry
  BY DEF P!ValidForTool
<1> QED
  BY <1>2, <1>3, <1>4, <1>5 DEF P!parse_manifest

\* What verify_package answers depends on the package and on libcrypto.
LEMMA SameAnswer ==
    ASSUME NEW package, pfCrypto' = pfCrypto
    PROVE  P!verify_package(package)' = P!verify_package(package)
BY DEF P!verify_package, P!Checks

\* Signing takes valid manifests, and a verdict ends with the package it is about
\* (signPackage, verify_package).
LEMMA AgreementStep == P!AgreementInv /\ [P!Next]_(P!vars) => P!AgreementInv'
<1> SUFFICES ASSUME P!AgreementInv, [P!Next]_(P!vars) PROVE P!AgreementInv'
  OBVIOUS
<1>0. UNCHANGED pfCrypto
  BY DEF P!Next, P!Build, P!Sign, P!Deliver, P!Damage, P!Verify, P!Replace, P!vars
<1>1. ASSUME NEW s \in pfSignings'
      PROVE  \E p \in PackageProjects, k \in PackageKeys :
                s[3] = P!Manifest(p, k) /\ P!ValidForTool(s[3])
  <2>1. CASE s \in pfSignings
    BY <2>1 DEF P!AgreementInv
  <2>2. CASE s \notin pfSignings
    <3>1. PICK p \in PackageProjects, k \in PackageKeys : P!Sign(p, k)
      BY <2>2 DEF P!Next, P!Build, P!Deliver, P!Damage, P!Verify, P!Replace, P!vars
    <3>2. P!ValidForTool(P!Manifest(p, k)) /\ s[3] = P!Manifest(p, k)
      <4>1. PICK package : package = [pfBuilt[p] EXCEPT !.development = FALSE,
                                                        !.manifest = P!Manifest(p, k)]
        OBVIOUS
      <4>2. /\ P!ValidForTool(P!Manifest(p, k))
            /\ pfSignings' = pfSignings \cup
                 {<<k, FALSE, P!Manifest(p, k), package.table, package.payload>>}
        BY <3>1, <4>1 DEF P!Sign
      <4>3. s = <<k, FALSE, P!Manifest(p, k), package.table, package.payload>>
        BY <2>2, <4>2
      <4> QED
        BY <4>2, <4>3
    <3> QED
      BY <3>2
  <2> QED
    BY <2>1, <2>2
<1>2. ASSUME pfVerdict' # "none"
      PROVE  /\ pfDelivered' # P!NoPackage
             /\ pfVerdict' = IF PackageOfficial = "unconfigured" THEN "signer_untrusted"
                             ELSE P!verify_package(pfDelivered)'
  <2>1. \/ UNCHANGED <<pfDelivered, pfVerdict>>
        \/ /\ pfDelivered' = pfDelivered /\ pfDelivered # P!NoPackage
           /\ pfVerdict' = IF PackageOfficial = "unconfigured" THEN "signer_untrusted"
                           ELSE P!verify_package(pfDelivered)
        \/ pfVerdict = "none" /\ pfVerdict' = pfVerdict
    <3>1. ASSUME NEW p \in PackageProjects, P!Build(p) \/ P!Deliver(p) \/ P!Damage(p)
          PROVE  UNCHANGED <<pfDelivered, pfVerdict>> \/ (pfVerdict = "none" /\ pfVerdict' = pfVerdict)
      <4>1. P!Deliver(p) => pfVerdict = "none"
        BY DEF P!Deliver, P!AgreementInv
      <4> QED
        BY <3>1, <4>1 DEF P!Build, P!Deliver, P!Damage
    <3>2. ASSUME NEW p \in PackageProjects, NEW k \in PackageKeys, P!Sign(p, k)
          PROVE  UNCHANGED <<pfDelivered, pfVerdict>>
      BY <3>2 DEF P!Sign
    <3>3. ~P!Replace
      BY <1>2 DEF P!Replace
    <3> QED
      BY <3>1, <3>2, <3>3 DEF P!Next, P!Verify, P!vars
  <2>2. PICK d : d = pfDelivered /\ d = pfDelivered'
    BY <1>2, <2>1
  <2>3. P!verify_package(d)' = P!verify_package(d)
    BY <1>0, SameAnswer
  <2>4. pfVerdict' = IF PackageOfficial = "unconfigured" THEN "signer_untrusted"
                     ELSE P!verify_package(d)
    BY <1>2, <2>1, <2>2 DEF P!AgreementInv
  <2>5. pfDelivered' # P!NoPackage
    BY <1>2, <2>1 DEF P!AgreementInv
  <2> QED
    BY <2>2, <2>3, <2>4, <2>5
<1> QED
  BY <1>1, <1>2 DEF P!AgreementInv

\* lvapp verify and verify_package agree on every package, damaged or not, that is
\* made of projects whose texts are texts (parsePackage, validateManifest,
\* parse_manifest, verify_package).
THEOREM ToolAgreesWithDevice == P!Spec => []ToolAndDeviceAgree
<1>1. P!Init => P!PackageInv /\ P!AgreementInv
  BY DEF P!Init, P!PackageInv, P!Genuine, P!AgreementInv
<1>2. P!PackageInv /\ P!AgreementInv => ToolAndDeviceAgree
  <2> SUFFICES ASSUME P!PackageInv, P!AgreementInv, pfVerdict # "none", pfCrypto,
                      PackageOfficial # "unconfigured", pfDelivered.format = "LVAPP001",
                      pfDelivered.manifest.project.nameBytes =
                          pfDelivered.manifest.project.nameUnits
               PROVE  P!VerifiedByTool(pfDelivered, PackageOfficial) <=> pfVerdict = "verified"
    BY DEF ToolAndDeviceAgree, P!ToolAndDeviceAgree
  <2> PICK d : d = pfDelivered
    OBVIOUS
  <2>0. d.format = "LVAPP001" /\ pfCrypto
    OBVIOUS
  <2>1. /\ d # P!NoPackage /\ P!Made(d.signature)
        /\ pfVerdict = P!verify_package(d)
    BY DEF P!PackageInv, P!Genuine, P!AgreementInv
  <2>2. ASSUME d.signature.key = PackageOfficial, d.signature.over = P!Unsigned(d)
        PROVE  /\ P!ValidForTool(d.manifest) /\ P!parse_manifest(d.manifest)
    <3>1. d.signature.over = <<d.development, d.manifest, d.table, d.payload>>
      BY <2>2 DEF P!Unsigned
    <3>2. d.signature # P!NoSignature
      <4>1. ASSUME d.signature = P!NoSignature PROVE d.signature.over = <<>>
        BY <4>1 DEF P!NoSignature
      <4> QED
        BY <3>1, <4>1
    <3>3. PICK s \in pfSignings : s = <<d.signature.key, d.signature.over[1], d.signature.over[2],
                                        d.signature.over[3], d.signature.over[4]>>
      BY <2>1, <3>2 DEF P!Made
    <3>4. s[3] = d.manifest
      BY <3>1, <3>3
    <3>5. PICK p \in PackageProjects, k \in PackageKeys :
            d.manifest = P!Manifest(p, k) /\ P!ValidForTool(d.manifest)
      BY <3>4 DEF P!AgreementInv
    <3>6. d.manifest.project = p
      BY <3>5 DEF P!Manifest
    <3> QED
      BY <3>5, <3>6, ManifestIsRead
  <2>3. ASSUME P!VerifiedByTool(d, PackageOfficial) PROVE pfVerdict = "verified"
    <3>1. /\ d.layout /\ ~d.development /\ d.manifest.signingKeyId # P!ZeroKey
          /\ d.table = d.payload /\ d.manifest.hashes = d.table
          /\ d.signature.key = d.manifest.signingKeyId /\ d.signature.key = PackageOfficial
          /\ d.signature.over = P!Unsigned(d)
      BY <2>3 DEF P!VerifiedByTool, P!ParsedByTool
    <3>2. P!parse_manifest(d.manifest)
      BY <2>2, <3>1
    <3>3. \A i \in 1..10 : P!Checks(d)[i][1]
      <4>1. P!Checks(d)[1][1] /\ P!Checks(d)[2][1] /\ P!Checks(d)[3][1]
        BY <2>0, <3>1 DEF P!Checks
      <4>2. P!Checks(d)[4][1] /\ P!Checks(d)[5][1] /\ P!Checks(d)[6][1]
        BY <2>0, <3>1, <3>2 DEF P!Checks
      <4>3. P!Checks(d)[7][1] /\ P!Checks(d)[8][1] /\ P!Checks(d)[9][1] /\ P!Checks(d)[10][1]
        BY <3>1 DEF P!Checks
      <4> QED
        BY <4>1, <4>2, <4>3
    <3> QED
      BY <2>1, <3>3, VerifiedPassesAll
  <2>4. ASSUME pfVerdict = "verified" PROVE P!VerifiedByTool(d, PackageOfficial)
    <3>1. \A i \in 1..10 : P!Checks(d)[i][1]
      BY <2>1, <2>4, VerifiedPassesAll
    <3>2. /\ P!Checks(d)[2][1] /\ P!Checks(d)[3][1] /\ P!Checks(d)[4][1] /\ P!Checks(d)[5][1]
          /\ P!Checks(d)[7][1] /\ P!Checks(d)[8][1] /\ P!Checks(d)[9][1] /\ P!Checks(d)[10][1]
      BY <3>1
    <3>3. ~d.development /\ d.layout /\ d.manifest.signingKeyId # P!ZeroKey
          /\ d.manifest.hashes = d.table
      BY <3>2 DEF P!Checks
    <3>4. /\ d.table = d.payload /\ d.signature.key = d.manifest.signingKeyId
          /\ d.signature.key = PackageOfficial /\ d.signature.over = P!Unsigned(d)
      BY <3>2 DEF P!Checks
    <3>5. P!ValidForTool(d.manifest)
      BY <2>2, <3>4
    <3> QED
      BY <2>1, <3>3, <3>4, <3>5 DEF P!VerifiedByTool, P!ParsedByTool
  <2> QED
    BY <2>3, <2>4
<1> QED
  BY <1>1, <1>2, PackageStep, AgreementStep, PTL DEF P!Spec

-----------------------------------------------------------------------------
(* How a file is written (FileWrites).                                     *)

\* The calls, named: lists of them are put together without looking inside.
Making(d, n)    == <<"mkdir", d, n>>
SyncingMade(d)  == <<"sync_made", d>>
Creating(d, n)  == <<"create", d, n>>
Writing         == <<"write">>
SyncingFile     == <<"sync_file">>
Renaming(d)     == <<"rename", d, "temporary", "final">>
Syncing(d)      == <<"sync", d>>
Removing(d, n)  == <<"remove", d, n>>
Presence(d, n)  == <<"present", d, n>>
Staging(d, n)   == <<"stage", d, n>>

\* The calls that make a directory (ensure_directory_at).
LEMMA MakingCalls ==
    ASSUME NEW d, NEW n
    PROVE  F!ensure_directory_at(d, n) = <<Making(d, n), SyncingMade(n), SyncingMade(d)>>
BY DEF F!ensure_directory_at, Making, SyncingMade

\* The calls that write one file (write_all, fsync).
LEMMA WrittenCalls ==
    ASSUME NEW d, NEW n
    PROVE  F!Written(d, n) = <<Creating(d, n), Writing, SyncingFile>>
<1>1. F!Written(d, n) = (<<Creating(d, n)>> \o <<Writing>>) \o <<SyncingFile>>
  BY DEF F!Written, F!write_all, Creating, Writing, SyncingFile
<1>2. \A a, b : <<a>> \o <<b>> = <<a, b>>
  <2> TAKE a, b
  <2>1. <<a>> \o <<b>> = Append(<<a>>, b) /\ <<a, b>> = Append(<<a>>, b)
    OBVIOUS
  <2> QED
    BY <2>1
<1>3. \A a, b, c : <<a, b>> \o <<c>> = <<a, b, c>>
  <2> TAKE a, b, c
  <2>1. /\ <<a, b>> \o <<c>> = [i \in 1..3 |-> <<a, b, c>>[i]]
        /\ <<a, b, c>> = [i \in 1..3 |-> <<a, b, c>>[i]]
    OBVIOUS
  <2> QED
    BY <2>1
<1>4. <<Creating(d, n)>> \o <<Writing>> = <<Creating(d, n), Writing>>
  BY <1>2, Zenon
<1>5. <<Creating(d, n), Writing>> \o <<SyncingFile>> = <<Creating(d, n), Writing, SyncingFile>>
  BY <1>3, Zenon
<1> QED
  BY <1>1, <1>4, <1>5, Zenon

\* The calls for a slot's file (write_slot).
LEMMA WriteSlotCalls ==
    F!write_slot =
        <<Creating("app", "temporary"), Writing, SyncingFile, Renaming("app"),
          Syncing("app")>>
<1> DEFINE all ==
             <<Creating("app", "temporary"), Writing, SyncingFile, Renaming("app"),
               Syncing("app")>>
           parts ==
             <<Creating("app", "temporary"), Writing, SyncingFile>> \o
             <<Renaming("app"), Syncing("app")>>
<1>1. F!write_slot = parts
  BY WrittenCalls DEF F!write_slot, Renaming, Syncing
<1>2. parts = [i \in 1..5 |-> all[i]] /\ all = [i \in 1..5 |-> all[i]]
  OBVIOUS
<1> QED
  BY <1>1, <1>2

\* The calls for the directories of the records (ensure_private_storage).
LEMMA PrivateStorageCalls ==
    F!ensure_private_storage =
        <<Making("root", "data"), SyncingMade("root"), Making("data", "app"),
          SyncingMade("app"), SyncingMade("data")>>
<1> DEFINE all ==
             <<Making("root", "data"), SyncingMade("root"), Making("data", "app"),
               SyncingMade("app"), SyncingMade("data")>>
           parts ==
             <<Making("root", "data"), SyncingMade("root")>> \o
             <<Making("data", "app"), SyncingMade("app"), SyncingMade("data")>>
<1>1. F!ensure_private_storage = parts
  BY MakingCalls DEF F!ensure_private_storage, Making, SyncingMade
<1>2. parts = [i \in 1..5 |-> all[i]] /\ all = [i \in 1..5 |-> all[i]]
  OBVIOUS
<1> QED
  BY <1>1, <1>2

\* The calls for a payload file (create_file).
LEMMA CreateFileCalls ==
    F!create_file =
        <<Making("stage", "assets"), SyncingMade("assets"), SyncingMade("stage"),
          Creating("assets", "file"), Writing, SyncingFile, Syncing("assets")>>
<1> DEFINE all ==
             <<Making("stage", "assets"), SyncingMade("assets"), SyncingMade("stage"),
               Creating("assets", "file"), Writing, SyncingFile, Syncing("assets")>>
           parts ==
             <<Making("stage", "assets"), SyncingMade("assets"), SyncingMade("stage")>> \o
             <<Creating("assets", "file"), Writing, SyncingFile>> \o
             <<Syncing("assets")>>
<1>1. F!create_file = parts
  BY MakingCalls, WrittenCalls DEF F!create_file, Syncing
<1>2. parts = [i \in 1..7 |-> all[i]] /\ all = [i \in 1..7 |-> all[i]]
  OBVIOUS
<1> QED
  BY <1>1, <1>2

\* The calls for the copy of the package (create_package_copy).
LEMMA PackageCopyCalls ==
    F!create_package_copy =
        <<Creating("stage", "package"), Writing, SyncingFile,
          Creating("stage", "marker"), Writing, SyncingFile, Syncing("stage")>>
<1> DEFINE all ==
             <<Creating("stage", "package"), Writing, SyncingFile,
               Creating("stage", "marker"), Writing, SyncingFile, Syncing("stage")>>
           parts ==
             <<Creating("stage", "package"), Writing, SyncingFile>> \o
             <<Creating("stage", "marker"), Writing, SyncingFile>> \o
             <<Syncing("stage")>>
<1>1. F!create_package_copy = parts
  BY WrittenCalls DEF F!create_package_copy, Syncing
<1>2. parts = [i \in 1..7 |-> all[i]] /\ all = [i \in 1..7 |-> all[i]]
  OBVIOUS
<1> QED
  BY <1>1, <1>2

\* All the calls for a slot of the release state (persist_release_state).
LEMMA SlotCalls ==
    ASSUME fwWriter = "slot"
    PROVE  /\ Len(F!Calls) = 13
           /\ F!Calls[1] = <<"mkdir", "root", "apps">>
           /\ F!Calls[2] = <<"sync_made", "apps">> /\ F!Calls[3] = <<"sync_made", "root">>
           /\ F!Calls[4] = <<"mkdir", "apps", "app">>
           /\ F!Calls[5] = <<"sync_made", "app">> /\ F!Calls[6] = <<"sync_made", "apps">>
           /\ F!Calls[7] = <<"create", "app", "temporary">> /\ F!Calls[8] = <<"write">>
           /\ F!Calls[9] = <<"sync_file">>
           /\ F!Calls[10] = <<"rename", "app", "temporary", "final">>
           /\ F!Calls[11] = <<"sync", "app">> /\ F!Calls[12] = <<"sync", "apps">>
           /\ F!Calls[13] = <<"sync", "root">>
<1> DEFINE all ==
             <<Making("root", "apps"), SyncingMade("apps"), SyncingMade("root"),
               Making("apps", "app"), SyncingMade("app"), SyncingMade("apps"),
               Creating("app", "temporary"), Writing, SyncingFile, Renaming("app"),
               Syncing("app"), Syncing("apps"), Syncing("root")>>
           parts ==
             <<Making("root", "apps"), SyncingMade("apps"), SyncingMade("root")>> \o
             <<Making("apps", "app"), SyncingMade("app"), SyncingMade("apps")>> \o
             <<Creating("app", "temporary"), Writing, SyncingFile, Renaming("app"),
               Syncing("app")>> \o
             <<Syncing("apps"), Syncing("root")>>
<1>1. F!Calls = parts
  BY MakingCalls, WriteSlotCalls DEF F!Calls, Syncing
<1>2. parts = [i \in 1..13 |-> all[i]] /\ all = [i \in 1..13 |-> all[i]]
  OBVIOUS
<1>3. F!Calls = all
  BY <1>1, <1>2
<1> QED
  BY <1>3 DEF Making, SyncingMade, Creating, Writing, SyncingFile, Renaming, Syncing

\* All the calls for a record (ensure_private_storage, write_storage_record).
LEMMA RecordCalls ==
    ASSUME fwWriter = "record"
    PROVE  /\ Len(F!Calls) = 10
           /\ F!Calls[1] = <<"mkdir", "root", "data">>
           /\ F!Calls[2] = <<"sync_made", "root">>
           /\ F!Calls[3] = <<"mkdir", "data", "app">>
           /\ F!Calls[4] = <<"sync_made", "app">> /\ F!Calls[5] = <<"sync_made", "data">>
           /\ F!Calls[6] = <<"create", "app", "temporary">> /\ F!Calls[7] = <<"write">>
           /\ F!Calls[8] = <<"sync_file">>
           /\ F!Calls[9] = <<"rename", "app", "temporary", "final">>
           /\ F!Calls[10] = <<"sync", "app">>
<1> DEFINE all ==
             <<Making("root", "data"), SyncingMade("root"), Making("data", "app"),
               SyncingMade("app"), SyncingMade("data"), Creating("app", "temporary"),
               Writing, SyncingFile, Renaming("app"), Syncing("app")>>
           parts ==
             <<Making("root", "data"), SyncingMade("root"), Making("data", "app"),
               SyncingMade("app"), SyncingMade("data")>> \o
             <<Creating("app", "temporary"), Writing, SyncingFile, Renaming("app"),
               Syncing("app")>>
<1>1. F!Calls = parts
  BY PrivateStorageCalls, WriteSlotCalls DEF F!Calls, F!write_storage_record
<1>2. parts = [i \in 1..10 |-> all[i]] /\ all = [i \in 1..10 |-> all[i]]
  OBVIOUS
<1>3. F!Calls = all
  BY <1>1, <1>2
<1> QED
  BY <1>3 DEF Making, SyncingMade, Creating, Writing, SyncingFile, Renaming, Syncing

\* All the calls for the session status (atomic_status).
LEMMA StatusCalls ==
    ASSUME fwWriter = "status"
    PROVE  /\ Len(F!Calls) = 6
           /\ F!Calls[1] = <<"remove", "run", "temporary">>
           /\ F!Calls[2] = <<"create", "run", "temporary">> /\ F!Calls[3] = <<"write">>
           /\ F!Calls[4] = <<"sync_file">>
           /\ F!Calls[5] = <<"rename", "run", "temporary", "final">>
           /\ F!Calls[6] = <<"sync", "run">>
<1> DEFINE all ==
             <<Removing("run", "temporary"), Creating("run", "temporary"), Writing,
               SyncingFile, Renaming("run"), Syncing("run")>>
           parts ==
             <<Removing("run", "temporary")>> \o
             <<Creating("run", "temporary"), Writing, SyncingFile>> \o
             <<Renaming("run"), Syncing("run")>>
<1>1. F!Calls = parts
  BY WrittenCalls DEF F!Calls, F!atomic_status, Removing, Renaming, Syncing
<1>2. parts = [i \in 1..6 |-> all[i]] /\ all = [i \in 1..6 |-> all[i]]
  OBVIOUS
<1>3. F!Calls = all
  BY <1>1, <1>2
<1> QED
  BY <1>3 DEF Creating, Writing, SyncingFile, Renaming, Syncing, Removing

\* All the calls for a release (stage_verified_release).
LEMMA ReleaseCalls ==
    ASSUME fwWriter = "release"
    PROVE  /\ Len(F!Calls) = 30
           /\ F!Calls[1] = <<"mkdir", "root", "apps">>
           /\ F!Calls[2] = <<"sync_made", "apps">> /\ F!Calls[3] = <<"sync_made", "root">>
           /\ F!Calls[4] = <<"mkdir", "apps", "app">>
           /\ F!Calls[5] = <<"sync_made", "app">> /\ F!Calls[6] = <<"sync_made", "apps">>
           /\ F!Calls[7] = <<"mkdir", "app", "releases">>
           /\ F!Calls[8] = <<"sync_made", "releases">>
           /\ F!Calls[9] = <<"sync_made", "app">>
           /\ F!Calls[10] = <<"present", "releases", "final">>
           /\ F!Calls[11] = <<"stage", "releases", "temporary">>
           /\ F!Calls[12] = <<"mkdir", "stage", "assets">>
           /\ F!Calls[13] = <<"sync_made", "assets">>
           /\ F!Calls[14] = <<"sync_made", "stage">>
           /\ F!Calls[15] = <<"create", "assets", "file">> /\ F!Calls[16] = <<"write">>
           /\ F!Calls[17] = <<"sync_file">> /\ F!Calls[18] = <<"sync", "assets">>
           /\ F!Calls[19] = <<"create", "stage", "package">> /\ F!Calls[20] = <<"write">>
           /\ F!Calls[21] = <<"sync_file">>
           /\ F!Calls[22] = <<"create", "stage", "marker">> /\ F!Calls[23] = <<"write">>
           /\ F!Calls[24] = <<"sync_file">> /\ F!Calls[25] = <<"sync", "stage">>
           /\ F!Calls[26] = <<"rename", "releases", "temporary", "final">>
           /\ F!Calls[27] = <<"sync", "releases">> /\ F!Calls[28] = <<"sync", "app">>
           /\ F!Calls[29] = <<"sync", "apps">> /\ F!Calls[30] = <<"sync", "root">>
<1> DEFINE all ==
             <<Making("root", "apps"), SyncingMade("apps"), SyncingMade("root"),
               Making("apps", "app"), SyncingMade("app"), SyncingMade("apps"),
               Making("app", "releases"), SyncingMade("releases"), SyncingMade("app"),
               Presence("releases", "final"), Staging("releases", "temporary"),
               Making("stage", "assets"), SyncingMade("assets"), SyncingMade("stage"),
               Creating("assets", "file"), Writing, SyncingFile, Syncing("assets"),
               Creating("stage", "package"), Writing, SyncingFile,
               Creating("stage", "marker"), Writing, SyncingFile, Syncing("stage"),
               Renaming("releases"), Syncing("releases"), Syncing("app"),
               Syncing("apps"), Syncing("root")>>
           parts ==
             <<Making("root", "apps"), SyncingMade("apps"), SyncingMade("root")>> \o
             <<Making("apps", "app"), SyncingMade("app"), SyncingMade("apps")>> \o
             <<Making("app", "releases"), SyncingMade("releases"), SyncingMade("app")>> \o
             <<Presence("releases", "final"), Staging("releases", "temporary")>> \o
             <<Making("stage", "assets"), SyncingMade("assets"), SyncingMade("stage"),
               Creating("assets", "file"), Writing, SyncingFile, Syncing("assets")>> \o
             <<Creating("stage", "package"), Writing, SyncingFile,
               Creating("stage", "marker"), Writing, SyncingFile, Syncing("stage")>> \o
             <<Renaming("releases"), Syncing("releases"), Syncing("app"),
               Syncing("apps"), Syncing("root")>>
<1>1. F!Calls = parts
  BY MakingCalls, CreateFileCalls, PackageCopyCalls DEF F!Calls, F!stage_verified_release,
     Presence, Staging, Renaming, Syncing
<1>2. parts = [i \in 1..30 |-> all[i]] /\ all = [i \in 1..30 |-> all[i]]
  OBVIOUS
<1>3. F!Calls = all
  BY <1>1, <1>2
<1> QED
  BY <1>3 DEF Making, SyncingMade, Creating, Writing, SyncingFile, Renaming, Syncing, Presence,
      Staging

\* What each call for a release is.
LEMMA ReleaseKinds ==
    ASSUME fwWriter = "release", NEW k \in 1..30
    PROVE  /\ F!Calls[k][1] = "mkdir" <=> k \in {1, 4, 7, 12}
           /\ F!Calls[k][1] = "sync_made" <=> k \in {2, 3, 5, 6, 8, 9, 13, 14}
           /\ F!Calls[k][1] = "present" <=> k \in {10}
           /\ F!Calls[k][1] = "stage" <=> k \in {11}
           /\ F!Calls[k][1] = "create" <=> k \in {15, 19, 22}
           /\ F!Calls[k][1] = "write" <=> k \in {16, 20, 23}
           /\ F!Calls[k][1] = "sync_file" <=> k \in {17, 21, 24}
           /\ F!Calls[k][1] = "sync" <=> k \in {18, 25, 27, 28, 29, 30}
           /\ F!Calls[k][1] = "rename" <=> k \in {26}
           /\ F!Calls[k][1] # "remove"
<1>1. k \in 1..10 \/ k \in 11..20 \/ k \in 21..30
  OBVIOUS
<1>2. CASE k \in 1..10
  <2>1. k = 1 \/ k = 2 \/ k = 3 \/ k = 4 \/ k = 5 \/ k = 6 \/ k = 7 \/ k = 8 \/ k = 9 \/ k = 10
    BY <1>2
  <2>2. /\ F!Calls[1][1] = "mkdir"
        /\ F!Calls[2][1] = "sync_made"
        /\ F!Calls[3][1] = "sync_made"
        /\ F!Calls[4][1] = "mkdir"
        /\ F!Calls[5][1] = "sync_made"
        /\ F!Calls[6][1] = "sync_made"
        /\ F!Calls[7][1] = "mkdir"
        /\ F!Calls[8][1] = "sync_made"
        /\ F!Calls[9][1] = "sync_made"
        /\ F!Calls[10][1] = "present"
    BY ReleaseCalls
  <2> QED
    BY <2>1, <2>2
<1>3. CASE k \in 11..20
  <2>1. k = 11 \/ k = 12 \/ k = 13 \/ k = 14 \/ k = 15 \/ k = 16 \/ k = 17 \/ k = 18 \/ k = 19 \/ k = 20
    BY <1>3
  <2>2. /\ F!Calls[11][1] = "stage"
        /\ F!Calls[12][1] = "mkdir"
        /\ F!Calls[13][1] = "sync_made"
        /\ F!Calls[14][1] = "sync_made"
        /\ F!Calls[15][1] = "create"
        /\ F!Calls[16][1] = "write"
        /\ F!Calls[17][1] = "sync_file"
        /\ F!Calls[18][1] = "sync"
        /\ F!Calls[19][1] = "create"
        /\ F!Calls[20][1] = "write"
    BY ReleaseCalls
  <2> QED
    BY <2>1, <2>2
<1>4. CASE k \in 21..30
  <2>1. k = 21 \/ k = 22 \/ k = 23 \/ k = 24 \/ k = 25 \/ k = 26 \/ k = 27 \/ k = 28 \/ k = 29 \/ k = 30
    BY <1>4
  <2>2. /\ F!Calls[21][1] = "sync_file"
        /\ F!Calls[22][1] = "create"
        /\ F!Calls[23][1] = "write"
        /\ F!Calls[24][1] = "sync_file"
        /\ F!Calls[25][1] = "sync"
        /\ F!Calls[26][1] = "rename"
        /\ F!Calls[27][1] = "sync"
        /\ F!Calls[28][1] = "sync"
        /\ F!Calls[29][1] = "sync"
        /\ F!Calls[30][1] = "sync"
    BY ReleaseCalls
  <2> QED
    BY <2>1, <2>2
<1> QED
  BY <1>1, <1>2, <1>3, <1>4

\* A file is created, written and synced by three calls in a row, whoever writes it.
LEMMA FilePlaces ==
    ASSUME fwWriter \in {"slot", "record", "status", "release"}, NEW k \in 1..Len(F!Calls)
    PROVE  /\ Len(F!Calls) \in Nat \ {0} /\ F!Calls[k][1] # "write_once"
           /\ F!Calls[k][1] = "create" =>
                /\ k + 2 < Len(F!Calls)
                /\ F!Calls[k + 1][1] = "write" /\ F!Calls[k + 2][1] = "sync_file"
           /\ F!Calls[k][1] = "write" => k > 1 /\ F!Calls[k - 1][1] = "create"
           /\ F!Calls[k][1] = "sync_file" => k > 2 /\ F!Calls[k - 2][1] = "create"
<1>1. CASE fwWriter = "slot"
  <2>1. Len(F!Calls) = 13 /\ k \in 1..13
    BY <1>1, SlotCalls
  <2> QED
    BY <1>1, <2>1, SlotCalls
<1>2. CASE fwWriter = "record"
  <2>1. Len(F!Calls) = 10 /\ k \in 1..10
    BY <1>2, RecordCalls
  <2> QED
    BY <1>2, <2>1, RecordCalls
<1>3. CASE fwWriter = "status"
  <2>1. Len(F!Calls) = 6 /\ k \in 1..6
    BY <1>3, StatusCalls
  <2> QED
    BY <1>3, <2>1, StatusCalls
<1>4. CASE fwWriter = "release"
  <2>1. Len(F!Calls) = 30 /\ k \in 1..30
    BY <1>4, ReleaseCalls
  <2> QED
    BY <1>4, <2>1, ReleaseCalls
<1> QED
  BY <1>1, <1>2, <1>3, <1>4

\* The names of each writer.
LEMMA NamesOf ==
    /\ fwWriter = "slot" => /\ F!Top = {<<"root", "apps">>, <<"apps", "app">>, <<"app", "final">>}
                            /\ F!Names = F!Top \cup {<<"app", "temporary">>}
    /\ fwWriter = "record" =>
            /\ F!Top = {<<"root", "data">>, <<"data", "app">>, <<"app", "final">>}
            /\ F!Names = F!Top \cup {<<"app", "temporary">>}
    /\ fwWriter = "status" => /\ F!Top = {<<"run", "final">>}
                              /\ F!Names = F!Top \cup {<<"run", "temporary">>}
    /\ fwWriter = "release" =>
            /\ F!Top = {<<"root", "apps">>, <<"apps", "app">>, <<"app", "releases">>,
                        <<"releases", "final">>}
            /\ F!Names = F!Top \cup F!Inner \cup {<<"releases", "temporary">>}
<1>1. F!Temporary = {<<"app", "temporary">>, <<"run", "temporary">>, <<"releases", "temporary">>}
  BY DEF F!Temporary
<1>2. CASE fwWriter = "slot"
  <2>1. F!Top = {<<"root", "apps">>, <<"apps", "app">>, <<"app", "final">>}
    BY <1>2 DEF F!Top
  <2>2. {t \in F!Temporary : \E e \in F!Top : e = <<t[1], "final">>} = {<<"app", "temporary">>}
    BY <1>1, <2>1
  <2> QED
    BY <1>2, <2>1, <2>2 DEF F!Names
<1>3. CASE fwWriter = "record"
  <2>1. F!Top = {<<"root", "data">>, <<"data", "app">>, <<"app", "final">>}
    BY <1>3 DEF F!Top
  <2>2. {t \in F!Temporary : \E e \in F!Top : e = <<t[1], "final">>} = {<<"app", "temporary">>}
    BY <1>1, <2>1
  <2> QED
    BY <1>3, <2>1, <2>2 DEF F!Names
<1>4. CASE fwWriter = "status"
  <2>1. F!Top = {<<"run", "final">>}
    BY <1>4 DEF F!Top
  <2>2. {t \in F!Temporary : \E e \in F!Top : e = <<t[1], "final">>} = {<<"run", "temporary">>}
    BY <1>1, <2>1
  <2> QED
    BY <1>4, <2>1, <2>2 DEF F!Names
<1>5. CASE fwWriter = "release"
  <2>1. F!Top = {<<"root", "apps">>, <<"apps", "app">>, <<"app", "releases">>,
                 <<"releases", "final">>}
    BY <1>5 DEF F!Top
  <2>2. {t \in F!Temporary : \E e \in F!Top : e = <<t[1], "final">>} = {<<"releases", "temporary">>}
    BY <1>1, <2>1
  <2> QED
    BY <1>5, <2>1, <2>2 DEF F!Names
<1> QED
  BY <1>2, <1>3, <1>4, <1>5

\* Each directory above is made by one call and synced by a later one, and what is
\* made in between is not another.
LEMMA AbovePlaces ==
    ASSUME fwWriter \in {"slot", "record", "status", "release"}, NEW d \in F!Above
    PROVE  /\ d.name \in F!Names /\ d.name \notin F!Temporary \cup F!Inner
           /\ d.name[2] # "final" /\ d.name # F!Final /\ d.name # F!Temp
           /\ d.making \in Nat \ {0} /\ d.settling \in Nat /\ d.making < d.settling
           /\ d.settling < Len(F!Calls)
           /\ F!Calls[d.making] = <<"mkdir", d.name[1], d.name[2]>>
           /\ F!Calls[d.settling] = <<"sync_made", d.name[1]>>
           /\ \A k \in 1..Len(F!Calls) : F!Calls[k][1] = "mkdir" /\ k > d.making =>
                /\ k > d.settling /\ d.name # <<F!Calls[k][2], F!Calls[k][3]>>
                /\ d.name[1] # F!Calls[k][3]
<1>1. F!Temporary = {<<"app", "temporary">>, <<"run", "temporary">>, <<"releases", "temporary">>}
  BY DEF F!Temporary
<1>2. CASE fwWriter = "slot"
  <2>1. \/ d.name = <<"root", "apps">> /\ d.making = 1 /\ d.settling = 3
        \/ d.name = <<"apps", "app">> /\ d.making = 4 /\ d.settling = 6
    BY <1>2 DEF F!Above
  <2>2. Len(F!Calls) = 13
    BY <1>2, SlotCalls
  <2>3. /\ d.name \in F!Names /\ d.name \notin F!Temporary \cup F!Inner
        /\ d.name[2] # "final" /\ d.name # F!Final /\ d.name # F!Temp
    BY <1>1, <1>2, <2>1, NamesOf DEF F!Inner, F!Final, F!Temp, F!Home
  <2>4. /\ F!Calls[d.making] = <<"mkdir", d.name[1], d.name[2]>>
        /\ F!Calls[d.settling] = <<"sync_made", d.name[1]>>
    BY <1>2, <2>1, SlotCalls
  <2>5. \A k \in 1..13 : F!Calls[k][1] = "mkdir" =>
          k \in {1, 4}
    BY <1>2, SlotCalls
  <2>6. \A k \in 1..13 : F!Calls[k][1] = "mkdir" /\ k > d.making =>
          /\ k > d.settling /\ d.name # <<F!Calls[k][2], F!Calls[k][3]>>
          /\ d.name[1] # F!Calls[k][3]
    BY <1>2, <2>1, SlotCalls
  <2> QED
    BY <2>1, <2>2, <2>3, <2>4, <2>6
<1>3. CASE fwWriter = "record"
  <2>1. \/ d.name = <<"root", "data">> /\ d.making = 1 /\ d.settling = 2
        \/ d.name = <<"data", "app">> /\ d.making = 3 /\ d.settling = 5
    BY <1>3 DEF F!Above
  <2>2. Len(F!Calls) = 10
    BY <1>3, RecordCalls
  <2>3. /\ d.name \in F!Names /\ d.name \notin F!Temporary \cup F!Inner
        /\ d.name[2] # "final" /\ d.name # F!Final /\ d.name # F!Temp
    BY <1>1, <1>3, <2>1, NamesOf DEF F!Inner, F!Final, F!Temp, F!Home
  <2>4. /\ F!Calls[d.making] = <<"mkdir", d.name[1], d.name[2]>>
        /\ F!Calls[d.settling] = <<"sync_made", d.name[1]>>
    BY <1>3, <2>1, RecordCalls
  <2>5. \A k \in 1..10 : F!Calls[k][1] = "mkdir" =>
          k \in {1, 3}
    BY <1>3, RecordCalls
  <2>6. \A k \in 1..10 : F!Calls[k][1] = "mkdir" /\ k > d.making =>
          /\ k > d.settling /\ d.name # <<F!Calls[k][2], F!Calls[k][3]>>
          /\ d.name[1] # F!Calls[k][3]
    BY <1>3, <2>1, RecordCalls
  <2> QED
    BY <2>1, <2>2, <2>3, <2>4, <2>6
<1>4. CASE fwWriter = "release"
  <2>1. \/ d.name = <<"root", "apps">> /\ d.making = 1 /\ d.settling = 3
        \/ d.name = <<"apps", "app">> /\ d.making = 4 /\ d.settling = 6
        \/ d.name = <<"app", "releases">> /\ d.making = 7 /\ d.settling = 9
    BY <1>4 DEF F!Above
  <2>2. Len(F!Calls) = 30
    BY <1>4, ReleaseCalls
  <2>3. /\ d.name \in F!Names /\ d.name \notin F!Temporary \cup F!Inner
        /\ d.name[2] # "final" /\ d.name # F!Final /\ d.name # F!Temp
    BY <1>1, <1>4, <2>1, NamesOf DEF F!Inner, F!Final, F!Temp, F!Home
  <2>4. /\ F!Calls[d.making] = <<"mkdir", d.name[1], d.name[2]>>
        /\ F!Calls[d.settling] = <<"sync_made", d.name[1]>>
    BY <1>4, <2>1, ReleaseCalls
  <2>5. \A k \in 1..30 : F!Calls[k][1] = "mkdir" =>
          k \in {1, 4, 7, 12}
    BY <1>4, ReleaseCalls
  <2>6. \A k \in 1..30 : F!Calls[k][1] = "mkdir" /\ k > d.making =>
          /\ k > d.settling /\ d.name # <<F!Calls[k][2], F!Calls[k][3]>>
          /\ d.name[1] # F!Calls[k][3]
    BY <1>4, <2>1, ReleaseCalls
  <2> QED
    BY <2>1, <2>2, <2>3, <2>4, <2>6
<1>5. fwWriter # "status"
  BY DEF F!Above
<1> QED
  BY <1>2, <1>3, <1>4, <1>5

\* The directories that are made are those above, and one within a release.
LEMMA MadePlaces ==
    ASSUME fwWriter \in {"slot", "record", "status", "release"}, NEW k \in 1..Len(F!Calls),
           F!Calls[k][1] = "mkdir"
    PROVE  \/ \E d \in F!Above : k = d.making
           \/ /\ fwWriter = "release" /\ k = 12
              /\ F!Calls[k] = <<"mkdir", "stage", "assets">>
<1>1. CASE fwWriter = "slot"
  <2>1. k \in 1..13
    BY <1>1, SlotCalls
  <2>2. k = 1 \/ k = 4
    BY <1>1, <2>1, SlotCalls
  <2> QED
    BY <1>1, <2>2 DEF F!Above
<1>2. CASE fwWriter = "record"
  <2>1. k \in 1..10
    BY <1>2, RecordCalls
  <2>2. k = 1 \/ k = 3
    BY <1>2, <2>1, RecordCalls
  <2> QED
    BY <1>2, <2>2 DEF F!Above
<1>3. CASE fwWriter = "status"
  <2>1. k \in 1..6
    BY <1>3, StatusCalls
  <2>2. FALSE
    BY <1>3, <2>1, StatusCalls
  <2> QED
    BY <1>3, <2>2 DEF F!Above
<1>4. CASE fwWriter = "release"
  <2>1. k \in 1..30
    BY <1>4, ReleaseCalls
  <2>2. k = 1 \/ k = 4 \/ k = 7 \/ k = 12
    BY <1>4, <2>1, ReleaseKinds
  <2> QED
    BY <1>4, <2>2, ReleaseCalls DEF F!Above
<1> QED
  BY <1>1, <1>2, <1>3, <1>4

\* Before the writers of one file create it they make directories and remove what is
\* in its way; after it is renamed they only sync.
LEMMA SinglePlaces ==
    ASSUME fwWriter \in {"slot", "record", "status"}, NEW k \in 1..Len(F!Calls)
    PROVE  /\ F!Creating \in Nat \ {0} /\ F!Creating + 4 <= Len(F!Calls)
           /\ F!Calls[k][1] \notin {"stage", "present"}
           /\ F!Calls[k][1] \in {"mkdir", "sync_made", "remove"} <=> k < F!Creating
           /\ F!Calls[k][1] = "create" <=> k = F!Creating
           /\ F!Calls[k][1] = "write" <=> k = F!Creating + 1
           /\ F!Calls[k][1] = "sync_file" <=> k = F!Creating + 2
           /\ F!Calls[k][1] = "rename" <=> k = F!Creating + 3
           /\ F!Calls[k][1] = "sync" <=> k > F!Creating + 3
           /\ F!Calls[k][1] \in {"remove", "create", "rename"} =>
                <<F!Calls[k][2], F!Calls[k][3]>> = F!Temp
           /\ F!Calls[k][1] = "rename" => <<F!Calls[k][2], F!Calls[k][4]>> = F!Final
           /\ k = F!Creating + 4 => F!Calls[k][2] = F!Home
<1>1. CASE fwWriter = "slot"
  <2>1. Len(F!Calls) = 13 /\ F!Creating = 7 /\ F!Home = "app" /\ k \in 1..13
    BY <1>1, SlotCalls DEF F!Creating, F!Home
  <2>2. /\ F!Calls[k][1] \notin {"stage", "present"}
        /\ F!Calls[k][1] \in {"mkdir", "sync_made", "remove"} <=> k < 7
        /\ F!Calls[k][1] = "create" <=> k = 7
        /\ F!Calls[k][1] = "write" <=> k = 8
        /\ F!Calls[k][1] = "sync_file" <=> k = 9
        /\ F!Calls[k][1] = "rename" <=> k = 10
        /\ F!Calls[k][1] = "sync" <=> k > 10
    BY <1>1, <2>1, SlotCalls
  <2>3. /\ F!Calls[k][1] \in {"remove", "create", "rename"} =>
              <<F!Calls[k][2], F!Calls[k][3]>> = F!Temp
        /\ F!Calls[k][1] = "rename" => <<F!Calls[k][2], F!Calls[k][4]>> = F!Final
        /\ k = 11 => F!Calls[k][2] = F!Home
    BY <1>1, <2>1, SlotCalls DEF F!Temp, F!Final
  <2> QED
    BY <2>1, <2>2, <2>3
<1>2. CASE fwWriter = "record"
  <2>1. Len(F!Calls) = 10 /\ F!Creating = 6 /\ F!Home = "app" /\ k \in 1..10
    BY <1>2, RecordCalls DEF F!Creating, F!Home
  <2>2. /\ F!Calls[k][1] \notin {"stage", "present"}
        /\ F!Calls[k][1] \in {"mkdir", "sync_made", "remove"} <=> k < 6
        /\ F!Calls[k][1] = "create" <=> k = 6
        /\ F!Calls[k][1] = "write" <=> k = 7
        /\ F!Calls[k][1] = "sync_file" <=> k = 8
        /\ F!Calls[k][1] = "rename" <=> k = 9
        /\ F!Calls[k][1] = "sync" <=> k > 9
    BY <1>2, <2>1, RecordCalls
  <2>3. /\ F!Calls[k][1] \in {"remove", "create", "rename"} =>
              <<F!Calls[k][2], F!Calls[k][3]>> = F!Temp
        /\ F!Calls[k][1] = "rename" => <<F!Calls[k][2], F!Calls[k][4]>> = F!Final
        /\ k = 10 => F!Calls[k][2] = F!Home
    BY <1>2, <2>1, RecordCalls DEF F!Temp, F!Final
  <2> QED
    BY <2>1, <2>2, <2>3
<1>3. CASE fwWriter = "status"
  <2>1. Len(F!Calls) = 6 /\ F!Creating = 2 /\ F!Home = "run" /\ k \in 1..6
    BY <1>3, StatusCalls DEF F!Creating, F!Home
  <2>2. /\ F!Calls[k][1] \notin {"stage", "present"}
        /\ F!Calls[k][1] \in {"mkdir", "sync_made", "remove"} <=> k < 2
        /\ F!Calls[k][1] = "create" <=> k = 2
        /\ F!Calls[k][1] = "write" <=> k = 3
        /\ F!Calls[k][1] = "sync_file" <=> k = 4
        /\ F!Calls[k][1] = "rename" <=> k = 5
        /\ F!Calls[k][1] = "sync" <=> k > 5
    BY <1>3, <2>1, StatusCalls
  <2>3. /\ F!Calls[k][1] \in {"remove", "create", "rename"} =>
              <<F!Calls[k][2], F!Calls[k][3]>> = F!Temp
        /\ F!Calls[k][1] = "rename" => <<F!Calls[k][2], F!Calls[k][4]>> = F!Final
        /\ k = 6 => F!Calls[k][2] = F!Home
    BY <1>3, <2>1, StatusCalls DEF F!Temp, F!Final
  <2> QED
    BY <2>1, <2>2, <2>3
<1> QED
  BY <1>1, <1>2, <1>3

-----------------------------------------------------------------------------
\* A writer writes the same file all along, with the same calls and names.
LEMMA SameWriter ==
    ASSUME [F!Next]_(F!vars)
    PROVE  /\ fwWriter' = fwWriter
           /\ F!Calls' = F!Calls /\ F!Names' = F!Names /\ F!Top' = F!Top
           /\ F!Above' = F!Above /\ F!Contents' = F!Contents
           /\ F!Home' = F!Home /\ F!Creating' = F!Creating
           /\ F!Final' = F!Final /\ F!Temp' = F!Temp
<1>1. fwWriter' = fwWriter
  BY DEF F!Next, F!vars, F!Start, F!MakeDirectory, F!MakeStage, F!SyncDirectory, F!Create,
     F!RemoveOld, F!Write, F!SyncFile, F!Rename, F!FindPresent, F!Fail, F!Kill, F!PowerLoss
<1>2. F!write_slot' = F!write_slot /\ F!Temporary' = F!Temporary
  BY DEF F!write_slot, F!Written, F!write_all, F!Temporary
<1>3. F!Calls' = F!Calls
  BY <1>1, <1>2 DEF F!Calls
<1>4. F!Top' = F!Top
  BY <1>1 DEF F!Top
<1>5. F!Names' = F!Names /\ F!Contents' = F!Contents
  BY <1>1, <1>2, <1>4 DEF F!Names, F!Contents
<1>6. F!Above' = F!Above
  BY <1>1 DEF F!Above
<1>7. F!Home' = F!Home /\ F!Creating' = F!Creating
  BY <1>1 DEF F!Home, F!Creating
<1> QED
  BY <1>1, <1>3, <1>4, <1>5, <1>6, <1>7 DEF F!Final, F!Temp

\* The numbers that the invariant is about.
LEMMA FilesNumbers ==
    ASSUME F!NamesInv
    PROVE  /\ fwWriter \in {"slot", "record", "status", "release"}
           /\ FilesPieces \in Nat \ {0} /\ fwRun \in Nat /\ fwAcked \in Nat /\ fwAcked <= fwRun
           /\ Len(F!Calls) \in Nat \ {0} /\ fwPc \in Nat /\ fwPc <= Len(F!Calls)
           /\ fwPc # 0 => fwPc \in 1..Len(F!Calls)
<1>1. fwWriter \in {"slot", "record", "status", "release"}
  BY DEF F!NamesInv
<1>2. Len(F!Calls) \in Nat \ {0}
  BY <1>1, SlotCalls, RecordCalls, StatusCalls, ReleaseCalls
<1> QED
  BY <1>1, <1>2, FilesInstance DEF F!NamesInv, F!FilesAssumption

\* A power loss leaves under each name something that was on the disk, and settles it;
\* what was synced of a file it leaves.
LEMMA LossSettles ==
    ASSUME F!NamesInv, F!CreatedInv, F!PowerLoss
    PROVE  /\ fwPc' = 0 /\ UNCHANGED <<fwWriter, fwRun, fwMade, fwAcked, fwMissed>>
           /\ DOMAIN fwEntry' = F!Names /\ DOMAIN fwDisk' = F!Names
           /\ \A e \in F!Names : fwEntry'[e] \in fwDisk[e] /\ fwDisk'[e] = {fwEntry'[e]}
           /\ DOMAIN fwFile' = DOMAIN fwFile
           /\ \A i \in DOMAIN fwFile :
                /\ fwFile'[i] \in [pieces : Nat, synced : BOOLEAN] /\ fwFile'[i].synced
                /\ fwFile[i].synced => fwFile'[i].pieces = fwFile[i].pieces
<1> DEFINE unsettled == {e \in F!Names : F!Cardinality(fwDisk[e]) > 1}
           unsynced  == {i \in DOMAIN fwFile : ~fwFile[i].synced}
<1>1. PICK left \in [unsettled -> UNION {fwDisk[e] : e \in unsettled}],
           kept \in [unsynced -> 0..FilesPieces] :
        /\ \A e \in unsettled : left[e] \in fwDisk[e]
        /\ fwEntry' = [e \in F!Names |-> IF e \in unsettled THEN left[e]
                                         ELSE CHOOSE v \in fwDisk[e] : TRUE]
        /\ fwFile' = [i \in DOMAIN fwFile |->
                        [pieces |-> IF i \in unsynced THEN kept[i] ELSE fwFile[i].pieces,
                         synced |-> TRUE]]
  BY DEF F!PowerLoss
<1>2. /\ fwPc' = 0 /\ UNCHANGED <<fwWriter, fwRun, fwMade, fwAcked, fwMissed>>
      /\ fwDisk' = [e \in F!Names |-> {fwEntry'[e]}]
  BY DEF F!PowerLoss
<1>3. ASSUME NEW e \in F!Names PROVE fwEntry'[e] \in fwDisk[e]
  <2>1. CASE e \in unsettled
    BY <1>1, <2>1
  <2>2. CASE e \notin unsettled
    <3>1. fwEntry[e] \in fwDisk[e]
      BY DEF F!NamesInv
    <3>2. (CHOOSE v \in fwDisk[e] : TRUE) \in fwDisk[e]
      BY <3>1
    <3> QED
      BY <1>1, <2>2, <3>2
  <2> QED
    BY <2>1, <2>2
<1>4. ASSUME NEW i \in DOMAIN fwFile
      PROVE  /\ fwFile'[i] \in [pieces : Nat, synced : BOOLEAN] /\ fwFile'[i].synced
             /\ fwFile[i].synced => fwFile'[i].pieces = fwFile[i].pieces
  <2>1. fwFile[i].pieces \in Nat /\ (i \in unsynced => kept[i] \in Nat)
    <3>1. fwFile[i] \in [pieces : Nat, synced : BOOLEAN]
      BY DEF F!CreatedInv, F!OfAttempt
    <3>2. ASSUME i \in unsynced PROVE kept[i] \in 0..FilesPieces
      BY <1>1, <3>2
    <3>3. FilesPieces \in Nat
      BY FilesInstance DEF F!FilesAssumption
    <3> QED
      BY <3>1, <3>2, <3>3
  <2>2. fwFile'[i] = [pieces |-> IF i \in unsynced THEN kept[i] ELSE fwFile[i].pieces,
                      synced |-> TRUE]
    BY <1>1
  <2> QED
    BY <2>1, <2>2
<1>5. DOMAIN fwEntry' = F!Names /\ DOMAIN fwFile' = DOMAIN fwFile
  BY <1>1
<1> QED
  BY <1>2, <1>3, <1>4, <1>5

\* Entries and disk go together, and what is reported has been tried.
LEMMA NamesStep ==
    ASSUME F!FilesInv, [F!Next]_(F!vars)
    PROVE  F!NamesInv'
<1>0. /\ F!NamesInv /\ F!CreatedInv
      /\ fwWriter \in {"slot", "record", "status", "release"}
      /\ fwRun \in Nat /\ fwAcked \in Nat /\ fwAcked <= fwRun
      /\ Len(F!Calls) \in Nat \ {0} /\ fwPc \in Nat /\ fwPc <= Len(F!Calls)
      /\ DOMAIN fwEntry = F!Names /\ DOMAIN fwDisk = F!Names
      /\ \A e \in F!Names : fwEntry[e] \in fwDisk[e]
      /\ fwMade \in BOOLEAN /\ fwMissed \in BOOLEAN
  BY FilesNumbers DEF F!FilesInv, F!NamesInv
<1>1. /\ fwRun' \in Nat /\ fwAcked' \in 0..fwRun' /\ fwPc' \in 0..Len(F!Calls)
      /\ fwMade' \in BOOLEAN /\ fwMissed' \in BOOLEAN
  <2>1. CASE F!Start
    <3>1. fwRun' = fwRun + 1 /\ fwPc' = 1 /\ fwMade' = FALSE /\ UNCHANGED <<fwAcked, fwMissed>>
      BY <2>1 DEF F!Start
    <3>2. fwRun' \in Nat /\ fwAcked' \in 0..fwRun'
      BY <1>0, <3>1
    <3>3. fwPc' \in 0..Len(F!Calls)
      BY <1>0, <3>1
    <3> QED
      BY <1>0, <3>1, <3>2, <3>3
  <2>2. ASSUME F!Continue, fwRun' = fwRun, fwPc # 0
        PROVE  fwRun' \in Nat /\ fwAcked' \in 0..fwRun' /\ fwPc' \in 0..Len(F!Calls)
    BY <1>0, <2>2 DEF F!Continue
  <2>3. CASE F!MakeDirectory
    BY <1>0, <2>2, <2>3 DEF F!MakeDirectory, F!Call
  <2>4. CASE F!MakeStage \/ F!SyncDirectory \/ F!Create \/ F!RemoveOld \/ F!SyncFile \/ F!Rename
    BY <1>0, <2>2, <2>4 DEF F!MakeStage, F!SyncDirectory, F!Create, F!RemoveOld, F!SyncFile,
       F!Rename, F!Call
  <2>5. CASE F!Write
    BY <1>0, <2>2, <2>5 DEF F!Write, F!Call
  <2>6. CASE F!FindPresent
    <3>1. CASE fwEntry[F!At] = F!None
      BY <1>0, <2>2, <2>6, <3>1 DEF F!FindPresent, F!Call
    <3>2. CASE fwEntry[F!At] # F!None
      BY <1>0, <2>6, <3>2 DEF F!FindPresent
    <3> QED
      BY <3>1, <3>2
  <2>7. CASE F!Fail \/ F!Kill \/ F!PowerLoss \/ UNCHANGED F!vars
    BY <1>0, <2>7 DEF F!Fail, F!Kill, F!PowerLoss, F!vars
  <2> QED
    BY <2>1, <2>3, <2>4, <2>5, <2>6, <2>7 DEF F!Next
<1>2. /\ DOMAIN fwEntry' = F!Names /\ DOMAIN fwDisk' = F!Names
      /\ \A e \in F!Names : fwEntry'[e] \in fwDisk'[e]
  <2>1. ASSUME NEW changed, NEW v, F!Link(changed, v)
        PROVE  /\ DOMAIN fwEntry' = F!Names /\ DOMAIN fwDisk' = F!Names
               /\ \A e \in F!Names : fwEntry'[e] \in fwDisk'[e]
    BY <1>0, <2>1 DEF F!Link
  <2>2. CASE F!Start \/ F!Write \/ F!SyncFile \/ F!FindPresent \/ F!Kill \/ UNCHANGED F!vars
    BY <1>0, <2>2 DEF F!Start, F!Write, F!SyncFile, F!FindPresent, F!Kill, F!vars
  <2>3. CASE F!MakeDirectory
    BY <1>0, <2>3 DEF F!MakeDirectory
  <2>4. CASE F!MakeStage
    BY <1>0, <2>4 DEF F!MakeStage
  <2>5. CASE F!SyncDirectory
    BY <1>0, <2>5 DEF F!SyncDirectory, F!Synced
  <2>6. CASE F!Create \/ F!RemoveOld
    BY <2>1, <2>6 DEF F!Create, F!RemoveOld
  <2>7. CASE F!Rename
    BY <1>0, <2>7 DEF F!Rename
  <2>8. CASE F!Fail
    BY <1>0, <2>1, <2>8 DEF F!Fail
  <2>9. CASE F!PowerLoss
    BY <1>0, <2>9, LossSettles
  <2> QED
    BY <2>2, <2>3, <2>4, <2>5, <2>6, <2>7, <2>8, <2>9 DEF F!Next
<1> QED
  BY <1>0, <1>1, <1>2, SameWriter DEF F!NamesInv
\* The file that is open is the one created last.
LEMMA OpenIs ==
    ASSUME F!NamesInv, F!CreatedInv, NEW k \in 1..(fwPc - 1), F!Calls[k][1] = "create",
           \A j \in (k + 1)..(fwPc - 1) : F!Calls[j][1] # "create"
    PROVE  F!Open = <<fwRun, k>>
<1>0. fwPc # 0 /\ fwPc \in Nat /\ fwRun \in Nat
  BY FilesNumbers
<1>1. <<fwRun, k>> \in DOMAIN fwFile
  BY DEF F!CreatedInv, F!Grows
<1>2. \A i \in DOMAIN fwFile : i \in Nat \X Nat
  BY DEF F!CreatedInv
<1>3. ASSUME NEW i \in DOMAIN fwFile, i[1] = fwRun PROVE i[2] \in Nat /\ i[2] <= k
  <2>1. i[2] \in 1..(fwPc - 1) /\ F!Calls[i[2]][1] = "create"
    BY <1>0, <1>3 DEF F!CreatedInv, F!OfAttempt
  <2>2. i[2] \notin (k + 1)..(fwPc - 1)
    BY <2>1
  <2> QED
    BY <1>0, <2>1, <2>2
<1>4. <<fwRun, k>>[1] = fwRun /\ \A j \in DOMAIN fwFile : j[1] = fwRun => j[2] <= <<fwRun, k>>[2]
  BY <1>3
<1>5. ASSUME NEW i \in DOMAIN fwFile, i[1] = fwRun,
             \A j \in DOMAIN fwFile : j[1] = fwRun => j[2] <= i[2]
      PROVE  i = <<fwRun, k>>
  <2>1. k <= i[2] /\ i[2] <= k /\ i[2] \in Nat
    BY <1>1, <1>3, <1>4, <1>5
  <2>2. i[2] = k
    BY <2>1
  <2> QED
    BY <1>2, <1>5, <2>2
<1> QED
  BY <1>1, <1>4, <1>5 DEF F!Open

\* Where an attempt writes and syncs, the file is the one that it just created.
LEMMA OpenAt ==
    ASSUME F!NamesInv, F!CreatedInv, fwPc # 0
    PROVE  /\ F!Calls[fwPc][1] = "write" =>
                /\ fwPc - 1 \in 1..(fwPc - 1) /\ F!Calls[fwPc - 1][1] = "create"
                /\ F!Open = <<fwRun, fwPc - 1>> /\ F!Grows(fwPc - 1)
           /\ F!Calls[fwPc][1] = "sync_file" =>
                /\ fwPc - 2 \in 1..(fwPc - 1) /\ F!Calls[fwPc - 2][1] = "create"
                /\ F!Open = <<fwRun, fwPc - 2>> /\ F!Grows(fwPc - 2)
<1>0. fwPc \in 1..Len(F!Calls) /\ fwPc \in Nat /\ Len(F!Calls) \in Nat
      /\ fwWriter \in {"slot", "record", "status", "release"}
  BY FilesNumbers
<1>1. ASSUME F!Calls[fwPc][1] = "write"
      PROVE  /\ fwPc - 1 \in 1..(fwPc - 1) /\ F!Calls[fwPc - 1][1] = "create"
             /\ F!Open = <<fwRun, fwPc - 1>> /\ F!Grows(fwPc - 1)
  <2>1. fwPc > 1 /\ F!Calls[fwPc - 1][1] = "create"
    BY <1>0, <1>1, FilePlaces
  <2>2. fwPc - 1 \in 1..(fwPc - 1) /\ \A j \in ((fwPc - 1) + 1)..(fwPc - 1) : FALSE
    BY <1>0, <2>1
  <2>3. F!Open = <<fwRun, fwPc - 1>>
    BY <2>1, <2>2, OpenIs
  <2> QED
    BY <2>1, <2>2, <2>3 DEF F!CreatedInv
<1>2. ASSUME F!Calls[fwPc][1] = "sync_file"
      PROVE  /\ fwPc - 2 \in 1..(fwPc - 1) /\ F!Calls[fwPc - 2][1] = "create"
             /\ F!Open = <<fwRun, fwPc - 2>> /\ F!Grows(fwPc - 2)
  <2>1. fwPc > 2 /\ F!Calls[fwPc - 2][1] = "create"
    BY <1>0, <1>2, FilePlaces
  <2>2. fwPc - 2 \in 1..(fwPc - 1) /\ fwPc - 2 \in 1..Len(F!Calls)
    BY <1>0, <2>1
  <2>3. F!Calls[(fwPc - 2) + 1][1] = "write"
    BY <1>0, <2>1, <2>2, FilePlaces
  <2>4. \A j \in ((fwPc - 2) + 1)..(fwPc - 1) : j = (fwPc - 2) + 1
    BY <1>0, <2>1
  <2>5. \A j \in ((fwPc - 2) + 1)..(fwPc - 1) : F!Calls[j][1] # "create"
    BY <2>3, <2>4
  <2>6. F!Open = <<fwRun, fwPc - 2>>
    BY <2>1, <2>2, <2>5, OpenIs
  <2> QED
    BY <2>1, <2>2, <2>6 DEF F!CreatedInv
<1> QED
  BY <1>1, <1>2

\* Between the calls that touch files an attempt leaves them as they are.
LEMMA GrowsOn ==
    ASSUME F!NamesInv, F!CreatedInv, fwPc # 0, fwRun' = fwRun, F!Calls' = F!Calls,
           NEW k \in 1..(fwPc - 1), F!Calls[k][1] = "create",
           F!Calls[fwPc][1] = "write" => k # fwPc - 1,
           F!Calls[fwPc][1] = "sync_file" => k # fwPc - 2,
           <<fwRun, k>> \in DOMAIN fwFile', fwFile'[<<fwRun, k>>] = fwFile[<<fwRun, k>>],
           fwPc' = fwPc + 1 \/ (fwPc' = fwPc /\ F!Calls[fwPc][1] = "write")
    PROVE  F!Grows(k)'
<1>1. /\ fwPc \in 1..Len(F!Calls) /\ fwPc \in Nat /\ Len(F!Calls) \in Nat /\ k \in Nat
      /\ k \in 1..Len(F!Calls) /\ fwWriter \in {"slot", "record", "status", "release"}
  BY FilesNumbers
<1>2. F!Calls[k + 1][1] = "write" /\ F!Calls[k + 2][1] = "sync_file"
  BY <1>1, FilePlaces
<1>3. fwPc # k + 1
  <2>1. ASSUME fwPc = k + 1 PROVE FALSE
    BY <1>1, <1>2, <2>1
  <2> QED
    BY <2>1
<1>4. fwPc # k + 2
  <2>1. ASSUME fwPc = k + 2 PROVE FALSE
    BY <1>1, <1>2, <2>1
  <2> QED
    BY <2>1
<1>5. fwPc > k + 2 /\ F!Whole(<<fwRun, k>>)
  <2>1. fwPc > k + 2
    BY <1>1, <1>3, <1>4
  <2> QED
    BY <2>1 DEF F!CreatedInv, F!Grows
<1>6. fwPc' > k + 2 /\ fwPc' # k + 1 /\ fwPc' # k + 2
  BY <1>1, <1>5
<1>7. F!Whole(<<fwRun, k>>)'
  BY <1>5 DEF F!Whole
<1> QED
  BY <1>6, <1>7 DEF F!Grows, F!Whole

\* When an attempt is over, nothing is required of its files but that they are files.
LEMMA CreatedOver ==
    ASSUME F!CreatedInv, F!Calls' = F!Calls, fwPc' = 0, fwRun' = fwRun,
           DOMAIN fwFile' = DOMAIN fwFile,
           \A i \in DOMAIN fwFile : fwFile'[i] \in [pieces : Nat, synced : BOOLEAN]
    PROVE  F!CreatedInv'
<1>1. \A i \in DOMAIN fwFile' : F!OfAttempt(i)'
  BY DEF F!CreatedInv, F!OfAttempt
<1>2. \A k \in 1..(fwPc' - 1) : FALSE
  OBVIOUS
<1> QED
  BY <1>1, <1>2 DEF F!CreatedInv

\* While an attempt goes on, what it has created stays, all but the open one as it was.
LEMMA CreatedOn ==
    ASSUME F!NamesInv, F!CreatedInv, F!Calls' = F!Calls, fwPc # 0, fwRun' = fwRun,
           fwPc' = fwPc + 1 \/ (fwPc' = fwPc /\ F!Calls[fwPc][1] = "write"),
           NEW kept \in Int, DOMAIN fwFile' = DOMAIN fwFile,
           \A i \in DOMAIN fwFile : fwFile'[i] \in [pieces : Nat, synced : BOOLEAN],
           \A i \in DOMAIN fwFile : i # <<fwRun, kept>> => fwFile'[i] = fwFile[i],
           F!Calls[fwPc][1] # "create", kept \in 1..(fwPc - 1) => F!Grows(kept)',
           F!Calls[fwPc][1] = "write" => kept = fwPc - 1,
           F!Calls[fwPc][1] = "sync_file" => kept = fwPc - 2
    PROVE  F!CreatedInv'
<1>1. /\ fwRun \in Nat /\ fwPc \in Nat /\ Len(F!Calls) \in Nat \ {0}
      /\ fwPc \in 1..Len(F!Calls)
  BY FilesNumbers
<1>2. /\ DOMAIN fwFile \subseteq Nat \X Nat
      /\ \A i \in DOMAIN fwFile : F!OfAttempt(i)
      /\ \A k \in 1..(fwPc - 1) : F!Calls[k][1] = "create" => F!Grows(k)
  BY DEF F!CreatedInv
<1>3. ASSUME NEW i \in DOMAIN fwFile' PROVE F!OfAttempt(i)'
  <2>1. i \in DOMAIN fwFile /\ F!OfAttempt(i)
    BY <1>2
  <2>2. i[1] <= fwRun' /\ fwFile'[i] \in [pieces : Nat, synced : BOOLEAN]
    BY <2>1 DEF F!OfAttempt
  <2>3. ASSUME i[1] = fwRun' PROVE i[2] \in 1..(fwPc' - 1) /\ F!Calls'[i[2]][1] = "create"
    <3>1. i[2] \in 1..(fwPc - 1) /\ F!Calls[i[2]][1] = "create"
      BY <2>1, <2>3 DEF F!OfAttempt
    <3> QED
      BY <1>1, <3>1
  <2> QED
    BY <2>2, <2>3 DEF F!OfAttempt
<1>4. ASSUME NEW k \in 1..(fwPc' - 1), F!Calls[k][1] = "create" PROVE F!Grows(k)'
  <2>1. k \in 1..(fwPc - 1)
    <3>1. k # fwPc
      BY <1>4
    <3> QED
      BY <1>1, <3>1
  <2>2. CASE k = kept
    BY <2>1, <2>2
  <2>3. CASE k # kept
    <3>1. <<fwRun, k>> \in DOMAIN fwFile
      BY <1>2, <1>4, <2>1 DEF F!Grows
    <3>2. <<fwRun, k>> # <<fwRun, kept>>
      BY <2>3
    <3>3. <<fwRun, k>> \in DOMAIN fwFile' /\ fwFile'[<<fwRun, k>>] = fwFile[<<fwRun, k>>]
      BY <3>1, <3>2
    <3>4. /\ F!Calls[fwPc][1] = "write" => k # fwPc - 1
          /\ F!Calls[fwPc][1] = "sync_file" => k # fwPc - 2
      BY <2>3
    <3> QED
      BY <1>4, <2>1, <3>3, <3>4, GrowsOn
  <2> QED
    BY <2>2, <2>3
<1> QED
  BY <1>1, <1>2, <1>3, <1>4 DEF F!CreatedInv

\* An attempt's files are created, whole and synced in this order, and stay.
LEMMA CreatedStep ==
    ASSUME F!FilesInv, [F!Next]_(F!vars)
    PROVE  F!CreatedInv'
<1>0. F!NamesInv /\ F!CreatedInv
  BY DEF F!FilesInv
<1>1. /\ fwRun \in Nat /\ fwPc \in Nat /\ Len(F!Calls) \in Nat \ {0} /\ FilesPieces \in Nat \ {0}
      /\ fwPc # 0 => fwPc \in 1..Len(F!Calls)
      /\ fwWriter \in {"slot", "record", "status", "release"}
      /\ F!Calls' = F!Calls
  BY <1>0, FilesNumbers, SameWriter
<1>2. /\ DOMAIN fwFile \subseteq Nat \X Nat
      /\ \A i \in DOMAIN fwFile : F!OfAttempt(i)
      /\ \A k \in 1..(fwPc - 1) : F!Calls[k][1] = "create" => F!Grows(k)
  BY <1>0 DEF F!CreatedInv
<1>5. \A i \in DOMAIN fwFile : fwFile[i] \in [pieces : Nat, synced : BOOLEAN]
  BY <1>2 DEF F!OfAttempt
<1>6. CASE F!MakeDirectory \/ F!MakeStage \/ F!SyncDirectory \/ F!RemoveOld \/ F!Rename
           \/ F!FindPresent
  <2>1. /\ fwPc # 0 /\ fwRun' = fwRun /\ fwFile' = fwFile
        /\ F!Calls[fwPc][1] \notin {"create", "write", "sync_file"}
        /\ fwPc' = 0 \/ fwPc' = fwPc + 1
    BY <1>6 DEF F!MakeDirectory, F!MakeStage, F!SyncDirectory, F!RemoveOld, F!Rename,
       F!FindPresent, F!Call, F!Continue
  <2>2. CASE fwPc' = 0
    BY <1>0, <1>1, <1>5, <2>1, <2>2, CreatedOver
  <2>3. CASE fwPc' = fwPc + 1
    <3>1. /\ 0 \notin 1..(fwPc - 1) /\ 0 \in Int /\ DOMAIN fwFile' = DOMAIN fwFile
          /\ \A i \in DOMAIN fwFile : fwFile'[i] = fwFile[i]
          /\ \A i \in DOMAIN fwFile : fwFile'[i] \in [pieces : Nat, synced : BOOLEAN]
          /\ F!Calls[fwPc][1] # "write" /\ F!Calls[fwPc][1] # "sync_file"
          /\ F!Calls[fwPc][1] # "create"
      BY <1>5, <2>1
    <3> QED
      BY <1>0, <1>1, <2>1, <2>3, <3>1, CreatedOn
  <2> QED
    BY <2>1, <2>2, <2>3
<1>7. CASE F!Create
  <2>1. /\ fwPc # 0 /\ F!Calls[fwPc][1] = "create" /\ fwRun' = fwRun
        /\ fwFile' = [i \in DOMAIN fwFile \union {<<fwRun, fwPc>>} |->
                        IF i = <<fwRun, fwPc>> THEN [pieces |-> 0, synced |-> FALSE]
                        ELSE fwFile[i]]
        /\ F!Continue
    BY <1>7 DEF F!Create, F!Call
  <2>2. fwPc + 2 < Len(F!Calls)
    BY <1>1, <2>1, FilePlaces
  <2>3. fwPc' = fwPc + 1
    BY <1>1, <2>1, <2>2 DEF F!Continue
  <2>4. ASSUME NEW i \in DOMAIN fwFile' PROVE i \in Nat \X Nat /\ F!OfAttempt(i)'
    <3>1. CASE i = <<fwRun, fwPc>>
      <4>1. fwFile'[i] = [pieces |-> 0, synced |-> FALSE]
        BY <2>1, <3>1
      <4>2. i[1] = fwRun /\ i[2] = fwPc /\ i[2] \in 1..(fwPc' - 1)
        BY <1>1, <2>1, <2>3, <3>1
      <4> QED
        BY <1>1, <2>1, <3>1, <4>1, <4>2 DEF F!OfAttempt
    <3>2. CASE i # <<fwRun, fwPc>>
      <4>1. i \in DOMAIN fwFile /\ fwFile'[i] = fwFile[i]
        BY <2>1, <3>2
      <4>2. F!OfAttempt(i) /\ i \in Nat \X Nat
        BY <1>2, <4>1
      <4>3. i[1] = fwRun => i[2] \in 1..(fwPc' - 1) /\ F!Calls[i[2]][1] = "create"
        <5>1. i[1] = fwRun => i[2] \in 1..(fwPc - 1) /\ F!Calls[i[2]][1] = "create"
          BY <2>1, <4>2 DEF F!OfAttempt
        <5> QED
          BY <1>1, <2>3, <5>1
      <4> QED
        BY <1>1, <2>1, <4>1, <4>2, <4>3 DEF F!OfAttempt
    <3> QED
      BY <3>1, <3>2
  <2>5. ASSUME NEW k \in 1..(fwPc' - 1), F!Calls[k][1] = "create" PROVE F!Grows(k)'
    <3>1. CASE k = fwPc
      <4>1. /\ <<fwRun, k>> \in DOMAIN fwFile'
            /\ fwFile'[<<fwRun, k>>] = [pieces |-> 0, synced |-> FALSE]
        BY <2>1, <3>1
      <4>2. fwFile'[<<fwRun, k>>].pieces < FilesPieces /\ ~fwFile'[<<fwRun, k>>].synced
        BY <1>1, <4>1
      <4>3. fwPc' # k + 2 /\ ~(fwPc' > k + 2)
        BY <1>1, <2>3, <3>1
      <4> QED
        BY <2>1, <4>1, <4>2, <4>3 DEF F!Grows
    <3>2. CASE k # fwPc
      <4>1. k \in 1..(fwPc - 1)
        BY <1>1, <2>3, <3>2
      <4>2. <<fwRun, k>> \in DOMAIN fwFile /\ <<fwRun, k>> # <<fwRun, fwPc>>
        BY <1>2, <2>5, <3>2, <4>1 DEF F!Grows
      <4>3. <<fwRun, k>> \in DOMAIN fwFile' /\ fwFile'[<<fwRun, k>>] = fwFile[<<fwRun, k>>]
        BY <2>1, <4>2
      <4> QED
        <5>1. F!Calls[fwPc][1] # "write" /\ F!Calls[fwPc][1] # "sync_file" /\ fwPc # 0
          BY <2>1
        <5> QED
          BY <1>0, <1>1, <2>1, <2>3, <2>5, <4>1, <4>3, <5>1, GrowsOn
    <3> QED
      BY <3>1, <3>2
  <2> QED
    BY <1>1, <2>4, <2>5 DEF F!CreatedInv
<1>8. CASE F!Write
  <2>1. /\ fwPc # 0 /\ fwRun' = fwRun
        /\ fwFile' = [fwFile EXCEPT ![F!Open].pieces = @ + 1]
        /\ F!Calls[fwPc][1] = "write"
    <3>1. F!Calls[fwPc][1] \in {"write", "write_once"} /\ fwPc # 0
      BY <1>8 DEF F!Write, F!Call
    <3> QED
      BY <1>1, <1>8, <3>1, FilePlaces DEF F!Write
  <2>2. PICK k \in 1..(fwPc - 1) : k = fwPc - 1 /\ F!Open = <<fwRun, k>> /\ F!Grows(k)
    BY <1>0, <2>1, OpenAt
  <2>3. PICK f \in [pieces : Nat, synced : BOOLEAN] :
          /\ f = fwFile[<<fwRun, k>>] /\ <<fwRun, k>> \in DOMAIN fwFile
          /\ f.pieces < FilesPieces /\ ~f.synced
    <3>1. k + 1 = fwPc
      BY <1>1, <2>2
    <3>2. /\ <<fwRun, k>> \in DOMAIN fwFile
          /\ fwFile[<<fwRun, k>>].pieces < FilesPieces
          /\ ~fwFile[<<fwRun, k>>].synced
      BY <2>2, <3>1 DEF F!Grows
    <3> QED
      BY <1>5, <3>2
  <2>4. /\ DOMAIN fwFile' = DOMAIN fwFile
        /\ fwFile'[<<fwRun, k>>] = [f EXCEPT !.pieces = f.pieces + 1]
        /\ \A i \in DOMAIN fwFile : i # <<fwRun, k>> => fwFile'[i] = fwFile[i]
    BY <2>1, <2>2, <2>3
  <2>5. /\ fwFile'[<<fwRun, k>>] \in [pieces : Nat, synced : BOOLEAN]
        /\ fwFile'[<<fwRun, k>>].pieces = f.pieces + 1
        /\ ~fwFile'[<<fwRun, k>>].synced
    BY <2>3, <2>4
  <2>6. \A i \in DOMAIN fwFile : fwFile'[i] \in [pieces : Nat, synced : BOOLEAN]
    BY <1>5, <2>4, <2>5
  <2>7. \/ fwPc' = fwPc /\ f.pieces + 1 < FilesPieces
        \/ F!Continue /\ ~(f.pieces + 1 < FilesPieces)
    BY <1>8, <2>1, <2>2, <2>3 DEF F!Write, F!Call
  <2>8. CASE fwPc' = 0
    BY <1>0, <1>1, <2>1, <2>4, <2>6, <2>8, CreatedOver
  <2>9. CASE fwPc' # 0
    <3>1. \/ fwPc' = fwPc /\ f.pieces + 1 < FilesPieces
          \/ fwPc' = fwPc + 1 /\ f.pieces + 1 = FilesPieces
      BY <1>1, <2>3, <2>7, <2>9 DEF F!Continue
    <3>2. F!Grows(k)'
      <4>1. CASE fwPc' = fwPc /\ f.pieces + 1 < FilesPieces
        <5>1. fwPc' = k + 1 /\ fwPc' # k + 2 /\ ~(fwPc' > k + 2)
          BY <1>1, <2>2, <4>1
        <5>2. <<fwRun', k>> \in DOMAIN fwFile'
          BY <2>1, <2>3, <2>4
        <5> QED
          BY <2>1, <2>5, <4>1, <5>1, <5>2 DEF F!Grows
      <4>2. CASE fwPc' = fwPc + 1 /\ f.pieces + 1 = FilesPieces
        <5>1. fwPc' # k + 1 /\ fwPc' = k + 2 /\ ~(fwPc' > k + 2)
          BY <1>1, <2>2, <4>2
        <5>2. <<fwRun', k>> \in DOMAIN fwFile'
          BY <2>1, <2>3, <2>4
        <5> QED
          BY <2>1, <2>5, <4>2, <5>1, <5>2 DEF F!Grows
      <4> QED
        BY <3>1, <4>1, <4>2
    <3>3. fwPc' = fwPc + 1 \/ (fwPc' = fwPc /\ F!Calls[fwPc][1] = "write")
      BY <2>1, <3>1
    <3> QED
      <4>1. /\ F!Calls[fwPc][1] # "create" /\ F!Calls[fwPc][1] # "sync_file" /\ k \in Int
        BY <1>1, <2>1, <2>2
      <4> QED
        BY <1>0, <1>1, <2>1, <2>2, <2>4, <2>6, <3>2, <3>3, <4>1, CreatedOn
  <2> QED
    BY <2>8, <2>9
<1>9. CASE F!SyncFile
  <2>1. /\ fwPc # 0 /\ fwRun' = fwRun /\ F!Continue
        /\ fwFile' = [fwFile EXCEPT ![F!Open].synced = TRUE]
        /\ F!Calls[fwPc][1] = "sync_file"
    BY <1>9 DEF F!SyncFile, F!Call
  <2>2. PICK k \in 1..(fwPc - 1) : k = fwPc - 2 /\ F!Open = <<fwRun, k>> /\ F!Grows(k)
    BY <1>0, <2>1, OpenAt
  <2>3. PICK f \in [pieces : Nat, synced : BOOLEAN] :
          /\ f = fwFile[<<fwRun, k>>] /\ <<fwRun, k>> \in DOMAIN fwFile
          /\ f.pieces = FilesPieces
    <3>1. k + 2 = fwPc
      BY <1>1, <2>2
    <3>2. /\ <<fwRun, k>> \in DOMAIN fwFile
          /\ fwFile[<<fwRun, k>>].pieces = FilesPieces
      BY <2>2, <3>1 DEF F!Grows
    <3> QED
      BY <1>5, <3>2
  <2>4. /\ DOMAIN fwFile' = DOMAIN fwFile
        /\ fwFile'[<<fwRun, k>>] = [f EXCEPT !.synced = TRUE]
        /\ \A i \in DOMAIN fwFile : i # <<fwRun, k>> => fwFile'[i] = fwFile[i]
    BY <2>1, <2>2, <2>3
  <2>5. /\ fwFile'[<<fwRun, k>>] \in [pieces : Nat, synced : BOOLEAN]
        /\ fwFile'[<<fwRun, k>>].pieces = FilesPieces
        /\ fwFile'[<<fwRun, k>>].synced
    BY <2>3, <2>4
  <2>6. \A i \in DOMAIN fwFile : fwFile'[i] \in [pieces : Nat, synced : BOOLEAN]
    BY <1>5, <2>4, <2>5
  <2>7. fwPc' = 0 \/ fwPc' = fwPc + 1
    BY <2>1 DEF F!Continue
  <2>8. CASE fwPc' = 0
    BY <1>0, <1>1, <2>1, <2>4, <2>6, <2>8, CreatedOver
  <2>9. CASE fwPc' = fwPc + 1
    <3>1. fwPc' # k + 1 /\ fwPc' # k + 2
      BY <1>1, <2>2, <2>9
    <3>2. <<fwRun', k>> \in DOMAIN fwFile'
      BY <2>1, <2>3, <2>4
    <3>3. F!Grows(k)'
      BY <2>1, <2>5, <3>1, <3>2 DEF F!Grows, F!Whole
    <3> QED
      <4>1. /\ F!Calls[fwPc][1] # "create" /\ F!Calls[fwPc][1] # "write" /\ k \in Int
        BY <1>1, <2>1, <2>2
      <4> QED
        BY <1>0, <1>1, <2>1, <2>2, <2>4, <2>6, <2>9, <3>3, <4>1, CreatedOn
  <2> QED
    BY <2>7, <2>8, <2>9
<1>10. CASE F!Start
  <2>1. fwPc' = 1 /\ fwRun' = fwRun + 1 /\ fwFile' = fwFile
    BY <1>10 DEF F!Start
  <2>2. ASSUME NEW i \in DOMAIN fwFile' PROVE F!OfAttempt(i)'
    <3>1. i \in DOMAIN fwFile /\ i[1] \in Nat /\ i[1] <= fwRun
      BY <1>2, <2>1 DEF F!OfAttempt
    <3>2. i[1] <= fwRun' /\ i[1] # fwRun'
      BY <1>1, <2>1, <3>1
    <3> QED
      BY <1>5, <2>1, <3>1, <3>2 DEF F!OfAttempt
  <2>3. \A k \in 1..(fwPc' - 1) : FALSE
    BY <2>1
  <2> QED
    BY <1>2, <2>1, <2>2, <2>3 DEF F!CreatedInv
<1>11. CASE F!Fail \/ F!Kill
  <2>1. fwPc' = 0 /\ fwRun' = fwRun /\ fwFile' = fwFile
    BY <1>11 DEF F!Fail, F!Kill
  <2> QED
    BY <1>0, <1>1, <1>5, <2>1, CreatedOver
<1>12. CASE F!PowerLoss
  BY <1>0, <1>1, <1>12, LossSettles, CreatedOver
<1>13. CASE UNCHANGED F!vars
  BY <1>0, <1>1, <1>13 DEF F!vars, F!CreatedInv, F!OfAttempt, F!Grows, F!Whole
<1> QED
  BY <1>6, <1>7, <1>8, <1>9, <1>10, <1>11, <1>12, <1>13 DEF F!Next


\* No directory, no file and no other thing a name leads to is the lack of one.
LEMMA NoneDirFile ==
    /\ F!None # F!Dir
    /\ \A a, b : <<a, b>> # F!None /\ <<a, b>> # F!Dir
<1>1. F!None # F!Dir
  BY DEF F!None, F!Dir
<1>2. ASSUME NEW a, NEW b PROVE <<a, b>> # F!None /\ <<a, b>> # F!Dir
  BY DEF F!None, F!Dir
<1> QED
  BY <1>1, <1>2

\* What is created, removed or renamed is temporary or within a stage; a temporary
\* name is renamed to the final one.
LEMMA TouchedPlaces ==
    ASSUME fwWriter \in {"slot", "record", "status", "release"}, NEW k \in 1..Len(F!Calls)
    PROVE  /\ F!Calls[k][1] \in {"stage", "create", "remove", "rename"} =>
                <<F!Calls[k][2], F!Calls[k][3]>> \in {F!Temp} \cup F!Inner
           /\ F!Calls[k][1] \in {"stage", "rename"} =>
                <<F!Calls[k][2], F!Calls[k][3]>> = F!Temp
           /\ F!Calls[k][1] = "rename" => <<F!Calls[k][2], F!Calls[k][4]>> = F!Final
           /\ F!Calls[k][1] = "present" => <<F!Calls[k][2], F!Calls[k][3]>> = F!Final
<1>1. CASE fwWriter \in {"slot", "record", "status"}
  BY <1>1, SinglePlaces
<1>2. CASE fwWriter = "release"
  <2>1. k \in 1..30
    BY <1>2, ReleaseCalls
  <2>2. /\ F!Calls[k][1] = "stage" => k = 11
        /\ F!Calls[k][1] = "create" => k \in {15, 19, 22}
        /\ F!Calls[k][1] # "remove"
        /\ F!Calls[k][1] = "rename" => k = 26
        /\ F!Calls[k][1] = "present" => k = 10
    BY <1>2, <2>1, ReleaseKinds
  <2>3. F!Temp = <<"releases", "temporary">> /\ F!Final = <<"releases", "final">>
    BY <1>2 DEF F!Temp, F!Final, F!Home
  <2>4. /\ <<"assets", "file">> \in F!Inner /\ <<"stage", "package">> \in F!Inner
        /\ <<"stage", "marker">> \in F!Inner
    BY DEF F!Inner
  <2>5. /\ F!Calls[10] = <<"present", "releases", "final">>
        /\ F!Calls[11] = <<"stage", "releases", "temporary">>
        /\ F!Calls[15] = <<"create", "assets", "file">>
        /\ F!Calls[19] = <<"create", "stage", "package">>
        /\ F!Calls[22] = <<"create", "stage", "marker">>
        /\ F!Calls[26] = <<"rename", "releases", "temporary", "final">>
    BY <1>2, ReleaseCalls
  <2>6. /\ k \in {11, 26} => <<F!Calls[k][2], F!Calls[k][3]>> = F!Temp
        /\ k = 10 => <<F!Calls[k][2], F!Calls[k][3]>> = F!Final
        /\ k = 26 => <<F!Calls[k][2], F!Calls[k][4]>> = F!Final
    BY <2>3, <2>5
  <2>7. k \in {15, 19, 22} => <<F!Calls[k][2], F!Calls[k][3]>> \in F!Inner
    <3>1. k = 15 => <<F!Calls[k][2], F!Calls[k][3]>> = <<"assets", "file">>
      BY <2>5
    <3>2. k = 19 => <<F!Calls[k][2], F!Calls[k][3]>> = <<"stage", "package">>
      BY <2>5
    <3>3. k = 22 => <<F!Calls[k][2], F!Calls[k][3]>> = <<"stage", "marker">>
      BY <2>5
    <3> QED
      BY <2>4, <3>1, <3>2, <3>3
  <2> QED
    BY <2>2, <2>6, <2>7
<1> QED
  BY <1>1, <1>2

\* A directory above the final name stays made, and settled, for the rest of the attempt.
LEMMA AboveStep ==
    ASSUME F!FilesInv, [F!Next]_(F!vars)
    PROVE  F!AboveInv'
<1>0. /\ F!NamesInv /\ F!CreatedInv /\ fwPc \in Nat /\ Len(F!Calls) \in Nat
      /\ fwPc # 0 => fwPc \in 1..Len(F!Calls)
      /\ fwWriter \in {"slot", "record", "status", "release"}
      /\ DOMAIN fwEntry = F!Names /\ DOMAIN fwDisk = F!Names
      /\ fwMade \in BOOLEAN /\ fwMissed \in BOOLEAN
      /\ F!Above' = F!Above /\ F!None # F!Dir
  BY FilesNumbers, SameWriter, NoneDirFile DEF F!FilesInv, F!NamesInv
<1> SUFFICES ASSUME NEW d \in F!Above PROVE F!Standing(d)'
  BY <1>0 DEF F!AboveInv
<1>1. /\ d.name \in F!Names /\ d.name \notin F!Temporary /\ d.name \notin F!Inner
      /\ d.name # F!Final /\ d.name # F!Temp
      /\ d.making \in Nat \ {0} /\ d.settling \in Nat /\ d.making < d.settling
      /\ d.settling < Len(F!Calls)
      /\ F!Calls[d.making] = <<"mkdir", d.name[1], d.name[2]>>
      /\ F!Calls[d.settling] = <<"sync_made", d.name[1]>>
      /\ \A k \in 1..Len(F!Calls) : F!Calls[k][1] = "mkdir" /\ k > d.making =>
            /\ k > d.settling /\ d.name # <<F!Calls[k][2], F!Calls[k][3]>>
            /\ d.name[1] # F!Calls[k][3]
  BY <1>0, AbovePlaces
<1>2. /\ fwDisk[d.name] \subseteq {F!None, F!Dir} /\ fwEntry[d.name] \in fwDisk[d.name]
      /\ fwPc > d.making =>
            /\ fwEntry[d.name] = F!Dir
            /\ fwMissed \/ F!None \notin fwDisk[d.name] \/ (fwMade /\ fwPc <= d.settling)
  BY <1>0, <1>1 DEF F!FilesInv, F!AboveInv, F!Standing, F!NamesInv
<1>3. /\ F!Calls[d.making][1] = "mkdir" /\ F!Calls[d.settling][1] = "sync_made"
      /\ F!Calls[d.settling][2] = d.name[1]
  BY <1>1
\* The attempt starts or is over.
<1>4. ASSUME fwPc' = 0 \/ fwPc' = 1, fwDisk'[d.name] \subseteq {F!None, F!Dir}
      PROVE  F!Standing(d)'
  BY <1>1, <1>4 DEF F!Standing
\* The step is about other names.
<1>5. ASSUME fwPc # 0, fwPc' \in {0, fwPc, fwPc + 1}, fwEntry'[d.name] = fwEntry[d.name],
             fwDisk'[d.name] = fwDisk[d.name], fwMade' = fwMade, fwMissed' = fwMissed,
             F!Calls[fwPc][1] # "mkdir", F!Calls[fwPc][1] # "sync_made"
      PROVE  F!Standing(d)'
  <2>1. fwPc # d.making
    BY <1>3, <1>5
  <2>2. fwPc # d.settling
    BY <1>3, <1>5
  <2>3. CASE fwPc' > d.making
    <3>1. fwPc > d.making /\ (fwPc <= d.settling => fwPc' <= d.settling)
      BY <1>0, <1>1, <1>5, <2>1, <2>2, <2>3
    <3> QED
      BY <1>2, <1>5, <3>1 DEF F!Standing
  <2>4. CASE ~(fwPc' > d.making)
    BY <1>2, <1>5, <2>4 DEF F!Standing
  <2> QED
    BY <2>3, <2>4
<1>6. ASSUME NEW changed, NEW v, F!Link(changed, v), d.name \notin changed
      PROVE  fwEntry'[d.name] = fwEntry[d.name] /\ fwDisk'[d.name] = fwDisk[d.name]
  BY <1>1, <1>6 DEF F!Link
<1>7. CASE F!Start
  BY <1>2, <1>4, <1>7 DEF F!Start
<1>8. CASE F!MakeDirectory
  <2>1. /\ fwPc # 0 /\ F!Calls[fwPc][1] = "mkdir"
        /\ fwPc' = 0 \/ fwPc' = fwPc + 1
    BY <1>8 DEF F!MakeDirectory, F!Call, F!Continue
  <2>2. /\ fwMade' = (fwEntry[F!At] = F!None)
        /\ fwMissed' = (fwMissed \/ (fwEntry[F!At] # F!None /\ F!None \in fwDisk[F!At]))
        /\ fwMade' =>
            /\ fwEntry'[d.name] = IF d.name = F!At THEN F!Dir
                                  ELSE IF d.name[1] = F!At[2] THEN F!None ELSE fwEntry[d.name]
            /\ fwDisk'[d.name] = IF d.name = F!At THEN fwDisk[d.name] \cup {F!Dir}
                                 ELSE IF d.name[1] = F!At[2] THEN {F!None} ELSE fwDisk[d.name]
        /\ ~fwMade' => UNCHANGED <<fwEntry, fwDisk>>
    BY <1>1, <1>8 DEF F!MakeDirectory
  <2>3. fwDisk'[d.name] \subseteq {F!None, F!Dir}
    BY <1>2, <2>2
  <2>4. F!At = <<F!Calls[fwPc][2], F!Calls[fwPc][3]>> /\ F!At[2] = F!Calls[fwPc][3]
    BY DEF F!At
  <2>5. CASE fwPc < d.making
    <3>1. ~(fwPc' > d.making)
      BY <1>0, <1>1, <2>1, <2>5
    <3> QED
      BY <2>3, <3>1 DEF F!Standing
  <2>6. CASE fwPc = d.making
    <3>1. F!At = d.name
      <4>1. F!Calls[fwPc][2] = d.name[1] /\ F!Calls[fwPc][3] = d.name[2]
        BY <1>1, <2>6
      <4>2. d.name = <<d.name[1], d.name[2]>>
        BY <1>0 DEF F!Above
      <4> QED
        BY <2>4, <4>1, <4>2
    <3>2. fwPc' <= d.settling
      BY <1>0, <1>1, <2>1, <2>6
    <3>3. CASE fwMade'
      <4>1. fwEntry'[d.name] = F!Dir
        BY <2>2, <3>1, <3>3
      <4> QED
        BY <2>3, <3>2, <3>3, <4>1 DEF F!Standing
    <3>4. CASE ~fwMade'
      <4>1. fwEntry[d.name] # F!None /\ UNCHANGED <<fwEntry, fwDisk>>
        BY <2>2, <3>1, <3>4
      <4>2. fwEntry'[d.name] = F!Dir
        BY <1>2, <4>1
      <4>3. fwMissed' \/ F!None \notin fwDisk'[d.name]
        BY <2>2, <3>1, <4>1
      <4> QED
        BY <2>3, <4>2, <4>3 DEF F!Standing
    <3> QED
      BY <3>3, <3>4
  <2>7. CASE fwPc > d.making
    <3>1. fwPc > d.settling /\ d.name # F!At /\ d.name[1] # F!At[2]
      BY <1>0, <1>1, <2>1, <2>4, <2>7
    <3>2. fwEntry'[d.name] = fwEntry[d.name] /\ fwDisk'[d.name] = fwDisk[d.name]
      BY <2>2, <3>1
    <3>3. fwEntry[d.name] = F!Dir /\ (fwMissed \/ F!None \notin fwDisk[d.name])
      BY <1>0, <1>1, <1>2, <2>7, <3>1
    <3>4. fwMissed => fwMissed'
      BY <2>2
    <3> QED
      BY <2>3, <3>2, <3>3, <3>4 DEF F!Standing
  <2> QED
    BY <1>0, <1>1, <2>5, <2>6, <2>7
<1>9. CASE F!SyncDirectory
  <2>1. /\ fwPc # 0 /\ F!Calls[fwPc][1] \in {"sync", "sync_made"}
        /\ fwPc' = 0 \/ fwPc' = fwPc + 1
        /\ fwEntry' = fwEntry /\ fwMade' = fwMade /\ fwMissed' = fwMissed
        /\ IF F!Calls[fwPc][1] = "sync_made" /\ ~fwMade THEN fwDisk' = fwDisk
           ELSE fwDisk' = [e \in F!Names |-> IF e[1] = F!Calls[fwPc][2] THEN {fwEntry[e]}
                                             ELSE fwDisk[e]]
    BY <1>9 DEF F!SyncDirectory, F!Call, F!Continue, F!Synced
  <2>2. /\ fwDisk'[d.name] = fwDisk[d.name] \/ fwDisk'[d.name] = {fwEntry[d.name]}
        /\ fwPc = d.settling /\ fwMade => fwDisk'[d.name] = {fwEntry[d.name]}
    BY <1>1, <1>3, <2>1
  <2>3. fwDisk'[d.name] \subseteq {F!None, F!Dir}
    BY <1>2, <2>2
  <2>4. CASE fwPc' > d.making
    <3>1. fwPc # d.making
      BY <1>3, <2>1
    <3>2. fwPc > d.making
      BY <1>0, <1>1, <2>1, <2>4, <3>1
    <3>3. fwEntry'[d.name] = F!Dir
      BY <1>2, <2>1, <3>2
    <3>4. CASE fwDisk'[d.name] = {fwEntry[d.name]}
      <4>1. F!None \notin fwDisk'[d.name]
        BY <1>0, <1>2, <3>2, <3>4
      <4> QED
        BY <2>3, <3>3, <4>1 DEF F!Standing
    <3>5. CASE fwDisk'[d.name] # {fwEntry[d.name]}
      <4>1. fwDisk'[d.name] = fwDisk[d.name] /\ ~(fwPc = d.settling /\ fwMade)
        BY <2>2, <3>5
      <4>2. \/ fwMissed' \/ F!None \notin fwDisk'[d.name]
            \/ (fwMade' /\ fwPc <= d.settling)
        BY <1>2, <2>1, <3>2, <4>1
      <4>3. fwMade' /\ fwPc <= d.settling => fwPc' <= d.settling
        BY <1>0, <1>1, <2>1, <4>1
      <4> QED
        BY <2>3, <3>3, <4>2, <4>3 DEF F!Standing
    <3> QED
      BY <3>4, <3>5
  <2>5. CASE ~(fwPc' > d.making)
    BY <2>3, <2>5 DEF F!Standing
  <2> QED
    BY <2>4, <2>5
<1>10. CASE F!MakeStage \/ F!Create \/ F!RemoveOld \/ F!Rename
  <2>1. /\ fwPc # 0 /\ F!Calls[fwPc][1] \in {"stage", "create", "remove", "rename"}
        /\ fwPc' = 0 \/ fwPc' = fwPc + 1
        /\ fwMade' = fwMade /\ fwMissed' = fwMissed
    BY <1>10 DEF F!MakeStage, F!Create, F!RemoveOld, F!Rename, F!Call, F!Continue
  <2>2. F!At \in {F!Temp} \cup F!Inner
    BY <1>0, <2>1, TouchedPlaces DEF F!At
  <2>3. d.name # F!At
    BY <1>1, <2>2
  <2>4. fwEntry'[d.name] = fwEntry[d.name] /\ fwDisk'[d.name] = fwDisk[d.name]
    <3>1. CASE F!MakeStage
      BY <1>1, <2>3, <3>1 DEF F!MakeStage
    <3>2. CASE F!Create \/ F!RemoveOld
      BY <1>6, <2>3, <3>2 DEF F!Create, F!RemoveOld
    <3>3. CASE F!Rename
      <4>1. F!Calls[fwPc][1] = "rename"
        BY <3>3 DEF F!Rename, F!Call
      <4>2. <<F!Calls[fwPc][2], F!Calls[fwPc][4]>> = F!Final
        BY <1>0, <2>1, <4>1, TouchedPlaces
      <4> QED
        BY <1>0, <1>1, <2>3, <3>3, <4>2 DEF F!Rename
    <3> QED
      BY <1>10, <3>1, <3>2, <3>3
  <2> QED
    BY <1>5, <2>1, <2>4
<1>11. CASE F!Write \/ F!SyncFile
  BY <1>5, <1>11 DEF F!Write, F!SyncFile, F!Call, F!Continue
<1>12. CASE F!FindPresent
  <2>1. fwEntry' = fwEntry /\ fwDisk' = fwDisk /\ fwMade' = fwMade /\ F!Calls[fwPc][1] = "present"
        /\ fwPc # 0
    BY <1>12 DEF F!FindPresent, F!Call
  <2>2. CASE fwPc' = 0
    BY <1>2, <1>4, <2>1, <2>2
  <2>3. CASE fwPc' # 0
    <3>1. fwPc' = fwPc + 1 /\ fwMissed' = fwMissed
      BY <1>12, <2>3 DEF F!FindPresent, F!Continue
    <3> QED
      BY <1>5, <2>1, <3>1
  <2> QED
    BY <2>2, <2>3
<1>13. CASE F!Fail
  <2>1. fwPc' = 0 /\ (fwDisk' = fwDisk \/ F!Link(F!Names \cap F!Temporary, F!None))
    BY <1>13 DEF F!Fail
  <2>2. fwDisk'[d.name] = fwDisk[d.name]
    BY <1>1, <1>6, <2>1
  <2> QED
    BY <1>2, <1>4, <2>1, <2>2
<1>14. CASE F!Kill
  BY <1>2, <1>4, <1>14 DEF F!Kill
<1>15. CASE F!PowerLoss
  <2>1. fwPc' = 0 /\ fwEntry'[d.name] \in fwDisk[d.name] /\ fwDisk'[d.name] = {fwEntry'[d.name]}
    BY <1>0, <1>1, <1>15, LossSettles
  <2>2. fwDisk'[d.name] \subseteq {F!None, F!Dir}
    BY <1>2, <2>1
  <2> QED
    BY <1>4, <2>1, <2>2
<1>16. CASE UNCHANGED F!vars
  BY <1>2, <1>16 DEF F!Standing, F!vars
<1> QED
  BY <1>7, <1>8, <1>9, <1>10, <1>11, <1>12, <1>13, <1>14, <1>15, <1>16 DEF F!Next

\* A file that is whole and synced stays so: only the open one is written.
LEMMA WholeStays ==
    ASSUME F!NamesInv, F!CreatedInv, [F!Next]_(F!vars), NEW v, F!Whole(v)
    PROVE  F!Whole(v)'
<1>1. v \in DOMAIN fwFile /\ fwFile[v].pieces = FilesPieces /\ fwFile[v].synced
  BY DEF F!Whole
<1>2. SUFFICES ASSUME fwFile' # fwFile PROVE F!Whole(v)'
  BY <1>1 DEF F!Whole
<1>3. fwPc # 0 => fwPc \in 1..Len(F!Calls)
  BY FilesNumbers
<1>4. CASE F!Create
  <2>1. fwPc # 0 /\ fwPc \in Nat
    BY <1>4, FilesNumbers DEF F!Create, F!Call
  <2>2. v # <<fwRun, fwPc>>
    <3>1. ASSUME v = <<fwRun, fwPc>> PROVE FALSE
      <4>1. v[1] = fwRun /\ v[2] = fwPc
        BY <3>1
      <4>2. v[2] \in 1..(fwPc - 1)
        BY <1>1, <2>1, <4>1 DEF F!CreatedInv, F!OfAttempt
      <4> QED
        BY <2>1, <4>1, <4>2
    <3> QED
      BY <3>1
  <2>3. v \in DOMAIN fwFile' /\ fwFile'[v] = fwFile[v]
    BY <1>1, <1>4, <2>2 DEF F!Create
  <2> QED
    BY <1>1, <2>3 DEF F!Whole
<1>5. CASE F!Write
  <2>1. fwPc # 0 /\ F!Calls[fwPc][1] = "write"
    <3>1. F!Calls[fwPc][1] \in {"write", "write_once"} /\ fwPc # 0
      BY <1>5 DEF F!Write, F!Call
    <3> QED
      BY <1>3, <3>1, FilesNumbers, FilePlaces
  <2>2. PICK k \in 1..(fwPc - 1) : k = fwPc - 1 /\ F!Open = <<fwRun, k>> /\ F!Grows(k)
    BY <2>1, OpenAt
  <2>3. ~fwFile[F!Open].synced
    <3>1. fwPc = k + 1
      BY <2>2, FilesNumbers
    <3> QED
      BY <2>2, <3>1 DEF F!Grows
  <2>4. v # F!Open
    BY <1>1, <2>3
  <2>5. v \in DOMAIN fwFile' /\ fwFile'[v] = fwFile[v]
    BY <1>1, <1>5, <2>4 DEF F!Write
  <2> QED
    BY <1>1, <2>5 DEF F!Whole
<1>6. CASE F!SyncFile
  <2>1. fwFile' = [fwFile EXCEPT ![F!Open].synced = TRUE]
    BY <1>6 DEF F!SyncFile
  <2>2. fwFile[v] \in [pieces : Nat, synced : BOOLEAN]
    BY <1>1 DEF F!CreatedInv, F!OfAttempt
  <2>3. v \in DOMAIN fwFile' /\ fwFile'[v].pieces = fwFile[v].pieces /\ fwFile'[v].synced
    BY <1>1, <2>1, <2>2
  <2> QED
    BY <1>1, <2>3 DEF F!Whole
<1>7. CASE F!PowerLoss
  BY <1>1, <1>7, LossSettles DEF F!Whole
<1> QED
  BY <1>2, <1>4, <1>5, <1>6, <1>7 DEF F!Next, F!vars, F!Start, F!MakeDirectory, F!MakeStage,
     F!SyncDirectory, F!RemoveOld, F!Rename, F!FindPresent, F!Fail, F!Kill

\* The final and the temporary name are two names, and not of a directory above.
LEMMA FinalAndTemp ==
    ASSUME fwWriter \in {"slot", "record", "status", "release"}
    PROVE  /\ F!Final \in F!Names /\ F!Temp \in F!Names /\ F!Final # F!Temp
           /\ F!Final \in F!Top /\ F!Final \notin F!Temporary /\ F!Temp \in F!Temporary
           /\ F!Final[1] = F!Home /\ F!Final[2] = "final" /\ F!Temp[1] = F!Home
           /\ F!Final \notin F!Inner /\ F!Temp \notin F!Inner
<1>1. F!Temporary = {<<"app", "temporary">>, <<"run", "temporary">>, <<"releases", "temporary">>}
  BY DEF F!Temporary
<1>2. F!Home \in {"app", "run", "releases"}
  BY DEF F!Home
<1>3. F!Final \in F!Top /\ F!Final \in F!Names
  BY NamesOf DEF F!Final, F!Home
<1>4. F!Temp \in F!Names
  BY NamesOf DEF F!Temp, F!Home
<1>5. /\ F!Final[1] = F!Home /\ F!Final[2] = "final" /\ F!Temp[1] = F!Home
      /\ F!Temp[2] = "temporary"
  BY DEF F!Final, F!Temp
<1>6. F!Temp \in F!Temporary
  BY <1>1, <1>2 DEF F!Temp
<1>7. \A e \in F!Temporary : e[2] = "temporary"
  BY <1>1
<1>8. F!Final # F!Temp /\ F!Final \notin F!Temporary
  BY <1>5, <1>7
<1>9. \A e \in F!Inner : e[2] # "final" /\ e[2] # "temporary"
  BY DEF F!Inner
<1> QED
  BY <1>3, <1>4, <1>5, <1>6, <1>8, <1>9

\* Where a directory is made, it is not the final name that changes but what is in it.
LEMMA MakingNotFinal ==
    ASSUME F!NamesInv, fwPc # 0, F!Calls[fwPc][1] = "mkdir"
    PROVE  F!At # F!Final /\ F!At # F!Temp
<1>1. fwPc \in 1..Len(F!Calls) /\ fwWriter \in {"slot", "record", "status", "release"}
  BY FilesNumbers
<1>2. CASE \E d \in F!Above : fwPc = d.making
  <2>1. PICK d \in F!Above : fwPc = d.making
    BY <1>2
  <2>2. /\ F!Calls[d.making] = <<"mkdir", d.name[1], d.name[2]>>
        /\ d.name # F!Final /\ d.name # F!Temp
    BY <1>1, AbovePlaces
  <2>3. d.name = <<d.name[1], d.name[2]>>
    BY <1>1 DEF F!Above
  <2>4. F!At = <<d.name[1], d.name[2]>>
    BY <2>1, <2>2 DEF F!At
  <2> QED
    BY <2>2, <2>3, <2>4
<1>3. CASE F!Calls[fwPc] = <<"mkdir", "stage", "assets">>
  <2>1. F!At = <<"stage", "assets">>
    BY <1>3 DEF F!At
  <2>2. <<"stage", "assets">> \in F!Inner
    BY DEF F!Inner
  <2> QED
    BY <1>1, <2>1, <2>2, FinalAndTemp
<1> QED
  BY <1>1, <1>2, <1>3, MadePlaces

\* One file under its final name: it is replaced by one that is whole, and only then settled.
LEMMA SingleStep ==
    ASSUME F!FilesInv, [F!Next]_(F!vars), fwWriter # "release"
    PROVE  F!SingleInv'
<1>0. /\ F!NamesInv /\ F!CreatedInv /\ fwPc \in Nat /\ Len(F!Calls) \in Nat
      /\ fwPc # 0 => fwPc \in 1..Len(F!Calls)
      /\ fwWriter \in {"slot", "record", "status"}
      /\ DOMAIN fwEntry = F!Names /\ DOMAIN fwDisk = F!Names
      /\ \A e \in F!Names : fwEntry[e] \in fwDisk[e]
      /\ F!None # F!Dir /\ fwWriter' = fwWriter
      /\ F!Final' = F!Final /\ F!Temp' = F!Temp /\ F!Creating' = F!Creating
  BY FilesNumbers, SameWriter, NoneDirFile DEF F!FilesInv, F!NamesInv
<1>1. /\ F!Final \in F!Names /\ F!Temp \in F!Names /\ F!Final # F!Temp
      /\ F!Final \notin F!Temporary /\ F!Final[1] = F!Home
  BY <1>0, FinalAndTemp
<1>2. F!Creating \in Nat \ {0} /\ F!Creating + 4 <= Len(F!Calls)
  <2>1. 1 \in 1..Len(F!Calls)
    BY <1>0, FilesNumbers
  <2> QED
    BY <1>0, <2>1, SinglePlaces
<1>3. /\ \A v \in fwDisk[F!Final] : v = F!None \/ F!Whole(v)
      /\ fwPc \in (F!Creating + 1)..(F!Creating + 3) => fwEntry[F!Temp] = <<fwRun, F!Creating>>
      /\ fwPc > F!Creating + 3 => fwEntry[F!Final] = <<fwRun, F!Creating>>
      /\ fwPc > F!Creating + 4 => fwDisk[F!Final] = {<<fwRun, F!Creating>>}
      /\ (fwWriter = "slot" /\ fwPc > 12) => F!None \notin fwDisk[<<"apps", "app">>]
  BY <1>0 DEF F!FilesInv, F!SingleInv
\* What holds of the final name.
<1>4. ASSUME \A v \in fwDisk'[F!Final] : v \in fwDisk[F!Final] \/ v = F!None \/ F!Whole(v)
      PROVE  \A v \in fwDisk'[F!Final] : v = F!None \/ F!Whole(v)'
  <2> TAKE v \in fwDisk'[F!Final]
  <2>1. v = F!None \/ F!Whole(v)
    BY <1>3, <1>4
  <2> QED
    BY <1>0, <2>1, WholeStays
<1>5. ASSUME \A v \in fwDisk'[F!Final] : v \in fwDisk[F!Final] \/ v = F!None \/ F!Whole(v),
             fwPc' <= F!Creating, fwPc' \in Nat
      PROVE  F!SingleInv'
  <2>1. \A v \in fwDisk'[F!Final] : v = F!None \/ F!Whole(v)'
    BY <1>4, <1>5
  <2>2. /\ fwPc' \notin (F!Creating + 1)..(F!Creating + 3) /\ ~(fwPc' > F!Creating + 3)
        /\ ~(fwPc' > F!Creating + 4)
    BY <1>2, <1>5
  <2>3. ~(fwWriter = "slot" /\ fwPc' > 12)
    BY <1>5 DEF F!Creating
  <2> QED
    BY <1>0, <2>1, <2>2, <2>3 DEF F!SingleInv
<1>6. CASE F!Start \/ F!Kill
  <2>1. fwDisk' = fwDisk /\ fwPc' \in {0, 1}
    BY <1>6 DEF F!Start, F!Kill
  <2>2. fwPc' <= F!Creating /\ fwPc' \in Nat
    BY <1>2, <2>1
  <2> QED
    BY <1>5, <2>1, <2>2
<1>7. CASE F!Fail
  <2>1. fwPc' = 0 /\ (fwDisk' = fwDisk \/ F!Link(F!Names \cap F!Temporary, F!None))
    BY <1>7 DEF F!Fail
  <2>2. fwDisk'[F!Final] = fwDisk[F!Final]
    BY <1>1, <2>1 DEF F!Link
  <2> QED
    BY <1>2, <1>5, <2>1, <2>2
<1>8. CASE F!PowerLoss
  <2>1. fwPc' = 0 /\ fwEntry'[F!Final] \in fwDisk[F!Final] /\ fwDisk'[F!Final] = {fwEntry'[F!Final]}
    BY <1>0, <1>1, <1>8, LossSettles
  <2> QED
    BY <1>2, <1>5, <2>1
<1>9. CASE F!MakeStage \/ F!FindPresent
  <2>1. fwPc # 0 /\ F!Calls[fwPc][1] \in {"stage", "present"}
    BY <1>9 DEF F!MakeStage, F!FindPresent, F!Call
  <2> QED
    BY <1>0, <2>1, SinglePlaces
<1>10. CASE F!MakeDirectory
  <2>1. /\ fwPc # 0 /\ F!Calls[fwPc][1] = "mkdir" /\ fwPc' \in {0, fwPc + 1}
    BY <1>10 DEF F!MakeDirectory, F!Call, F!Continue
  <2>2. fwPc < F!Creating
    BY <1>0, <2>1, SinglePlaces
  <2>3. F!Final # F!At
    BY <1>0, <2>1, MakingNotFinal
  <2>4. fwDisk'[F!Final] = fwDisk[F!Final] \/ fwDisk'[F!Final] = {F!None}
    BY <1>1, <1>10, <2>3 DEF F!MakeDirectory
  <2>5. fwPc' <= F!Creating /\ fwPc' \in Nat
    BY <1>0, <1>2, <2>1, <2>2
  <2> QED
    BY <1>5, <2>4, <2>5
<1>11. CASE F!RemoveOld
  <2>1. /\ fwPc # 0 /\ F!Calls[fwPc][1] = "remove" /\ fwPc' \in {0, fwPc + 1}
    BY <1>11 DEF F!RemoveOld, F!Call, F!Continue
  <2>2. fwPc < F!Creating /\ F!At = F!Temp
    BY <1>0, <2>1, SinglePlaces DEF F!At
  <2>3. fwDisk'[F!Final] = fwDisk[F!Final]
    BY <1>1, <1>11, <2>2 DEF F!RemoveOld, F!Link
  <2>4. fwPc' <= F!Creating /\ fwPc' \in Nat
    BY <1>0, <1>2, <2>1, <2>2
  <2> QED
    BY <1>5, <2>3, <2>4
<1>12. CASE F!Create
  <2>1. /\ fwPc # 0 /\ F!Calls[fwPc][1] = "create" /\ F!Continue /\ fwRun' = fwRun
    BY <1>12 DEF F!Create, F!Call
  <2>2. fwPc = F!Creating /\ F!At = F!Temp
    BY <1>0, <2>1, SinglePlaces DEF F!At
  <2>3. fwPc' = F!Creating + 1
    BY <1>2, <2>1, <2>2 DEF F!Continue
  <2>4. fwDisk'[F!Final] = fwDisk[F!Final] /\ fwEntry'[F!Temp] = <<fwRun, F!Creating>>
    BY <1>1, <1>12, <2>2 DEF F!Create, F!Link
  <2>5. \A v \in fwDisk'[F!Final] : v = F!None \/ F!Whole(v)'
    BY <1>4, <2>4
  <2>6. ~(fwPc' > F!Creating + 3) /\ ~(fwPc' > F!Creating + 4)
    BY <1>2, <2>3
  <2>7. ~(fwWriter = "slot" /\ fwPc' > 12)
    BY <2>3 DEF F!Creating
  <2> QED
    BY <1>0, <2>1, <2>4, <2>5, <2>6, <2>7 DEF F!SingleInv
<1>13. CASE F!Write \/ F!SyncFile
  <2>1. /\ fwPc # 0 /\ fwRun' = fwRun /\ fwEntry' = fwEntry /\ fwDisk' = fwDisk
        /\ F!Calls[fwPc][1] \in {"write", "sync_file"} /\ (fwPc' = fwPc \/ F!Continue)
        /\ F!Calls[fwPc][1] = "sync_file" => F!Continue
    <3>1. F!Calls[fwPc][1] \in {"write", "write_once", "sync_file"} /\ fwPc # 0
      BY <1>13 DEF F!Write, F!SyncFile, F!Call
    <3>2. F!Calls[fwPc][1] # "write_once"
      BY <1>0, <3>1, FilePlaces
    <3> QED
      BY <1>13, <3>1, <3>2 DEF F!Write, F!SyncFile, F!Call
  <2>2. fwPc = F!Creating + 1 \/ fwPc = F!Creating + 2
    BY <1>0, <2>1, SinglePlaces
  <2>3. fwPc' \in (F!Creating + 1)..(F!Creating + 3)
    BY <1>2, <2>1, <2>2 DEF F!Continue
  <2>4. fwEntry'[F!Temp] = <<fwRun', F!Creating>>
    BY <1>2, <1>3, <2>1, <2>2
  <2>5. \A v \in fwDisk'[F!Final] : v = F!None \/ F!Whole(v)'
    BY <1>4, <2>1
  <2>6. ~(fwPc' > F!Creating + 3) /\ ~(fwPc' > F!Creating + 4)
    BY <1>2, <2>3
  <2>7. ~(fwWriter = "slot" /\ fwPc' > 12)
    BY <2>3 DEF F!Creating
  <2> QED
    BY <1>0, <2>4, <2>5, <2>6, <2>7 DEF F!SingleInv
<1>14. CASE F!Rename
  <2>1. /\ fwPc # 0 /\ F!Calls[fwPc][1] = "rename" /\ F!Continue /\ fwRun' = fwRun
    BY <1>14 DEF F!Rename, F!Call
  <2>2. /\ fwPc = F!Creating + 3 /\ F!At = F!Temp
        /\ <<F!Calls[fwPc][2], F!Calls[fwPc][4]>> = F!Final
    BY <1>0, <2>1, SinglePlaces DEF F!At
  <2>3. fwEntry[F!Temp] = <<fwRun, F!Creating>>
    BY <1>2, <1>3, <2>2
  <2>4. /\ fwEntry'[F!Final] = fwEntry[F!Temp]
        /\ fwDisk'[F!Final] = fwDisk[F!Final] \cup {fwEntry[F!Temp]}
    BY <1>0, <1>1, <1>14, <2>2 DEF F!Rename
  <2>5. F!Whole(<<fwRun, F!Creating>>)
    <3>1. F!Creating \in 1..Len(F!Calls) /\ F!Creating \in 1..(fwPc - 1)
      BY <1>2, <1>0, <2>2
    <3>2. F!Calls[F!Creating][1] = "create"
      BY <1>0, <3>1, SinglePlaces
    <3>3. F!Grows(F!Creating)
      BY <1>0, <3>1, <3>2 DEF F!CreatedInv
    <3>4. fwPc > F!Creating + 2
      BY <1>2, <2>2
    <3> QED
      BY <3>3, <3>4 DEF F!Grows
  <2>6. fwPc' = F!Creating + 4 \/ fwPc' = 0
    BY <1>2, <2>1, <2>2 DEF F!Continue
  <2>7. \A v \in fwDisk'[F!Final] : v = F!None \/ F!Whole(v)'
    BY <1>4, <2>3, <2>4, <2>5
  <2>8. fwPc' \notin (F!Creating + 1)..(F!Creating + 3) /\ ~(fwPc' > F!Creating + 4)
    BY <1>2, <2>6
  <2>9. ~(fwWriter = "slot" /\ fwPc' > 12)
    BY <2>6 DEF F!Creating
  <2> QED
    BY <1>0, <2>1, <2>3, <2>4, <2>7, <2>8, <2>9 DEF F!SingleInv
<1>15. CASE F!SyncDirectory
  <2>1. /\ fwPc # 0 /\ F!Calls[fwPc][1] \in {"sync", "sync_made"} /\ F!Continue
        /\ fwEntry' = fwEntry /\ fwRun' = fwRun
        /\ IF F!Calls[fwPc][1] = "sync_made" /\ ~fwMade THEN fwDisk' = fwDisk
           ELSE fwDisk' = [e \in F!Names |-> IF e[1] = F!Calls[fwPc][2] THEN {fwEntry[e]}
                                             ELSE fwDisk[e]]
    BY <1>15 DEF F!SyncDirectory, F!Call, F!Synced
  <2>2. fwDisk'[F!Final] = fwDisk[F!Final] \/ fwDisk'[F!Final] = {fwEntry[F!Final]}
    BY <1>1, <2>1
  <2>3. \A v \in fwDisk'[F!Final] : v \in fwDisk[F!Final]
    BY <1>0, <1>1, <2>2
  <2>4. CASE F!Calls[fwPc][1] = "sync_made"
    <3>1. fwPc < F!Creating
      BY <1>0, <2>1, <2>4, SinglePlaces
    <3>2. fwPc' <= F!Creating /\ fwPc' \in Nat
      BY <1>0, <1>2, <2>1, <3>1 DEF F!Continue
    <3> QED
      BY <1>5, <2>3, <3>2
  <2>5. CASE F!Calls[fwPc][1] = "sync"
    <3>1. /\ fwPc > F!Creating + 3
          /\ fwPc = F!Creating + 4 => F!Calls[fwPc][2] = F!Home
      BY <1>0, <2>1, <2>5, SinglePlaces
    <3>2. fwDisk' = [e \in F!Names |-> IF e[1] = F!Calls[fwPc][2] THEN {fwEntry[e]}
                                       ELSE fwDisk[e]]
      BY <2>1, <2>5
    <3>3. CASE fwPc' = 0
      BY <1>2, <1>5, <2>3, <3>3
    <3>4. CASE fwPc' # 0
      <4>1. fwPc' = fwPc + 1 /\ fwPc # Len(F!Calls)
        BY <2>1, <3>4 DEF F!Continue
      <4>2. fwEntry'[F!Final] = <<fwRun, F!Creating>>
        BY <1>3, <2>1, <3>1
      <4>3. fwDisk'[F!Final] = {<<fwRun, F!Creating>>}
        <5>1. CASE fwPc = F!Creating + 4
          BY <1>1, <2>1, <3>1, <3>2, <4>2, <5>1
        <5>2. CASE fwPc # F!Creating + 4
          <6>1. fwPc > F!Creating + 4
            BY <1>0, <1>2, <3>1, <5>2
          <6> QED
            BY <1>3, <2>1, <2>2, <4>2, <6>1
        <5> QED
          BY <5>1, <5>2
      <4>4. \A v \in fwDisk'[F!Final] : v = F!None \/ F!Whole(v)'
        BY <1>4, <2>3
      <4>5. fwPc' \notin (F!Creating + 1)..(F!Creating + 3)
        BY <1>0, <1>2, <3>1, <4>1
      <4>6. ASSUME fwWriter = "slot", fwPc' > 12 PROVE F!None \notin fwDisk'[<<"apps", "app">>]
        <5>1. fwPc = 12 /\ F!Calls[12] = <<"sync", "apps">>
          <6>1. Len(F!Calls) = 13 /\ F!Calls[12] = <<"sync", "apps">>
            BY <4>6, SlotCalls
          <6> QED
            BY <1>0, <4>1, <4>6, <6>1
        <5>2. <<"apps", "app">> \in F!Names
          BY <4>6, NamesOf
        <5>3. fwEntry[<<"apps", "app">>] = F!Dir
          <6>1. [name |-> <<"apps", "app">>, making |-> 4, settling |-> 6] \in F!Above
            BY <4>6 DEF F!Above
          <6> QED
            BY <5>1, <6>1 DEF F!FilesInv, F!AboveInv, F!Standing
        <5>4. fwDisk'[<<"apps", "app">>] = {fwEntry[<<"apps", "app">>]}
          BY <3>2, <5>1, <5>2
        <5> QED
          BY <1>0, <5>3, <5>4
      <4> QED
        BY <1>0, <2>1, <4>2, <4>3, <4>4, <4>5, <4>6 DEF F!SingleInv
    <3> QED
      BY <3>3, <3>4
  <2> QED
    BY <2>1, <2>4, <2>5
<1>16. CASE UNCHANGED F!vars
  BY <1>0, <1>16 DEF F!FilesInv, F!SingleInv, F!Whole, F!vars
<1> QED
  BY <1>6, <1>7, <1>8, <1>9, <1>10, <1>11, <1>12, <1>13, <1>14, <1>15, <1>16 DEF F!Next

\* What is sealed in a release stays so while nothing is written to its names.
LEMMA SealedStays ==
    ASSUME F!NamesInv, F!CreatedInv, [F!Next]_(F!vars), fwWriter = "release", F!Sealed,
           \A e \in F!Inner : fwEntry'[e] = fwEntry[e] /\ fwDisk'[e] = fwDisk[e]
    PROVE  F!Sealed'
<1>1. F!Inner' = F!Inner /\ F!Contents' = F!Contents /\ F!Contents \subseteq F!Inner
  BY SameWriter DEF F!Inner, F!Contents
<1>2. <<"stage", "assets">> \in F!Inner
  BY DEF F!Inner
<1>3. ASSUME NEW e \in F!Contents PROVE F!Whole(fwEntry[e])'
  <2>1. PICK v : v = fwEntry[e]
    OBVIOUS
  <2>2. F!Whole(v)
    BY <1>3, <2>1 DEF F!Sealed
  <2>3. F!Whole(v)'
    BY <2>2, WholeStays
  <2>4. fwEntry'[e] = v
    BY <1>1, <1>3, <2>1
  <2> QED
    BY <2>3, <2>4 DEF F!Whole
<1> QED
  BY <1>1, <1>2, <1>3 DEF F!Sealed

\* A release gets its name when all that is in it is whole and settled, and keeps it.
LEMMA ReleaseStep ==
    ASSUME F!FilesInv, [F!Next]_(F!vars), fwWriter = "release"
    PROVE  F!ReleaseInv'
<1> DEFINE fin == <<"releases", "final">>
           tmp == <<"releases", "temporary">>
           assets == <<"stage", "assets">>
           payload == <<"assets", "file">>
           package == <<"stage", "package">>
           marker == <<"stage", "marker">>
<1>0. /\ F!NamesInv /\ F!CreatedInv /\ fwPc \in 0..30 /\ Len(F!Calls) = 30
      /\ DOMAIN fwEntry = F!Names /\ DOMAIN fwDisk = F!Names
      /\ \A e \in F!Names : fwEntry[e] \in fwDisk[e]
      /\ F!None # F!Dir /\ fwWriter' = "release" /\ fwMade \in BOOLEAN
  BY FilesNumbers, ReleaseCalls, SameWriter, NoneDirFile DEF F!FilesInv, F!NamesInv
<1>1. /\ F!Final = fin /\ F!Final' = fin /\ F!Temp = tmp /\ F!Temp' = tmp
      /\ F!Inner = {assets, payload, package, marker} /\ F!Inner' = F!Inner
      /\ F!Contents = {payload, package, marker}
      /\ {fin, tmp, assets, payload, package, marker} \subseteq F!Names
  <2>1. F!Final = fin /\ F!Temp = tmp
    BY DEF F!Final, F!Temp, F!Home
  <2>2. F!Inner = {assets, payload, package, marker} /\ F!Inner' = F!Inner
    BY DEF F!Inner
  <2>3. F!Contents = {payload, package, marker}
    BY <2>2 DEF F!Contents
  <2>4. {fin, tmp, assets, payload, package, marker} \subseteq F!Names
    BY <2>2, NamesOf
  <2> QED
    BY <2>1, <2>2, <2>3, <2>4, SameWriter
<1>2. /\ fwDisk[fin] \subseteq {F!None, F!Dir}
      /\ F!Dir \in fwDisk[fin] => fwEntry[fin] = F!Dir /\ F!Sealed
      /\ fwPc \in 11..26 => fwEntry[fin] = F!None
      /\ fwPc \in 12..26 => fwEntry[tmp] = F!Dir
      /\ fwPc = 12 => fwEntry[assets] = F!None
      /\ fwPc \in 13..26 => fwEntry[assets] = F!Dir
      /\ fwPc \in 16..26 => fwEntry[payload] = <<fwRun, 15>>
      /\ fwPc \in 19..26 => fwDisk[payload] = {<<fwRun, 15>>}
      /\ fwPc \in 20..26 => fwEntry[package] = <<fwRun, 19>>
      /\ fwPc \in 23..26 => fwEntry[marker] = <<fwRun, 22>>
      /\ fwPc = 26 => \A e \in F!Inner : fwDisk[e] = {fwEntry[e]}
      /\ fwPc > 26 => fwEntry[fin] = F!Dir
      /\ fwPc > 27 => F!None \notin fwDisk[fin]
  BY <1>1 DEF F!FilesInv, F!ReleaseInv
<1>3. fwPc \in 11..26 => F!Dir \notin fwDisk[fin]
  BY <1>0, <1>2
\* Before the stage is made, and after the attempt.
<1>4. ASSUME fwPc' \in 0..10, fwDisk'[fin] \subseteq {F!None, F!Dir},
             F!Dir \in fwDisk'[fin] => fwEntry'[fin] = F!Dir /\ F!Sealed'
      PROVE  F!ReleaseInv'
  BY <1>0, <1>1, <1>4 DEF F!ReleaseInv
\* While the release is staged.
<1>5. ASSUME fwPc' \in 11..26, fwEntry'[fin] = F!None, fwDisk'[fin] = fwDisk[fin],
             F!Dir \notin fwDisk[fin],
             fwPc' \in 12..26 => fwEntry'[tmp] = F!Dir,
             fwPc' = 12 => fwEntry'[assets] = F!None,
             fwPc' \in 13..26 => fwEntry'[assets] = F!Dir,
             fwPc' \in 16..26 => fwEntry'[payload] = <<fwRun', 15>>,
             fwPc' \in 19..26 => fwDisk'[payload] = {<<fwRun', 15>>},
             fwPc' \in 20..26 => fwEntry'[package] = <<fwRun', 19>>,
             fwPc' \in 23..26 => fwEntry'[marker] = <<fwRun', 22>>,
             fwPc' = 26 => \A e \in F!Inner : fwDisk'[e] = {fwEntry'[e]}
      PROVE  F!ReleaseInv'
  <2>1. ~(fwPc' > 26) /\ ~(fwPc' > 27)
    BY <1>5
  <2> QED
    BY <1>0, <1>1, <1>2, <1>5, <2>1 DEF F!ReleaseInv
\* After it has its name.
<1>6. ASSUME fwPc' \in 27..30, fwDisk'[fin] \subseteq {F!None, F!Dir}, fwEntry'[fin] = F!Dir,
             F!Sealed', fwPc' > 27 => F!None \notin fwDisk'[fin]
      PROVE  F!ReleaseInv'
  <2>1. /\ fwPc' \notin 11..26 /\ fwPc' \notin 12..26 /\ fwPc' # 12 /\ fwPc' \notin 13..26
        /\ fwPc' \notin 16..26 /\ fwPc' \notin 19..26 /\ fwPc' \notin 20..26
        /\ fwPc' \notin 23..26 /\ fwPc' # 26
    BY <1>6
  <2> QED
    BY <1>0, <1>1, <1>6, <2>1 DEF F!ReleaseInv
\* Nothing that leads to the release changes.
<1>7. ASSUME fwPc' \in 0..10, fwDisk' = fwDisk, fwEntry' = fwEntry
      PROVE  F!ReleaseInv'
  <2>1. F!Dir \in fwDisk'[fin] => fwEntry'[fin] = F!Dir /\ F!Sealed'
    BY <1>0, <1>2, <1>7, SealedStays
  <2> QED
    BY <1>2, <1>4, <1>7, <2>1
<1>8. CASE F!Start \/ F!Kill \/ F!Fail
  <2>1. fwPc' \in {0, 1} /\ fwDisk' = fwDisk /\ fwEntry' = fwEntry
    BY <1>8 DEF F!Start, F!Kill, F!Fail
  <2> QED
    BY <1>7, <2>1
<1>9. CASE F!PowerLoss
  <2>1. /\ fwPc' = 0
        /\ \A e \in F!Names : fwEntry'[e] \in fwDisk[e] /\ fwDisk'[e] = {fwEntry'[e]}
    BY <1>0, <1>9, LossSettles
  <2>2. fwDisk'[fin] \subseteq {F!None, F!Dir}
    BY <1>1, <1>2, <2>1
  <2>3. ASSUME F!Dir \in fwDisk'[fin] PROVE fwEntry'[fin] = F!Dir /\ F!Sealed'
    <3>1. fwEntry'[fin] = F!Dir /\ F!Dir \in fwDisk[fin]
      BY <1>1, <2>1, <2>3
    <3>2. F!Sealed
      BY <1>2, <3>1
    <3>3. ASSUME NEW e \in F!Inner PROVE fwEntry'[e] = fwEntry[e] /\ fwDisk'[e] = fwDisk[e]
      <4>1. fwDisk[e] = {fwEntry[e]} /\ e \in F!Names
        BY <1>1, <3>2 DEF F!Sealed
      <4> QED
        BY <2>1, <4>1
    <3> QED
      BY <1>0, <3>1, <3>2, <3>3, SealedStays
  <2> QED
    BY <1>4, <2>1, <2>2, <2>3
<1>10. CASE F!MakeDirectory
  <2>1. /\ fwPc # 0 /\ F!Calls[fwPc][1] = "mkdir" /\ F!Continue /\ fwRun' = fwRun
        /\ fwMade' = (fwEntry[F!At] = F!None)
        /\ IF fwMade'
           THEN /\ fwEntry' = [e \in F!Names |->
                        IF e = F!At THEN F!Dir
                        ELSE IF e[1] = F!At[2] THEN F!None ELSE fwEntry[e]]
                /\ fwDisk' = [e \in F!Names |->
                        IF e = F!At THEN fwDisk[e] \cup {F!Dir}
                        ELSE IF e[1] = F!At[2] THEN {F!None} ELSE fwDisk[e]]
           ELSE fwEntry' = fwEntry /\ fwDisk' = fwDisk
    BY <1>10 DEF F!MakeDirectory, F!Call
  <2>2. fwPc \in {1, 4, 7, 12} /\ fwPc' = fwPc + 1
    <3>1. fwPc \in {1, 4, 7, 12}
      BY <1>0, <2>1, ReleaseKinds
    <3> QED
      BY <1>0, <2>1, <3>1 DEF F!Continue
  <2>3. CASE fwPc \in {1, 4, 7}
    <3>1. F!At \in {<<"root", "apps">>, <<"apps", "app">>, <<"app", "releases">>}
      <4>1. fwPc = 1 => F!At = <<"root", "apps">>
        BY ReleaseCalls DEF F!At
      <4>2. fwPc = 4 => F!At = <<"apps", "app">>
        BY ReleaseCalls DEF F!At
      <4>3. fwPc = 7 => F!At = <<"app", "releases">>
        BY ReleaseCalls DEF F!At
      <4> QED
        BY <2>3, <4>1, <4>2, <4>3
    <3>2. ASSUME NEW e \in F!Inner PROVE fwEntry'[e] = fwEntry[e] /\ fwDisk'[e] = fwDisk[e]
      <4>1. e \in F!Names /\ e[1] \in {"stage", "assets"}
        BY <1>1
      <4>2. e # F!At /\ e[1] # F!At[2]
        BY <3>1, <4>1
      <4> QED
        BY <2>1, <4>1, <4>2
    <3>3. \/ fwEntry'[fin] = fwEntry[fin] /\ fwDisk'[fin] = fwDisk[fin]
          \/ fwEntry'[fin] = F!None /\ fwDisk'[fin] = {F!None}
      <4>1. fin # F!At
        BY <3>1
      <4> QED
        BY <1>1, <2>1, <4>1
    <3>4. F!Dir \in fwDisk'[fin] => fwEntry'[fin] = F!Dir /\ F!Sealed'
      <4>1. ASSUME F!Dir \in fwDisk'[fin] PROVE fwEntry'[fin] = F!Dir /\ F!Sealed'
        <5>1. fwEntry'[fin] = fwEntry[fin] /\ fwDisk'[fin] = fwDisk[fin]
          BY <1>0, <3>3, <4>1
        <5>2. fwEntry[fin] = F!Dir /\ F!Sealed
          BY <1>2, <4>1, <5>1
        <5> QED
          BY <1>0, <3>2, <5>1, <5>2, SealedStays
      <4> QED
        BY <4>1
    <3>5. fwDisk'[fin] \subseteq {F!None, F!Dir}
      BY <1>2, <3>3
    <3>6. fwPc' \in 0..10
      BY <2>2, <2>3
    <3> QED
      BY <1>4, <3>4, <3>5, <3>6
  <2>4. CASE fwPc = 12
    <3>1. F!At = assets /\ F!At[2] = "assets"
      BY <2>4, ReleaseCalls DEF F!At
    <3>2. fwMade'
      BY <1>2, <2>1, <2>4, <3>1
    <3>3. /\ fwEntry'[assets] = F!Dir /\ fwEntry'[fin] = fwEntry[fin]
          /\ fwDisk'[fin] = fwDisk[fin] /\ fwEntry'[tmp] = fwEntry[tmp]
      BY <1>1, <2>1, <3>1, <3>2
    <3>4. /\ fwEntry'[fin] = F!None /\ F!Dir \notin fwDisk[fin] /\ fwEntry'[tmp] = F!Dir
          /\ fwPc' = 13
      BY <1>2, <1>3, <2>2, <2>4, <3>3
    <3> QED
      BY <1>5, <3>3, <3>4
  <2> QED
    BY <2>2, <2>3, <2>4
<1>11. CASE F!FindPresent
  <2>1. /\ fwPc # 0 /\ F!Calls[fwPc][1] = "present" /\ fwEntry' = fwEntry /\ fwDisk' = fwDisk
        /\ fwRun' = fwRun
    BY <1>11 DEF F!FindPresent, F!Call
  <2>2. fwPc = 10 /\ F!At = fin
    <3>1. fwPc = 10
      BY <1>0, <2>1, ReleaseKinds
    <3> QED
      BY <3>1, ReleaseCalls DEF F!At
  <2>3. CASE fwEntry[fin] # F!None
    <3>1. fwPc' = 0
      BY <1>11, <2>2, <2>3 DEF F!FindPresent
    <3> QED
      BY <1>7, <2>1, <3>1
  <2>4. CASE fwEntry[fin] = F!None
    <3>1. fwPc' = 11
      BY <1>0, <1>11, <2>2, <2>4 DEF F!FindPresent, F!Continue
    <3>2. F!Dir \notin fwDisk[fin]
      BY <1>0, <1>2, <2>4
    <3> QED
      BY <1>5, <2>1, <2>4, <3>1, <3>2
  <2> QED
    BY <2>3, <2>4
<1>12. CASE F!MakeStage
  <2>1. /\ fwPc # 0 /\ F!Calls[fwPc][1] = "stage" /\ F!Continue /\ fwRun' = fwRun
        /\ fwEntry' = [e \in F!Names |-> IF e = F!At THEN F!Dir
                                         ELSE IF e \in F!Inner THEN F!None ELSE fwEntry[e]]
        /\ fwDisk' = [e \in F!Names |-> IF e = F!At THEN {F!None, F!Dir}
                                        ELSE IF e \in F!Inner THEN {F!None} ELSE fwDisk[e]]
    BY <1>12 DEF F!MakeStage, F!Call
  <2>2. fwPc = 11 /\ fwPc' = 12 /\ F!At = tmp
    <3>1. fwPc = 11
      BY <1>0, <2>1, ReleaseKinds
    <3>2. fwPc' = 12
      BY <1>0, <2>1, <3>1 DEF F!Continue
    <3> QED
      BY <3>1, <3>2, ReleaseCalls DEF F!At
  <2>3. fin \notin F!Inner /\ fin # tmp /\ assets \in F!Inner /\ assets # tmp
    BY <1>1
  <2>4. /\ fwEntry'[tmp] = F!Dir /\ fwEntry'[fin] = fwEntry[fin] /\ fwDisk'[fin] = fwDisk[fin]
        /\ fwEntry'[assets] = F!None
    BY <1>1, <2>1, <2>2, <2>3
  <2>5. fwEntry'[fin] = F!None /\ F!Dir \notin fwDisk[fin]
    BY <1>2, <1>3, <2>2, <2>4
  <2> QED
    BY <1>5, <2>2, <2>4, <2>5
<1>13. CASE F!Create
  <2>1. /\ fwPc # 0 /\ F!Calls[fwPc][1] = "create" /\ F!Continue /\ fwRun' = fwRun
        /\ fwEntry' = [e \in F!Names |-> IF e = F!At THEN <<fwRun, fwPc>> ELSE fwEntry[e]]
        /\ \A e \in F!Names : e # F!At => fwDisk'[e] = fwDisk[e]
    BY <1>13 DEF F!Create, F!Call, F!Link
  <2>2. fwPc \in {15, 19, 22}
    BY <1>0, <2>1, ReleaseKinds
  <2>3. /\ fwPc = 15 => F!At = payload
        /\ fwPc = 19 => F!At = package
        /\ fwPc = 22 => F!At = marker
    <3>1. fwPc = 15 => F!At = payload
      BY ReleaseCalls DEF F!At
    <3>2. fwPc = 19 => F!At = package
      BY ReleaseCalls DEF F!At
    <3>3. fwPc = 22 => F!At = marker
      BY ReleaseCalls DEF F!At
    <3> QED
      BY <3>1, <3>2, <3>3
  <2>4. fwPc' = fwPc + 1
    BY <1>0, <2>1, <2>2 DEF F!Continue
  <2>5. F!At \in {payload, package, marker}
    BY <2>2, <2>3
  <2>6. /\ fwEntry'[fin] = fwEntry[fin] /\ fwDisk'[fin] = fwDisk[fin]
        /\ fwEntry'[tmp] = fwEntry[tmp] /\ fwEntry'[assets] = fwEntry[assets]
    <3>1. fin # F!At /\ tmp # F!At /\ assets # F!At
      BY <2>5
    <3> QED
      BY <1>1, <2>1, <3>1
  <2>7. /\ fwEntry'[fin] = F!None /\ F!Dir \notin fwDisk[fin] /\ fwEntry'[tmp] = F!Dir
        /\ fwEntry'[assets] = F!Dir
    BY <1>2, <1>3, <2>2, <2>6
  <2>8. CASE fwPc = 15
    <3>1. fwEntry'[payload] = <<fwRun', 15>> /\ fwPc' = 16
      BY <1>1, <2>1, <2>3, <2>4, <2>8
    <3> QED
      BY <1>5, <2>6, <2>7, <3>1
  <2>9. CASE fwPc = 19
    <3>1. fwEntry'[package] = <<fwRun', 19>> /\ fwPc' = 20
      BY <1>1, <2>1, <2>3, <2>4, <2>9
    <3>2. payload # F!At
      BY <2>3, <2>9
    <3>3. fwEntry'[payload] = <<fwRun', 15>> /\ fwDisk'[payload] = {<<fwRun', 15>>}
      BY <1>1, <1>2, <2>1, <2>9, <3>2
    <3> QED
      BY <1>5, <2>6, <2>7, <3>1, <3>3
  <2>10. CASE fwPc = 22
    <3>1. fwEntry'[marker] = <<fwRun', 22>> /\ fwPc' = 23
      BY <1>1, <2>1, <2>3, <2>4, <2>10
    <3>2. payload # F!At /\ package # F!At
      BY <2>3, <2>10
    <3>3. /\ fwEntry'[payload] = <<fwRun', 15>> /\ fwDisk'[payload] = {<<fwRun', 15>>}
          /\ fwEntry'[package] = <<fwRun', 19>>
      BY <1>1, <1>2, <2>1, <2>10, <3>2
    <3> QED
      BY <1>5, <2>6, <2>7, <3>1, <3>3
  <2> QED
    BY <2>2, <2>8, <2>9, <2>10
<1>14. CASE F!Write \/ F!SyncFile
  <2>1. /\ fwPc # 0 /\ fwEntry' = fwEntry /\ fwDisk' = fwDisk /\ fwRun' = fwRun
        /\ fwPc' = fwPc \/ F!Continue
        /\ F!Calls[fwPc][1] \in {"write", "write_once", "sync_file"}
    BY <1>14 DEF F!Write, F!SyncFile, F!Call
  <2>2. fwPc \in {16, 17, 20, 21, 23, 24}
    <3>1. F!Calls[fwPc][1] # "write_once"
      BY <1>0, <2>1, FilePlaces
    <3> QED
      BY <1>0, <2>1, <3>1, ReleaseKinds
  <2>3. fwPc' = fwPc \/ fwPc' = fwPc + 1
    BY <1>0, <2>1, <2>2 DEF F!Continue
  <2>4. /\ fwPc' \in 16..25 /\ (fwPc' \in 19..26 => fwPc \in 19..26)
        /\ (fwPc' \in 20..26 => fwPc \in 20..26) /\ (fwPc' \in 23..26 => fwPc \in 23..26)
    BY <2>2, <2>3
  <2>5. /\ fwPc \in 11..26 /\ fwPc \in 12..26 /\ fwPc \in 13..26 /\ fwPc \in 16..26
        /\ fwPc' \in 11..26 /\ fwPc' # 12 /\ fwPc' # 26
    BY <2>2, <2>4
  <2>6. /\ fwEntry[fin] = F!None /\ F!Dir \notin fwDisk[fin] /\ fwEntry[tmp] = F!Dir
        /\ fwEntry[assets] = F!Dir /\ fwEntry[payload] = <<fwRun, 15>>
    BY <1>2, <1>3, <2>5
  <2> QED
    BY <1>2, <1>5, <2>1, <2>4, <2>5, <2>6
<1>15. CASE F!SyncDirectory
  <2>1. /\ fwPc # 0 /\ F!Calls[fwPc][1] \in {"sync", "sync_made"} /\ F!Continue
        /\ fwEntry' = fwEntry /\ fwRun' = fwRun
        /\ IF F!Calls[fwPc][1] = "sync_made" /\ ~fwMade THEN fwDisk' = fwDisk
           ELSE fwDisk' = [e \in F!Names |-> IF e[1] = F!Calls[fwPc][2] THEN {fwEntry[e]}
                                             ELSE fwDisk[e]]
    BY <1>15 DEF F!SyncDirectory, F!Call, F!Synced
  <2>2. \A e \in F!Names : fwDisk'[e] = fwDisk[e] \/ fwDisk'[e] = {fwEntry[e]}
    BY <2>1
  <2>3. fwPc \in {2, 3, 5, 6, 8, 9, 13, 14} \/ fwPc \in {18, 25, 27, 28, 29, 30}
    BY <1>0, <2>1, ReleaseKinds
  <2>4. ASSUME F!Sealed PROVE F!Sealed'
    <3>1. ASSUME NEW e \in F!Inner PROVE fwEntry'[e] = fwEntry[e] /\ fwDisk'[e] = fwDisk[e]
      <4>1. e \in F!Names /\ fwDisk[e] = {fwEntry[e]}
        BY <1>1, <2>4 DEF F!Sealed
      <4> QED
        BY <2>1, <2>2, <4>1
    <3> QED
      BY <1>0, <2>4, <3>1, SealedStays
  <2>5. fwDisk'[fin] \subseteq {F!None, F!Dir}
    BY <1>0, <1>1, <1>2, <2>2
  <2>6. F!Dir \in fwDisk'[fin] => fwEntry'[fin] = F!Dir /\ F!Sealed'
    <3>1. ASSUME F!Dir \in fwDisk'[fin] PROVE F!Dir \in fwDisk[fin]
      BY <1>0, <1>1, <2>2, <3>1
    <3> QED
      BY <1>2, <2>1, <2>4, <3>1
  <2>7. CASE fwPc \in {2, 3, 5, 6, 8, 9, 30}
    <3>1. fwPc' \in 0..10
      BY <1>0, <2>1, <2>7 DEF F!Continue
    <3> QED
      BY <1>4, <2>5, <2>6, <3>1
  <2>8. CASE fwPc \in {13, 14, 18, 25}
    <3>1. fwPc' = fwPc + 1
      BY <1>0, <2>1, <2>8 DEF F!Continue
    <3>2. /\ fwPc' \in 11..26 /\ fwPc \in 11..26 /\ fwPc \in 12..26 /\ fwPc \in 13..26
          /\ fwPc' # 12 /\ (fwPc' \in 16..26 => fwPc \in 16..26)
          /\ (fwPc' \in 20..26 => fwPc = 25) /\ (fwPc' \in 23..26 => fwPc = 25)
          /\ (fwPc' \in 19..26 => fwPc = 18 \/ fwPc = 25) /\ (fwPc' = 26 => fwPc = 25)
      BY <2>8, <3>1
    <3>3. /\ fwEntry'[fin] = F!None /\ F!Dir \notin fwDisk[fin] /\ fwEntry'[tmp] = F!Dir
          /\ fwEntry'[assets] = F!Dir
          /\ fwPc' \in 16..26 => fwEntry'[payload] = <<fwRun', 15>>
      BY <1>2, <1>3, <2>1, <3>2
    <3>4. fwDisk'[fin] = fwDisk[fin]
      <4>1. /\ F!Calls[13] = <<"sync_made", "assets">> /\ F!Calls[14] = <<"sync_made", "stage">>
            /\ F!Calls[18] = <<"sync", "assets">> /\ F!Calls[25] = <<"sync", "stage">>
        BY ReleaseCalls
      <4>2. fin[1] # F!Calls[fwPc][2]
        BY <2>8, <4>1
      <4> QED
        BY <1>1, <2>1, <4>2
    <3>5. fwPc' \in 19..26 => fwDisk'[payload] = {<<fwRun', 15>>}
      <4>1. CASE fwPc = 18
        <5>1. F!Calls[fwPc] = <<"sync", "assets">>
          BY <4>1, ReleaseCalls
        <5>2. fwDisk'[payload] = {fwEntry[payload]}
          BY <1>1, <2>1, <5>1
        <5> QED
          BY <1>2, <2>1, <4>1, <5>2
      <4>2. CASE fwPc = 25
        BY <1>1, <1>2, <2>1, <2>2, <4>2
      <4> QED
        BY <3>2, <4>1, <4>2
    <3>6. /\ fwPc' \in 20..26 => fwEntry'[package] = <<fwRun', 19>>
          /\ fwPc' \in 23..26 => fwEntry'[marker] = <<fwRun', 22>>
      BY <1>2, <2>1, <3>2
    <3>7. ASSUME fwPc' = 26, NEW e \in F!Inner PROVE fwDisk'[e] = {fwEntry'[e]}
      <4>1. fwPc = 25 /\ F!Calls[25] = <<"sync", "stage">>
        BY <3>2, <3>7, ReleaseCalls
      <4>2. fwDisk' = [f \in F!Names |-> IF f[1] = "stage" THEN {fwEntry[f]} ELSE fwDisk[f]]
        BY <2>1, <4>1
      <4>3. CASE e = payload
        BY <1>1, <1>2, <2>1, <2>2, <4>1, <4>3
      <4>4. CASE e \in {assets, package, marker}
        <5>1. e \in F!Names /\ e[1] = "stage"
          BY <1>1, <4>4
        <5> QED
          BY <2>1, <4>2, <5>1
      <4> QED
        BY <1>1, <4>3, <4>4
    <3> QED
      BY <1>5, <3>2, <3>3, <3>4, <3>5, <3>6, <3>7
  <2>9. CASE fwPc \in {27, 28, 29}
    <3>1. fwPc' = fwPc + 1
      BY <1>0, <2>1, <2>9 DEF F!Continue
    <3>2. fwEntry'[fin] = F!Dir /\ F!Sealed'
      <4>1. fwEntry[fin] = F!Dir /\ F!Dir \in fwDisk[fin]
        BY <1>0, <1>1, <1>2, <2>9
      <4> QED
        BY <1>2, <2>1, <2>4, <4>1
    <3>3. F!None \notin fwDisk'[fin]
      <4>1. CASE fwPc = 27
        <5>1. F!Calls[fwPc] = <<"sync", "releases">>
          BY <4>1, ReleaseCalls
        <5>2. fwDisk'[fin] = {fwEntry[fin]}
          BY <1>1, <2>1, <5>1
        <5> QED
          BY <1>0, <1>2, <4>1, <5>2
      <4>2. CASE fwPc \in {28, 29}
        <5>1. F!None \notin fwDisk[fin] /\ fwEntry[fin] = F!Dir
          BY <1>2, <4>2
        <5> QED
          BY <1>0, <1>1, <2>2, <5>1
      <4> QED
        BY <2>9, <4>1, <4>2
    <3>4. fwPc' \in 27..30
      BY <2>9, <3>1
    <3> QED
      BY <1>6, <2>5, <3>2, <3>3, <3>4
  <2> QED
    BY <2>3, <2>7, <2>8, <2>9
<1>16. CASE F!Rename
  <2>1. /\ fwPc # 0 /\ F!Calls[fwPc][1] = "rename" /\ F!Continue /\ fwRun' = fwRun
        /\ fwFile' = fwFile
    BY <1>16 DEF F!Rename, F!Call
  <2>2. fwPc = 26 /\ F!At = tmp /\ <<F!Calls[fwPc][2], F!Calls[fwPc][4]>> = fin
    <3>1. fwPc = 26
      BY <1>0, <2>1, ReleaseKinds
    <3>2. F!Calls[26] = <<"rename", "releases", "temporary", "final">>
      BY ReleaseCalls
    <3> QED
      BY <3>1, <3>2 DEF F!At
  <2>3. /\ fwEntry' = [fwEntry EXCEPT ![fin] = fwEntry[tmp], ![tmp] = F!None]
        /\ fwDisk' = [fwDisk EXCEPT ![fin] = @ \cup {fwEntry[tmp]}, ![tmp] = @ \cup {F!None}]
    BY <1>16, <2>2 DEF F!Rename
  <2>4. /\ fwEntry'[fin] = F!Dir /\ fwDisk'[fin] = fwDisk[fin] \cup {F!Dir} /\ fwPc' = 27
    BY <1>0, <1>1, <1>2, <2>1, <2>2, <2>3 DEF F!Continue
  <2>5. ASSUME NEW e \in F!Inner PROVE fwEntry'[e] = fwEntry[e] /\ fwDisk'[e] = fwDisk[e]
    <3>1. e \in F!Names /\ e # fin /\ e # tmp
      BY <1>1
    <3> QED
      BY <1>0, <2>3, <3>1
  <2>6. F!Sealed
    <3>1. ASSUME NEW k \in 1..(fwPc - 1), F!Calls[k][1] = "create", fwPc > k + 2
          PROVE  F!Whole(<<fwRun, k>>)
      BY <1>0, <3>1 DEF F!CreatedInv, F!Grows
    <3>2. /\ F!Calls[15][1] = "create" /\ F!Calls[19][1] = "create" /\ F!Calls[22][1] = "create"
      BY ReleaseCalls
    <3>3. F!Whole(<<fwRun, 15>>) /\ F!Whole(<<fwRun, 19>>) /\ F!Whole(<<fwRun, 22>>)
      BY <2>2, <3>1, <3>2
    <3>4. /\ fwEntry[payload] = <<fwRun, 15>> /\ fwEntry[package] = <<fwRun, 19>>
          /\ fwEntry[marker] = <<fwRun, 22>> /\ fwEntry[assets] = F!Dir
          /\ \A e \in F!Inner : fwDisk[e] = {fwEntry[e]}
      BY <1>2, <2>2
    <3>5. \A e \in F!Contents : F!Whole(fwEntry[e])
      BY <1>1, <3>3, <3>4
    <3> QED
      BY <3>4, <3>5 DEF F!Sealed
  <2>7. F!Sealed'
    BY <1>0, <2>5, <2>6, SealedStays
  <2>8. fwDisk'[fin] \subseteq {F!None, F!Dir}
    BY <1>2, <2>4
  <2> QED
    BY <1>6, <2>4, <2>7, <2>8
<1>17. CASE F!RemoveOld
  <2>1. fwPc # 0 /\ F!Calls[fwPc][1] = "remove"
    BY <1>17 DEF F!RemoveOld, F!Call
  <2> QED
    BY <1>0, <2>1, ReleaseKinds
<1>18. CASE UNCHANGED F!vars
  BY <1>0, <1>18, SameWriter DEF F!FilesInv, F!ReleaseInv, F!Sealed, F!Whole, F!Inner, F!vars
<1> QED
  BY <1>8, <1>9, <1>10, <1>11, <1>12, <1>13, <1>14, <1>15, <1>16, <1>17, <1>18 DEF F!Next

\* The names that lead to the final one are those above and itself; a single file is
\* all that its writers write, and all that is done last is to sync.
LEMMA TopIs ==
    ASSUME fwWriter \in {"slot", "record", "status", "release"}
    PROVE  /\ \A e \in F!Top : e = F!Final \/ \E d \in F!Above : e = d.name
           /\ \A e \in F!Top : e \in F!Names /\ e # F!Temp /\ e \notin F!Inner
           /\ \A d \in F!Above : d.name \in F!Top
           /\ F!Calls[Len(F!Calls)][1] = "sync"
           /\ fwWriter # "release" =>
                /\ F!Contents = {F!Final} /\ F!Names = F!Top \cup {F!Temp}
                /\ F!Inner \cap F!Names = {}
           /\ fwWriter = "release" => F!Names = F!Top \cup F!Inner \cup {F!Temp}
<1>1. CASE fwWriter = "slot"
  <2>1. /\ F!Top = {<<"root", "apps">>, <<"apps", "app">>, <<"app", "final">>}
        /\ F!Names = F!Top \cup {<<"app", "temporary">>}
    BY <1>1, NamesOf
  <2>2. F!Final = <<"app", "final">> /\ F!Temp = <<"app", "temporary">>
    BY <1>1 DEF F!Final, F!Temp, F!Home
  <2>3. F!Contents = {F!Final}
    BY <1>1, <2>1, <2>2 DEF F!Contents
  <2>4. /\ \A e \in F!Top : e = F!Final \/ \E d \in F!Above : e = d.name
        /\ \A d \in F!Above : d.name \in F!Top
    <3>1. \E d \in F!Above : <<"root", "apps">> = d.name
      <4>1. [name |-> <<"root", "apps">>, making |-> 1, settling |-> 3] \in F!Above
        BY <1>1 DEF F!Above
      <4> QED
        BY <4>1
    <3>2. \E d \in F!Above : <<"apps", "app">> = d.name
      <4>1. [name |-> <<"apps", "app">>, making |-> 4, settling |-> 6] \in F!Above
        BY <1>1 DEF F!Above
      <4> QED
        BY <4>1
    <3>3. \A d \in F!Above : d.name \in F!Top
      BY <1>1, <2>1 DEF F!Above
    <3> QED
      BY <2>1, <2>2, <3>1, <3>2, <3>3
  <2>5. F!Calls[Len(F!Calls)][1] = "sync"
    <3>1. Len(F!Calls) = 13 /\ F!Calls[13] = <<"sync", "root">>
      BY <1>1, SlotCalls
    <3> QED
      BY <3>1
  <2> QED
    BY <1>1, <2>1, <2>2, <2>3, <2>4, <2>5 DEF F!Inner
<1>2. CASE fwWriter = "record"
  <2>1. /\ F!Top = {<<"root", "data">>, <<"data", "app">>, <<"app", "final">>}
        /\ F!Names = F!Top \cup {<<"app", "temporary">>}
    BY <1>2, NamesOf
  <2>2. F!Final = <<"app", "final">> /\ F!Temp = <<"app", "temporary">>
    BY <1>2 DEF F!Final, F!Temp, F!Home
  <2>3. F!Contents = {F!Final}
    BY <1>2, <2>1, <2>2 DEF F!Contents
  <2>4. /\ \A e \in F!Top : e = F!Final \/ \E d \in F!Above : e = d.name
        /\ \A d \in F!Above : d.name \in F!Top
    <3>1. \E d \in F!Above : <<"root", "data">> = d.name
      <4>1. [name |-> <<"root", "data">>, making |-> 1, settling |-> 2] \in F!Above
        BY <1>2 DEF F!Above
      <4> QED
        BY <4>1
    <3>2. \E d \in F!Above : <<"data", "app">> = d.name
      <4>1. [name |-> <<"data", "app">>, making |-> 3, settling |-> 5] \in F!Above
        BY <1>2 DEF F!Above
      <4> QED
        BY <4>1
    <3>3. \A d \in F!Above : d.name \in F!Top
      BY <1>2, <2>1 DEF F!Above
    <3> QED
      BY <2>1, <2>2, <3>1, <3>2, <3>3
  <2>5. F!Calls[Len(F!Calls)][1] = "sync"
    <3>1. Len(F!Calls) = 10 /\ F!Calls[10] = <<"sync", "app">>
      BY <1>2, RecordCalls
    <3> QED
      BY <3>1
  <2> QED
    BY <1>2, <2>1, <2>2, <2>3, <2>4, <2>5 DEF F!Inner
<1>3. CASE fwWriter = "status"
  <2>1. F!Top = {<<"run", "final">>} /\ F!Names = F!Top \cup {<<"run", "temporary">>}
    BY <1>3, NamesOf
  <2>2. F!Final = <<"run", "final">> /\ F!Temp = <<"run", "temporary">>
    BY <1>3 DEF F!Final, F!Temp, F!Home
  <2>3. F!Contents = {F!Final}
    BY <1>3, <2>1, <2>2 DEF F!Contents
  <2>4. F!Above = {}
    BY <1>3 DEF F!Above
  <2>5. F!Calls[Len(F!Calls)][1] = "sync"
    <3>1. Len(F!Calls) = 6 /\ F!Calls[6] = <<"sync", "run">>
      BY <1>3, StatusCalls
    <3> QED
      BY <3>1
  <2> QED
    BY <1>3, <2>1, <2>2, <2>3, <2>4, <2>5 DEF F!Inner
<1>4. CASE fwWriter = "release"
  <2>1. /\ F!Top = {<<"root", "apps">>, <<"apps", "app">>, <<"app", "releases">>,
                    <<"releases", "final">>}
        /\ F!Names = F!Top \cup F!Inner \cup {<<"releases", "temporary">>}
    BY <1>4, NamesOf
  <2>2. F!Final = <<"releases", "final">> /\ F!Temp = <<"releases", "temporary">>
    BY <1>4 DEF F!Final, F!Temp, F!Home
  <2>3. /\ \A e \in F!Top : e = F!Final \/ \E d \in F!Above : e = d.name
        /\ \A d \in F!Above : d.name \in F!Top
    <3>1. \E d \in F!Above : <<"root", "apps">> = d.name
      <4>1. [name |-> <<"root", "apps">>, making |-> 1, settling |-> 3] \in F!Above
        BY <1>4 DEF F!Above
      <4> QED
        BY <4>1
    <3>2. \E d \in F!Above : <<"apps", "app">> = d.name
      <4>1. [name |-> <<"apps", "app">>, making |-> 4, settling |-> 6] \in F!Above
        BY <1>4 DEF F!Above
      <4> QED
        BY <4>1
    <3>3. \E d \in F!Above : <<"app", "releases">> = d.name
      <4>1. [name |-> <<"app", "releases">>, making |-> 7, settling |-> 9] \in F!Above
        BY <1>4 DEF F!Above
      <4> QED
        BY <4>1
    <3>4. \A d \in F!Above : d.name \in F!Top
      BY <1>4, <2>1 DEF F!Above
    <3> QED
      BY <2>1, <2>2, <3>1, <3>2, <3>3, <3>4
  <2>4. F!Calls[Len(F!Calls)][1] = "sync"
    <3>1. Len(F!Calls) = 30 /\ F!Calls[30] = <<"sync", "root">>
      BY <1>4, ReleaseCalls
    <3> QED
      BY <3>1
  <2> QED
    BY <1>4, <2>1, <2>2, <2>3, <2>4 DEF F!Inner
<1> QED
  BY <1>1, <1>2, <1>3, <1>4

\* Where nothing that leads to the final name may be lost, no directory is made anew.
LEMMA MakingNothingAbove ==
    ASSUME F!NamesInv, F!MakeDirectory, \A e \in F!Top : F!None \notin fwDisk[e]
    PROVE  \A e \in F!Top : fwDisk'[e] = fwDisk[e]
<1>1. /\ fwPc # 0 /\ F!Calls[fwPc][1] = "mkdir" /\ fwPc \in 1..Len(F!Calls)
      /\ fwWriter \in {"slot", "record", "status", "release"}
  BY FilesNumbers DEF F!MakeDirectory, F!Call
<1>2. \A e \in F!Names : fwEntry[e] \in fwDisk[e]
  BY DEF F!NamesInv
<1>3. \A e \in F!Top : e \in F!Names
  BY <1>1, TopIs
<1>4. CASE \E d \in F!Above : fwPc = d.making
  <2>1. PICK d \in F!Above : fwPc = d.making
    BY <1>4
  <2>2. F!Calls[d.making] = <<"mkdir", d.name[1], d.name[2]>> /\ d.name \in F!Top
    BY <1>1, AbovePlaces, TopIs
  <2>3. F!At = d.name
    <3>1. d.name = <<d.name[1], d.name[2]>>
      BY <1>1 DEF F!Above
    <3> QED
      BY <2>1, <2>2, <3>1 DEF F!At
  <2>4. fwEntry[F!At] # F!None
    BY <1>2, <1>3, <2>2, <2>3
  <2>5. fwDisk' = fwDisk
    BY <2>4 DEF F!MakeDirectory
  <2> QED
    BY <2>5
<1>5. CASE fwWriter = "release" /\ fwPc = 12 /\ F!Calls[fwPc] = <<"mkdir", "stage", "assets">>
  <2>1. F!At = <<"stage", "assets">> /\ F!At[2] = "assets"
    BY <1>5 DEF F!At
  <2>2. \A e \in F!Top : e # F!At /\ e[1] # F!At[2]
    BY <1>5, <2>1, NamesOf
  <2> QED
    BY <1>3, <2>2 DEF F!MakeDirectory
<1> QED
  BY <1>1, <1>4, <1>5, MadePlaces

\* What was reported stays settled; a report is made when all is.
LEMMA ReportedStep ==
    ASSUME F!FilesInv, [F!Next]_(F!vars)
    PROVE  F!ReportedInv'
<1>0. /\ F!NamesInv /\ F!CreatedInv /\ fwPc \in Nat /\ Len(F!Calls) \in Nat \ {0}
      /\ fwPc # 0 => fwPc \in 1..Len(F!Calls)
      /\ fwWriter \in {"slot", "record", "status", "release"}
      /\ fwRun \in Nat /\ fwAcked \in Nat /\ fwAcked <= fwRun
      /\ DOMAIN fwEntry = F!Names /\ DOMAIN fwDisk = F!Names
      /\ \A e \in F!Names : fwEntry[e] \in fwDisk[e]
      /\ fwMade \in BOOLEAN /\ fwMissed \in BOOLEAN /\ F!None # F!Dir
      /\ fwWriter' = fwWriter /\ F!Top' = F!Top /\ F!Final' = F!Final
  BY FilesNumbers, SameWriter, NoneDirFile DEF F!FilesInv, F!NamesInv
<1>1. /\ \A e \in F!Top : e = F!Final \/ \E d \in F!Above : e = d.name
      /\ \A e \in F!Top : e \in F!Names /\ e # F!Temp /\ e \notin F!Inner
      /\ F!Calls[Len(F!Calls)][1] = "sync"
      /\ F!Final \in F!Top /\ F!Final # F!Temp /\ F!Temp \in F!Names /\ F!Final \in F!Names
      /\ \A e \in F!Top : e \notin F!Temporary
      /\ F!Final[1] = F!Home
  <2>1. \A d \in F!Above : d.name \notin F!Temporary
    BY <1>0, AbovePlaces
  <2> QED
    BY <1>0, <2>1, TopIs, FinalAndTemp
<1>2. fwAcked > 0 /\ (fwMissed => fwWriter = "slot") =>
        /\ \A e \in F!Top : F!None \notin fwDisk[e]
        /\ fwWriter # "release" => \A v \in fwDisk[F!Final] : v[1] >= fwAcked
  BY DEF F!FilesInv, F!ReportedInv
\* Nothing is reported: what was so far stays settled.
<1>3. ASSUME fwAcked' = fwAcked, fwMissed => fwMissed',
             (\A e \in F!Top : F!None \notin fwDisk[e]) =>
                /\ \A e \in F!Top : F!None \notin fwDisk'[e]
                /\ fwWriter # "release" =>
                     \A v \in fwDisk'[F!Final] : v \in fwDisk[F!Final] \/ v[1] >= fwAcked
      PROVE  F!ReportedInv'
  <2> SUFFICES ASSUME fwAcked' > 0, fwMissed' => fwWriter' = "slot"
               PROVE  /\ \A e \in F!Top : F!None \notin fwDisk'[e]
                      /\ fwWriter # "release" => \A v \in fwDisk'[F!Final] : v[1] >= fwAcked
    BY <1>0, <1>3 DEF F!ReportedInv
  <2>1. /\ \A e \in F!Top : F!None \notin fwDisk[e]
        /\ fwWriter # "release" => \A v \in fwDisk[F!Final] : v[1] >= fwAcked
    BY <1>0, <1>2, <1>3
  <2> QED
    BY <1>3, <2>1
\* An attempt is reported: all is settled, and its file is the one found.
<1>4. ASSUME fwAcked' = fwRun,
             (fwMissed' => fwWriter = "slot") =>
                /\ \A e \in F!Top : F!None \notin fwDisk'[e]
                /\ fwWriter # "release" => \A v \in fwDisk'[F!Final] : v[1] = fwRun
      PROVE  F!ReportedInv'
  BY <1>0, <1>4 DEF F!ReportedInv
<1>5. ASSUME fwPc # 0, F!Continue, F!Calls[fwPc][1] # "sync" PROVE fwAcked' = fwAcked
  BY <1>0, <1>1, <1>5 DEF F!Continue
<1>6. CASE F!Start \/ F!Kill \/ UNCHANGED F!vars
  BY <1>3, <1>6 DEF F!Start, F!Kill, F!vars
<1>7. CASE F!Write \/ F!SyncFile
  <2>1. /\ fwPc # 0 /\ fwDisk' = fwDisk /\ fwMissed' = fwMissed
        /\ F!Calls[fwPc][1] # "sync" /\ (F!Continue \/ fwAcked' = fwAcked)
    BY <1>7 DEF F!Write, F!SyncFile, F!Call
  <2>2. fwAcked' = fwAcked
    BY <1>5, <2>1
  <2> QED
    BY <1>3, <2>1, <2>2
<1>8. ASSUME fwAcked' = fwAcked, fwMissed' = fwMissed, \A e \in F!Top : fwDisk'[e] = fwDisk[e]
      PROVE  F!ReportedInv'
  BY <1>1, <1>3, <1>8
<1>9. CASE F!MakeStage \/ F!Create \/ F!RemoveOld
  <2>1. /\ fwPc # 0 /\ F!Calls[fwPc][1] \in {"stage", "create", "remove"} /\ F!Continue
        /\ fwMissed' = fwMissed
    BY <1>9 DEF F!MakeStage, F!Create, F!RemoveOld, F!Call
  <2>2. fwAcked' = fwAcked
    BY <1>5, <2>1
  <2>3. F!At \in {F!Temp} \cup F!Inner
    BY <1>0, <2>1, TouchedPlaces DEF F!At
  <2>4. ASSUME NEW e \in F!Top PROVE fwDisk'[e] = fwDisk[e]
    <3>1. e \in F!Names /\ e # F!At /\ e \notin F!Inner
      BY <1>1, <2>3, <2>4
    <3>2. CASE F!MakeStage
      BY <3>1, <3>2 DEF F!MakeStage
    <3>3. CASE F!Create \/ F!RemoveOld
      BY <3>1, <3>3 DEF F!Create, F!RemoveOld, F!Link
    <3> QED
      BY <1>9, <3>2, <3>3
  <2> QED
    BY <1>8, <2>1, <2>2, <2>4
<1>10. CASE F!Fail
  <2>1. /\ fwAcked' = fwAcked /\ fwMissed' = fwMissed
        /\ fwDisk' = fwDisk \/ F!Link(F!Names \cap F!Temporary, F!None)
    BY <1>10 DEF F!Fail
  <2>2. ASSUME NEW e \in F!Top PROVE fwDisk'[e] = fwDisk[e]
    <3>1. e \in F!Names /\ e \notin F!Names \cap F!Temporary
      BY <1>1, <2>2
    <3>2. ASSUME NEW changed, NEW v, F!Link(changed, v), e \notin changed
          PROVE  fwDisk'[e] = fwDisk[e]
      BY <3>1, <3>2 DEF F!Link
    <3> QED
      BY <2>1, <3>1, <3>2
  <2> QED
    BY <1>8, <2>1, <2>2
<1>11. CASE F!PowerLoss
  <2>1. /\ fwAcked' = fwAcked /\ fwMissed' = fwMissed
        /\ \A e \in F!Names : fwEntry'[e] \in fwDisk[e] /\ fwDisk'[e] = {fwEntry'[e]}
    BY <1>0, <1>11, LossSettles
  <2>2. \A e \in F!Top : \A v \in fwDisk'[e] : v \in fwDisk[e]
    BY <1>1, <2>1
  <2> QED
    BY <1>1, <1>3, <2>1, <2>2
<1>12. CASE F!Rename
  <2>1. fwPc # 0 /\ F!Calls[fwPc][1] = "rename" /\ F!Continue /\ fwMissed' = fwMissed
    BY <1>12 DEF F!Rename, F!Call
  <2>2. fwAcked' = fwAcked
    BY <1>5, <2>1
  <2>3. F!At = F!Temp /\ <<F!Calls[fwPc][2], F!Calls[fwPc][4]>> = F!Final
    BY <1>0, <2>1, TouchedPlaces DEF F!At
  <2>4. fwDisk' = [fwDisk EXCEPT ![F!Final] = @ \cup {fwEntry[F!Temp]},
                                 ![F!Temp] = @ \cup {F!None}]
    BY <1>12, <2>3 DEF F!Rename
  <2>5. /\ \A e \in F!Top : e # F!Final => fwDisk'[e] = fwDisk[e]
        /\ fwDisk'[F!Final] = fwDisk[F!Final] \cup {fwEntry[F!Temp]}
    BY <1>0, <1>1, <2>4
  <2>6. /\ fwEntry[F!Temp] # F!None
        /\ fwWriter # "release" => fwEntry[F!Temp][1] = fwRun
    <3>1. CASE fwWriter # "release"
      <4>1. fwPc = F!Creating + 3 /\ F!Creating \in Nat
        BY <1>0, <2>1, <3>1, SinglePlaces
      <4>2. fwEntry[F!Temp] = <<fwRun, F!Creating>>
        BY <3>1, <4>1 DEF F!FilesInv, F!SingleInv
      <4> QED
        BY <4>2, NoneDirFile
    <3>2. CASE fwWriter = "release"
      <4>1. fwPc \in 1..30
        BY <1>0, <2>1, <3>2, ReleaseCalls
      <4>2. fwPc = 26
        BY <2>1, <3>2, <4>1, ReleaseKinds
      <4>3. fwEntry[F!Temp] = F!Dir
        BY <3>2, <4>2 DEF F!FilesInv, F!ReleaseInv
      <4> QED
        BY <1>0, <3>2, <4>3
    <3> QED
      BY <3>1, <3>2
  <2>7. ASSUME \A e \in F!Top : F!None \notin fwDisk[e]
        PROVE  \A e \in F!Top : F!None \notin fwDisk'[e]
    BY <1>1, <2>5, <2>6, <2>7
  <2>8. ASSUME fwWriter # "release", NEW v \in fwDisk'[F!Final]
        PROVE  v \in fwDisk[F!Final] \/ v[1] >= fwAcked
    <3>1. v \in fwDisk[F!Final] \/ v[1] = fwRun
      BY <2>5, <2>6, <2>8
    <3> QED
      BY <1>0, <3>1
  <2> QED
    BY <1>3, <2>1, <2>2, <2>7, <2>8
<1>13. CASE F!MakeDirectory
  <2>1. /\ fwPc # 0 /\ F!Calls[fwPc][1] = "mkdir" /\ F!Continue
        /\ fwMissed => fwMissed'
    BY <1>13 DEF F!MakeDirectory, F!Call
  <2>2. fwAcked' = fwAcked
    BY <1>5, <2>1
  <2>3. ASSUME \A e \in F!Top : F!None \notin fwDisk[e]
        PROVE  \A e \in F!Top : fwDisk'[e] = fwDisk[e]
    BY <1>0, <1>13, <2>3, MakingNothingAbove
  <2> QED
    BY <1>1, <1>3, <2>1, <2>2, <2>3
<1>14. ASSUME NEW e \in F!Top, e # F!Final, ~fwMissed,
             fwPc = Len(F!Calls) \/ (fwWriter = "release" /\ fwPc = 10)
       PROVE  F!None \notin fwDisk[e]
  <2>1. PICK d \in F!Above : e = d.name
    BY <1>1, <1>14
  <2>2. d.making < d.settling /\ d.making \in Nat /\ d.settling \in Nat /\ fwPc > d.settling
    <3>1. d.making < d.settling /\ d.making \in Nat /\ d.settling \in Nat
          /\ d.settling < Len(F!Calls)
      BY <1>0, AbovePlaces
    <3>2. fwWriter = "release" => d.settling <= 9
      BY DEF F!Above
    <3> QED
      BY <1>0, <1>14, <3>1, <3>2
  <2>3. F!Standing(d)
    BY DEF F!FilesInv, F!AboveInv
  <2> QED
    BY <1>0, <1>14, <2>1, <2>2, <2>3 DEF F!Standing
<1>15. CASE F!FindPresent
  <2>1. /\ fwPc # 0 /\ F!Calls[fwPc][1] = "present" /\ fwDisk' = fwDisk
    BY <1>15 DEF F!FindPresent, F!Call
  <2>2. fwWriter = "release" /\ fwPc = 10 /\ F!At = F!Final
    <3>1. fwWriter = "release"
      BY <1>0, <2>1, SinglePlaces
    <3>2. fwPc \in 1..30
      BY <1>0, <2>1, <3>1, ReleaseCalls
    <3> QED
      BY <1>0, <2>1, <3>1, <3>2, ReleaseKinds, TouchedPlaces DEF F!At
  <2>3. CASE fwAcked' = fwAcked
    <3>1. fwMissed => fwMissed'
      BY <1>15 DEF F!FindPresent
    <3> QED
      BY <1>3, <2>1, <2>3, <3>1
  <2>4. CASE fwAcked' # fwAcked
    <3>1. fwEntry[F!At] # F!None
      BY <1>5, <1>15, <2>1, <2>4 DEF F!FindPresent
    <3>2. /\ F!release_package_matches /\ fwAcked' = fwRun
          /\ fwMissed' = (fwMissed \/ F!None \in fwDisk[F!At])
      BY <1>15, <2>4, <3>1 DEF F!FindPresent
    <3>3. ASSUME fwMissed' => fwWriter = "slot", NEW e \in F!Top
          PROVE  F!None \notin fwDisk'[e]
      <4>1. ~fwMissed /\ F!None \notin fwDisk[F!Final]
        BY <2>2, <3>2, <3>3
      <4> QED
        BY <1>14, <2>1, <2>2, <4>1
    <3> QED
      BY <1>4, <2>2, <3>2, <3>3
  <2> QED
    BY <2>3, <2>4
<1>16. CASE F!SyncDirectory
  <2>1. /\ fwPc # 0 /\ F!Calls[fwPc][1] \in {"sync", "sync_made"} /\ F!Continue
        /\ fwMissed' = fwMissed
        /\ IF F!Calls[fwPc][1] = "sync_made" /\ ~fwMade THEN fwDisk' = fwDisk
           ELSE fwDisk' = [e \in F!Names |-> IF e[1] = F!Calls[fwPc][2] THEN {fwEntry[e]}
                                             ELSE fwDisk[e]]
    BY <1>16 DEF F!SyncDirectory, F!Call, F!Synced
  <2>2. \A e \in F!Names : \A v \in fwDisk'[e] : v \in fwDisk[e]
    BY <1>0, <2>1
  <2>3. CASE fwPc # Len(F!Calls)
    <3>1. fwAcked' = fwAcked
      BY <2>1, <2>3 DEF F!Continue
    <3> QED
      BY <1>1, <1>3, <2>1, <2>2, <3>1
  <2>4. CASE fwPc = Len(F!Calls)
    <3>1. /\ fwAcked' = fwRun
          /\ fwDisk' = [e \in F!Names |-> IF e[1] = F!Calls[fwPc][2] THEN {fwEntry[e]}
                                          ELSE fwDisk[e]]
      BY <1>1, <2>1, <2>4 DEF F!Continue
    <3>2. CASE fwWriter = "release"
      <4>1. fwPc = 30
        BY <2>4, <3>2, ReleaseCalls
      <4>2. F!None \notin fwDisk[F!Final]
        BY <3>2, <4>1 DEF F!FilesInv, F!ReleaseInv
      <4>3. ASSUME ~fwMissed, NEW e \in F!Top PROVE F!None \notin fwDisk'[e]
        BY <1>1, <1>14, <2>2, <2>4, <4>2, <4>3
      <4> QED
        BY <1>4, <2>1, <3>1, <3>2, <4>3
    <3>3. CASE fwWriter # "release"
      <4>1. /\ F!Creating \in Nat /\ fwPc >= F!Creating + 4
            /\ fwPc = F!Creating + 4 => F!Calls[fwPc][2] = F!Home
        BY <1>0, <2>1, <2>4, <3>3, SinglePlaces
      <4>2. /\ fwEntry[F!Final] = <<fwRun, F!Creating>>
            /\ fwPc > F!Creating + 4 => fwDisk[F!Final] = {<<fwRun, F!Creating>>}
        <5>1. /\ fwPc > F!Creating + 3 => fwEntry[F!Final] = <<fwRun, F!Creating>>
              /\ fwPc > F!Creating + 4 => fwDisk[F!Final] = {<<fwRun, F!Creating>>}
          BY <3>3 DEF F!FilesInv, F!SingleInv
        <5>2. fwPc > F!Creating + 3
          BY <1>0, <4>1
        <5> QED
          BY <5>1, <5>2
      <4>3. \A v \in fwDisk'[F!Final] : v = <<fwRun, F!Creating>>
        <5>1. CASE fwPc = F!Creating + 4
          BY <1>1, <3>1, <4>1, <4>2, <5>1
        <5>2. CASE fwPc > F!Creating + 4
          BY <1>1, <2>2, <4>2, <5>2
        <5> QED
          BY <1>0, <4>1, <5>1, <5>2
      <4>4. F!None \notin fwDisk'[F!Final]
        BY <4>3, NoneDirFile
      <4>5. ASSUME fwMissed => fwWriter = "slot", NEW e \in F!Top, e # F!Final
            PROVE  F!None \notin fwDisk'[e]
        <5>1. CASE ~fwMissed
          BY <1>1, <1>14, <2>2, <2>4, <4>5, <5>1
        <5>2. CASE fwWriter = "slot"
          <6>1. /\ fwPc = 13 /\ F!Calls[13] = <<"sync", "root">>
                /\ e = <<"root", "apps">> \/ e = <<"apps", "app">>
            <7>1. Len(F!Calls) = 13 /\ F!Calls[13] = <<"sync", "root">>
              BY <5>2, SlotCalls
            <7>2. F!Final = <<"app", "final">>
              BY <5>2 DEF F!Final, F!Home
            <7>3. F!Top = {<<"root", "apps">>, <<"apps", "app">>, <<"app", "final">>}
              BY <5>2, NamesOf
            <7> QED
              BY <2>4, <4>5, <7>1, <7>2, <7>3
          <6>2. CASE e = <<"root", "apps">>
            <7>1. [name |-> <<"root", "apps">>, making |-> 1, settling |-> 3] \in F!Above
              BY <5>2 DEF F!Above
            <7>2. fwEntry[e] = F!Dir
              BY <6>1, <6>2, <7>1 DEF F!FilesInv, F!AboveInv, F!Standing
            <7>3. fwDisk'[e] = {fwEntry[e]}
              BY <1>1, <3>1, <6>1, <6>2
            <7> QED
              BY <1>0, <7>2, <7>3
          <6>3. CASE e = <<"apps", "app">>
            <7>1. F!None \notin fwDisk[e]
              BY <5>2, <6>1, <6>3 DEF F!FilesInv, F!SingleInv
            <7> QED
              BY <1>1, <2>2, <7>1
          <6> QED
            BY <6>1, <6>2, <6>3
        <5> QED
          BY <1>0, <4>5, <5>1, <5>2
      <4>6. \A v \in fwDisk'[F!Final] : v[1] = fwRun
        BY <4>3
      <4> QED
        BY <1>4, <2>1, <3>1, <4>4, <4>5, <4>6
    <3> QED
      BY <3>2, <3>3
  <2> QED
    BY <2>3, <2>4
<1> QED
  BY <1>6, <1>7, <1>9, <1>10, <1>11, <1>12, <1>13, <1>15, <1>16 DEF F!Next

\* Before the first attempt nothing has a name.
LEMMA FilesStart ==
    ASSUME F!Init
    PROVE  F!FilesInv
<1>1. /\ fwWriter \in {"slot", "record", "status", "release"} /\ fwRun = 0 /\ fwPc = 0
      /\ fwMade = FALSE /\ fwFile = <<>> /\ fwAcked = 0 /\ fwMissed = FALSE
      /\ fwEntry = [e \in F!Names |-> F!None] /\ fwDisk = [e \in F!Names |-> {F!None}]
  BY FilesInstance DEF F!Init, F!FilesAssumption
<1>2. Len(F!Calls) \in Nat
  BY <1>1, SlotCalls, RecordCalls, StatusCalls, ReleaseCalls
<1>3. F!NamesInv
  <2>1. /\ fwRun \in Nat /\ fwAcked \in 0..fwRun /\ fwPc \in 0..Len(F!Calls)
        /\ fwMade \in BOOLEAN /\ fwMissed \in BOOLEAN
    <3>1. fwRun \in Nat /\ fwAcked \in 0..fwRun
      BY <1>1
    <3>2. fwPc \in 0..Len(F!Calls)
      BY <1>1, <1>2
    <3>3. fwMade \in BOOLEAN /\ fwMissed \in BOOLEAN
      BY <1>1
    <3> QED
      BY <3>1, <3>2, <3>3
  <2>2. /\ DOMAIN fwEntry = F!Names /\ DOMAIN fwDisk = F!Names
        /\ \A e \in F!Names : fwEntry[e] \in fwDisk[e]
    BY <1>1
  <2> QED
    BY <1>1, <2>1, <2>2 DEF F!NamesInv
<1>4. F!CreatedInv
  BY <1>1 DEF F!CreatedInv
<1>5. F!AboveInv
  <2>1. ASSUME NEW d \in F!Above PROVE F!Standing(d)
    <3>1. d.name \in F!Names /\ d.making \in Nat
      BY <1>1, AbovePlaces
    <3> QED
      BY <1>1, <3>1 DEF F!Standing
  <2> QED
    BY <2>1 DEF F!AboveInv
<1>6. F!SingleInv
  <2>1. F!Creating \in Nat
    BY <1>1 DEF F!Creating
  <2> QED
    BY <1>1, <2>1, FinalAndTemp DEF F!SingleInv
<1>7. F!ReleaseInv
  BY <1>1, FinalAndTemp, NoneDirFile DEF F!ReleaseInv
<1>8. F!ReportedInv
  BY <1>1 DEF F!ReportedInv
<1> QED
  BY <1>3, <1>4, <1>5, <1>6, <1>7, <1>8 DEF F!FilesInv

\* What the invariant says of what is found.
LEMMA FilesSafe ==
    ASSUME F!FilesInv
    PROVE  F!OldOrNew
<1>0. /\ F!NamesInv /\ fwWriter \in {"slot", "record", "status", "release"}
      /\ \A e \in F!Names : fwEntry[e] \in fwDisk[e]
      /\ F!None # F!Dir
  BY FilesNumbers, NoneDirFile DEF F!FilesInv, F!NamesInv
<1>1. F!Final \in F!Top /\ F!Final \in F!Names /\ \A e \in F!Top : e \in F!Names
  BY <1>0, FinalAndTemp, TopIs
<1>2. ASSUME \A e \in F!Top : fwEntry[e] # F!None
      PROVE  /\ \A e \in F!Names \ F!Temporary : fwEntry[e] # F!None
             /\ \A e \in F!Contents : fwFile[fwEntry[e]].pieces = FilesPieces
  <2>1. CASE fwWriter # "release"
    <3>1. F!Contents = {F!Final} /\ F!Names = F!Top \cup {F!Temp} /\ F!Temp \in F!Temporary
      BY <1>0, <2>1, TopIs, FinalAndTemp
    <3>2. F!Whole(fwEntry[F!Final])
      BY <1>0, <1>1, <1>2, <2>1 DEF F!FilesInv, F!SingleInv
    <3> QED
      BY <1>2, <3>1, <3>2 DEF F!Whole
  <2>2. CASE fwWriter = "release"
    <3>1. /\ F!Names = F!Top \cup F!Inner \cup {F!Temp} /\ F!Temp \in F!Temporary
      BY <1>0, <2>2, TopIs, FinalAndTemp
    <3>2. fwEntry[F!Final] \in {F!None, F!Dir} /\ fwEntry[F!Final] # F!None
      BY <1>0, <1>1, <1>2, <2>2 DEF F!FilesInv, F!ReleaseInv
    <3>3. F!Sealed
      BY <1>0, <1>1, <2>2, <3>2 DEF F!FilesInv, F!ReleaseInv
    <3>4. ASSUME NEW e \in F!Contents
          PROVE  fwEntry[e] # F!None /\ fwFile[fwEntry[e]].pieces = FilesPieces
      <4>1. F!Whole(fwEntry[e])
        BY <3>3, <3>4 DEF F!Sealed
      <4>2. fwEntry[e] \in Nat \X Nat
        BY <4>1 DEF F!Whole, F!FilesInv, F!CreatedInv
      <4>3. fwEntry[e] # F!None
        BY <4>2, NoneDirFile
      <4> QED
        BY <4>1, <4>3 DEF F!Whole
    <3>5. ASSUME NEW e \in F!Inner PROVE fwEntry[e] # F!None
      <4>1. e \in F!Contents \/ e = <<"stage", "assets">>
        BY <2>2, <3>5 DEF F!Contents
      <4> QED
        BY <1>0, <3>3, <3>4, <4>1 DEF F!Sealed
    <3> QED
      BY <1>2, <3>1, <3>4, <3>5
  <2> QED
    BY <2>1, <2>2
<1>3. ASSUME fwAcked > 0, fwMissed => fwWriter = "slot"
      PROVE  /\ \A e \in F!Top : fwEntry[e] # F!None
             /\ fwWriter # "release" => \A e \in F!Contents : fwEntry[e][1] >= fwAcked
  <2>1. /\ \A e \in F!Top : F!None \notin fwDisk[e]
        /\ fwWriter # "release" => \A v \in fwDisk[F!Final] : v[1] >= fwAcked
    BY <1>3 DEF F!FilesInv, F!ReportedInv
  <2>2. fwWriter # "release" => F!Contents = {F!Final}
    BY <1>0, TopIs
  <2> QED
    BY <1>0, <1>1, <2>1, <2>2
<1> QED
  BY <1>2, <1>3 DEF F!OldOrNew

\* Whichever file the platform writes, and whatever fails, is killed or is lost with the
\* power: what is found under the final name is whole, and after a report of success it
\* is that attempt's or a later one's (write_slot, persist_release_state,
\* write_storage_record, atomic_status, stage_verified_release).
THEOREM FilesAreOldOrNew == F!Spec => []OldOrNew
<1>1. F!Init => F!FilesInv
  BY FilesStart
<1>2. F!FilesInv /\ [F!Next]_(F!vars) => F!FilesInv'
  <2> SUFFICES ASSUME F!FilesInv, [F!Next]_(F!vars) PROVE F!FilesInv'
    OBVIOUS
  <2>1. F!NamesInv' /\ F!CreatedInv' /\ F!AboveInv' /\ F!ReportedInv'
    BY NamesStep, CreatedStep, AboveStep, ReportedStep
  <2>2. F!SingleInv'
    <3>1. CASE fwWriter # "release"
      BY <3>1, SingleStep
    <3>2. CASE fwWriter = "release"
      BY <3>2, SameWriter DEF F!SingleInv
    <3> QED
      BY <3>1, <3>2
  <2>3. F!ReleaseInv'
    <3>1. CASE fwWriter = "release"
      BY <3>1, ReleaseStep
    <3>2. CASE fwWriter # "release"
      BY <3>2, SameWriter DEF F!ReleaseInv
    <3> QED
      BY <3>1, <3>2
  <2> QED
    BY <2>1, <2>2, <2>3 DEF F!FilesInv
<1>3. F!FilesInv => OldOrNew
  BY FilesSafe DEF OldOrNew
<1> QED
  BY <1>1, <1>2, <1>3, PTL DEF F!Spec

=============================================================================
