---------------------------- MODULE ReleaseState ----------------------------
(***************************************************************************)
(* The per-application release state ("policy") of the platform and the    *)
(* pure decisions taken on it: platform/src/storage/release_state.cpp and  *)
(* platform/src/package/rollback_policy.cpp.                               *)
(*                                                                         *)
(* Digests and signing-key ids are opaque numbers; 0 stands for the zero   *)
(* digest (and for "no key").  Release counter 0 means "no release", as in *)
(* the code.  NoState, the value-initialised ApplicationReleaseState,      *)
(* stands for an absent optional and for a slot that cannot be decoded:    *)
(* its generation is 0, so valid_state rejects it.                         *)
(***************************************************************************)
EXTENDS Naturals

CONSTANT MaxGeneration   \* numeric_limits<uint64_t>::max(): generations never wrap

ASSUME GenerationAssumption == MaxGeneration \in Nat \ {0}

ReleaseStates ==
    [generation: Nat, current: Nat, currentDigest: Nat, previous: Nat,
     previousDigest: Nat, high: Nat, highDigest: Nat, epoch: Nat,
     quarantined: Nat, failures: Nat, key: Nat]

NoState ==
    [generation |-> 0, current |-> 0, currentDigest |-> 0, previous |-> 0,
     previousDigest |-> 0, high |-> 0, highDigest |-> 0, epoch |-> 0,
     quarantined |-> 0, failures |-> 0, key |-> 0]

(***************************************************************************)
(* A package as the platform sees it after PackageVerification: trusted is *)
(* the verdict of the trust store (signed by a compiled-in key, not a      *)
(* development package), compatible the verdict of the SDK, platform       *)
(* version, profile, machine and capability checks.                        *)
(***************************************************************************)
PackageRecords ==
    [counter: Nat, epoch: Nat, digest: Nat \ {0}, key: Nat \ {0},
     trusted: BOOLEAN, compatible: BOOLEAN]

NoPackage ==
    [counter |-> 0, epoch |-> 0, digest |-> 0, key |-> 0,
     trusted |-> FALSE, compatible |-> FALSE]

valid_state(s) ==
    /\ s.key # 0
    /\ s.generation # 0
    /\ s.current # 0
    /\ s.high >= s.current
    /\ s.previous <= s.high
    /\ s.quarantined <= s.high
    /\ s.failures <= 3
    /\ s.currentDigest # 0
    /\ s.highDigest # 0
    /\ (s.previous = 0) <=> (s.previousDigest = 0)
    /\ (s.high = s.current) => (s.highDigest = s.currentDigest)
    /\ s.previous # s.current
    /\ s.quarantined # s.current

-----------------------------------------------------------------------------
(* Choosing between the two slots of a state directory.                    *)

split_brain(a, b) ==
    /\ valid_state(a)
    /\ valid_state(b)
    /\ a.generation = b.generation
    /\ a # b

select_release_state(a, b) ==
    IF \/ split_brain(a, b)
       \/ ~valid_state(a) /\ ~valid_state(b)
    THEN NoState
    ELSE IF /\ valid_state(a)
            /\ ~valid_state(b) \/ a.generation >= b.generation
         THEN a
         ELSE b

redundancy_degraded(a, b) == ~(valid_state(a) /\ valid_state(b))

-----------------------------------------------------------------------------
(* The install policy, evaluated against the high-water mark of state s.   *)

evaluate_install_policy(p, s) ==
    /\ p.trusted
    /\ p.counter # 0
    /\ p.compatible
    /\ s # NoState =>
          /\ p.key = s.key
          /\ p.epoch >= s.epoch
          /\ p.counter >= s.high
          /\ p.counter = s.high => p.digest = s.highDigest

-----------------------------------------------------------------------------
(* State transitions.  NoState as a result is std::nullopt.                *)

Max2(m, n) == IF m >= n THEN m ELSE n

\* Wrong variant: the quarantine check is missing.
activation_refused_ForgetsQuarantine(p, s) ==
    \/ ~p.trusted
    \/ p.counter = 0
    \/ /\ s # NoState
       /\ \/ ~valid_state(s)
          \/ p.key # s.key
          \/ p.counter < s.high
          \/ p.epoch < s.epoch
          \/ p.counter = s.high /\ p.digest # s.highDigest

activation_refused(p, s) ==
    \/ ~p.trusted
    \/ p.counter = 0
    \/ /\ s # NoState
       /\ \/ ~valid_state(s)
          \/ p.key # s.key
          \/ p.counter < s.high
          \/ p.epoch < s.epoch
          \/ p.counter = s.quarantined
          \/ p.counter = s.high /\ p.digest # s.highDigest

activated(p, s) ==
    LET high == Max2(p.counter, s.high)
        keepsPrevious == s.current # p.counter
    IN [generation     |-> s.generation + 1,
        current        |-> p.counter,
        currentDigest  |-> p.digest,
        previous       |-> IF keepsPrevious THEN s.current ELSE 0,
        previousDigest |-> IF keepsPrevious THEN s.currentDigest ELSE 0,
        high           |-> high,
        highDigest     |-> IF high = s.high THEN s.highDigest ELSE p.digest,
        epoch          |-> Max2(p.epoch, s.epoch),
        quarantined    |-> IF s.quarantined = p.counter THEN 0 ELSE s.quarantined,
        failures       |-> 0,
        key            |-> p.key]

activation_state_for(p, s) ==
    IF activation_refused(p, s) THEN NoState
    ELSE IF s # NoState /\ p.counter = s.current /\ p.digest = s.currentDigest THEN s
    ELSE IF s.generation = MaxGeneration \/ ~valid_state(activated(p, s)) THEN NoState
    ELSE activated(p, s)

\* Wrong variant: the generation is not incremented.
rolled_back_SameGeneration(s, recordFailure) ==
    [s EXCEPT !.quarantined    = s.current,
              !.current        = s.previous,
              !.currentDigest  = s.previousDigest,
              !.previous       = 0,
              !.previousDigest = 0]

\* Wrong variant: the failure counter is decremented, below zero the first time.
rolled_back_CountsDown(s, recordFailure) ==
    [s EXCEPT !.generation     = s.generation + 1,
              !.quarantined    = s.current,
              !.current        = s.previous,
              !.currentDigest  = s.previousDigest,
              !.previous       = 0,
              !.previousDigest = 0,
              !.failures       = s.failures - 1]

rolled_back(s, recordFailure) ==
    [generation     |-> s.generation + 1,
     current        |-> s.previous,
     currentDigest  |-> s.previousDigest,
     previous       |-> 0,
     previousDigest |-> 0,
     high           |-> s.high,
     highDigest     |-> s.highDigest,
     epoch          |-> s.epoch,
     quarantined    |-> s.current,
     failures       |-> IF ~recordFailure THEN 0
                        ELSE IF s.failures + 1 <= 3 THEN s.failures + 1 ELSE 3,
     key            |-> s.key]

rollback_release(s, recordFailure) ==
    IF \/ ~valid_state(s)
       \/ s.previous = 0
       \/ s.generation = MaxGeneration
       \/ ~valid_state(rolled_back(s, recordFailure))
    THEN NoState
    ELSE rolled_back(s, recordFailure)

-----------------------------------------------------------------------------
(* How states relate, for the invariants.                                  *)

\* What activation and rollback keep true of a state, beyond valid_state.
Shaped(s) ==
    /\ s.previous # 0 => s.current = s.high
    /\ s.quarantined # 0 => s.quarantined # s.previous

Sound(s) == s \in ReleaseStates /\ valid_state(s) /\ Shaped(s)

\* v can replace u: nothing the policy relies on goes back.
Older(u, v) ==
    /\ u.generation <= v.generation
    /\ u.high <= v.high
    /\ u.epoch <= v.epoch
    /\ u.generation # 0 => u.key = v.key
    /\ u.generation = v.generation => u = v

Follows(t, s) ==
    \/ t = s
    \/ t.generation = s.generation + 1 /\ Older(s, t)

\* Quarantined counter q is neither active nor a fallback in u, and cannot be
\* activated from u.
Clean(q, u) ==
    /\ q <= u.high
    /\ q # u.current
    /\ q # u.previous
    /\ q = u.high => u.quarantined = q
=============================================================================
