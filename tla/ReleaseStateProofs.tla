------------------------- MODULE ReleaseStateProofs -------------------------
(* What the operators of ReleaseState return, for every package and state.  *)
EXTENDS ReleaseState, TLAPS

\* The value-initialised state is a state, of generation 0, and not a valid one.
LEMMA NoStateFacts ==
    /\ NoState \in ReleaseStates
    /\ ~valid_state(NoState)
    /\ NoState.generation = 0
    /\ NoState.current = 0
    /\ NoState.previous = 0
BY DEF NoState, ReleaseStates, valid_state

\* A sound state is not the absent one.
LEMMA SoundFacts ==
    ASSUME NEW s, Sound(s)
    PROVE  /\ s # NoState
           /\ s \in ReleaseStates
           /\ s.generation \in Nat \ {0}
           /\ valid_state(s)
BY NoStateFacts DEF Sound, ReleaseStates, valid_state

\* Older is transitive.
LEMMA OlderTransitive ==
    ASSUME NEW u \in ReleaseStates, NEW v \in ReleaseStates, NEW w \in ReleaseStates,
           Older(u, v), Older(v, w)
    PROVE  Older(u, w)
BY DEF Older, ReleaseStates

\* Every state can replace itself.
LEMMA OlderReflexive ==
    ASSUME NEW u \in ReleaseStates
    PROVE  Older(u, u)
BY DEF Older, ReleaseStates

\* Nothing is older than the absent state.
LEMMA NoStateOldest ==
    ASSUME NEW u \in ReleaseStates, u = NoState \/ Sound(u)
    PROVE  Older(NoState, u)
BY SoundFacts DEF Older, ReleaseStates, NoState

\* select_release_state, of slots that form a chain, returns the newest.
LEMMA SelectNewest ==
    ASSUME NEW a \in ReleaseStates, NEW b \in ReleaseStates,
           a = NoState \/ Sound(a), b = NoState \/ Sound(b),
           a.generation <= b.generation => Older(a, b),
           b.generation <= a.generation => Older(b, a)
    PROVE  /\ select_release_state(a, b) \in {a, b}
           /\ a.generation <= select_release_state(a, b).generation
           /\ b.generation <= select_release_state(a, b).generation
           /\ ~split_brain(a, b)
<1>1. ~split_brain(a, b)
  BY DEF split_brain, Older, ReleaseStates
<1>2. valid_state(a) <=> a # NoState
  BY NoStateFacts, SoundFacts
<1>3. valid_state(b) <=> b # NoState
  BY NoStateFacts, SoundFacts
<1>4. a.generation \in Nat /\ b.generation \in Nat
  BY DEF ReleaseStates
<1>5. CASE valid_state(a) /\ valid_state(b)
  BY <1>1, <1>4, <1>5 DEF select_release_state
<1>6. CASE ~valid_state(a) \/ ~valid_state(b)
  BY <1>1, <1>2, <1>3, <1>4, <1>6, NoStateFacts DEF select_release_state
<1> QED
  BY <1>1, <1>5, <1>6

\* Whatever the slots hold, select_release_state returns one of them or nothing.
LEMMA SelectType ==
    ASSUME NEW a \in ReleaseStates, NEW b \in ReleaseStates
    PROVE  select_release_state(a, b) \in ReleaseStates
BY NoStateFacts DEF select_release_state

\* The counter a sound state quarantines is clean in that state.
LEMMA OwnQuarantineClean ==
    ASSUME NEW s, Sound(s), s.quarantined # 0
    PROVE  Clean(s.quarantined, s)
BY DEF Sound, Shaped, valid_state, Clean

\* activation_state_for builds a state.
LEMMA ActivatedType ==
    ASSUME NEW p \in PackageRecords, NEW s \in ReleaseStates
    PROVE  activated(p, s) \in ReleaseStates
BY DEF PackageRecords, ReleaseStates, activated, Max2

\* rollback_release builds a state.
LEMMA RolledBackType ==
    ASSUME NEW s \in ReleaseStates, NEW recordFailure \in BOOLEAN
    PROVE  rolled_back(s, recordFailure) \in ReleaseStates
BY DEF ReleaseStates, rolled_back

\* A state that activation_state_for returns is sound, follows the state it was
\* computed from and keeps every quarantined counter out.
LEMMA ActivationFollows ==
    ASSUME NEW p \in PackageRecords, NEW s \in ReleaseStates,
           s = NoState \/ Sound(s),
           activation_state_for(p, s) # NoState
    PROVE  /\ Sound(activation_state_for(p, s))
           /\ Follows(activation_state_for(p, s), s)
           /\ \A q \in Nat \ {0} : s # NoState /\ Clean(q, s) => Clean(q, activation_state_for(p, s))
<1> DEFINE n == activation_state_for(p, s)
<1>1. ~activation_refused(p, s)
  BY DEF activation_state_for
<1>2. CASE n = s
  BY <1>2 DEF Follows
<1>3. CASE n # s
  <2>1. n = activated(p, s) /\ valid_state(activated(p, s)) 
    BY <1>1, <1>3 DEF activation_state_for
  <2>2. activated(p, s) \in ReleaseStates
    BY ActivatedType
  <2>3. p.counter \in Nat \ {0} /\ p.epoch \in Nat /\ p.key \in Nat
    BY <1>1 DEF PackageRecords, activation_refused
  <2>4. s.high \in Nat /\ s.current \in Nat /\ s.quarantined \in Nat /\ s.generation \in Nat
        /\ s.epoch \in Nat /\ s.previous \in Nat
    BY DEF ReleaseStates
  <2>5. s.high <= p.counter /\ s.epoch <= p.epoch
    <3>1. CASE s = NoState
      BY <3>1, <2>3, <2>4 DEF NoState
    <3>2. CASE s # NoState
      BY <3>2, <1>1, <2>3, <2>4 DEF activation_refused
    <3> QED BY <3>1, <3>2
  <2>6. /\ activated(p, s).generation = s.generation + 1
        /\ activated(p, s).current = p.counter
        /\ activated(p, s).high = p.counter
        /\ activated(p, s).epoch = p.epoch
        /\ activated(p, s).key = p.key
        /\ activated(p, s).previous = (IF s.current # p.counter THEN s.current ELSE 0)
        /\ activated(p, s).quarantined = (IF s.quarantined = p.counter THEN 0 ELSE s.quarantined)
    BY <2>3, <2>4, <2>5 DEF activated, Max2
  <2>7. s.generation # 0 => s.key = p.key
    BY <1>1 DEF activation_refused, NoState
  <2>8. Older(s, activated(p, s))
    BY <2>3, <2>4, <2>5, <2>6, <2>7 DEF Older
  <2>9. Shaped(activated(p, s))
    <3>1. s.quarantined # 0 => s.quarantined # s.current
      BY NoStateFacts, SoundFacts DEF valid_state, NoState
    <3> QED BY <2>6, <3>1 DEF Shaped
  <2>10. ASSUME NEW q \in Nat \ {0}, s # NoState, Clean(q, s)
         PROVE  Clean(q, activated(p, s))
    <3>1. q # p.counter
      <4>1. p.counter # s.quarantined
        BY <1>1, <2>10 DEF activation_refused
      <4> QED BY <2>3, <2>4, <2>5, <2>10, <4>1 DEF Clean
    <3>2. q <= p.counter
      BY <2>3, <2>4, <2>5, <2>10 DEF Clean
    <3> QED BY <2>6, <2>10, <3>1, <3>2 DEF Clean
  <2> HIDE DEF n
  <2> QED BY <2>1, <2>2, <2>6, <2>8, <2>9, <2>10 DEF Sound, Follows, n
<1> QED BY <1>2, <1>3

\* The same of a rollback.
LEMMA RollbackFollows ==
    ASSUME NEW s \in ReleaseStates, NEW recordFailure \in BOOLEAN, Sound(s),
           rollback_release(s, recordFailure) # NoState
    PROVE  /\ Sound(rollback_release(s, recordFailure))
           /\ Follows(rollback_release(s, recordFailure), s)
           /\ \A q \in Nat \ {0} : Clean(q, s) => Clean(q, rollback_release(s, recordFailure))
<1> DEFINE n == rolled_back(s, recordFailure)
<1>1. rollback_release(s, recordFailure) = n /\ valid_state(n) /\ s.previous # 0
  BY DEF rollback_release
<1>2. n \in ReleaseStates
  BY RolledBackType
<1>3. /\ n.generation = s.generation + 1
      /\ n.current = s.previous
      /\ n.previous = 0
      /\ n.high = s.high
      /\ n.epoch = s.epoch
      /\ n.quarantined = s.current
      /\ n.key = s.key
  BY DEF rolled_back
<1>4. s.high \in Nat /\ s.current \in Nat /\ s.generation \in Nat /\ s.epoch \in Nat
  BY DEF ReleaseStates
<1>5. s.current = s.high
  BY <1>1 DEF Sound, Shaped
<1> HIDE DEF n
<1>6. Older(s, n)
  BY <1>3, <1>4 DEF Older
<1>7. Shaped(n)
  BY <1>3 DEF Shaped
<1>8. ASSUME NEW q \in Nat \ {0}, Clean(q, s)
      PROVE  Clean(q, n)
  BY <1>3, <1>5, <1>8 DEF Clean
<1> QED BY <1>1, <1>2, <1>3, <1>6, <1>7, <1>8 DEF Sound, Follows

\* Both transitions return states.
LEMMA TransitionTypes ==
    ASSUME NEW s \in ReleaseStates
    PROVE  /\ \A p \in PackageRecords : activation_state_for(p, s) \in ReleaseStates
           /\ \A recordFailure \in BOOLEAN : rollback_release(s, recordFailure) \in ReleaseStates
BY ActivatedType, RolledBackType, NoStateFacts DEF activation_state_for, rollback_release

=============================================================================
