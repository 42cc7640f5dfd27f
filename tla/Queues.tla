------------------------------- MODULE Queues -------------------------------
(***************************************************************************)
(* What the queues of the models hold after something is taken from their  *)
(* head, added at their end, or one of them put after another: the facts   *)
(* of SequenceTheorems that the proofs need again and again, element by    *)
(* element.                                                                *)
(***************************************************************************)
EXTENDS Integers, Sequences, SequenceTheorems, TLAPS

\* What a queue holds after its head is taken.
LEMMA TailOf ==
    ASSUME NEW S, NEW s \in Seq(S), s # <<>>
    PROVE  /\ Len(s) \in Nat \ {0} /\ Head(s) = s[1] /\ Head(s) \in S
           /\ Tail(s) \in Seq(S) /\ Len(Tail(s)) = Len(s) - 1
           /\ \A i \in 1..Len(Tail(s)) : Tail(s)[i] = s[i + 1] /\ i + 1 \in 1..Len(s)
<1>1. Len(s) \in Nat /\ Len(s) # 0
  BY EmptySeq, LenProperties
<1>2. /\ Head(s) = s[1] /\ Tail(s) \in Seq(S) /\ Len(Tail(s)) = Len(s) - 1
      /\ \A i \in 1..Len(Tail(s)) : Tail(s)[i] = s[i + 1]
  BY HeadTailProperties
<1>3. \A i \in 1..Len(s) : s[i] \in S
  BY ElementOfSeq
<1> QED
  BY <1>1, <1>2, <1>3

\* What it holds after something is added at the end.
LEMMA AppendTo ==
    ASSUME NEW S, NEW s \in Seq(S), NEW x \in S
    PROVE  /\ Append(s, x) \in Seq(S) /\ Len(Append(s, x)) = Len(s) + 1 /\ Len(s) \in Nat
           /\ Append(s, x) # <<>>
           /\ \A i \in 1..Len(s) : Append(s, x)[i] = s[i]
           /\ Append(s, x)[Len(s) + 1] = x
<1>1. Len(s) \in Nat
  BY LenProperties
<1>2. /\ Append(s, x) \in Seq(S) /\ Len(Append(s, x)) = Len(s) + 1
      /\ \A i \in 1..Len(s) : Append(s, x)[i] = s[i]
      /\ Append(s, x)[Len(s) + 1] = x
  BY AppendProperties
<1>3. Append(s, x) # <<>>
  BY <1>1, <1>2, EmptySeq
<1> QED
  BY <1>1, <1>2, <1>3

\* Two queues, one after the other.
LEMMA QueuesJoined ==
    ASSUME NEW S, NEW s \in Seq(S), NEW t \in Seq(S)
    PROVE  /\ s \o t \in Seq(S) /\ Len(s \o t) = Len(s) + Len(t)
           /\ Len(s) \in Nat /\ Len(t) \in Nat
           /\ \A i \in 1..Len(s) : (s \o t)[i] = s[i]
           /\ \A i \in 1..Len(t) : (s \o t)[Len(s) + i] = t[i]
<1> DEFINE m == Len(s)
<1> DEFINE n == Len(t)
<1>1. m \in Nat /\ n \in Nat
  BY LenProperties
<1>2. s \o t \in Seq(S) /\ Len(s \o t) = m + n
  BY ConcatProperties
<1>3. ASSUME NEW i \in 1..m + n PROVE (s \o t)[i] = IF i <= m THEN s[i] ELSE t[i - m]
  BY <1>3, ConcatProperties
<1> HIDE DEF m, n
<1>4. ASSUME NEW i \in 1..m PROVE (s \o t)[i] = s[i]
  <2>1. i \in 1..m + n /\ i <= m
    BY <1>1
  <2> QED
    BY <1>3, <2>1
<1>5. ASSUME NEW i \in 1..n PROVE (s \o t)[m + i] = t[i]
  <2>1. m + i \in 1..m + n /\ ~(m + i <= m) /\ (m + i) - m = i
    BY <1>1
  <2> QED
    BY <1>3, <2>1
<1> QED
  BY <1>1, <1>2, <1>4, <1>5 DEF m, n

\* A sequence of whatever it holds.
LEMMA QueueOf ==
    ASSUME NEW S, NEW s \in Seq(S)
    PROVE  s \in Seq({s[i] : i \in DOMAIN s})
<1> DEFINE R == {s[i] : i \in DOMAIN s}
<1>1. /\ Len(s) \in Nat /\ DOMAIN s = 1..Len(s)
      /\ s = [i \in 1..Len(s) |-> s[i]]
  BY LenProperties
<1>2. \A i \in 1..Len(s) : s[i] \in R
  BY <1>1
<1> HIDE DEF R
<1> QED
  BY <1>1, <1>2, SeqDef DEF R

\* What such a queue holds after its head is taken was there before.
LEMMA QueueTail ==
    ASSUME NEW s, s \in Seq({s[i] : i \in DOMAIN s}), s # <<>>
    PROVE  /\ Tail(s) \in Seq({Tail(s)[i] : i \in DOMAIN Tail(s)})
           /\ 1 \in DOMAIN s /\ Head(s) = s[1]
           /\ \A i \in DOMAIN Tail(s) : \E j \in DOMAIN s : Tail(s)[i] = s[j]
<1> DEFINE R == {s[i] : i \in DOMAIN s}
<1> HIDE DEF R
<1>1. s \in Seq(R)
  BY DEF R
<1>2. /\ Len(s) \in Nat \ {0} /\ Head(s) = s[1] /\ Tail(s) \in Seq(R)
      /\ \A i \in 1..Len(Tail(s)) : Tail(s)[i] = s[i + 1] /\ i + 1 \in 1..Len(s)
  BY <1>1, TailOf
<1>3. DOMAIN s = 1..Len(s) /\ DOMAIN Tail(s) = 1..Len(Tail(s))
  BY <1>1, <1>2, LenProperties
<1>4. Tail(s) \in Seq({Tail(s)[i] : i \in DOMAIN Tail(s)})
  <2>1. \A t \in Seq(R) : t \in Seq({t[i] : i \in DOMAIN t})
    BY QueueOf
  <2>2. Tail(s) \in Seq(R)
    BY <1>2
  <2> QED
    BY <2>1, <2>2, Zenon
<1>5. 1 \in DOMAIN s
  BY <1>2, <1>3
<1> QED
  BY <1>2, <1>3, <1>4, <1>5

\* What it holds after something is added was there before, or is what was added.
LEMMA QueueAppend ==
    ASSUME NEW s, s \in Seq({s[i] : i \in DOMAIN s}), NEW x, NEW t, t = Append(s, x)
    PROVE  /\ t \in Seq({t[i] : i \in DOMAIN t})
           /\ \A i \in DOMAIN t : t[i] = x \/ \E j \in DOMAIN s : t[i] = s[j]
<1> DEFINE R == {s[i] : i \in DOMAIN s} \cup {x}
<1>1. s \in Seq(R) /\ x \in R
  <2>1. \A i \in 1..Len(s) : s[i] \in R
    BY ElementOfSeq
  <2>2. Len(s) \in Nat /\ s = [i \in 1..Len(s) |-> s[i]]
    BY LenProperties
  <2> HIDE DEF R
  <2>3. s \in Seq(R)
    BY <2>1, <2>2, SeqDef
  <2> QED
    BY <2>3 DEF R
<1> HIDE DEF R
<1>2. /\ t \in Seq(R) /\ Len(t) = Len(s) + 1 /\ Len(s) \in Nat
      /\ \A i \in 1..Len(s) : t[i] = s[i]
      /\ t[Len(s) + 1] = x
  BY <1>1, AppendTo
<1>3. DOMAIN s = 1..Len(s) /\ DOMAIN t = 1..(Len(s) + 1)
  BY <1>1, <1>2, LenProperties
<1>4. t \in Seq({t[i] : i \in DOMAIN t})
  BY <1>2, QueueOf
<1> QED
  BY <1>2, <1>3, <1>4
=============================================================================
