---------------------------- MODULE FalconProofs ----------------------------
(***************************************************************************)
(* Theorems about the launcher's page and the calls of a native module.    *)
(* Each component's inductive invariant is defined in its module; here are *)
(* its proofs, one step for each action.                                   *)
(***************************************************************************)
EXTENDS Falcon, Queues, TLAPS

-----------------------------------------------------------------------------
(* The calls of a native module (JsCalls).                                 *)

\* Taking the oldest leaves a rising queue behind it, and after it.
LEMMA RisingTail ==
    ASSUME NEW s \in Seq(Nat), s # <<>>, J!Rising(s)
    PROVE  J!Rising(Tail(s)) /\ J!Above(Head(s), Tail(s))
<1>1. /\ Len(s) \in Nat \ {0} /\ Head(s) = s[1] /\ Tail(s) \in Seq(Nat)
      /\ Len(Tail(s)) = Len(s) - 1
      /\ \A i \in 1..Len(Tail(s)) : Tail(s)[i] = s[i + 1] /\ i + 1 \in 1..Len(s)
  BY TailOf
<1>2. DOMAIN s = 1..Len(s) /\ DOMAIN Tail(s) = 1..Len(Tail(s))
  BY <1>1, LenProperties
<1>3. ASSUME NEW i \in DOMAIN Tail(s), NEW j \in DOMAIN Tail(s), i < j
      PROVE  Tail(s)[i] < Tail(s)[j]
  BY <1>1, <1>2, <1>3 DEF J!Rising
<1>4. ASSUME NEW i \in DOMAIN Tail(s) PROVE Head(s) < Tail(s)[i]
  BY <1>1, <1>2 DEF J!Rising
<1> QED
  BY <1>3, <1>4 DEF J!Rising, J!Above

\* A call newer than all of them may join at the end.
LEMMA RisingAppend ==
    ASSUME NEW s \in Seq(Nat), NEW c \in Nat, J!Rising(s), J!Below(s, c)
    PROVE  J!Rising(Append(s, c))
<1>1. /\ Append(s, c) \in Seq(Nat) /\ Len(Append(s, c)) = Len(s) + 1 /\ Len(s) \in Nat
      /\ \A i \in 1..Len(s) : Append(s, c)[i] = s[i]
      /\ Append(s, c)[Len(s) + 1] = c
  BY AppendTo
<1>2. DOMAIN s = 1..Len(s) /\ DOMAIN Append(s, c) = 1..(Len(s) + 1)
  BY <1>1, LenProperties
<1> QED
  BY <1>1, <1>2 DEF J!Rising, J!Below

\* What is in a queue after a call joined it, or its oldest was taken.
LEMMA Members ==
    ASSUME NEW s \in Seq(Nat)
    PROVE  /\ \A i \in DOMAIN s : s[i] \in Nat
           /\ \A c \in Nat : \A i \in DOMAIN Append(s, c) :
                (\E k \in DOMAIN s : Append(s, c)[i] = s[k]) \/ Append(s, c)[i] = c
           /\ s # <<>> =>
                /\ \A i \in DOMAIN Tail(s) : \E k \in DOMAIN s : Tail(s)[i] = s[k]
                /\ \E k \in DOMAIN s : Head(s) = s[k]
<1>1. DOMAIN s = 1..Len(s) /\ Len(s) \in Nat
  BY LenProperties
<1>2. ASSUME NEW c \in Nat, NEW i \in DOMAIN Append(s, c)
      PROVE  (\E k \in DOMAIN s : Append(s, c)[i] = s[k]) \/ Append(s, c)[i] = c
  <2>1. /\ Append(s, c) \in Seq(Nat) /\ Len(Append(s, c)) = Len(s) + 1
        /\ \A k \in 1..Len(s) : Append(s, c)[k] = s[k]
        /\ Append(s, c)[Len(s) + 1] = c
    BY AppendTo
  <2>2. DOMAIN Append(s, c) = 1..(Len(s) + 1)
    BY <2>1, LenProperties
  <2> QED
    BY <1>1, <1>2, <2>1, <2>2
<1>3. ASSUME s # <<>>
      PROVE  /\ \A i \in DOMAIN Tail(s) : \E k \in DOMAIN s : Tail(s)[i] = s[k]
             /\ \E k \in DOMAIN s : Head(s) = s[k]
  <2>1. /\ Len(s) \in Nat \ {0} /\ Head(s) = s[1] /\ Tail(s) \in Seq(Nat)
        /\ \A i \in 1..Len(Tail(s)) : Tail(s)[i] = s[i + 1] /\ i + 1 \in 1..Len(s)
    BY <1>3, TailOf
  <2>2. DOMAIN Tail(s) = 1..Len(Tail(s))
    BY <2>1, LenProperties
  <2> QED
    BY <1>1, <2>1, <2>2
<1>4. \A i \in DOMAIN s : s[i] \in Nat
  BY <1>1, ElementOfSeq
<1> QED
  BY <1>2, <1>3, <1>4

\* Nothing of a call changes when no queue, no answer and no job does.
LEMMA CallsStay ==
    ASSUME J!CallsInv, UNCHANGED <<jcCalls, jcNamed, jcThread, jcPosted, jcSettled>>
    PROVE  J!CallsInv'
BY DEF J!CallsInv, J!TypeInv, J!OneThread, J!InLine, J!Rising, J!Before, J!Below, J!Above,
       J!Threads, J!Calls

\* A thread of the map, and what it does to the threads.
LEMMA ThreadTypes ==
    ASSUME J!TypeInv, NEW t \in J!Threads
    PROVE  /\ t \in Nat \ {0}
           /\ jcThread[t].at \in J!States /\ jcThread[t].queue \in Seq(Nat)
           /\ jcThread[t].job \in Nat
<1>1. t \in Nat \ {0}
  BY CallsInstance DEF J!CallsAssumption, J!Threads, J!Calls
<1> QED
  BY <1>1 DEF J!TypeInv

\* The page makes a call: its number is higher than all before it.
LEMMA CallJoins ==
    ASSUME J!CallsInv, J!Call
    PROVE  J!CallsInv'
<1> USE DEF J!Call, J!dispatch
<1>0. /\ jcCalls \in Nat /\ jcCalls + 1 \in Nat /\ jcCalls' = jcCalls + 1
      /\ jcSettled' = jcSettled /\ jcPosted' = jcPosted
      /\ jcSettled \in Seq(Nat) /\ jcPosted \in Seq(Nat)
      /\ jcThread \in [J!Threads -> [at : J!States, queue : Seq(Nat), job : Nat]]
  BY DEF J!CallsInv, J!TypeInv
<1>1. /\ J!Rising(jcSettled) /\ J!Rising(jcPosted) /\ J!Before(jcSettled, jcPosted)
      /\ J!Below(jcSettled, jcCalls + 1) /\ J!Below(jcPosted, jcCalls + 1)
  BY DEF J!CallsInv, J!InLine
<1>2. /\ J!Below(jcSettled, jcCalls + 1 + 1) /\ J!Below(jcPosted, jcCalls + 1 + 1)
  BY <1>0, <1>1, Members DEF J!Below
<1>3. CASE jcNamed = 0
  <2>1. PICK t \in J!Threads : /\ jcThread[t] = J!Unused
                               /\ jcThread' = [jcThread EXCEPT ![t] = J!Started(<<jcCalls + 1>>)]
                               /\ jcNamed' = t
    BY <1>0, <1>3 DEF J!PostOnNamedThread
  <2>2. t # 0
    BY CallsInstance DEF J!CallsAssumption, J!Threads, J!Calls
  <2>3. /\ <<jcCalls + 1>> \in Seq(Nat) /\ DOMAIN <<jcCalls + 1>> = {1}
        /\ <<jcCalls + 1>>[1] = jcCalls + 1
    BY <1>0
  <2>4. /\ jcThread'[t].at = "idle" /\ jcThread'[t].queue = <<jcCalls + 1>>
        /\ \A u \in J!Threads : u # t => jcThread'[u] = jcThread[u]
        /\ jcThread' \in [J!Threads -> [at : J!States, queue : Seq(Nat), job : Nat]]
    BY <1>0, <2>1, <2>3 DEF J!Started, J!States
  <2>5. \A u \in J!Threads : jcThread[u].at \in {"unused", "gone"}
    BY <1>3, CallsInstance DEF J!CallsInv, J!OneThread, J!CallsAssumption, J!Threads, J!Calls
  <2>6. J!TypeInv'
    BY <1>0, <2>1, <2>4 DEF J!TypeInv, J!Threads, J!Calls
  <2>7. J!OneThread'
    BY <2>1, <2>4, <2>5 DEF J!OneThread, J!Threads, J!Calls
  <2>8. /\ J!Rising(<<jcCalls + 1>>) /\ J!Below(<<jcCalls + 1>>, jcCalls + 1 + 1)
        /\ J!Before(jcSettled, <<jcCalls + 1>>) /\ J!Before(jcPosted, <<jcCalls + 1>>)
    BY <1>0, <1>1, <2>3 DEF J!Rising, J!Below, J!Before
  <2>9. J!InLine'
    <3>1. jcThread'[jcNamed'].queue = <<jcCalls + 1>> /\ jcThread'[jcNamed'].at = "idle"
      BY <2>1, <2>4
    <3> QED
      BY <1>0, <1>1, <1>2, <2>8, <3>1 DEF J!InLine, J!Rising, J!Below, J!Before
  <2> QED
    BY <2>6, <2>7, <2>9 DEF J!CallsInv
<1>4. CASE jcNamed # 0
  <2> DEFINE own == jcThread[jcNamed]
  <2>1. jcNamed \in J!Threads /\ jcNamed' = jcNamed
        /\ jcThread' = [jcThread EXCEPT ![jcNamed].queue = Append(own.queue, jcCalls + 1)]
    BY <1>0, <1>4 DEF J!PostOnNamedThread, J!CallsInv, J!TypeInv
  <2>2. own.queue \in Seq(Nat) /\ own.job \in Nat /\ own.at \in J!States
    BY <1>0, <2>1
  <2>3. Append(own.queue, jcCalls + 1) \in Seq(Nat)
    BY <1>0, <2>2, AppendTo
  <2>4. /\ jcThread'[jcNamed].at = own.at /\ jcThread'[jcNamed].job = own.job
        /\ jcThread'[jcNamed].queue = Append(own.queue, jcCalls + 1)
        /\ \A u \in J!Threads : jcThread'[u].at = jcThread[u].at
        /\ jcThread' \in [J!Threads -> [at : J!States, queue : Seq(Nat), job : Nat]]
    BY <1>0, <2>1, <2>3
  <2>5. /\ J!Rising(own.queue) /\ J!Below(own.queue, jcCalls + 1)
        /\ J!Before(jcSettled, own.queue) /\ J!Before(jcPosted, own.queue)
        /\ own.at \in {"popped", "working"} =>
            /\ J!Below(jcSettled, own.job) /\ J!Below(jcPosted, own.job)
            /\ J!Above(own.job, own.queue) /\ own.job <= jcCalls
    BY <1>4 DEF J!CallsInv, J!InLine
  <2>6. J!TypeInv'
    BY <1>0, <2>1, <2>4 DEF J!TypeInv, J!CallsInv, J!Threads, J!Calls
  <2>7. J!OneThread'
    BY <2>1, <2>4 DEF J!OneThread, J!CallsInv, J!Threads, J!Calls
  <2> DEFINE queue == Append(own.queue, jcCalls + 1)
  <2>8. J!Rising(queue)
    BY <1>0, <2>2, <2>5, RisingAppend
  <2>9. \A i \in DOMAIN queue : (\E k \in DOMAIN own.queue : queue[i] = own.queue[k])
                                \/ queue[i] = jcCalls + 1
    BY <1>0, <2>2, Members
  <2>10. \A k \in DOMAIN own.queue : own.queue[k] \in Nat
    BY <2>2, Members
  <2> HIDE DEF queue
  <2>11. ASSUME NEW i \in DOMAIN queue
        PROVE  /\ queue[i] < jcCalls + 1 + 1
               /\ \A k \in DOMAIN jcSettled : jcSettled[k] < queue[i]
               /\ \A k \in DOMAIN jcPosted : jcPosted[k] < queue[i]
               /\ own.at \in {"popped", "working"} => own.job < queue[i]
    <3>1. CASE queue[i] = jcCalls + 1
      BY <1>0, <1>1, <2>2, <2>5, <3>1 DEF J!Below
    <3>2. CASE \E k \in DOMAIN own.queue : queue[i] = own.queue[k]
      BY <1>0, <2>5, <2>10, <3>2 DEF J!Below, J!Before, J!Above
    <3> QED
      BY <2>9, <3>1, <3>2
  <2>12. /\ J!Below(queue, jcCalls + 1 + 1)
         /\ J!Before(jcSettled, queue) /\ J!Before(jcPosted, queue)
    BY <2>11 DEF J!Below, J!Before
  <2>13. own.at \in {"popped", "working"} =>
            J!Above(own.job, queue) /\ own.job <= jcCalls + 1
    BY <1>0, <2>2, <2>5, <2>11 DEF J!Above
  <2> HIDE DEF own
  <2>14. J!InLine'
    BY <1>0, <1>1, <1>2, <2>1, <2>4, <2>5, <2>8, <2>12, <2>13
    DEF J!InLine, queue, J!Rising, J!Below, J!Before, J!Above
  <2> QED
    BY <2>6, <2>7, <2>14 DEF J!CallsInv
<1> QED
  BY <1>3, <1>4

\* What an action of a running thread may rely on: it is the thread of the map.
LEMMA RunningThread ==
    ASSUME J!CallsInv, NEW t \in J!Threads, jcThread[t].at \notin {"unused", "gone"}
    PROVE  /\ t = jcNamed /\ jcNamed # 0
           /\ jcThread[t].queue \in Seq(Nat) /\ jcThread[t].job \in Nat
           /\ jcThread \in [J!Threads -> [at : J!States, queue : Seq(Nat), job : Nat]]
           /\ J!Rising(jcThread[t].queue) /\ J!Below(jcThread[t].queue, jcCalls + 1)
           /\ J!Before(jcSettled, jcThread[t].queue) /\ J!Before(jcPosted, jcThread[t].queue)
           /\ jcThread[t].at \in {"popped", "working"} =>
                /\ J!Below(jcSettled, jcThread[t].job) /\ J!Below(jcPosted, jcThread[t].job)
                /\ J!Above(jcThread[t].job, jcThread[t].queue) /\ jcThread[t].job <= jcCalls
<1>1. t = jcNamed /\ jcNamed # 0
  BY CallsInstance DEF J!CallsInv, J!OneThread, J!CallsAssumption, J!Threads, J!Calls
<1>2. /\ jcThread[t].queue \in Seq(Nat) /\ jcThread[t].job \in Nat
      /\ jcThread \in [J!Threads -> [at : J!States, queue : Seq(Nat), job : Nat]]
  BY DEF J!CallsInv, J!TypeInv
<1> QED
  BY <1>1, <1>2 DEF J!CallsInv, J!InLine

\* A running thread moves on: its state, its queue and its job may change, as long
\* as what it now holds is in line.
LEMMA ThreadMoves ==
    ASSUME J!CallsInv, NEW t \in J!Threads, jcThread[t].at \notin {"unused", "gone"},
           UNCHANGED <<jcCalls, jcNamed, jcSettled>>, jcPosted' \in Seq(Nat),
           NEW at \in J!States \ {"unused", "gone"}, NEW queue \in Seq(Nat), NEW job \in Nat,
           jcThread' = [jcThread EXCEPT ![t] = [at |-> at, queue |-> queue, job |-> job]],
           J!Rising(queue), J!Below(queue, jcCalls + 1), J!Before(jcSettled, queue),
           J!Before(jcPosted', queue), J!Rising(jcPosted'), J!Before(jcSettled, jcPosted'),
           J!Below(jcPosted', jcCalls + 1),
           at \in {"popped", "working"} =>
                /\ J!Below(jcSettled, job) /\ J!Below(jcPosted', job)
                /\ J!Above(job, queue) /\ job <= jcCalls
    PROVE  J!CallsInv'
<1>1. /\ t = jcNamed /\ jcNamed # 0
      /\ jcThread \in [J!Threads -> [at : J!States, queue : Seq(Nat), job : Nat]]
  BY RunningThread
<1>2. /\ jcThread'[t] = [at |-> at, queue |-> queue, job |-> job]
      /\ \A u \in J!Threads : u # t => jcThread'[u] = jcThread[u]
      /\ jcThread' \in [J!Threads -> [at : J!States, queue : Seq(Nat), job : Nat]]
  BY <1>1
<1>3. J!TypeInv'
  BY <1>2 DEF J!CallsInv, J!TypeInv, J!Threads, J!Calls
<1>4. J!OneThread'
  BY <1>1, <1>2 DEF J!CallsInv, J!OneThread, J!Threads, J!Calls
<1>5. J!Below(jcSettled, jcCalls + 1) /\ J!Rising(jcSettled)
  BY DEF J!CallsInv, J!InLine
<1>6. J!InLine'
  <2>1. /\ jcThread'[jcNamed'].at = at /\ jcThread'[jcNamed'].queue = queue
        /\ jcThread'[jcNamed'].job = job
    BY <1>1, <1>2
  <2> QED
    BY <1>5, <2>1 DEF J!InLine, J!Rising, J!Before, J!Below, J!Above
<1> QED
  BY <1>3, <1>4, <1>6 DEF J!CallsInv

\* Taking a closure makes the oldest call of the queue the job.
LEMMA CallTaken ==
    ASSUME J!CallsInv, NEW t \in J!Threads, J!Take(t)
    PROVE  J!CallsInv'
<1> DEFINE queue == jcThread[t].queue
<1>0. /\ jcThread[t].at \notin {"unused", "gone"} /\ queue # <<>>
      /\ UNCHANGED <<jcCalls, jcNamed, jcSettled, jcPosted>>
      /\ jcThread' = [jcThread EXCEPT ![t] = [at |-> "popped", queue |-> Tail(queue),
                                              job |-> Head(queue)]]
  BY DEF J!Take
<1>1. /\ queue \in Seq(Nat) /\ J!Rising(queue) /\ J!Below(queue, jcCalls + 1)
      /\ J!Before(jcSettled, queue) /\ J!Before(jcPosted, queue)
  BY <1>0, RunningThread
<1> HIDE DEF queue
<1>2. /\ Tail(queue) \in Seq(Nat) /\ Head(queue) \in Nat
      /\ \A i \in DOMAIN Tail(queue) : \E k \in DOMAIN queue : Tail(queue)[i] = queue[k]
      /\ \E k \in DOMAIN queue : Head(queue) = queue[k]
  BY <1>0, <1>1, TailOf, Members
<1>3. J!Rising(Tail(queue)) /\ J!Above(Head(queue), Tail(queue))
  BY <1>0, <1>1, RisingTail
<1>4. /\ J!Below(Tail(queue), jcCalls + 1) /\ J!Before(jcSettled, Tail(queue))
      /\ J!Before(jcPosted, Tail(queue))
  BY <1>1, <1>2 DEF J!Below, J!Before
<1>5. /\ J!Below(jcSettled, Head(queue)) /\ J!Below(jcPosted, Head(queue))
      /\ Head(queue) < jcCalls + 1
  BY <1>1, <1>2 DEF J!Below, J!Before
<1>6. /\ jcCalls \in Nat /\ J!Rising(jcPosted) /\ J!Before(jcSettled, jcPosted)
      /\ J!Below(jcPosted, jcCalls + 1) /\ jcPosted \in Seq(Nat)
  BY DEF J!CallsInv, J!TypeInv, J!InLine
<1>7. Head(queue) <= jcCalls
  BY <1>2, <1>5, <1>6
<1> QED
  BY <1>0, <1>2, <1>3, <1>4, <1>5, <1>6, <1>7, ThreadMoves DEF J!States

\* Where a thread is, and nothing else of it, changes.
LEMMA OnlyAt ==
    ASSUME J!CallsInv, NEW t \in J!Threads, NEW at, J!At(t, at)
    PROVE  jcThread' = [jcThread EXCEPT ![t] = [at |-> at, queue |-> jcThread[t].queue,
                                                job |-> jcThread[t].job]]
<1>1. jcThread[t] \in [at : J!States, queue : Seq(Nat), job : Nat]
  BY DEF J!CallsInv, J!TypeInv
<1>2. [jcThread[t] EXCEPT !.at = at] = [at |-> at, queue |-> jcThread[t].queue,
                                        job |-> jcThread[t].job]
  BY <1>1
<1>3. jcThread' = [jcThread EXCEPT ![t] = [jcThread[t] EXCEPT !.at = at]]
  BY DEF J!At
<1> QED
  BY <1>2, <1>3

\* What is posted is in line with what is settled.
LEMMA PostedInLine ==
    ASSUME J!CallsInv
    PROVE  /\ jcCalls \in Nat /\ jcSettled \in Seq(Nat) /\ jcPosted \in Seq(Nat)
           /\ J!Rising(jcSettled) /\ J!Rising(jcPosted) /\ J!Before(jcSettled, jcPosted)
           /\ J!Below(jcSettled, jcCalls + 1) /\ J!Below(jcPosted, jcCalls + 1)
BY DEF J!CallsInv, J!TypeInv, J!InLine

\* A thread whose queue is empty may leave the map.
LEMMA ThreadExpires ==
    ASSUME J!CallsInv, NEW t \in J!Threads, J!Expire(t)
    PROVE  J!CallsInv'
<1>0. /\ jcThread[t].at = "idle" /\ jcNamed' = 0
      /\ UNCHANGED <<jcCalls, jcSettled, jcPosted>> /\ J!At(t, "gone")
  BY DEF J!Expire
<1>1. /\ t = jcNamed
      /\ jcThread \in [J!Threads -> [at : J!States, queue : Seq(Nat), job : Nat]]
  BY <1>0, RunningThread
<1>2. /\ jcThread'[t].at = "gone"
      /\ \A u \in J!Threads : u # t => jcThread'[u] = jcThread[u]
      /\ jcThread' \in [J!Threads -> [at : J!States, queue : Seq(Nat), job : Nat]]
  BY <1>0, <1>1 DEF J!At, J!States
<1>3. J!TypeInv'
  BY <1>0, <1>2 DEF J!CallsInv, J!TypeInv
<1>4. J!OneThread'
  BY <1>0, <1>1, <1>2 DEF J!CallsInv, J!OneThread, J!Threads, J!Calls
<1>5. J!InLine'
  BY <1>0, PostedInLine DEF J!InLine, J!Rising, J!Before, J!Below
<1> QED
  BY <1>3, <1>4, <1>5 DEF J!CallsInv

\* A thread that goes on with the job it took, or is done with it.
LEMMA CallGoesOn ==
    ASSUME J!CallsInv, NEW t \in J!Threads, jcThread[t].at \in {"popped", "answered"},
           UNCHANGED <<jcCalls, jcNamed, jcSettled, jcPosted>>,
           NEW at \in {"working", "idle"}, J!At(t, at),
           at = "working" => jcThread[t].at = "popped"
    PROVE  J!CallsInv'
<1> DEFINE job == jcThread[t].job
<1> DEFINE queue == jcThread[t].queue
<1>1. /\ queue \in Seq(Nat) /\ job \in Nat
      /\ J!Rising(queue) /\ J!Below(queue, jcCalls + 1)
      /\ J!Before(jcSettled, queue) /\ J!Before(jcPosted, queue)
      /\ at \in {"popped", "working"} =>
            /\ J!Below(jcSettled, job) /\ J!Below(jcPosted, job)
            /\ J!Above(job, queue) /\ job <= jcCalls
  BY RunningThread
<1>2. jcThread' = [jcThread EXCEPT ![t] = [at |-> at, queue |-> queue, job |-> job]]
  BY OnlyAt
<1> HIDE DEF job, queue
<1>3. at \in J!States \ {"unused", "gone"}
  BY DEF J!States
<1>4. jcPosted' = jcPosted
  OBVIOUS
<1> QED
  BY <1>1, <1>2, <1>3, <1>4, PostedInLine, ThreadMoves

\* The method begins with the job it was given, or the closure gives it up.
LEMMA CallBegins ==
    ASSUME J!CallsInv, NEW t \in J!Threads, J!Begin(t)
    PROVE  J!CallsInv'
<1>1. /\ jcThread[t].at = "popped" /\ UNCHANGED <<jcCalls, jcNamed, jcSettled, jcPosted>>
      /\ \E at \in {"working", "idle"} : J!At(t, at)
  BY DEF J!Begin
<1> QED
  BY <1>1, CallGoesOn

\* The closure returns with its job answered.
LEMMA CallReturns ==
    ASSUME J!CallsInv, NEW t \in J!Threads, J!Return(t)
    PROVE  J!CallsInv'
<1>1. /\ jcThread[t].at = "answered" /\ UNCHANGED <<jcCalls, jcNamed, jcSettled, jcPosted>>
      /\ J!At(t, "idle")
  BY DEF J!Return
<1> QED
  BY <1>1, CallGoesOn

\* The answer is posted behind those of all earlier calls.
LEMMA CallAnswered ==
    ASSUME J!CallsInv, NEW t \in J!Threads, J!Answer(t)
    PROVE  J!CallsInv'
<1> DEFINE job == jcThread[t].job
<1> DEFINE queue == jcThread[t].queue
<1>0. /\ jcThread[t].at = "working" /\ UNCHANGED <<jcCalls, jcNamed, jcSettled>>
      /\ J!At(t, "answered") /\ jcPosted' = Append(jcPosted, job)
  BY DEF J!Answer, J!onCallbackAsync
<1>1. /\ queue \in Seq(Nat) /\ job \in Nat
      /\ J!Rising(queue) /\ J!Below(queue, jcCalls + 1)
      /\ J!Before(jcSettled, queue) /\ J!Before(jcPosted, queue)
      /\ J!Below(jcSettled, job) /\ J!Below(jcPosted, job)
      /\ J!Above(job, queue) /\ job <= jcCalls
  BY <1>0, RunningThread
<1>2. jcThread' = [jcThread EXCEPT ![t] = [at |-> "answered", queue |-> queue, job |-> job]]
  BY <1>0, OnlyAt
<1> HIDE DEF job, queue
<1>3. jcPosted' \in Seq(Nat) /\ J!Rising(jcPosted')
  BY <1>0, <1>1, PostedInLine, AppendTo, RisingAppend
<1>4. \A i \in DOMAIN jcPosted' :
        (\E k \in DOMAIN jcPosted : jcPosted'[i] = jcPosted[k]) \/ jcPosted'[i] = job
  BY <1>0, <1>1, PostedInLine, Members
<1>5. J!Before(jcSettled, jcPosted')
  BY <1>1, <1>4, PostedInLine DEF J!Before, J!Below
<1>6. J!Before(jcPosted', queue)
  BY <1>1, <1>4 DEF J!Before, J!Above
<1>7. J!Below(jcPosted', jcCalls + 1)
  BY <1>1, <1>4, PostedInLine DEF J!Below
<1>8. "answered" \in J!States \ {"unused", "gone"}
  BY DEF J!States
<1> QED
  BY <1>0, <1>1, <1>2, <1>3, <1>5, <1>6, <1>7, <1>8, PostedInLine, ThreadMoves

\* The page takes the oldest posted answer; the promise is settled or was forgotten.
LEMMA AnswerTaken ==
    ASSUME J!CallsInv, J!JsTask
    PROVE  J!CallsInv'
<1>0. /\ jcPosted # <<>> /\ jcPosted' = Tail(jcPosted)
      /\ UNCHANGED <<jcCalls, jcNamed, jcThread>>
      /\ jcSettled' = jcSettled \/ jcSettled' = Append(jcSettled, Head(jcPosted))
  BY DEF J!JsTask, J!OnCallback, J!CallDescVec
<1>1. /\ Tail(jcPosted) \in Seq(Nat) /\ Head(jcPosted) \in Nat
      /\ J!Rising(Tail(jcPosted)) /\ J!Above(Head(jcPosted), Tail(jcPosted))
      /\ \A i \in DOMAIN Tail(jcPosted) : \E k \in DOMAIN jcPosted :
            Tail(jcPosted)[i] = jcPosted[k]
      /\ \E k \in DOMAIN jcPosted : Head(jcPosted) = jcPosted[k]
  BY <1>0, PostedInLine, TailOf, RisingTail, Members
<1>2. \A i \in DOMAIN jcSettled' :
        (\E k \in DOMAIN jcSettled : jcSettled'[i] = jcSettled[k])
        \/ jcSettled'[i] = Head(jcPosted)
  <2>1. CASE jcSettled' = jcSettled
    BY <2>1
  <2>2. CASE jcSettled' = Append(jcSettled, Head(jcPosted))
    BY <1>1, <2>2, PostedInLine, Members
  <2> QED
    BY <1>0, <2>1, <2>2
<1>3. J!Below(jcSettled, Head(jcPosted))
  BY <1>1, PostedInLine DEF J!Before, J!Below
<1>4. jcSettled' \in Seq(Nat) /\ J!Rising(jcSettled')
  <2>1. CASE jcSettled' = jcSettled
    BY <2>1, PostedInLine DEF J!Rising
  <2>2. CASE jcSettled' = Append(jcSettled, Head(jcPosted))
    <3>1. /\ Append(jcSettled, Head(jcPosted)) \in Seq(Nat)
          /\ J!Rising(Append(jcSettled, Head(jcPosted)))
      BY <1>1, <1>3, PostedInLine, AppendTo, RisingAppend
    <3> QED
      BY <2>2, <3>1 DEF J!Rising
  <2> QED
    BY <1>0, <2>1, <2>2
<1>5. J!Before(jcSettled', jcPosted')
  BY <1>0, <1>1, <1>2, PostedInLine DEF J!Before, J!Above
<1>6. J!Below(jcSettled', jcCalls + 1) /\ J!Below(jcPosted', jcCalls + 1)
  BY <1>0, <1>1, <1>2, PostedInLine DEF J!Below
<1>7. J!TypeInv' /\ J!OneThread'
  BY <1>0, <1>1, <1>4 DEF J!CallsInv, J!TypeInv, J!OneThread
<1>8. ASSUME jcNamed # 0
      PROVE  /\ J!Before(jcSettled', jcThread[jcNamed].queue)
             /\ J!Before(jcPosted', jcThread[jcNamed].queue)
             /\ jcThread[jcNamed].at \in {"popped", "working"} =>
                    /\ J!Below(jcSettled', jcThread[jcNamed].job)
                    /\ J!Below(jcPosted', jcThread[jcNamed].job)
  <2>1. /\ J!Before(jcSettled, jcThread[jcNamed].queue)
        /\ J!Before(jcPosted, jcThread[jcNamed].queue)
        /\ jcThread[jcNamed].at \in {"popped", "working"} =>
              /\ J!Below(jcSettled, jcThread[jcNamed].job)
              /\ J!Below(jcPosted, jcThread[jcNamed].job)
    BY <1>8 DEF J!CallsInv, J!InLine
  <2>2. J!Before(jcSettled', jcThread[jcNamed].queue)
    BY <1>1, <1>2, <2>1 DEF J!Before
  <2>3. J!Before(jcPosted', jcThread[jcNamed].queue)
    BY <1>0, <1>1, <2>1 DEF J!Before
  <2>4. ASSUME jcThread[jcNamed].at \in {"popped", "working"}
        PROVE  /\ J!Below(jcSettled', jcThread[jcNamed].job)
               /\ J!Below(jcPosted', jcThread[jcNamed].job)
    BY <1>0, <1>1, <1>2, <2>1, <2>4 DEF J!Below
  <2> QED
    BY <2>2, <2>3, <2>4
<1>9. J!InLine'
  BY <1>0, <1>1, <1>4, <1>5, <1>6, <1>8
  DEF J!CallsInv, J!InLine, J!Rising, J!Before, J!Below, J!Above
<1> QED
  BY <1>7, <1>9 DEF J!CallsInv

\* Every action keeps the calls in line.
LEMMA CallsStep == J!CallsInv /\ [J!Next]_(J!vars) => J!CallsInv'
<1> SUFFICES ASSUME J!CallsInv, [J!Next]_(J!vars) PROVE J!CallsInv'
  OBVIOUS
<1>1. CASE J!Close \/ J!Finalize \/ J!FreeHolder \/ UNCHANGED J!vars
  BY <1>1, CallsStay DEF J!Close, J!Finalize, J!FreeHolder, J!vars
<1> QED
  BY <1>1, CallJoins, AnswerTaken, CallTaken, ThreadExpires, CallBegins, CallAnswered,
     CallReturns DEF J!Next

\* Answers come in the order of the calls and at most once each, however many named
\* threads one after the other make them (JQNamedThread, onCallback).
THEOREM AnswersKeepOrder == J!Spec => []AnswersInOrder
<1>1. J!Init => J!CallsInv
  <2> SUFFICES ASSUME J!Init PROVE J!CallsInv
    OBVIOUS
  <2> USE DEF J!Init
  <2>1. J!TypeInv
    BY EmptySeq DEF J!TypeInv, J!Unused, J!States
  <2>2. J!OneThread
    BY DEF J!OneThread, J!Unused
  <2>3. J!InLine
    BY DEF J!InLine, J!Rising, J!Before, J!Below, J!Above
  <2> QED
    BY <2>1, <2>2, <2>3 DEF J!CallsInv
<1>2. J!CallsInv => AnswersInOrder
  <2> SUFFICES ASSUME J!CallsInv PROVE AnswersInOrder
    OBVIOUS
  <2> DEFINE line == jcSettled \o jcPosted
  <2> DEFINE m == Len(jcSettled)
  <2> DEFINE n == Len(jcPosted)
  <2>1. /\ line \in Seq(Nat) /\ Len(line) = m + n /\ m \in Nat /\ n \in Nat
        /\ \A i \in 1..m : line[i] = jcSettled[i]
        /\ \A i \in 1..n : line[m + i] = jcPosted[i]
    BY PostedInLine, QueuesJoined
  <2>2. /\ DOMAIN line = 1..(m + n) /\ DOMAIN jcSettled = 1..m /\ DOMAIN jcPosted = 1..n
    BY <2>1, PostedInLine, LenProperties
  <2> HIDE DEF line, m, n
  <2>3. ASSUME NEW i \in 1..(m + n), NEW j \in 1..(m + n), i < j PROVE line[i] < line[j]
    <3>1. CASE j <= m
      <4>1. i \in 1..m /\ j \in 1..m
        BY <2>1, <2>3, <3>1
      <4> QED
        BY <2>1, <2>2, <2>3, <4>1, PostedInLine DEF J!Rising
    <3>2. CASE i <= m /\ j > m
      <4>1. i \in 1..m /\ j - m \in 1..n /\ m + (j - m) = j
        BY <2>1, <2>3, <3>2
      <4>2. line[j] = jcPosted[j - m] /\ line[i] = jcSettled[i]
        BY <2>1, <4>1
      <4> QED
        BY <2>2, <4>1, <4>2, PostedInLine DEF J!Before
    <3>3. CASE i > m
      <4>1. i - m \in 1..n /\ m + (i - m) = i /\ j - m \in 1..n /\ m + (j - m) = j
            /\ i - m < j - m
        BY <2>1, <2>3, <3>3
      <4>2. line[j] = jcPosted[j - m] /\ line[i] = jcPosted[i - m]
        BY <2>1, <4>1
      <4> QED
        BY <2>2, <4>1, <4>2, PostedInLine DEF J!Rising
    <3> QED
      BY <2>1, <2>3, <3>1, <3>2, <3>3
  <2> QED
    BY <2>2, <2>3 DEF AnswersInOrder, J!AnswersInOrder, line
<1> QED
  BY <1>1, <1>2, CallsStep, PTL DEF J!Spec

-----------------------------------------------------------------------------
(* The launcher's page (FalconLauncher).                                   *)

Requests == [kind : L!Kinds, gen : Nat]
Replies == [kind : L!Kinds, gen : Nat, status : L!Statuses]

\* What the head was, the rest of a queue with at most one such request is not.
LEMMA OneOfTail ==
    ASSUME NEW S, NEW s \in Seq(S), s # <<>>, NEW kinds, NEW gens
    PROVE  /\ L!NoneOf(s, kinds, gens) =>
                L!NoneOf(Tail(s), kinds, gens) /\ ~L!Of(Head(s), kinds, gens)
           /\ L!OneOf(s, kinds, gens) => L!OneOf(Tail(s), kinds, gens)
           /\ L!OneOf(s, kinds, gens) /\ L!Of(Head(s), kinds, gens) =>
                L!NoneOf(Tail(s), kinds, gens)
<1>1. /\ Len(s) \in Nat \ {0} /\ Head(s) = s[1] /\ Tail(s) \in Seq(S)
      /\ \A i \in 1..Len(Tail(s)) : Tail(s)[i] = s[i + 1] /\ i + 1 \in 1..Len(s)
  BY TailOf
<1>2. DOMAIN s = 1..Len(s) /\ DOMAIN Tail(s) = 1..Len(Tail(s)) /\ 1 \in 1..Len(s)
  BY <1>1, LenProperties
<1>3. \A i \in DOMAIN Tail(s) : i \in Nat \ {0}
  BY <1>1, <1>2, LenProperties
<1> QED
  BY <1>1, <1>2, <1>3 DEF L!NoneOf, L!OneOf

\* A request that joins is the only one such if there was none.
LEMMA OneOfAppend ==
    ASSUME NEW S, NEW s \in Seq(S), NEW c \in S, NEW kinds, NEW gens
    PROVE  /\ L!NoneOf(s, kinds, gens) /\ ~L!Of(c, kinds, gens) =>
                L!NoneOf(Append(s, c), kinds, gens)
           /\ L!OneOf(s, kinds, gens) /\ ~L!Of(c, kinds, gens) =>
                L!OneOf(Append(s, c), kinds, gens)
           /\ L!NoneOf(s, kinds, gens) => L!OneOf(Append(s, c), kinds, gens)
<1>1. /\ Append(s, c) \in Seq(S) /\ Len(Append(s, c)) = Len(s) + 1 /\ Len(s) \in Nat
      /\ \A i \in 1..Len(s) : Append(s, c)[i] = s[i]
      /\ Append(s, c)[Len(s) + 1] = c
  BY AppendTo
<1>2. /\ DOMAIN s = 1..Len(s) /\ DOMAIN Append(s, c) = 1..(Len(s) + 1)
      /\ \A i \in 1..(Len(s) + 1) : i \in 1..Len(s) \/ i = Len(s) + 1
  BY <1>1, LenProperties
<1>3. \A i \in DOMAIN Append(s, c) :
        \/ i \in DOMAIN s /\ Append(s, c)[i] = s[i]
        \/ i = Len(s) + 1 /\ Append(s, c)[i] = c
  BY <1>1, <1>2
<1> QED
  BY <1>3 DEF L!NoneOf, L!OneOf

\* The generations in a queue after its head was taken, or a request joined.
LEMMA GenerationsOf ==
    ASSUME NEW S, NEW s \in Seq(S), NEW g, \A i \in DOMAIN s : s[i].gen <= g
    PROVE  /\ s # <<>> => \A i \in DOMAIN Tail(s) : Tail(s)[i].gen <= g
           /\ s # <<>> => Head(s).gen <= g
           /\ \A c \in S : c.gen <= g =>
                \A i \in DOMAIN Append(s, c) : Append(s, c)[i].gen <= g
<1>1. ASSUME s # <<>>
      PROVE  Head(s).gen <= g /\ \A i \in DOMAIN Tail(s) : Tail(s)[i].gen <= g
  <2>1. /\ Len(s) \in Nat \ {0} /\ Head(s) = s[1] /\ Tail(s) \in Seq(S)
        /\ \A i \in 1..Len(Tail(s)) : Tail(s)[i] = s[i + 1] /\ i + 1 \in 1..Len(s)
    BY <1>1, TailOf
  <2>2. DOMAIN s = 1..Len(s) /\ DOMAIN Tail(s) = 1..Len(Tail(s)) /\ 1 \in 1..Len(s)
    BY <2>1, LenProperties
  <2> QED
    BY <2>1, <2>2
<1>2. ASSUME NEW c \in S, c.gen <= g, NEW i \in DOMAIN Append(s, c)
      PROVE  Append(s, c)[i].gen <= g
  <2>1. /\ Append(s, c) \in Seq(S) /\ Len(Append(s, c)) = Len(s) + 1 /\ Len(s) \in Nat
        /\ \A k \in 1..Len(s) : Append(s, c)[k] = s[k]
        /\ Append(s, c)[Len(s) + 1] = c
    BY AppendTo
  <2>2. DOMAIN s = 1..Len(s) /\ DOMAIN Append(s, c) = 1..(Len(s) + 1)
    BY <2>1, LenProperties
  <2>3. i \in 1..Len(s) \/ i = Len(s) + 1
    BY <1>2, <2>1, <2>2
  <2> QED
    BY <1>2, <2>1, <2>2, <2>3
<1> QED
  BY <1>1, <1>2

\* The native thread answers its oldest call: what was in flight still is, once.
LEMMA AnswerMoves ==
    ASSUME flCalls \in Seq(Requests), flAnswers \in Seq(Replies), flCalls # <<>>,
           NEW status \in L!Statuses, L!Answer(status), NEW kinds, NEW gens
    PROVE  /\ L!OneInFlight(kinds, gens) => /\ L!OneOf(flCalls', kinds, gens)
                                            /\ L!OneOf(flAnswers', kinds, gens)
                                            /\ \/ L!NoneOf(flCalls', kinds, gens)
                                               \/ L!NoneOf(flAnswers', kinds, gens)
           /\ L!NoneInFlight(kinds, gens) => /\ L!NoneOf(flCalls', kinds, gens)
                                             /\ L!NoneOf(flAnswers', kinds, gens)
<1> DEFINE reply == [kind |-> Head(flCalls).kind, gen |-> Head(flCalls).gen, status |-> status]
<1>1. Head(flCalls) \in Requests
  BY TailOf
<1>2. /\ reply \in Replies
      /\ L!Of(reply, kinds, gens) <=> L!Of(Head(flCalls), kinds, gens)
  BY <1>1 DEF Requests, Replies, L!Of
<1>3. flCalls' = Tail(flCalls) /\ flAnswers' = Append(flAnswers, reply)
  BY DEF L!Answer
<1> HIDE DEF reply
<1>4. /\ L!NoneOf(flCalls, kinds, gens) =>
            L!NoneOf(flCalls', kinds, gens) /\ ~L!Of(reply, kinds, gens)
      /\ L!OneOf(flCalls, kinds, gens) => L!OneOf(flCalls', kinds, gens)
      /\ L!OneOf(flCalls, kinds, gens) /\ L!Of(reply, kinds, gens) =>
            L!NoneOf(flCalls', kinds, gens)
  BY <1>2, <1>3, OneOfTail
<1>5. /\ L!NoneOf(flAnswers, kinds, gens) /\ ~L!Of(reply, kinds, gens) =>
            L!NoneOf(flAnswers', kinds, gens)
      /\ L!OneOf(flAnswers, kinds, gens) /\ ~L!Of(reply, kinds, gens) =>
            L!OneOf(flAnswers', kinds, gens)
      /\ L!NoneOf(flAnswers, kinds, gens) => L!OneOf(flAnswers', kinds, gens)
  BY <1>2, <1>3, OneOfAppend
<1>6. L!OneOf(flCalls, kinds, gens) /\ L!Of(reply, kinds, gens) =>
        ~L!NoneOf(flCalls, kinds, gens)
  BY <1>4
<1> QED
  BY <1>4, <1>5, <1>6 DEF L!OneInFlight, L!NoneInFlight

\* What the page knows of its requests, without the types.
Chain == L!LaunchIsMarked /\ L!NoneFromLater /\ L!OneChain

\* The queues of the page are queues of requests and replies.
LEMMA PageTypes ==
    ASSUME L!TypeInv
    PROVE  /\ flCalls \in Seq(Requests) /\ flAnswers \in Seq(Replies)
           /\ flGeneration \in Nat \ {0} /\ flTimer \in {0, flGeneration}
BY DEF L!TypeInv, L!Somebody, L!Nobody, Requests, Replies

\* The world of the page may change as it likes: its chain of requests stays.
LEMMA ChainStays ==
    ASSUME Chain, UNCHANGED <<flCalls, flAnswers, flGeneration, flTimer, flRequestActive>>
    PROVE  Chain'
BY DEF Chain, L!LaunchIsMarked, L!NoneFromLater, L!OneChain, L!OneLaunch, L!OnePollLoop,
       L!OneInFlight, L!NoneInFlight, L!NoneOf, L!OneOf, L!Of

\* An answer takes the place of its call in the chain.
LEMMA ChainAnswered ==
    ASSUME L!TypeInv, Chain, flCalls # <<>>, NEW status \in L!Statuses, L!Answer(status),
           UNCHANGED <<flGeneration, flTimer, flRequestActive>>
    PROVE  Chain' /\ flCalls' \in Seq(Requests) /\ flAnswers' \in Seq(Replies)
<1> USE PageTypes
<1> DEFINE reply == [kind |-> Head(flCalls).kind, gen |-> Head(flCalls).gen, status |-> status]
<1>1. Head(flCalls) \in Requests
  BY TailOf
<1>2. reply \in Replies /\ reply.gen = Head(flCalls).gen
  BY <1>1 DEF Requests, Replies
<1>3. flCalls' = Tail(flCalls) /\ flAnswers' = Append(flAnswers, reply)
  BY DEF L!Answer
<1> HIDE DEF reply
<1>4. flCalls' \in Seq(Requests) /\ flAnswers' \in Seq(Replies)
  BY <1>2, <1>3, TailOf, AppendTo
<1>5. L!NoneFromLater'
  <2>1. /\ \A i \in DOMAIN flCalls' : flCalls'[i].gen <= flGeneration
        /\ reply.gen <= flGeneration
    BY <1>2, <1>3, GenerationsOf DEF Chain, L!NoneFromLater
  <2>2. \A i \in DOMAIN flAnswers' : flAnswers'[i].gen <= flGeneration
    BY <1>2, <1>3, <2>1, GenerationsOf DEF Chain, L!NoneFromLater
  <2> QED
    BY <2>1, <2>2 DEF L!NoneFromLater
<1>6. L!LaunchIsMarked'
  BY AnswerMoves DEF Chain, L!LaunchIsMarked, L!NoneInFlight
<1>7. L!OneLaunch'
  BY AnswerMoves DEF Chain, L!OneChain, L!OneLaunch, L!OneInFlight
<1>8. L!OnePollLoop'
  BY AnswerMoves DEF Chain, L!OneChain, L!OnePollLoop, L!OneInFlight, L!NoneInFlight
<1> QED
  BY <1>4, <1>5, <1>6, <1>7, <1>8 DEF Chain, L!OneChain

\* What the native module reads of the session is a status.
LEMMA StatusTypes ==
    ASSUME L!TypeInv
    PROVE  /\ L!readStatus \in L!Statuses /\ L!Unavailable \in L!Statuses
           /\ L!LastStartedAfterRead \in Nat
           /\ L!readStatus.pid \in Nat
<1>1. ASSUME NEW state \in L!States, NEW pid \in Nat, NEW isHole \in BOOLEAN
      PROVE  L!Status(state, pid, isHole) \in L!Statuses
  BY <1>1 DEF L!Status, L!Statuses
<1>2. /\ flFile.pid \in Nat /\ flFile.state \in L!States /\ flLastStarted \in Nat
      /\ (flFile.state = "ready" /\ flFile.hole) \in BOOLEAN
  BY DEF L!TypeInv
<1>3. /\ "idle" \in L!States /\ "launching" \in L!States
      /\ (IF flFile.state \in {"starting", "ready", "error"} THEN flFile.state ELSE "idle")
            \in L!States
  BY <1>2 DEF L!States
<1>4. L!readStatus \in L!Statuses
  BY <1>1, <1>2, <1>3 DEF L!readStatus
<1>5. L!Unavailable \in L!Statuses
  BY <1>3 DEF L!Unavailable, L!Status, L!Statuses
<1>6. L!LastStartedAfterRead \in Nat
  BY <1>2 DEF L!LastStartedAfterRead
<1>7. L!readStatus.pid \in Nat
  BY <1>4 DEF L!Statuses
<1> QED
  BY <1>4, <1>5, <1>6, <1>7

\* The native thread: it answers one call, and may fork a session for it.
LEMMA NativeKeepsChain ==
    ASSUME L!TypeInv, Chain, L!Native
    PROVE  L!TypeInv' /\ Chain'
<1>1. /\ flCalls # <<>>
      /\ \E status \in L!Statuses : L!Answer(status)
      /\ flLastStarted' \in Nat /\ flProc' \in [L!Pids -> {"none", "forked", "up", "gone"}]
      /\ UNCHANGED <<flFile, L!page>>
  <2>1. CASE L!NativeStatus
    <3>1. (IF flRelease THEN L!readStatus ELSE L!Unavailable) \in L!Statuses
      BY StatusTypes
    <3>2. (IF flRelease THEN L!LastStartedAfterRead ELSE flLastStarted) \in Nat
      BY StatusTypes DEF L!TypeInv
    <3>3. flProc \in [L!Pids -> {"none", "forked", "up", "gone"}]
      BY DEF L!TypeInv
    <3> QED
      BY <2>1, <3>1, <3>2, <3>3 DEF L!NativeStatus, L!world
  <2>2. CASE L!NativeStart
    <3> USE DEF L!NativeStart
    <3>1. flProc \in [L!Pids -> {"none", "forked", "up", "gone"}] /\ flLastStarted \in Nat
      BY DEF L!TypeInv
    <3>2. flCalls # <<>> /\ UNCHANGED <<flFile, L!page>>
      BY <2>2
    <3>3. CASE L!Answer(L!Unavailable) /\ UNCHANGED <<flProc, flLastStarted>>
      BY <3>1, <3>2, <3>3, StatusTypes
    <3>4. CASE /\ L!Answer([L!readStatus EXCEPT !.state =
                            IF L!readStatus.hole THEN "ready" ELSE "launching"])
               /\ flLastStarted' = L!LastStartedAfterRead /\ UNCHANGED flProc
      <4>1. (IF L!readStatus.hole THEN "ready" ELSE "launching") \in L!States
        BY DEF L!States
      <4>2. [L!readStatus EXCEPT !.state = IF L!readStatus.hole THEN "ready" ELSE "launching"]
                \in L!Statuses
        BY <4>1, StatusTypes DEF L!Statuses
      <4> QED
        BY <3>1, <3>2, <3>4, <4>2, StatusTypes
    <3>5. ASSUME NEW p \in L!Pids, flProc' = [flProc EXCEPT ![p] = "forked"],
                 flLastStarted' = p,
                 L!Answer([L!Status("launching", p, FALSE) EXCEPT !.accepted = TRUE])
          PROVE  /\ \E status \in L!Statuses : L!Answer(status)
                 /\ flLastStarted' \in Nat
                 /\ flProc' \in [L!Pids -> {"none", "forked", "up", "gone"}]
      <4>1. p \in Nat
        BY LauncherInstance DEF L!Pids, L!LauncherAssumption
      <4>2. [L!Status("launching", p, FALSE) EXCEPT !.accepted = TRUE] \in L!Statuses
        BY <4>1 DEF L!Status, L!Statuses, L!States
      <4> QED
        BY <3>1, <3>2, <3>5, <4>1, <4>2
    <3>6. CASE /\ L!Answer(L!readStatus) /\ UNCHANGED flProc
               /\ flLastStarted' = L!LastStartedAfterRead
      BY <3>1, <3>2, <3>6, StatusTypes
    <3> QED
      BY <2>2, <3>2, <3>3, <3>4, <3>5, <3>6
  <2> QED
    BY <2>1, <2>2 DEF L!Native
<1>2. PICK status \in L!Statuses : L!Answer(status)
  BY <1>1
<1>3. UNCHANGED <<flGeneration, flTimer, flRequestActive>>
  BY <1>1 DEF L!page
<1>4. Chain' /\ flCalls' \in Seq(Requests) /\ flAnswers' \in Seq(Replies)
  BY <1>1, <1>2, <1>3, ChainAnswered
<1>5. L!TypeInv'
  BY <1>1, <1>3, <1>4 DEF L!TypeInv, Requests, Replies
<1> QED
  BY <1>4, <1>5

\* The session and the installation next to the page do not touch its requests.
LEMMA SessionKeepsChain ==
    ASSUME L!TypeInv, Chain, L!Session
    PROVE  L!TypeInv' /\ Chain'
<1>1. UNCHANGED <<flLastStarted, flCalls, flAnswers, flGeneration, flTimer, flRequestActive>>
  BY DEF L!Session, L!SessionExecutes, L!SessionPublishes, L!SessionEnds, L!ReleaseChanges,
         L!page
<1>2. flProc' \in [L!Pids -> {"none", "forked", "up", "gone"}]
  BY DEF L!TypeInv, L!Session, L!SessionExecutes, L!SessionPublishes, L!SessionEnds,
         L!ReleaseChanges
<1>3. ASSUME NEW p \in L!Pids, NEW state \in L!States, NEW isHole \in BOOLEAN
      PROVE  [pid |-> p, state |-> state, hole |-> isHole]
                \in [pid : Nat, state : L!States, hole : BOOLEAN]
  BY <1>3, LauncherInstance DEF L!Pids, L!LauncherAssumption
<1>4. \/ flFile' = flFile
      \/ \E p \in L!Pids, state \in L!States, isHole \in BOOLEAN :
            flFile' = [pid |-> p, state |-> state, hole |-> isHole]
  <2>1. {"starting", "ready", "stopped", "error"} \subseteq L!States
    BY DEF L!States
  <2>2. CASE L!SessionExecutes \/ L!ReleaseChanges
    BY <2>2 DEF L!SessionExecutes, L!ReleaseChanges
  <2>3. CASE L!SessionPublishes
    BY <2>1, <2>3 DEF L!SessionPublishes, L!Running
  <2>4. CASE L!SessionEnds
    BY <2>1, <2>4 DEF L!SessionEnds, L!Running
  <2> QED
    BY <2>2, <2>3, <2>4 DEF L!Session
<1>5. flFile' \in [pid : Nat, state : L!States, hole : BOOLEAN]
  BY <1>3, <1>4 DEF L!TypeInv
<1>6. L!TypeInv'
  BY <1>1, <1>2, <1>5 DEF L!TypeInv
<1> QED
  BY <1>1, <1>6, ChainStays

\* Nothing in flight belongs to a generation that is yet to come.
LEMMA NoneYet ==
    ASSUME L!TypeInv, L!NoneFromLater
    PROVE  L!NoneInFlight(L!Kinds, {flGeneration + 1})
<1>1. ASSUME NEW S, NEW s \in Seq(S), \A c \in S : c.gen \in Nat,
             \A i \in DOMAIN s : s[i].gen <= flGeneration
      PROVE  L!NoneOf(s, L!Kinds, {flGeneration + 1})
  <2>1. \A i \in DOMAIN s : s[i] \in S
    BY <1>1, ElementOfSeq, LenProperties
  <2> QED
    BY <1>1, <2>1, PageTypes DEF L!NoneOf, L!Of
<1>2. (\A c \in Requests : c.gen \in Nat) /\ (\A c \in Replies : c.gen \in Nat)
  BY DEF Requests, Replies
<1> QED
  BY <1>1, <1>2, PageTypes DEF L!NoneFromLater, L!NoneInFlight

\* beginLaunch adds the one launch, or does nothing at all.
LEMMA LaunchBegins ==
    ASSUME L!TypeInv, Chain, L!beginLaunch, flAnswers' = flAnswers
    PROVE  /\ Chain' /\ flCalls' \in Seq(Requests) /\ flRequestActive' \in BOOLEAN
           /\ flGeneration' \in Nat \ {0} /\ flTimer' \in {0, flGeneration'}
<1> USE PageTypes
<1>1. CASE flRequestActive
  <2>1. UNCHANGED <<flCalls, flAnswers, flGeneration, flTimer, flRequestActive>>
    BY <1>1 DEF L!beginLaunch
  <2> QED
    BY <2>1, ChainStays DEF L!TypeInv
<1>2. CASE ~flRequestActive
  <2> DEFINE probe == [kind |-> "probe", gen |-> flGeneration + 1]
  <2>1. /\ flRequestActive' = TRUE /\ flTimer' = 0 /\ flGeneration' = flGeneration + 1
        /\ flCalls' = Append(flCalls, probe)
    BY <1>2 DEF L!beginLaunch
  <2>2. probe \in Requests
    BY DEF Requests, L!Kinds
  <2>3. probe.gen <= flGeneration + 1
    OBVIOUS
  <2> HIDE DEF probe
  <2>4. /\ L!NoneInFlight(L!Launches, L!Somebody)
        /\ L!NoneInFlight(L!Kinds, {flGeneration + 1})
    BY <1>2, NoneYet DEF Chain, L!LaunchIsMarked
  <2>5. L!OneOf(flCalls', L!Launches, L!Somebody) /\ L!NoneOf(flAnswers', L!Launches, L!Somebody)
    BY <2>1, <2>2, <2>4, OneOfAppend DEF L!NoneInFlight
  <2>6. /\ L!OneOf(flCalls', L!Kinds, {flGeneration'})
        /\ L!NoneOf(flAnswers', L!Kinds, {flGeneration'})
    BY <2>1, <2>2, <2>4, OneOfAppend DEF L!NoneInFlight
  <2>7. L!OneOf(flAnswers', L!Launches, L!Somebody) /\ L!OneOf(flAnswers', L!Kinds, {flGeneration'})
    BY <2>5, <2>6 DEF L!OneOf, L!NoneOf
  <2>8. L!NoneFromLater'
    <3>1. ASSUME NEW S, NEW s \in Seq(S), \A c \in S : c.gen \in Nat,
                 \A i \in DOMAIN s : s[i].gen <= flGeneration
          PROVE  \A i \in DOMAIN s : s[i].gen <= flGeneration + 1
      <4>1. \A i \in DOMAIN s : s[i] \in S
        BY <3>1, ElementOfSeq, LenProperties
      <4> QED
        BY <3>1, <4>1
    <3>2. (\A c \in Requests : c.gen \in Nat) /\ (\A c \in Replies : c.gen \in Nat)
      BY DEF Requests, Replies
    <3>3. /\ \A i \in DOMAIN flCalls : flCalls[i].gen <= flGeneration + 1
          /\ \A i \in DOMAIN flAnswers : flAnswers[i].gen <= flGeneration + 1
      BY <3>1, <3>2 DEF Chain, L!NoneFromLater
    <3>4. \A i \in DOMAIN flCalls' : flCalls'[i].gen <= flGeneration + 1
      BY <2>1, <2>2, <2>3, <3>3, GenerationsOf
    <3> QED
      BY <2>1, <3>3, <3>4 DEF L!NoneFromLater
  <2>9. L!LaunchIsMarked'
    BY <2>1 DEF L!LaunchIsMarked
  <2>10. L!OneLaunch'
    BY <2>5, <2>7 DEF L!OneLaunch, L!OneInFlight
  <2>11. L!OnePollLoop'
    BY <2>1, <2>6, <2>7 DEF L!OnePollLoop, L!OneInFlight
  <2>12. flCalls' \in Seq(Requests)
    BY <2>1, <2>2, AppendTo
  <2> QED
    BY <2>1, <2>8, <2>9, <2>10, <2>11, <2>12 DEF Chain, L!OneChain
<1> QED
  BY <1>1, <1>2 DEF L!TypeInv

\* The types of the page after a step of the page.
LEMMA PageTypesKept ==
    ASSUME L!TypeInv, UNCHANGED <<flProc, flFile, flLastStarted>>,
           flCalls' \in Seq(Requests), flAnswers' \in Seq(Replies),
           flRequestActive' \in BOOLEAN, flGeneration' \in Nat \ {0},
           flTimer' \in {0, flGeneration'}
    PROVE  L!TypeInv'
BY DEF L!TypeInv, Requests, Replies, L!Somebody, L!Nobody

\* A page that is shown, or tried again, launches only when nothing is under way.
LEMMA ShownKeepsChain ==
    ASSUME L!TypeInv, Chain, L!onShow \/ L!retry
    PROVE  L!TypeInv' /\ Chain'
<1>1. L!beginLaunch /\ UNCHANGED <<flAnswers, flProc, flFile, flLastStarted>>
  BY DEF L!onShow, L!retry, L!world
<1>2. flAnswers' \in Seq(Replies)
  BY <1>1, PageTypes
<1> QED
  BY <1>1, <1>2, LaunchBegins, PageTypesKept

\* A hidden page turns over its generation: whatever is in flight is stale.
LEMMA HiddenKeepsChain ==
    ASSUME L!TypeInv, Chain, L!onHide
    PROVE  L!TypeInv' /\ Chain'
<1> USE PageTypes
<1>1. /\ flTimer' = 0 /\ flGeneration' = flGeneration + 1
      /\ UNCHANGED <<flCalls, flAnswers, flRequestActive, flProc, flFile, flLastStarted>>
  BY DEF L!onHide, L!world
<1>2. L!TypeInv'
  BY <1>1, PageTypesKept DEF L!TypeInv
<1>3. L!LaunchIsMarked' /\ L!OneLaunch'
  BY <1>1 DEF Chain, L!LaunchIsMarked, L!OneChain, L!OneLaunch, L!OneInFlight,
              L!NoneInFlight, L!NoneOf, L!OneOf, L!Of
<1>4. L!NoneOf(flCalls', L!Kinds, {flGeneration'}) /\ L!NoneOf(flAnswers', L!Kinds, {flGeneration'})
  BY <1>1, NoneYet DEF Chain, L!NoneInFlight
<1>5. L!OnePollLoop'
  BY <1>1, <1>4 DEF L!OnePollLoop, L!OneInFlight, L!NoneOf, L!OneOf
<1>6. L!NoneFromLater'
  <2>1. (\A i \in DOMAIN flCalls : flCalls[i] \in Requests)
        /\ (\A i \in DOMAIN flAnswers : flAnswers[i] \in Replies)
    BY ElementOfSeq, LenProperties
  <2>2. (\A i \in DOMAIN flCalls : flCalls[i].gen \in Nat)
        /\ (\A i \in DOMAIN flAnswers : flAnswers[i].gen \in Nat)
    BY <2>1 DEF Requests, Replies
  <2> QED
    BY <1>1, <2>2 DEF Chain, L!NoneFromLater
<1> QED
  BY <1>2, <1>3, <1>5, <1>6 DEF Chain, L!OneChain

\* The calls of a page that is gone are nobody's.
LEMMA Orphans ==
    ASSUME NEW S, NEW s \in Seq(S),
           NEW orphans, DOMAIN orphans = DOMAIN s,
           \A i \in DOMAIN s : s[i] \in S => orphans[i] \in S /\ orphans[i].gen = 0,
           orphans = [i \in DOMAIN orphans |-> orphans[i]]
    PROVE  /\ orphans \in Seq(S)
           /\ \A i \in DOMAIN orphans : orphans[i].gen = 0
<1>1. Len(s) \in Nat /\ DOMAIN s = 1..Len(s) /\ \A i \in 1..Len(s) : s[i] \in S
  BY LenProperties, ElementOfSeq
<1>2. orphans \in [1..Len(s) -> S]
  BY <1>1
<1>3. orphans \in Seq(S)
  BY <1>1, <1>2, SeqDef
<1> QED
  BY <1>1, <1>3

\* A page that is destroyed leaves only calls of nobody.
LEMMA UnloadKeepsChain ==
    ASSUME L!TypeInv, Chain, L!onUnload
    PROVE  L!TypeInv' /\ Chain'
<1> USE PageTypes
<1>1. /\ flTimer' = 0 /\ flGeneration' = flGeneration + 1 /\ flRequestActive' = FALSE
      /\ flCalls' = [i \in DOMAIN flCalls |-> [flCalls[i] EXCEPT !.gen = L!Nobody]]
      /\ flAnswers' = [i \in DOMAIN flAnswers |-> [flAnswers[i] EXCEPT !.gen = L!Nobody]]
      /\ UNCHANGED <<flProc, flFile, flLastStarted>>
  BY DEF L!onUnload, L!world
<1>2. /\ \A c \in Requests : /\ [c EXCEPT !.gen = L!Nobody] \in Requests
                             /\ [c EXCEPT !.gen = L!Nobody].gen = 0
      /\ \A c \in Replies : /\ [c EXCEPT !.gen = L!Nobody] \in Replies
                            /\ [c EXCEPT !.gen = L!Nobody].gen = 0
  BY DEF Requests, Replies, L!Nobody
<1>3. /\ flCalls' \in Seq(Requests) /\ \A i \in DOMAIN flCalls' : flCalls'[i].gen = 0
      /\ flAnswers' \in Seq(Replies) /\ \A i \in DOMAIN flAnswers' : flAnswers'[i].gen = 0
  <2>1. flCalls' \in Seq(Requests) /\ \A i \in DOMAIN flCalls' : flCalls'[i].gen = 0
    <3> DEFINE orphans == [i \in DOMAIN flCalls |-> [flCalls[i] EXCEPT !.gen = L!Nobody]]
    <3>0. /\ DOMAIN orphans = DOMAIN flCalls /\ orphans = [i \in DOMAIN orphans |-> orphans[i]]
          /\ \A i \in DOMAIN flCalls : orphans[i] = [flCalls[i] EXCEPT !.gen = L!Nobody]
      OBVIOUS
    <3> HIDE DEF orphans
    <3>1. \A i \in DOMAIN flCalls : flCalls[i] \in Requests =>
            orphans[i] \in Requests /\ orphans[i].gen = 0
      BY <1>2, <3>0
    <3>2. orphans \in Seq(Requests) /\ \A i \in DOMAIN orphans : orphans[i].gen = 0
      BY <3>0, <3>1, Orphans
    <3> QED
      BY <1>1, <3>2 DEF orphans
  <2>2. flAnswers' \in Seq(Replies) /\ \A i \in DOMAIN flAnswers' : flAnswers'[i].gen = 0
    <3> DEFINE orphans == [i \in DOMAIN flAnswers |-> [flAnswers[i] EXCEPT !.gen = L!Nobody]]
    <3>0. /\ DOMAIN orphans = DOMAIN flAnswers /\ orphans = [i \in DOMAIN orphans |-> orphans[i]]
          /\ \A i \in DOMAIN flAnswers : orphans[i] = [flAnswers[i] EXCEPT !.gen = L!Nobody]
      OBVIOUS
    <3> HIDE DEF orphans
    <3>1. \A i \in DOMAIN flAnswers : flAnswers[i] \in Replies =>
            orphans[i] \in Replies /\ orphans[i].gen = 0
      BY <1>2, <3>0
    <3>2. orphans \in Seq(Replies) /\ \A i \in DOMAIN orphans : orphans[i].gen = 0
      BY <3>0, <3>1, Orphans
    <3> QED
      BY <1>1, <3>2 DEF orphans
  <2> QED
    BY <2>1, <2>2
<1>4. L!TypeInv'
  <2>1. flRequestActive' \in BOOLEAN
    BY <1>1
  <2>2. flGeneration' \in Nat \ {0} /\ flTimer' \in {0, flGeneration'}
    BY <1>1
  <2> QED
    BY <1>1, <1>3, <2>1, <2>2, PageTypesKept
<1>5. ASSUME NEW kinds, NEW gens, 0 \notin gens
      PROVE  /\ L!NoneOf(flCalls', kinds, gens) /\ L!NoneOf(flAnswers', kinds, gens)
             /\ L!OneOf(flCalls', kinds, gens) /\ L!OneOf(flAnswers', kinds, gens)
  BY <1>3, <1>5 DEF L!NoneOf, L!OneOf, L!Of
<1>6. 0 \notin L!Somebody /\ 0 \notin {flGeneration'}
  BY <1>1 DEF L!Somebody, L!Nobody
<1>7. L!OneLaunch' /\ L!LaunchIsMarked'
  BY <1>5, <1>6 DEF L!OneLaunch, L!LaunchIsMarked, L!OneInFlight, L!NoneInFlight
<1>8. L!OnePollLoop'
  BY <1>5, <1>6 DEF L!OnePollLoop, L!OneInFlight, L!NoneInFlight
<1>9. L!NoneFromLater'
  <2>1. 0 <= flGeneration'
    BY <1>1
  <2> QED
    BY <1>3, <2>1 DEF L!NoneFromLater
<1> QED
  BY <1>4, <1>7, <1>8, <1>9 DEF Chain, L!OneChain

\* A timer becomes the one poll of its generation.
LEMMA TimerKeepsChain ==
    ASSUME L!TypeInv, Chain, L!TimerFires
    PROVE  L!TypeInv' /\ Chain'
<1> USE PageTypes
<1> DEFINE poll == [kind |-> "status", gen |-> flGeneration]
<1>1. /\ flTimer' = 0 /\ flTimer # 0 /\ flCalls' = Append(flCalls, poll)
      /\ UNCHANGED <<flAnswers, flRequestActive, flGeneration, flProc, flFile, flLastStarted>>
  BY DEF L!TimerFires, L!world
<1>2. poll \in Requests /\ ~L!Of(poll, L!Launches, L!Somebody) /\ poll.gen <= flGeneration
  BY DEF Requests, L!Kinds, L!Of, L!Launches
<1> HIDE DEF poll
<1>3. flCalls' \in Seq(Requests)
  BY <1>1, <1>2, AppendTo
<1>4. L!TypeInv'
  BY <1>1, <1>3, PageTypesKept DEF L!TypeInv
<1>5. L!NoneFromLater'
  BY <1>1, <1>2, GenerationsOf DEF Chain, L!NoneFromLater
<1>6. /\ L!NoneOf(flCalls, L!Launches, L!Somebody) =>
            L!NoneOf(flCalls', L!Launches, L!Somebody)
      /\ L!OneOf(flCalls, L!Launches, L!Somebody) => L!OneOf(flCalls', L!Launches, L!Somebody)
      /\ L!NoneOf(flCalls, L!Kinds, {flGeneration}) => L!OneOf(flCalls', L!Kinds, {flGeneration})
  BY <1>1, <1>2, OneOfAppend
<1>7. L!OneLaunch' /\ L!LaunchIsMarked'
  BY <1>1, <1>6 DEF Chain, L!OneChain, L!OneLaunch, L!LaunchIsMarked, L!OneInFlight,
                    L!NoneInFlight
<1>8. L!OnePollLoop'
  BY <1>1, <1>6 DEF Chain, L!OneChain, L!OnePollLoop, L!OneInFlight, L!NoneInFlight
<1> QED
  BY <1>4, <1>5, <1>7, <1>8 DEF Chain, L!OneChain

\* The page goes on after an await: with the next call of the launch, with a timer,
\* or not at all when the answer is not for it any more.
LEMMA ResumeKeepsChain ==
    ASSUME L!TypeInv, Chain, L!Resume
    PROVE  L!TypeInv' /\ Chain'
<1> USE PageTypes
<1> DEFINE answer == Head(flAnswers)
<1> DEFINE start == [kind |-> "start", gen |-> flGeneration]
<1>1. /\ flAnswers # <<>> /\ flAnswers' = Tail(flAnswers)
      /\ UNCHANGED <<flGeneration, flProc, flFile, flLastStarted>>
      /\ \/ UNCHANGED <<flCalls, flRequestActive, flTimer>>
         \/ /\ answer.gen = flGeneration /\ flCalls' = flCalls
            /\ flTimer' = flGeneration /\ UNCHANGED flRequestActive
         \/ /\ answer.gen = flGeneration /\ answer.kind = "probe"
            /\ flCalls' = Append(flCalls, start) /\ UNCHANGED <<flTimer, flRequestActive>>
         \/ /\ answer.gen = flGeneration /\ answer.kind \in {"probe", "start"}
            /\ flCalls' = flCalls /\ flRequestActive' = FALSE
            /\ flTimer' \in {0, flGeneration}
  BY DEF L!Resume, L!Stale, L!schedulePoll, L!showError, L!world
<1>2. answer \in Replies /\ flAnswers' \in Seq(Replies)
  BY <1>1, TailOf
<1>3. /\ start \in Requests /\ start.gen = flGeneration /\ start.kind = "start"
      /\ start.gen <= flGeneration
  BY DEF Requests, L!Kinds
<1>4. answer.gen = flGeneration => L!Of(answer, L!Kinds, {flGeneration})
  BY <1>2 DEF Replies, L!Of
<1>5. answer.gen = flGeneration /\ answer.kind \in {"probe", "start"} =>
        L!Of(answer, L!Launches, L!Somebody)
  BY DEF L!Of, L!Launches, L!Somebody, L!Nobody
<1> HIDE DEF answer, start
<1>6. ASSUME NEW kinds, NEW gens
      PROVE  /\ L!NoneOf(flAnswers, kinds, gens) =>
                    L!NoneOf(flAnswers', kinds, gens) /\ ~L!Of(answer, kinds, gens)
             /\ L!OneOf(flAnswers, kinds, gens) => L!OneOf(flAnswers', kinds, gens)
             /\ L!OneOf(flAnswers, kinds, gens) /\ L!Of(answer, kinds, gens) =>
                    L!NoneOf(flAnswers', kinds, gens)
  BY <1>1, OneOfTail DEF answer
<1>7. flCalls' \in Seq(Requests)
  <2>1. Append(flCalls, start) \in Seq(Requests)
    BY <1>3, AppendTo
  <2> QED
    BY <1>1, <2>1
<1>8. L!TypeInv'
  <2>1. flRequestActive' \in BOOLEAN
    BY <1>1 DEF L!TypeInv
  <2>2. flTimer' \in {0, flGeneration'}
    BY <1>1
  <2> QED
    BY <1>1, <1>2, <1>7, <2>1, <2>2, PageTypesKept
<1>9. L!NoneFromLater'
  <2>1. \A i \in DOMAIN flAnswers' : flAnswers'[i].gen <= flGeneration
    BY <1>1, GenerationsOf DEF Chain, L!NoneFromLater
  <2>2. \A i \in DOMAIN flCalls' : flCalls'[i].gen <= flGeneration
    BY <1>1, <1>3, GenerationsOf DEF Chain, L!NoneFromLater
  <2> QED
    BY <1>1, <2>1, <2>2 DEF L!NoneFromLater
<1>10. L!OneLaunch' /\ L!LaunchIsMarked'
  <2> DEFINE Alone(s) == L!NoneOf(s, L!Launches, L!Somebody)
  <2> DEFINE Once(s) == L!OneOf(s, L!Launches, L!Somebody)
  <2>1. /\ Once(flCalls) /\ Once(flAnswers) /\ (Alone(flCalls) \/ Alone(flAnswers))
        /\ ~flRequestActive => Alone(flCalls) /\ Alone(flAnswers)
    BY DEF Chain, L!OneChain, L!OneLaunch, L!LaunchIsMarked, L!OneInFlight, L!NoneInFlight
  <2>2. /\ Alone(flAnswers) => Alone(flAnswers') /\ ~L!Of(answer, L!Launches, L!Somebody)
        /\ Once(flAnswers')
        /\ L!Of(answer, L!Launches, L!Somebody) => Alone(flAnswers') /\ Alone(flCalls)
    BY <1>6, <2>1
  <2>3. Alone(flCalls) /\ flCalls' = Append(flCalls, start) => Once(flCalls')
    BY <1>3, OneOfAppend
  <2>4. flCalls' = flCalls => (Alone(flCalls') <=> Alone(flCalls)) /\ Once(flCalls')
    BY <2>1
  <2> HIDE DEF Alone, Once
  <2>5. /\ Once(flCalls') /\ Once(flAnswers') /\ (Alone(flCalls') \/ Alone(flAnswers'))
        /\ ~flRequestActive' => Alone(flCalls') /\ Alone(flAnswers')
    <3>1. CASE flCalls' = flCalls /\ flRequestActive' = flRequestActive
      BY <2>1, <2>2, <2>4, <3>1
    <3>2. CASE /\ L!Of(answer, L!Launches, L!Somebody) /\ flCalls' = flCalls
      BY <2>2, <2>4, <3>2
    <3>3. CASE /\ L!Of(answer, L!Launches, L!Somebody) /\ flCalls' = Append(flCalls, start)
               /\ flRequestActive' = flRequestActive
      <4>1. flRequestActive
        BY <2>1, <2>2, <3>3
      <4> QED
        BY <2>2, <2>3, <3>3, <4>1
    <3> QED
      BY <1>1, <1>5, <3>1, <3>2, <3>3
  <2> QED
    BY <2>5 DEF Alone, Once, L!OneLaunch, L!LaunchIsMarked, L!OneInFlight, L!NoneInFlight
<1>11. L!OnePollLoop'
  <2> DEFINE Alone(s) == L!NoneOf(s, L!Kinds, {flGeneration})
  <2> DEFINE Once(s) == L!OneOf(s, L!Kinds, {flGeneration})
  <2>1. /\ Once(flCalls) /\ Once(flAnswers) /\ (Alone(flCalls) \/ Alone(flAnswers))
        /\ flTimer # 0 => Alone(flCalls) /\ Alone(flAnswers)
    BY DEF Chain, L!OneChain, L!OnePollLoop, L!OneInFlight, L!NoneInFlight
  <2>2. /\ Alone(flAnswers) => Alone(flAnswers') /\ answer.gen # flGeneration
        /\ Once(flAnswers')
        /\ answer.gen = flGeneration => Alone(flAnswers') /\ Alone(flCalls)
    BY <1>4, <1>6, <2>1
  <2>3. Alone(flCalls) /\ flCalls' = Append(flCalls, start) => Once(flCalls')
    BY <1>3, OneOfAppend
  <2>4. flCalls' = flCalls => (Alone(flCalls') <=> Alone(flCalls)) /\ Once(flCalls')
    BY <2>1
  <2> HIDE DEF Alone, Once
  <2>5. /\ Once(flCalls') /\ Once(flAnswers') /\ (Alone(flCalls') \/ Alone(flAnswers'))
        /\ flTimer' # 0 => Alone(flCalls') /\ Alone(flAnswers')
    <3>1. CASE flCalls' = flCalls /\ flTimer' = flTimer
      BY <2>1, <2>2, <2>4, <3>1
    <3>2. CASE answer.gen = flGeneration /\ flCalls' = flCalls
      BY <2>2, <2>4, <3>2
    <3>3. CASE /\ answer.gen = flGeneration /\ flCalls' = Append(flCalls, start)
               /\ flTimer' = flTimer
      <4>1. flTimer = 0
        BY <2>1, <2>2, <3>3
      <4> QED
        BY <2>2, <2>3, <3>3, <4>1
    <3> QED
      BY <1>1, <3>1, <3>2, <3>3
  <2> QED
    BY <1>1, <2>5 DEF Alone, Once, L!OnePollLoop, L!OneInFlight, L!NoneInFlight
<1> QED
  BY <1>8, <1>9, <1>10, <1>11 DEF Chain, L!OneChain

\* However the page is hidden, shown, closed and retried while its calls are on
\* their way, it has one launch at a time and one chain of polls (beginLaunch,
\* schedulePoll).
THEOREM OneLaunchOnePoll == L!Spec => []OneChain
<1>0. L!LauncherInv <=> L!TypeInv /\ Chain
  BY DEF L!LauncherInv, Chain
<1>1. L!Init => L!LauncherInv
  <2> SUFFICES ASSUME L!Init PROVE L!TypeInv /\ Chain
    BY <1>0
  <2> USE DEF L!Init
  <2>1. L!TypeInv
    <3>1. L!NoFile \in [pid : Nat, state : L!States, hole : BOOLEAN]
      BY DEF L!NoFile, L!States
    <3>2. flProc \in [L!Pids -> {"none", "forked", "up", "gone"}]
      OBVIOUS
    <3>3. flCalls \in Seq(Requests) /\ flAnswers \in Seq(Replies)
      BY EmptySeq
    <3>4. flRequestActive \in BOOLEAN
      OBVIOUS
    <3>5. flGeneration \in L!Somebody /\ flTimer \in {0, flGeneration} /\ flLastStarted \in Nat
      BY DEF L!Somebody, L!Nobody
    <3> QED
      BY <3>1, <3>2, <3>3, <3>4, <3>5 DEF L!TypeInv, Requests, Replies
  <2>2. Chain
    BY DEF Chain, L!LaunchIsMarked, L!NoneFromLater, L!OneChain, L!OneLaunch, L!OnePollLoop,
           L!OneInFlight, L!NoneInFlight, L!NoneOf, L!OneOf
  <2> QED
    BY <2>1, <2>2
<1>2. L!LauncherInv /\ [L!Next]_(L!vars) => L!LauncherInv'
  <2> SUFFICES ASSUME L!TypeInv, Chain, [L!Next]_(L!vars) PROVE L!TypeInv' /\ Chain'
    BY DEF L!LauncherInv, Chain
  <2>1. CASE UNCHANGED L!vars
    <3>1. UNCHANGED <<flProc, flFile, flLastStarted, flCalls, flAnswers, flRequestActive,
                      flGeneration, flTimer>>
      BY <2>1 DEF L!vars, L!world, L!page
    <3> QED
      BY <3>1, ChainStays DEF L!TypeInv
  <2> QED
    BY <2>1, NativeKeepsChain, SessionKeepsChain, ShownKeepsChain, HiddenKeepsChain,
       UnloadKeepsChain, TimerKeepsChain, ResumeKeepsChain DEF L!Next, L!User
<1>3. L!LauncherInv => OneChain
  BY DEF L!LauncherInv, OneChain
<1> QED
  BY <1>1, <1>2, <1>3, PTL DEF L!Spec
=============================================================================
