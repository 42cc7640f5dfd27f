------------------------------ MODULE JsCalls ------------------------------
(***************************************************************************)
(* A native call of the launcher's and the manager's page, as the mini     *)
(* program SDK runs it: the page's thread makes a promise and queues the   *)
(* call on the thread named after the module (JQNamedThread), that thread  *)
(* runs the native method and posts its one answer back to the page's      *)
(* looper, where JQAsyncExecutor resolves the promise.  The named thread   *)
(* ends after a quiet period and is created again by the next call; the    *)
(* page may be closed at any time, its object and its context being        *)
(* released one after the other while the named thread runs on.            *)
(***************************************************************************)
EXTENDS Integers, Sequences

CONSTANT MaxCalls           \* bound on the calls of the page

CallsAssumption == MaxCalls \in Nat

Calls == 1..MaxCalls
Threads == Calls            \* a call starts at most one thread

VARIABLES calls,            \* calls made so far
          pending,          \* keys of _callbackMap
          named,            \* _nameThreadMap[module], 0 when there is none
          thread,           \* every NamedThread ever started
          posted,           \* answers in the looper of the page, oldest first
          settled,          \* history: promises settled, oldest first
          context,          \* "open", "closing" or "closed"
          attached,         \* the script object holds the C++ object
          holder            \* the context's global object holds its CtxHolder

vars == <<calls, pending, named, thread, posted, settled, context, attached, holder>>

Unused == [at |-> "unused", queue |-> <<>>, job |-> 0]

\* JQObjectTemplate::NewInstance(): a script object with promise methods always
\* has a C++ object.
NewInstance == attached = TRUE

\* JQFunctionTemplate::InstanceCtor(): the page has created its module object.
Init == /\ NewInstance
        /\ calls = 0 /\ pending = {} /\ named = 0 /\ posted = <<>> /\ settled = <<>>
        /\ thread = [t \in Threads |-> Unused]
        /\ context = "open" /\ holder = TRUE

At(t, at) == thread' = [thread EXCEPT ![t].at = at]

\* Threads inside the native method hold the object they promoted.
Holding == {t \in Threads : thread[t].at \in {"working", "answered"}}

\* REF_BASE: the object lives while the script or one of them holds it.
Alive == attached \/ Holding # {}

\* Thread::start(): it runs and waits for closures.
Started(queue) == [at |-> "idle", queue |-> queue, job |-> 0]

\* PostOnNamedThread(): one critical section finds or creates the thread and
\* queues the closure.
PostOnNamedThread(c) ==
    IF named = 0
    THEN \E t \in Threads :
            /\ thread[t] = Unused
            /\ \A u \in 1..(t - 1) : thread[u] # Unused
            /\ thread' = [thread EXCEPT ![t] = Started(<<c>>)]
            /\ named' = t
    ELSE /\ thread' = [thread EXCEPT ![named].queue = Append(@, c)]
         /\ UNCHANGED named

\* JQAsyncSchedule::dispatch(): the calls of one module go to one thread.
dispatch(c) == PostOnNamedThread(c)

\* The resolving functions are kept under the new callback id.
createPromiseId(c) == pending' = pending \cup {c}

\* JQObjectTemplate::Caller() on a method registered with SetProtoMethodPromise.
Call == /\ context = "open" /\ calls < MaxCalls
        /\ calls' = calls + 1
        /\ createPromiseId(calls')
        /\ dispatch(calls')
        /\ UNCHANGED <<posted, settled, context, attached, holder>>

\* Wrong variant: a thread that takes its last closure leaves the map at once.
Take_LeavesMap(t) ==
    /\ thread[t].at = "idle" /\ thread[t].queue # <<>>
    /\ thread' = [thread EXCEPT ![t] = [at |-> "popped", queue |-> Tail(@.queue),
                                        job |-> Head(@.queue)]]
    /\ named' = IF Len(thread[t].queue) = 1 THEN 0 ELSE named
    /\ UNCHANGED <<calls, pending, posted, settled, context, attached, holder>>

\* NamedThread::run() pops the next closure under the lock.
Take(t) ==
    /\ thread[t].at = "idle" /\ thread[t].queue # <<>>
    /\ thread' = [thread EXCEPT ![t] = [at |-> "popped", queue |-> Tail(@.queue),
                                        job |-> Head(@.queue)]]
    /\ UNCHANGED <<calls, pending, named, posted, settled, context, attached, holder>>

\* Wrong variant: a wait that timed out ends the thread without looking again.
Expire_Unchecked(t) ==
    /\ thread[t].at = "idle"
    /\ At(t, "gone")
    /\ named' = 0
    /\ UNCHANGED <<calls, pending, posted, settled, context, attached, holder>>

\* The quiet period ended with the queue still empty: out of the map and out of
\* run(), in the critical section that looked at the queue.
Expire(t) ==
    /\ thread[t].at = "idle" /\ thread[t].queue = <<>>
    /\ At(t, "gone")
    /\ named' = 0
    /\ UNCHANGED <<calls, pending, posted, settled, context, attached, holder>>

\* AsyncCaller(): the method runs only on an object that still exists.
Begin(t) ==
    /\ thread[t].at = "popped"
    /\ At(t, IF Alive THEN "working" ELSE "idle")
    /\ UNCHANGED <<calls, pending, named, posted, settled, context, attached, holder>>

\* A task for the page's looper, which keeps the order of the tasks.
onCallbackAsync(c) == posted' = Append(posted, c)

\* The method ends in post() or postError(); the object it holds has an executor.
Answer(t) ==
    /\ thread[t].at = "working"
    /\ At(t, "answered")
    /\ onCallbackAsync(thread[t].job)
    /\ UNCHANGED <<calls, pending, named, settled, context, attached, holder>>

\* The closure returns; the last holder of the object destroys it here.
Return(t) ==
    /\ thread[t].at = "answered"
    /\ At(t, "idle")
    /\ UNCHANGED <<calls, pending, named, posted, settled, context, attached, holder>>

\* Resolve or reject, whichever the answer is for.
CallDescVec(c) == settled' = Append(settled, c)

FreeDescVec(c) == pending' = pending \ {c}

\* JQAsyncExecutor::onCallback(): the context and the callback are looked up
\* before the promise is settled and forgotten.
OnCallback(c) ==
    IF holder /\ c \in pending
    THEN CallDescVec(c) /\ FreeDescVec(c)
    ELSE UNCHANGED <<settled, pending>>

\* The looper of the page runs one posted task.
JsTask == /\ context # "closing" /\ posted # <<>>
          /\ OnCallback(Head(posted))
          /\ posted' = Tail(posted)
          /\ UNCHANGED <<calls, named, thread, context, attached, holder>>

\* The page is closed: its context is freed in one task of the looper, in which
\* the finalizers run in no particular order.
Close == /\ context = "open"
         /\ context' = "closing"
         /\ UNCHANGED <<calls, pending, named, thread, posted, settled, attached, holder>>

\* __js_object_finalizer(): detached from the script and released once.
Finalize == /\ context = "closing" /\ attached
            /\ attached' = FALSE
            /\ context' = IF holder THEN "closing" ELSE "closed"
            /\ UNCHANGED <<calls, pending, named, thread, posted, settled, holder>>

FreeHolder == /\ context = "closing" /\ holder
              /\ holder' = FALSE
              /\ context' = IF attached THEN "closing" ELSE "closed"
              /\ UNCHANGED <<calls, pending, named, thread, posted, settled, attached>>

Next == \/ Call \/ JsTask \/ Close \/ Finalize \/ FreeHolder
        \/ \E t \in Threads : \/ Take(t) \/ Expire(t) \/ Begin(t)
                              \/ Answer(t) \/ Return(t)

\* A queued closure, a method and a posted task run in the end: the native
\* methods wait for bounded times only.  Nothing makes the page call or close.
Serve(t) == Take(t) \/ Begin(t) \/ Answer(t) \/ Return(t)

Spec == Init /\ [][Next]_vars
FairSpec == Spec /\ (\A t \in Threads : WF_vars(Serve(t))) /\ WF_vars(JsTask)

-----------------------------------------------------------------------------
\* The answers reach the page in the order of its calls and at most once each,
\* although the thread that makes them may be a new one for every call: status
\* answers carry no number a page could order them by (index.vue applies each
\* one as it comes).
AnswersInOrder ==
    LET answers == settled \o posted
    IN \A i, j \in DOMAIN answers : i < j => answers[i] < answers[j]

\* The answers the page has and those on their way to it.
Rising(s) == \A i, j \in DOMAIN s : i < j => s[i] < s[j]
Before(s, t) == \A i \in DOMAIN s, j \in DOMAIN t : s[i] < t[j]
Below(s, c) == \A i \in DOMAIN s : s[i] < c
Above(c, s) == \A i \in DOMAIN s : c < s[i]

States == {"unused", "idle", "popped", "working", "answered", "gone"}

TypeInv ==
    /\ calls \in Nat /\ named \in {0} \union Threads
    /\ posted \in Seq(Nat) /\ settled \in Seq(Nat)
    /\ thread \in [Threads -> [at : States, queue : Seq(Nat), job : Nat]]

\* Only the thread in the map runs: PostOnNamedThread and run() find and remove it
\* in critical sections of the same lock.
OneThread ==
    /\ \A t \in Threads : thread[t].at \notin {"unused", "gone"} => t = named
    /\ named # 0 => thread[named].at \notin {"unused", "gone"}

\* A call is in one place: settled, posted, with the thread, or in its queue, and
\* whoever is further on has the older call.
InLine ==
    /\ Rising(settled) /\ Rising(posted) /\ Before(settled, posted)
    /\ Below(settled, calls + 1) /\ Below(posted, calls + 1)
    /\ named # 0 =>
        LET own == thread[named]
        IN  /\ Rising(own.queue) /\ Below(own.queue, calls + 1)
            /\ Before(settled, own.queue) /\ Before(posted, own.queue)
            /\ own.at \in {"popped", "working"} =>
                /\ Below(settled, own.job) /\ Below(posted, own.job)
                /\ Above(own.job, own.queue) /\ own.job <= calls

CallsInv == TypeInv /\ OneThread /\ InLine

\* Every promise of a page that stays open is settled, whatever the quiet period
\* of the named thread did meanwhile (a page that loses one keeps its request
\* flag up for good: index.vue requestActive, busy).
EveryCallSettles ==
    \A c \in Calls : c \in pending ~> (c \notin pending \/ context # "open")
=============================================================================
