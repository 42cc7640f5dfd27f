------------------------------ MODULE JsObjects ------------------------------
(***************************************************************************)
(* The script objects of the mini program SDK that the launcher's and the  *)
(* manager's module are made of: what their template keeps for each of     *)
(* them under its address (JQObjectTemplate), and the functions a page     *)
(* subscribes to their topics (JQPublishObject).  An object is detached    *)
(* when the page drops it, at any time and between any two tasks, and      *)
(* destroyed when the last native reference goes; the next object may get  *)
(* its address.  Messages are published by native threads as tasks of the  *)
(* page's looper, or from the page's own thread at once; a function that   *)
(* is called may subscribe, unsubscribe, publish, throw, or drop the       *)
(* object.  The signals of the SDK, which neither module has, are left out.*)
(***************************************************************************)
EXTENDS Integers, Sequences, FiniteSets, SequencesExt

CONSTANTS Topics,
          Functions,    \* functions of the page
          MaxObjects,   \* bound on the objects made at the address
          MaxTokens,    \* bound on the subscriptions of one object
          MaxMessages,  \* bound on the messages
          MaxDepth      \* bound on messages published while one is delivered

VARIABLES object,       \* history: objects made so far at the address
          life,         \* "none", "attached" or "detached"
          member,       \* the object each member was made for, 0 when there is none
          callbacks,    \* _topicCallbacksMap: the subscriptions, by token in each topic
          token,        \* _pubCbTokenId
          held,         \* references the object and its calls hold on a function
          tasks,        \* messages that wait in the looper, each holds the object
          calls,        \* messages being delivered, innermost last
          messages

vars == <<object, life, member, callbacks, token, held, tasks, calls, messages>>

NotAFunction == "undefined"
Members == {"gc_register", "value_holder", "ref_holder", "signal_register", "executor"}

Init == /\ object = 0 /\ life = "none" /\ token = 0 /\ tasks = <<>> /\ calls = <<>>
        /\ messages = 0
        /\ member = [m \in Members |-> 0]
        /\ callbacks = {}
        /\ held = [f \in Functions |-> 0]

-----------------------------------------------------------------------------
\* What the template keeps for an object.

\* getOrCreate...(): the address is the key, whatever is found under it is used.
Found(m) == IF member[m] # 0 THEN member[m] ELSE object'

\* NewInstance, NewObject and _on_js_attach: OnInit hooks the garbage collection.
NewObject ==
    /\ life = "none" /\ object < MaxObjects /\ calls = <<>>
    /\ object' = object + 1 /\ life' = "attached"
    /\ member' = [member EXCEPT !["gc_register"] = Found("gc_register")]
    /\ callbacks' = {} /\ token' = 0
    /\ UNCHANGED <<held, tasks, calls, messages>>

\* A member is made when it is first asked for; two of them only while attached.  Of
\* gc_register the code does not check that: its only caller is OnInit, of a new object.
UseMember(m) ==
    /\ life = "attached" \/ (life = "detached" /\ m \in {"signal_register", "executor"})
    /\ UNCHANGED object
    /\ member' = [member EXCEPT ![m] = Found(m)]
    /\ UNCHANGED <<life, callbacks, token, held, tasks, calls, messages>>

\* The subscriptions of a topic, and how many of some a function has.
Of(t) == {s \in callbacks : s.topic = t}
Uses(f, subscriptions) == Cardinality({s \in subscriptions : s.function = f})

\* A reference for each subscription (JS_DupValue, JS_FreeValue).
Dup(subscriptions)  == held' = [f \in Functions |-> held[f] + Uses(f, subscriptions)]
Free(subscriptions) == held' = [f \in Functions |-> held[f] - Uses(f, subscriptions)]

\* Native references: queued tasks, and the task that is running.
Referenced(queue, stack) == queue # <<>> \/ \E i \in DOMAIN stack : stack[i].task

\* Wrong variant: the executor of a destroyed object stays under its address.
destroyed_KeepsExecutor(members) ==
    [members EXCEPT !["signal_register"] = 0, !["ref_holder"] = 0]

\* ~JQBaseObject: what the detached object may have been given since goes, too.
destroyed(members) ==
    [members EXCEPT !["executor"] = 0, !["signal_register"] = 0, !["ref_holder"] = 0]

\* _on_js_detach: the hook of OnInit gives the subscriptions back.
detached(members) ==
    [members EXCEPT !["gc_register"] = 0, !["value_holder"] = 0, !["ref_holder"] = 0]

\* The finalizer, once nothing in the page leads to the object: not while one of
\* its methods runs.
Detach ==
    /\ life = "attached" /\ \A i \in DOMAIN calls : calls[i].task
    /\ callbacks' = {}
    /\ Free(callbacks)
    /\ IF Referenced(tasks, calls)
       THEN life' = "detached" /\ member' = detached(member)
       ELSE life' = "none" /\ member' = destroyed(detached(member))
    /\ UNCHANGED <<object, token, tasks, calls, messages>>

-----------------------------------------------------------------------------
\* Subscriptions.  The page runs on its own or inside a function that was called.

PageRuns == life = "attached" /\ (calls # <<>> => Last(calls).inside)

\* _SubscribeTopic throws if it is given no function, and goes on.
Subscribe(t, f) ==
    /\ PageRuns /\ token < MaxTokens
    /\ token' = token + 1
    /\ LET s == [topic |-> t, token |-> token', function |-> f]
       IN  callbacks' = callbacks \union {s} /\ Dup({s})
    /\ UNCHANGED <<object, life, member, tasks, calls, messages>>

Unsubscribed(gone) ==
    /\ PageRuns
    /\ callbacks' = callbacks \ gone
    /\ Free(gone)
    /\ UNCHANGED <<object, life, member, token, tasks, calls, messages>>

OffAll == Unsubscribed(callbacks)

OffTopic(t) == Unsubscribed(Of(t))

\* By token, with or without its topic; by function the oldest one.
OffToken(s) == Unsubscribed({s})

Oldest(subscriptions) ==
    {s \in subscriptions : \A other \in subscriptions : s.token <= other.token}

OffFunction(t, f) == Unsubscribed(Oldest({s \in Of(t) : s.function = f}))

-----------------------------------------------------------------------------
\* Messages.

\* Wrong variant: the functions are called from the list, which has its own references.
Taken_FromList(t) == UNCHANGED held

\* The functions are copied and referenced before the first is called.
Taken(t) == Dup(Of(t))

\* _OnPublish: nothing to do without subscriptions.
Deliver(t, task) ==
    /\ calls' = Append(calls, [left |-> Of(t), all |-> Of(t),
                               inside |-> FALSE, task |-> task])
    /\ Taken(t)

\* publish() on another thread: a task that holds the object.
PostMessage(t) ==
    /\ life # "none" /\ messages < MaxMessages
    /\ messages' = messages + 1
    /\ tasks' = Append(tasks, t)
    /\ UNCHANGED <<object, life, member, callbacks, token, held, calls>>

\* publish() on the page's thread, from a method the page has called.
PublishNow(t) ==
    /\ PageRuns /\ messages < MaxMessages /\ Len(calls) < MaxDepth
    /\ messages' = messages + 1
    /\ Deliver(t, FALSE)
    /\ UNCHANGED <<object, life, member, callbacks, token, tasks>>

\* A task that finds the object detached only gives its reference back.
RunTask ==
    /\ calls = <<>> /\ tasks # <<>>
    /\ tasks' = Tail(tasks)
    /\ IF life = "attached"
       THEN Deliver(Head(tasks), TRUE) /\ UNCHANGED <<life, member>>
       ELSE /\ UNCHANGED <<held, calls>>
            /\ IF tasks' = <<>> THEN life' = "none" /\ member' = destroyed(member)
               ELSE UNCHANGED <<life, member>>
    /\ UNCHANGED <<object, callbacks, token, messages>>

\* The functions are called in the order of their tokens.
NextIs(functions) ==
    /\ calls # <<>> /\ ~Last(calls).inside
    /\ \E s \in Oldest(Last(calls).left) : s.function \in functions

CallNext ==
    /\ NextIs(Functions)
    /\ calls' = [calls EXCEPT ![Len(calls)].inside = TRUE]
    /\ UNCHANGED <<object, life, member, callbacks, token, held, tasks, messages>>

Returned ==
    /\ calls # <<>> /\ Last(calls).inside
    /\ calls' = [calls EXCEPT ![Len(calls)].inside = FALSE,
                              ![Len(calls)].left = @ \ Oldest(@)]
    /\ UNCHANGED <<object, life, member, callbacks, token, held, tasks, messages>>

\* All were called, or one threw (what is no function throws when it is called):
\* the references go, and that of the task.
EndDelivery ==
    /\ calls # <<>>
    /\ Last(calls).inside \/ Last(calls).left = {} \/ NextIs({NotAFunction})
    /\ calls' = Front(calls)
    /\ Free(Last(calls).all)
    /\ IF life = "detached" /\ ~Referenced(tasks, calls')
       THEN life' = "none" /\ member' = destroyed(member)
       ELSE UNCHANGED <<life, member>>
    /\ UNCHANGED <<object, callbacks, token, tasks, messages>>

Next ==
    \/ NewObject \/ Detach \/ OffAll \/ RunTask \/ CallNext \/ Returned \/ EndDelivery
    \/ \E m \in Members : UseMember(m)
    \/ \E t \in Topics :
        \/ OffTopic(t) \/ PostMessage(t) \/ PublishNow(t)
        \/ \E f \in Functions : OffFunction(t, f)
        \/ \E f \in Functions \union {NotAFunction} : Subscribe(t, f)
    \/ \E s \in callbacks : OffToken(s)

Spec == Init /\ [][Next]_vars

-----------------------------------------------------------------------------
\* An object takes nothing over from one that had its address, and leaves nothing
\* behind (JQObjectTemplate's maps are keyed by address).
OwnMembers ==
    /\ \A m \in Members : member[m] \in {0, object}
    /\ life = "none" => \A m \in Members : member[m] = 0

\* The subscriptions that the deliveries took, each with its delivery.
Delivered(stack) == UNION {{i} \X stack[i].all : i \in DOMAIN stack}

References(f) ==
    Uses(f, callbacks) + Cardinality({d \in Delivered(calls) : d[2].function = f})

\* And every subscription and every function a delivery has taken has one reference,
\* no more and no less, however subscribing, unsubscribing, detaching and
\* delivering interleave (JQPublishObject).
NothingLeftBehind ==
    /\ OwnMembers
    /\ \A f \in Functions : held[f] = References(f)

\* Why.  A detached object is given no member that only an attached one gives back.
MembersInv ==
    /\ object \in Nat /\ DOMAIN member = Members
    /\ life \in {"none", "attached", "detached"}
    /\ OwnMembers
    /\ life = "detached" => member["gc_register"] = 0 /\ member["value_holder"] = 0

\* And no subscription has the token of the next one, and only an attached object any.
Subscriptions == [topic : Topics, token : Nat, function : Functions \union {NotAFunction}]
Deliveries ==
    [left : SUBSET Subscriptions, all : SUBSET Subscriptions, inside : BOOLEAN, task : BOOLEAN]

ReferencesInv ==
    /\ token \in Nat
    /\ callbacks \subseteq Subscriptions /\ IsFiniteSet(callbacks)
    /\ \A s \in callbacks : s.token <= token
    /\ life # "attached" => callbacks = {}
    /\ calls \in Seq(Deliveries)
    /\ IsFiniteSet(Delivered(calls))
    /\ held \in [Functions -> Int]
    /\ \A f \in Functions : held[f] = References(f)
=============================================================================
