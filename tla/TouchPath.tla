------------------------------ MODULE TouchPath -----------------------------
(***************************************************************************)
(* A touch on its way: the transparent layer of the launcher page          *)
(* (launcher/src/pages/index/index.vue), Launcher::sendTouch, the datagram *)
(* socket, the router of lvgl-sessiond (touch_router.cpp with the guards   *)
(* of touch_protocol.cpp) and the input back end of the program in the     *)
(* foreground (input_backend.cpp), which follows contact 0 alone.          *)
(*                                                                         *)
(* Page, native module, router and program each remember which contacts    *)
(* there are.  The foreground changes, the session is started again, the   *)
(* page is hidden and frames grow old between any two of their steps.      *)
(* Coordinates are left out: every component checks the same bounds.       *)
(***************************************************************************)
EXTENDS Integers, Sequences, FiniteSets

CONSTANTS
    Fingers,        \* identifiers of touches
    Contacts,       \* MAX_CONTACTS, the ids there are
    Capacity,       \* frames the socket holds
    MaxSequence,    \* bound on the frames of one session
    MaxSwitches,    \* bound on changes of the foreground and new sessions
    MaxFaults       \* bound on late frames and failed sends

TouchAssumption == IsFiniteSet(Fingers) /\ Contacts \subseteq Nat /\ MaxSwitches \in Nat

VARIABLES
    down,           \* fingers on the screen
    slots,          \* contactSlots: the contact of each finger the page follows
    inputReady,     \* of the page, as of its last poll
    touchNonce, touchSequence,               \* of the native module
    wire,           \* frames in the touch socket
    nonce, ready,   \* session.status: which session, and whether a program presents
    lastSequence, contacts,                  \* TouchSequenceGuard, TouchContactGuard
    queue, pressed, \* the program: its socket and its pointer
    switches, faults,
    missed,         \* history: an end was lost since the program started
    deaf            \* history: starts refused in a row, per contact

user   == <<down>>
pageT  == <<slots, inputReady>>
native == <<touchNonce, touchSequence, wire>>
router == <<lastSequence, contacts>>
child  == <<queue, pressed>>
vars   == <<user, pageT, native, nonce, ready, router, child, switches, faults, missed, deaf>>

Init ==
    /\ down = {} /\ slots = <<>> /\ inputReady = FALSE
    /\ touchNonce = 0 /\ touchSequence = 0 /\ wire = <<>>
    /\ nonce = 1 /\ ready = FALSE
    /\ lastSequence = 0 /\ contacts = {}
    /\ queue = <<>> /\ pressed = FALSE
    /\ switches = 0 /\ faults = 0
    /\ missed = FALSE /\ deaf = [c \in Contacts |-> 0]

Fault == faults < MaxFaults /\ faults' = faults + 1

-----------------------------------------------------------------------------
(* Launcher::sendTouch.  It reads the status anew for every frame. *)

\* Wrong variant: a new session is not noticed.
TouchNonce_Old == IF touchNonce = 0 THEN nonce ELSE touchNonce

\* The nonce and the last sequence number after readStatus.
TouchNonce == nonce
TouchSequence == IF touchNonce # TouchNonce THEN 0 ELSE touchSequence

\* The frames are sent: each has the next number.  A full socket blocks the page.
Sent(frames) ==
    /\ ready
    /\ Len(wire) + Len(frames) <= Capacity
    /\ TouchSequence + Len(frames) <= MaxSequence
    /\ touchNonce' = TouchNonce
    /\ touchSequence' = TouchSequence + Len(frames)
    /\ wire' = wire \o [i \in DOMAIN frames |->
                           [nonce |-> TouchNonce, sequence |-> TouchSequence + i,
                            phase |-> frames[i].phase, contact |-> frames[i].contact]]

\* No frame is sent; the status has been read all the same.
NotSent ==
    /\ touchNonce' = TouchNonce /\ touchSequence' = TouchSequence
    /\ UNCHANGED wire

-----------------------------------------------------------------------------
(* The page *)

Followed == DOMAIN slots

\* The orders in which the keys of an object may come.
Orders(fingers) ==
    {s \in [1..Cardinality(fingers) -> fingers] : fingers = {s[i] : i \in DOMAIN s}}

\* One frame for each of the fingers, with its contact.
SentFor(phase, contactSlots, fingers) ==
    \E s \in Orders(fingers) :
        Sent([i \in DOMAIN s |-> [phase |-> phase, contact |-> contactSlots[s[i]]]])

\* allocateContact: a finger keeps the contact it has, or gets the first that is free.
Free == {c \in Contacts : \A f \in Followed : slots[f] # c}
CanAllocate(f) == f \in Followed \/ Free # {}
Allocated(f) ==
    IF f \in Followed THEN slots[f] ELSE CHOOSE c \in Free : \A d \in Free : c <= d

With(f) == [g \in Followed \cup {f} |-> IF g = f THEN Allocated(f) ELSE slots[g]]
Without(fingers) == [f \in Followed \ fingers |-> slots[f]]

\* Wrong variant: the page forgets its contacts and tells nobody.
cancelTouches_Silent(contactSlots) == slots' = <<>> /\ NotSent /\ UNCHANGED missed

\* cancelTouches: the contacts are forgotten whether or not the frames get through.
\* A contact whose start was not sent is cancelled like the others.
cancelTouches(contactSlots) ==
    /\ slots' = <<>>
    /\ \/ SentFor("cancel", contactSlots, DOMAIN contactSlots) /\ UNCHANGED missed
       \/ ~ready /\ NotSent /\ missed' = (missed \/ Followed # {})

\* forwardTouches without inputReady.
Ignored == ~inputReady /\ UNCHANGED <<pageT, native, faults>>

\* forwardTouches, when the native module refuses a frame: input is switched off.
\* (What a move sends before the refused frame is undone by the cancel, and left out.)
Refused(contactSlots) ==
    /\ inputReady
    /\ inputReady' = FALSE
    /\ \/ ~ready /\ UNCHANGED faults
       \/ ready /\ Fault
    /\ cancelTouches(contactSlots)

\* The same when MAX_CONTACTS fingers are followed already.
TooManyTouches ==
    /\ inputReady
    /\ inputReady' = FALSE
    /\ cancelTouches(slots)
    /\ UNCHANGED faults

onTouchStart ==
    \E f \in Fingers \ down :
        /\ down' = down \cup {f}
        /\ \/ Ignored /\ UNCHANGED missed
           \/ ~CanAllocate(f) /\ TooManyTouches
           \/ CanAllocate(f) /\ Refused(With(f))
           \/ /\ inputReady /\ CanAllocate(f)
              /\ SentFor("start", With(f), {f})
              /\ slots' = With(f)
              /\ UNCHANGED <<inputReady, faults, missed>>
        /\ UNCHANGED <<nonce, ready, router, child, switches, deaf>>

\* A move reports every finger on the screen.
onTouchMove ==
    /\ down # {}
    /\ inputReady /\ Followed \cap down # {}
    /\ \/ Refused(slots)
       \/ SentFor("move", slots, Followed \cap down) /\ UNCHANGED <<pageT, faults, missed>>
    /\ UNCHANGED <<user, nonce, ready, router, child, switches, deaf>>

onTouchEnd ==
    \E f \in down :
        /\ down' = down \ {f}
        /\ \/ Ignored /\ missed' = (missed \/ f \in Followed)
           \/ Refused(slots)
           \/ /\ inputReady /\ f \in Followed
              /\ SentFor("end", slots, {f})
              /\ slots' = Without({f})
              /\ UNCHANGED <<inputReady, faults, missed>>
           \/ /\ inputReady /\ f \notin Followed
              /\ UNCHANGED <<pageT, native, faults, missed>>
        /\ UNCHANGED <<nonce, ready, router, child, switches, deaf>>

onTouchCancel ==
    /\ down # {}
    /\ down' = {}
    /\ cancelTouches(slots)
    /\ UNCHANGED <<inputReady, nonce, ready, router, child, switches, faults, deaf>>

onHide ==
    /\ inputReady
    /\ inputReady' = FALSE
    /\ down' = {}
    /\ cancelTouches(slots)
    /\ UNCHANGED <<nonce, ready, router, child, switches, faults, deaf>>

\* applyStatus after a poll
Polled ==
    /\ inputReady # ready
    /\ inputReady' = ready
    /\ touchNonce' = TouchNonce /\ touchSequence' = TouchSequence
    /\ UNCHANGED <<user, slots, wire, nonce, ready, router, child, switches, faults, missed, deaf>>

-----------------------------------------------------------------------------
(* lvgl-sessiond *)

\* The contacts after an accepted frame.
Accepted(frame) ==
    IF frame.phase \in {"end", "cancel"} THEN contacts \ {frame.contact}
    ELSE contacts \cup {frame.contact}

\* TouchContactGuard::accept
ContactFits(frame) == (frame.phase = "start") <=> (frame.contact \notin contacts)

\* TouchSequenceGuard::accept
SequenceFits(frame) == frame.nonce = nonce /\ frame.sequence > lastSequence

TooOld(frame) ==
    /\ Fault
    /\ missed' = TRUE
    /\ deaf' = [deaf EXCEPT ![frame.contact] = 0]
    /\ UNCHANGED <<router, child>>

\* TouchRouter::route, and the frame's copy to the program.  Only a program that
\* has presented is served.
Route ==
    /\ ready /\ wire # <<>>
    /\ wire' = Tail(wire)
    /\ LET frame == Head(wire)
       IN \/ TooOld(frame)
          \/ /\ ~SequenceFits(frame)
             /\ UNCHANGED <<router, child, faults, missed, deaf>>
          \/ /\ SequenceFits(frame) /\ ~ContactFits(frame)
             /\ lastSequence' = frame.sequence
             /\ deaf' = [deaf EXCEPT ![frame.contact] = IF frame.phase = "start" THEN @ + 1 ELSE @]
             /\ UNCHANGED <<contacts, child, faults, missed>>
          \/ /\ SequenceFits(frame) /\ ContactFits(frame)
             /\ lastSequence' = frame.sequence
             /\ contacts' = Accepted(frame)
             /\ queue' = Append(queue, frame)
             /\ deaf' = [deaf EXCEPT ![frame.contact] = IF frame.phase = "start" THEN 0 ELSE @]
             /\ UNCHANGED <<pressed, faults, missed>>
    /\ UNCHANGED <<user, pageT, touchNonce, touchSequence, nonce, ready, switches>>

\* Another program comes to the foreground; the router goes on as it is.
SwitchBegins ==
    /\ ready /\ switches < MaxSwitches
    /\ switches' = switches + 1
    /\ ready' = FALSE
    /\ queue' = <<>> /\ pressed' = FALSE
    /\ missed' = (missed /\ wire # <<>>)
    /\ deaf' = [c \in Contacts |-> 0]
    /\ UNCHANGED <<user, pageT, native, nonce, router, faults>>

ProgramPresents ==
    /\ ~ready
    /\ ready' = TRUE
    /\ UNCHANGED <<user, pageT, native, nonce, router, child, switches, faults, missed, deaf>>

\* The session ends and Launcher::start forks the next one: a new socket and a new
\* router, and the native module forgets the nonce it had, or has seen none.
NewSession ==
    /\ ~ready /\ nonce <= MaxSwitches
    /\ nonce' = nonce + 1
    /\ wire' = <<>>
    /\ lastSequence' = 0 /\ contacts' = {}
    /\ \/ touchNonce' = 0 /\ touchSequence' = 0
       \/ UNCHANGED <<touchNonce, touchSequence>>    \* somebody else has started it
    /\ UNCHANGED <<user, pageT, ready, child, switches, faults, missed, deaf>>

-----------------------------------------------------------------------------
(* The program *)

\* poll_forwarded: all there is; what counts is the last frame of contact 0.
Pressed ==
    \/ pressed /\ \A i \in DOMAIN queue : queue[i].contact # 0
    \/ \E i \in DOMAIN queue :
          /\ queue[i].contact = 0 /\ queue[i].phase \in {"start", "move"}
          /\ \A j \in DOMAIN queue : j > i => queue[j].contact # 0

ProgramReads ==
    /\ queue # <<>>
    /\ queue' = <<>>
    /\ pressed' = Pressed
    /\ UNCHANGED <<user, pageT, native, nonce, ready, router, switches, faults, missed, deaf>>

Next ==
    \/ onTouchStart \/ onTouchMove \/ onTouchEnd \/ onTouchCancel \/ onHide \/ Polled
    \/ Route \/ SwitchBegins \/ ProgramPresents \/ NewSession
    \/ ProgramReads

Spec == Init /\ [][Next]_vars

-----------------------------------------------------------------------------
(* Properties *)

\* Whatever is in the socket is of this session, newer than what was routed, and in
\* order: sessiond never refuses a frame of the launcher as replayed or foreign
\* (TouchSequenceGuard).  A contact that the router still has from another program
\* swallows one start at most: the gesture that was refused sets it right.  And with
\* no finger on the screen and nothing under way the program's pointer is not
\* pressed.  The last two unless an end was lost on the way (TouchContactGuard,
\* cancelTouches).
GesturesHeal ==
    /\ \A i \in DOMAIN wire :
        /\ SequenceFits(wire[i])
        /\ i > 1 => wire[i].sequence > wire[i - 1].sequence
    /\ ~missed => \A c \in Contacts : deaf[c] <= 1
    /\ ~missed /\ down = {} /\ wire = <<>> /\ queue = <<>> => ~pressed

\* Why: the numbers in the socket lie between what the router has seen and what the
\* native module has given, all of them under the nonce of the session.
Numbered(w, session, low, top) ==
    \A i \in DOMAIN w :
        /\ w[i].nonce = session
        /\ low < w[i].sequence /\ w[i].sequence <= top
        /\ \A j \in 1..(i - 1) : w[j].sequence < w[i].sequence

OrderInv ==
    /\ {nonce, touchNonce, touchSequence, lastSequence} \subseteq Nat
    /\ touchNonce <= nonce
    /\ touchNonce # nonce => wire = <<>> /\ lastSequence = 0
    /\ touchNonce = nonce => lastSequence <= touchSequence
    /\ Numbered(wire, nonce, lastSequence, touchSequence)

Phases == {"start", "move", "end", "cancel"}
Wired  == [nonce : Nat, sequence : Nat, phase : Phases, contact : Contacts]

TouchTypes ==
    /\ wire \in Seq(Wired) /\ queue \in Seq(Wired)
    /\ down \subseteq Fingers /\ Followed \subseteq Fingers
    /\ \A f \in Followed : slots[f] \in Contacts
    /\ \A f, g \in Followed : slots[f] = slots[g] => f = g
    /\ contacts \subseteq Contacts /\ deaf \in [Contacts -> Nat]
    /\ {ready, inputReady, missed, pressed} \subseteq BOOLEAN
    /\ ~ready => queue = <<>> /\ ~pressed

\* About the frames of one contact in the socket.
Starts(frame, c) == frame.contact = c /\ frame.phase = "start"
Ends(frame, c)   == frame.contact = c /\ frame.phase \in {"end", "cancel"}
NoneOf(w, c)  == \A i \in DOMAIN w : w[i].contact # c
\* the gesture under way, if any, ends in w
EndsIn(w, c)  == \A i \in DOMAIN w : w[i].contact = c => \E k \in i..Len(w) : Ends(w[k], c)
\* a start comes after an end of what was before it
EndFirst(w, c)    == \A j \in DOMAIN w : Starts(w[j], c) => \E k \in 1..(j - 1) : Ends(w[k], c)
Alternating(w, c) == \A i, j \in DOMAIN w :
    i < j /\ w[i].contact = c /\ Starts(w[j], c) => \E k \in i..(j - 1) : Ends(w[k], c)

\* A finger has this contact; it is on the screen; it is not, its end was lost.
Follows(c) == \E f \in Followed : slots[f] = c
Held(c)    == \E f \in Followed \cap down : slots[f] = c
Loose(c)   == \E f \in Followed \ down : slots[f] = c

\* The gestures of a contact follow each other: one that the page follows is under
\* way in the socket or held, one that it does not follow has ended there.  So the
\* router, if it refused a start, finds an end before the next.
ContactInv(c) ==
    /\ ~Follows(c) => EndsIn(wire, c)
    /\ Loose(c) => NoneOf(wire, c)
    /\ Alternating(wire, c)
    /\ deaf[c] <= 1
    /\ deaf[c] = 1 /\ c \in contacts =>
         EndFirst(wire, c) /\ (NoneOf(wire, c) => Held(c))

PressInv == Pressed => 0 \in contacts /\ (NoneOf(wire, 0) => Held(0))

GestureInv == ~missed => PressInv /\ \A c \in Contacts : ContactInv(c)

TouchInv == TouchTypes /\ OrderInv /\ GestureInv
=============================================================================
