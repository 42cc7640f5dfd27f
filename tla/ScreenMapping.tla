---------------------------- MODULE ScreenMapping ---------------------------
(***************************************************************************)
(* Where a pixel is drawn and what a finger on it means: the device        *)
(* profile (parse_device_profile and its two mappings), the fixed profile  *)
(* of the development programs, and the raw touch path they use:           *)
(* evdev_inject writes events, the kernel drops what changes nothing, and  *)
(* InputBackend::poll scales and reads whatever has arrived.  The panel    *)
(* has not been touched before the program opens it.                       *)
(***************************************************************************)
EXTENDS Integers, Sequences

CONSTANTS
    Sizes,        \* sizes of a logical and a physical screen, [width, height]
    Offsets,      \* offsets of a transform
    Ranges,       \* what EVIOCGABS may say of the two axes, [x, y] of [low, high]
    Screen,       \* the fixed profile: its logical and physical size
    DisplayOffset, TouchOffset,   \* display_ and touch_cross_axis_offset
    MaxUnread     \* bound: unread events when the next tap begins

\* read_size, read_transform; and on the fixed screen every logical pixel has a place
\* on the touch panel (kY01Profile).
Extents == [width : Nat \ {0}, height : Nat \ {0}]

Range(low, high) == [low |-> low, high |-> high]

MappingAssumption ==
    /\ Sizes \subseteq Extents /\ Offsets \subseteq Int
    /\ Screen \in [logical : Extents, physical : Extents]
    /\ \A r \in Ranges : /\ r = [x |-> Range(r.x.low, r.x.high), y |-> Range(r.y.low, r.y.high)]
                        /\ {r.x.low, r.x.high, r.y.low, r.y.high} \subseteq Int
    /\ DisplayOffset \in Int /\ TouchOffset \in Nat \ {0}
    /\ TouchOffset + Screen.logical.height <= Screen.physical.width
    /\ Screen.logical.width <= Screen.physical.height

VARIABLES
    profile,      \* the device profile in use, NoProfile for the development programs
    tool,         \* evdev_inject: what it still has to write
    target,       \* the logical point it taps
    axes,         \* InputBackend: min_ and max_ of x and y
    kernel,       \* the last value of each axis
    queue,        \* events not yet read
    pointer       \* InputBackend: the raw position, the point it means, and pressed

vars == <<profile, tool, target, axes, kernel, queue, pointer>>

Point(x, y) == [x |-> x, y |-> y]
Points(size) == {Point(x, y) : x \in 0..(size.width - 1), y \in 0..(size.height - 1)}
Inside(point, size) == point \in Points(size)

Transforms == [degrees : {0, 90, 180, 270}, x : Offsets, y : Offsets]
Profiles   == [logical : Sizes, physical : Sizes, display : Transforms, touch : Transforms]
NoProfile  == [logical |-> Screen.logical]

-----------------------------------------------------------------------------
(* The mappings of a device profile.                                       *)

clamp_axis(value, length) == IF value < 0 THEN 0 ELSE IF value >= length THEN length - 1 ELSE value

Clamped(point, size) == Point(clamp_axis(point.x, size.width), clamp_axis(point.y, size.height))

rotate_logical(point, size, t) ==
    LET p == Clamped(point, size)
        w == size.width - 1
        h == size.height - 1
    IN CASE t.degrees = 0   -> Point(t.x + p.x, t.y + p.y)
         [] t.degrees = 90  -> Point(t.x + h - p.y, t.y + p.x)
         [] t.degrees = 180 -> Point(t.x + w - p.x, t.y + h - p.y)
         [] t.degrees = 270 -> Point(t.x + p.y, t.y + w - p.x)

inverse_rotate(point, size, t) ==
    LET x == point.x - t.x
        y == point.y - t.y
        w == size.width - 1
        h == size.height - 1
    IN Clamped(CASE t.degrees = 0   -> Point(x, y)
                 [] t.degrees = 90  -> Point(y, h - x)
                 [] t.degrees = 180 -> Point(w - x, h - y)
                 [] t.degrees = 270 -> Point(w - y, x), size)

Corners(size) == {Point(x, y) : x \in {0, size.width - 1}, y \in {0, size.height - 1}}

physical_touch_to_logical(raw, p) == inverse_rotate(raw, p.logical, p.touch)

\* Wrong variant: only the first corner is looked at.
Accepted_Origin(p) == Inside(rotate_logical(Point(0, 0), p.logical, p.display), p.physical)

\* parse_device_profile accepts a complete profile whose corners are on the screen.
\* It reads the transform of the touch panel and compares it with nothing.
Accepted(p) ==
    \A c \in Corners(p.logical) : Inside(rotate_logical(c, p.logical, p.display), p.physical)

-----------------------------------------------------------------------------
(* The fixed profile of the development programs.                          *)

Logical  == Screen.logical
Physical == Screen.physical

logical_to_physical(point) ==
    LET p == Clamped(point, Logical) IN Point(DisplayOffset + p.y, Logical.width - 1 - p.x)

\* Wrong variant: the offset of the display is taken for that of the touch panel.
raw_touch_to_logical_DisplayOffset(raw) ==
    Clamped(Point(Physical.height - 1 - raw.y, raw.x - DisplayOffset), Logical)

raw_touch_to_logical(raw) ==
    Clamped(Point(Physical.height - 1 - raw.y, raw.x - TouchOffset), Logical)

\* InputBackend::open takes the range of both axes from the panel, or, where one of
\* them is not to be had or is empty (read_axis), the size of the screen.
ByScreen == [x |-> Range(0, Physical.width), y |-> Range(0, Physical.height)]
Opened(r) == IF r.x.high > r.x.low /\ r.y.high > r.y.low THEN r ELSE ByScreen

\* Division as C++ rounds it, for d > 0.
Quotient(n, d) == IF n >= 0 THEN n \div d ELSE -((-n) \div d)

Scaled(raw, axis, size) == Quotient((raw - axis.low) * size, axis.high - axis.low)

map_raw(raw) ==
    raw_touch_to_logical(Point(Scaled(raw.x, axes.x, Physical.width),
                               Scaled(raw.y, axes.y, Physical.height)))

-----------------------------------------------------------------------------
(* evdev_inject.                                                           *)

Event(code, value) == [code |-> code, value |-> value]

point(p) ==
    LET bounded(v, top) == IF v < 0 THEN 0 ELSE IF v > top THEN top ELSE v
    IN <<Event("x", bounded(p.y + TouchOffset, Physical.width)),
         Event("y", bounded(Physical.height - 1 - p.x, Physical.height))>>

contact(pressed) == <<Event("id", IF pressed THEN 1 ELSE -1), Event("touch", IF pressed THEN 1 ELSE 0)>>

TapEvents(p) == contact(TRUE) \o point(p) \o <<Event("hold", 0)>> \o contact(FALSE)

\* tap: the contact goes down where the last one ended, then moves.
Tap(p) ==
    /\ tool = <<>>
    /\ Len(queue) <= MaxUnread
    /\ profile = NoProfile
    /\ tool' = TapEvents(p)
    /\ target' = p
    /\ UNCHANGED <<profile, axes, kernel, queue, pointer>>

\* An event that does not change its axis is not passed on.
Emit ==
    /\ tool # <<>>
    /\ tool' = Tail(tool)
    /\ LET e == Head(tool)
       IN IF e.code = "hold" \/ kernel[e.code] = e.value
          THEN UNCHANGED <<kernel, queue>>
          ELSE /\ kernel' = [kernel EXCEPT ![e.code] = e.value]
               /\ queue' = Append(queue, e)
    /\ UNCHANGED <<profile, target, axes, pointer>>

IsDown(e) == (e.code = "id" /\ e.value >= 0) \/ (e.code = "touch" /\ e.value # 0)

\* InputBackend::poll takes every event that has arrived; modelled one at a time.
PollOne ==
    /\ queue # <<>>
    /\ queue' = Tail(queue)
    /\ LET e   == Head(queue)
           raw == [pointer.raw EXCEPT ![e.code] = e.value]
       IN pointer' = IF e.code \in {"x", "y"}
                     THEN [pointer EXCEPT !.raw = raw, !.point = map_raw(raw)]
                     ELSE [pointer EXCEPT !.pressed = IsDown(e)]
    /\ UNCHANGED <<profile, tool, target, axes, kernel>>

Untouched == [raw |-> Point(0, 0), point |-> Point(0, 0), pressed |-> FALSE]

\* parse_device_profile and select_device_profile: one matching profile.  One that is
\* not accepted leaves everything as it is.
Parse(p) ==
    /\ profile = NoProfile
    /\ tool = <<>> /\ queue = <<>> /\ pointer = Untouched
    /\ Accepted(p)
    /\ profile' = p
    /\ UNCHANGED <<tool, target, axes, kernel, queue, pointer>>

Init ==
    /\ profile = NoProfile
    /\ tool = <<>>
    /\ target = Point(0, 0)
    /\ axes \in {ByScreen} \cup {Opened(r) : r \in Ranges}
    /\ kernel = [x |-> 0, y |-> 0, id |-> -1, touch |-> 0]
    /\ queue = <<>>
    /\ pointer = Untouched

Next ==
    \/ \E p \in Points(Logical) : Tap(p)
    \/ Emit \/ PollOne
    \/ \E p \in Profiles : Parse(p)

Spec == Init /\ [][Next]_vars

-----------------------------------------------------------------------------
(* Properties.                                                             *)

\* The panel counts pixels, to the last of them or to their number: the two ways in
\* which the range of an axis fits the screen.  evdev_inject writes pixels.
InPixels(axis, size) == axis.low = 0 /\ axis.high \in {size - 1, size}

\* With an accepted profile every logical pixel is drawn on the screen, no two on the
\* same place (the corner check of parse_device_profile speaks of four pixels only);
\* a touch where the panel's own transform puts a pixel means that pixel, also where
\* the two transforms differ, and any other touch some pixel of the screen.  And while
\* an injected tap is held and its events are read, the program sees a press on a
\* pixel of its screen, exactly the one that was asked for where the panel counts
\* pixels: at the edges map_raw scales one too far and the clamp takes it back.
TouchIsWhereDrawn ==
    /\ profile # NoProfile =>
         \A p, q \in Points(profile.logical) :
           LET shown == rotate_logical(p, profile.logical, profile.display)
               felt  == rotate_logical(p, profile.logical, profile.touch)
           IN /\ Inside(shown, profile.physical)
              /\ shown = rotate_logical(q, profile.logical, profile.display) => p = q
              /\ physical_touch_to_logical(felt, profile) = p
              /\ Inside(physical_touch_to_logical(shown, profile), profile.logical)
    /\ tool # <<>> /\ Head(tool).code = "hold" /\ queue = <<>> =>
         /\ pointer.pressed /\ Inside(pointer.point, Logical)
         /\ InPixels(axes.x, Physical.width) /\ InPixels(axes.y, Physical.height) =>
              pointer.point = target

\* Why: the kernel has what the tool has written so far, and the pointer will have it
\* when the events are read that are in the queue.
Codes == {"x", "y", "id", "touch"}

\* What an event says: a position, or whether the screen is touched.
Flag(b) == IF b THEN 1 ELSE 0
Said(e) == IF e.code \in {"x", "y"} THEN e.value ELSE Flag(IsDown(e))

\* What the events q leave of a value that is seen before them.
Leaves(q, codes, seen, value) ==
    \/ seen = value /\ \A i \in DOMAIN q : q[i].code \notin codes
    \/ \E i \in DOMAIN q :
          /\ q[i].code \in codes /\ Said(q[i]) = value
          /\ \A j \in DOMAIN q : j > i => q[j].code \notin codes

MappingTypes ==
    /\ profile # NoProfile => profile \in Profiles /\ Accepted(profile)
    /\ target \in Points(Logical)
    /\ queue \in Seq([code : Codes, value : Int])
    /\ kernel \in [x : Int, y : Int, id : Int, touch : Int]
    /\ pointer \in [raw : [x : Int, y : Int], point : Points(Logical), pressed : BOOLEAN]
    /\ axes = [x |-> Range(axes.x.low, axes.x.high), y |-> Range(axes.y.low, axes.y.high)]
    /\ {axes.x.low, axes.x.high, axes.y.low, axes.y.high} \subseteq Int
    /\ axes.x.high > axes.x.low /\ axes.y.high > axes.y.low

\* What is left to write is the end of a tap.
ToolInv ==
    /\ tool \in Seq([code : Codes \cup {"hold"}, value : Int]) /\ Len(tool) <= 7
    /\ \A i \in 1..Len(tool) : tool[i] = TapEvents(target)[7 - Len(tool) + i]

KernelInv ==
    /\ Len(tool) \in 2..6 => kernel.id = 1
    /\ Len(tool) = 1 => kernel.id = -1
    /\ Len(tool) \in 1..4 => kernel.x = target.y + TouchOffset
    /\ Len(tool) \in 1..3 => kernel.y = Physical.height - 1 - target.x

\* The point is that of the raw position from the first position on, which is none
\* at 0 because of TouchOffset.
PointerInv ==
    /\ pointer.raw # Point(0, 0) => pointer.point = map_raw(pointer.raw)
    /\ Leaves(queue, {"x"}, pointer.raw.x, kernel.x)
    /\ Leaves(queue, {"y"}, pointer.raw.y, kernel.y)
    /\ Leaves(queue, {"id", "touch"}, Flag(pointer.pressed), Flag(kernel.id >= 0))

MappingInv == MappingTypes /\ ToolInv /\ KernelInv /\ PointerInv
=============================================================================
