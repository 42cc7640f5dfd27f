---------------------------- MODULE DisplayPath ----------------------------
(***************************************************************************)
(* The picture of a program: DrmBackend in the program, the DRM descriptor *)
(* that lvgl-sessiond opens for it (overlay mode) and the system call      *)
(* filter the runtime installs after the backend is open.                  *)
(*                                                                         *)
(* In overlay mode the descriptor is opened by the daemon, one for each    *)
(* program, and the framebuffers belong to the open file, not to the       *)
(* process: what a killed program leaves on the plane goes when the daemon *)
(* closes its own copy.  Without overlay variables (development) the       *)
(* program opens the device itself and takes the CRTC by mode setting and  *)
(* page flips.  The kernel's side (vertical blank, removal of a shown      *)
(* framebuffer, last close) is external.                                   *)
(***************************************************************************)
EXTENDS Integers, FiniteSets

CONSTANTS MaxPrograms,      \* bound: programs started one after the other
          MaxFrames,        \* bound: frames presented by one program
          kMaxPageFlipRecoveries

VARIABLES overlay,          \* overlay_mode: the environment names a plane
          sandboxed,        \* LVGL_SANDBOX_REQUIRED=1 (not in a personal profile)
          phase,            \* of the program, see Phases
          program,          \* number of programs started
          holders,          \* processes that hold the open DRM file
          active,           \* active_buffer
          drawing,          \* buffer being written, or -1
          modeset,          \* modeset_done
          flipPending,      \* flip_pending
          recoveries,       \* page_flip_recoveries
          shown,            \* kernel: what the plane or the CRTC scans out
          queued,           \* kernel: framebuffer of the flip in flight
          flipEvent,        \* kernel: completion event waiting to be read
          frames,           \* history: frames begun by this program
          killedByFilter    \* history: the filter met a request it does not allow

vars == <<overlay, sandboxed, phase, program, holders, active, drawing, modeset,
          flipPending, recoveries, shown, queued, flipEvent, frames, killedByFilter>>

Phases == {"none", "opened", "ready", "drawn", "waiting", "closing", "gone"}
Before == <<0, "before">>      \* Falcon's picture: the plane off, the CRTC as saved
Black == <<0, "black">>        \* the CRTC without a framebuffer
Fb(b) == <<program, b>>
None == <<0, "none">>

-----------------------------------------------------------------------------
\* install_aarch64_filter: the requests allowed on the DRM descriptor and the
\* plain system calls the display path makes.
DrmRequests == {"SETPLANE", "RMFB", "DESTROY_DUMB"}
PlainCalls == {"ppoll", "read", "munmap", "close", "openat_readonly", "sendto", "recvmsg"}
PolicyAllows(calls) == calls \subseteq DrmRequests \cup PlainCalls

\* Calls made with the filter installed kill the process unless it allows them.
Filtered(calls) == sandboxed /\ phase \in {"ready", "drawn", "waiting", "closing"}
                   /\ ~PolicyAllows(calls)

Init == /\ overlay \in BOOLEAN
        /\ sandboxed \in {FALSE, overlay}
        /\ phase = "none" /\ program = 0 /\ holders = {}
        /\ active = -1 /\ drawing = -1 /\ modeset = FALSE /\ flipPending = FALSE
        /\ recoveries = 0 /\ shown = Before /\ queued = None /\ flipEvent = FALSE
        /\ frames = 0 /\ killedByFilter = FALSE

\* Framebuffers removed by the kernel: a plane goes off, a CRTC goes dark.
Removed(picture) ==
    IF picture[1] = program /\ picture # Before THEN (IF overlay THEN Before ELSE Black) ELSE picture

\* The last holder of the open file is gone: everything of this program goes.
LastClose(rest) ==
    /\ holders' = rest
    /\ shown' = IF rest = {} THEN Removed(shown) ELSE shown
    /\ queued' = IF rest = {} THEN None ELSE queued
    /\ flipEvent' = IF rest = {} THEN FALSE ELSE flipEvent

-----------------------------------------------------------------------------
(* The daemon: run_program opens the device for each program and drops its *)
(* copy when the program has been reaped and run_program returns.          *)

StartProgram ==
    /\ phase = "none" /\ program < MaxPrograms
    /\ program' = program + 1
    /\ holders' = {"program"} \cup (IF overlay THEN {"daemon"} ELSE {})
    /\ phase' = "opened"
    /\ active' = -1 /\ drawing' = -1 /\ modeset' = FALSE /\ flipPending' = FALSE
    /\ recoveries' = 0 /\ frames' = 0
    /\ UNCHANGED <<overlay, sandboxed, shown, queued, flipEvent, killedByFilter>>

\* Wrong variant: run_program returns and its descriptor stays open.
RunProgramReturns_Leaks ==
    /\ phase = "gone"
    /\ phase' = "none"
    /\ UNCHANGED <<overlay, sandboxed, program, holders, active, drawing, modeset,
                   flipPending, recoveries, shown, queued, flipEvent, frames, killedByFilter>>

RunProgramReturns ==
    /\ phase = "gone"
    /\ phase' = "none"
    /\ LastClose({})
    /\ UNCHANGED <<overlay, sandboxed, program, active, drawing, modeset,
                   flipPending, recoveries, frames, killedByFilter>>

-----------------------------------------------------------------------------
(* The program.                                                             *)

\* DrmBackend::open succeeds (capabilities, target, two buffers) and the
\* sandbox is installed; or one of them fails and the destructor closes.
OpenSucceeds ==
    /\ phase = "opened"
    /\ phase' = "ready"
    /\ UNCHANGED <<overlay, sandboxed, program, holders, active, drawing, modeset,
                   flipPending, recoveries, shown, queued, flipEvent, frames, killedByFilter>>

OpenFails ==
    /\ phase = "opened"
    /\ phase' = "gone"
    /\ LastClose(holders \ {"program"})
    /\ UNCHANGED <<overlay, sandboxed, program, active, drawing, modeset,
                   flipPending, recoveries, frames, killedByFilter>>

\* present_logical: the frame is copied into the buffer that is not active.
NextBuffer == IF active = 0 THEN 1 ELSE 0

Draw ==
    /\ phase = "ready" /\ frames < MaxFrames
    /\ phase' = "drawn"
    /\ drawing' = NextBuffer
    /\ frames' = frames + 1
    /\ UNCHANGED <<overlay, sandboxed, program, holders, active, modeset, flipPending,
                   recoveries, shown, queued, flipEvent, killedByFilter>>

\* The picture is on the screen when the call returns.
Presented ==
    /\ phase' = "ready"
    /\ shown' = Fb(drawing) /\ active' = drawing /\ drawing' = -1
    /\ modeset' = TRUE
    /\ UNCHANGED <<overlay, sandboxed, program, holders, flipPending, queued, flipEvent,
                   frames>>

\* A failed present ends the runtime's loop.
PresentFails ==
    /\ phase' = "closing"
    /\ drawing' = -1
    /\ UNCHANGED <<overlay, sandboxed, program, holders, active, modeset, flipPending,
                   recoveries, shown, queued, flipEvent, frames, killedByFilter>>

SubmitOverlay ==
    /\ phase = "drawn" /\ overlay
    /\ \/ Presented /\ UNCHANGED recoveries
          /\ killedByFilter' = (killedByFilter \/ Filtered({"SETPLANE"}))
       \/ PresentFails

SubmitFirst ==
    /\ phase = "drawn" /\ ~overlay /\ ~modeset
    /\ \/ Presented /\ UNCHANGED <<recoveries, killedByFilter>>
       \/ PresentFails

SubmitFlip ==
    /\ phase = "drawn" /\ ~overlay /\ modeset
    /\ \/ phase' = "waiting" /\ flipPending' = TRUE /\ queued' = Fb(drawing)
          /\ UNCHANGED <<overlay, sandboxed, program, holders, active, drawing, modeset,
                         recoveries, shown, flipEvent, frames, killedByFilter>>
       \/ PresentFails

\* Wrong variant: active_buffer is not updated after the recovery.
RecoverFlip_KeepsActive ==
    /\ phase = "drawn" /\ ~overlay /\ modeset /\ recoveries < kMaxPageFlipRecoveries
    /\ phase' = "ready" /\ shown' = Fb(drawing) /\ drawing' = -1
    /\ recoveries' = recoveries + 1
    /\ UNCHANGED <<overlay, sandboxed, program, holders, active, modeset, flipPending,
                   queued, flipEvent, frames, killedByFilter>>

\* The flip is refused with EINVAL and the mode is set again, once.
RecoverFlip ==
    /\ phase = "drawn" /\ ~overlay /\ modeset /\ recoveries < kMaxPageFlipRecoveries
    /\ Presented
    /\ recoveries' = recoveries + 1
    /\ UNCHANGED killedByFilter

\* wait_for_flip reads the event, or times out after a second (or is
\* interrupted by a signal): the flag stays set and the present fails.
FlipDone ==
    /\ phase = "waiting" /\ flipEvent
    /\ flipEvent' = FALSE /\ flipPending' = FALSE
    /\ phase' = "ready" /\ active' = drawing /\ drawing' = -1
    /\ UNCHANGED <<overlay, sandboxed, program, holders, modeset, recoveries, shown,
                   queued, frames, killedByFilter>>

FlipTimeout ==
    /\ phase = "waiting" /\ ~flipEvent
    /\ PresentFails

\* The runtime's loop ends (stop requested, signal, time limit).
Stop ==
    /\ phase = "ready"
    /\ phase' = "closing"
    /\ UNCHANGED <<overlay, sandboxed, program, holders, active, drawing, modeset,
                   flipPending, recoveries, shown, queued, flipEvent, frames, killedByFilter>>

\* close(): waits for a pending flip (the result is ignored), gives the plane
\* or the CRTC back (so is that result), removes the buffers.
GivenBack(ok) ==
    LET restored == IF ok /\ (~overlay \/ modeset) THEN Before ELSE shown
    IN  IF restored = Before THEN Before ELSE Removed(shown)

CloseCalls == {"munmap", "close", "RMFB", "DESTROY_DUMB"}
              \cup (IF overlay /\ modeset THEN {"SETPLANE"} ELSE {})

Close(ok) ==
    /\ phase = "closing"
    /\ phase' = "gone"
    /\ killedByFilter' = (killedByFilter \/ Filtered(CloseCalls))
    /\ shown' = IF Filtered(CloseCalls) THEN shown ELSE GivenBack(ok)
    /\ queued' = None /\ flipEvent' = FALSE /\ flipPending' = FALSE
    /\ holders' = holders \ {"program"}
    /\ UNCHANGED <<overlay, sandboxed, program, active, drawing, modeset, recoveries, frames>>

\* The process is killed: resource limits, SIGKILL of the daemon, a crash.
Kill ==
    /\ phase \notin {"none", "gone"}
    /\ phase' = "gone"
    /\ LastClose(holders \ {"program"})
    /\ UNCHANGED <<overlay, sandboxed, program, active, drawing, modeset, flipPending,
                   recoveries, frames, killedByFilter>>

-----------------------------------------------------------------------------
\* The kernel completes the flip at the next vertical blank.
VBlank ==
    /\ queued # None
    /\ shown' = queued /\ queued' = None /\ flipEvent' = TRUE
    /\ UNCHANGED <<overlay, sandboxed, phase, program, holders, active, drawing, modeset,
                   flipPending, recoveries, frames, killedByFilter>>

Next == \/ StartProgram \/ RunProgramReturns
        \/ OpenSucceeds \/ OpenFails
        \/ Draw \/ SubmitOverlay \/ SubmitFirst \/ SubmitFlip \/ RecoverFlip
        \/ FlipDone \/ FlipTimeout \/ Stop \/ (\E ok \in BOOLEAN : Close(ok)) \/ Kill
        \/ VBlank

Spec == Init /\ [][Next]_vars

-----------------------------------------------------------------------------
\* A frame is never copied into the buffer the screen shows, nor into one
\* whose flip is still in flight (active_buffer after a mode set, a flip, a
\* recovered flip).
NeverDrawOnScreen ==
    phase = "drawn" => Fb(drawing) \notin {shown, queued}

\* Between programs nothing of the last one is left on Falcon's screen,
\* however it ended: closed, failed to open, or killed while its picture was
\* shown (close, and the descriptor run_program drops).
PictureHasOwner == phase = "none" => shown \in {Before, Black} /\ (overlay => shown = Before)

\* The filter lets the display path finish what it does after the sandbox is
\* installed, releasing its buffers included.
NotKilledByFilter == ~killedByFilter

-----------------------------------------------------------------------------
\* The inductive invariant.  What the screen shows or will show belongs to this
\* program or to nobody; a program that may draw has no flip in flight and the
\* buffer on the screen is its active one.
DisplayInv ==
    /\ phase \in Phases /\ program \in Nat /\ (phase # "none" => program # 0)
    /\ active \in {-1, 0, 1} /\ drawing \in {-1, 0, 1}
    /\ shown \in {Before, Black, Fb(0), Fb(1)} /\ queued \in {None, Fb(0), Fb(1)}
    /\ overlay => shown # Black /\ queued = None
    /\ phase \in {"none", "opened"} =>
          shown \in {Before, Black} /\ queued = None /\ ~flipEvent
    /\ phase \in {"ready", "drawn"} =>
          shown \in {Before, Black, Fb(active)} /\ queued = None /\ ~flipEvent
    /\ phase = "drawn" => drawing = NextBuffer
    /\ phase = "waiting" =>
          /\ drawing # -1 /\ ~overlay
          /\ flipEvent => shown = Fb(drawing) /\ queued = None
          /\ ~flipEvent => queued = Fb(drawing)
=============================================================================
