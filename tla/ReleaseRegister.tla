--------------------------- MODULE ReleaseRegister --------------------------
(***************************************************************************)
(* What the platform promises about one application's release state,       *)
(* without slots, directories or system calls: a register that changes     *)
(* only by activating a package the policy allows or by rolling back to    *)
(* the previous release, and that a crash can return only to a value that  *)
(* is no older than the last one reported persisted.  ReleaseStore, the    *)
(* two-slot store, implements this module.                                 *)
(***************************************************************************)
EXTENDS ReleaseState

CONSTANT Packages   \* packages of this application that may be presented

VARIABLES
    reg,              \* the release state a load returns, NoState if none
    may,              \* the values a power loss can leave in the register
    acked,            \* the last value reported persisted
    quarantinedEver   \* counters quarantined by a reported rollback

registerVars == <<reg, may, acked, quarantinedEver>>

Init ==
    /\ reg = NoState
    /\ may = {NoState}
    /\ acked = NoState
    /\ quarantinedEver = {}

Successors(s) ==
    ({activation_state_for(p, s) : p \in {q \in Packages : evaluate_install_policy(q, s)}}
        \cup {rollback_release(s, recordFailure) : recordFailure \in BOOLEAN}) \ {NoState}

\* The new value is visible and may or may not survive a power loss.
Advance ==
    /\ reg' \in Successors(reg)
    /\ may' = may \cup {reg'}
    /\ UNCHANGED <<acked, quarantinedEver>>

\* Older values are given up; the visible one is not.
Settle ==
    /\ may' \in SUBSET may
    /\ reg \in may'
    /\ UNCHANGED <<reg, acked, quarantinedEver>>

\* Success is reported, and only once nothing older can come back.
Report ==
    /\ reg # NoState
    /\ may' = {reg}
    /\ acked' = reg
    /\ quarantinedEver' = quarantinedEver \cup ({reg.quarantined} \ {0})
    /\ UNCHANGED reg

Crash ==
    /\ reg' \in may
    /\ may' = {reg'}
    /\ UNCHANGED <<acked, quarantinedEver>>

Next == Advance \/ Settle \/ Report \/ Crash

Spec == Init /\ [][Next]_registerVars
=============================================================================
