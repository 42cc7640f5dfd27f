------------------------------ MODULE MCStores ------------------------------
(***************************************************************************)
(* Model-checking instance of what the platform keeps on the disk: one     *)
(* of them, chosen in the initial state, runs on its own, under the bounds *)
(* given in its configuration.                                             *)
(***************************************************************************)
EXTENDS MCReleaseStore, Stores

CONSTANT Chosen       \* the components to check

\* installer: two releases of one application in the inbox.
File(counter) ==
    [app     |-> "app",
     package |-> [counter |-> counter, epoch |-> 1, digest |-> 10 + counter, key |-> 1,
                  trusted |-> TRUE, compatible |-> TRUE]]
TwoReleases == {File(1), File(2)}

\* registry: application "b" has the user id of the desktop.
Uids == [desktop |-> 1, installer |-> 2, game |-> 3, a |-> 4, b |-> 1, c |-> 5]

\* package: a project that asks for all the memory there is, and one whose name
\* is longer in bytes than in UTF-16 units.
Project(app, id, contents) ==
    [app |-> app, id |-> id, version |-> <<"0", ".", "0", "0", ".", "0">>,
     nameUnits |-> 10, nameBytes |-> 10, memory |-> 512,
     capabilities |-> <<"audio.output", "storage.private">>,
     path |-> <<"assets", "a">>, links |-> FALSE, hasEntry |-> TRUE, contents |-> contents]
SomeProjects ==
    {Project("a", <<"0", "-", "a", ".", "a">>, <<1, 2>>),
     [Project("b", <<"a", "-", "0">>, <<1, 3>>) EXCEPT !.nameBytes = 90, !.nameUnits = 30]}

VARIABLE
    turn           \* the component that runs in this behaviour

IVars ==
    <<ibInbox, ibPolicy, ibPayload, ibDir, ibDebris, ibUnreadable, ibRequests,
    ibResponses, ibWaiting, ibNextId, ibFetched, ibMode, ibList, ibSelected, ibPending,
    ibConfirming, ibBusy, ibResult, ibAlive, ibChanges, ibFaults, ibApproved, ibEffects>>
RVars ==
    <<drPlatform, drStore, drHigh, drPhase, drForeground, drRunning, drRegistry, drResult,
    drSessions, drDamage>>
PVars ==
    <<pfBuilt, pfSigned, pfSignings, pfDelivered, pfDamage, pfCrypto, pfVerdict>>
FVars ==
    <<fwWriter, fwRun, fwPc, fwMade, fwEntry, fwDisk, fwFile, fwAcked, fwMissed, fwFaults,
    fwLosses>>

any == <<turn, vars, IVars, RVars, PVars, FVars>>

\* One component runs, the others keep their first state.
AnyInit ==
    /\ turn \in Chosen
    /\ Init
    /\ I!Init /\ (turn # "installer" => ibInbox = TwoReleases /\ ibDir["app"] = 0)
    /\ R!Init /\ (turn # "registry" => drPlatform = [linked |-> TRUE, whole |-> TRUE,
                                                 supported |-> TRUE, bound |-> TRUE])
    /\ P!Init /\ (turn # "package" => pfCrypto)
    /\ F!Init /\ (turn # "files" => fwWriter = "slot")

AnyNext ==
    \/ /\ turn = "release" /\ Next
       /\ UNCHANGED <<turn, IVars, RVars, PVars, FVars>>
    \/ /\ turn = "installer" /\ I!Next
       /\ UNCHANGED <<turn, vars, RVars, PVars, FVars>>
    \/ /\ turn = "registry" /\ R!Next
       /\ UNCHANGED <<turn, vars, IVars, PVars, FVars>>
    \/ /\ turn = "package" /\ P!Next
       /\ UNCHANGED <<turn, vars, IVars, RVars, FVars>>
    \/ /\ turn = "files" /\ F!Next
       /\ UNCHANGED <<turn, vars, IVars, RVars, PVars>>

AnySpec == AnyInit /\ [][AnyNext]_any

=============================================================================
