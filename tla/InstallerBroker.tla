--------------------------- MODULE InstallerBroker --------------------------
(***************************************************************************)
(* Management of applications: the installer program (InstallerUi in       *)
(* apps/installer and InstallerClient in src/runtime), the socket to       *)
(* lvgl-sessiond, and the broker there (handle_installer_request in        *)
(* platform/src/session/session_daemon.cpp with                            *)
(* platform/src/services/inbox_service.cpp).  The installer is one thread: *)
(* a scan or an operation blocks its user interface.  The inbox belongs to *)
(* whoever copies packages into it.                                        *)
(*                                                                         *)
(* A file in the inbox is a package of an application; its token is the    *)
(* digest.  The token of an installed application is everything that its   *)
(* snapshot hashes: its id, the identity of its directory and its state.   *)
(* The broker is the only thread of the daemon, so a request is one        *)
(* action; what a crash leaves in the middle of one is in ReleaseStore.    *)
(* Request ids go on when the installer is started again; in the code they *)
(* start at 1 with a new socket.                                           *)
(***************************************************************************)
EXTENDS ReleaseState, Integers, Sequences, FiniteSets, FiniteSetsExt, SequencesExt

CONSTANTS
    Apps,            \* application ids that can be installed
    Files,           \* packages that may lie in the inbox: [app, package]
    Nodes,           \* files and directories of one installed release
    NodeLimit,       \* kApplicationRemovalNodeLimit, what one cleanup removes at most
    MaxRequests,     \* bound on the requests of one installer process
    MaxChanges,      \* bound on the changes of the inbox
    Faults,          \* "io", "timeout", "replay"
    MaxFaults

InstallerAssumption ==
    /\ \A f \in Files : f.package \in PackageRecords
    /\ \A f, g \in Files : f.package.digest = g.package.digest => f = g
    /\ Nodes \in Nat \ {0} /\ NodeLimit \in Nat \ {0}
    /\ MaxRequests \in Nat /\ MaxChanges \in Nat /\ MaxFaults \in Nat

VARIABLES
    inbox,           \* the files in the inbox
    policy,          \* release state per application
    payload,         \* releases in the application's directory
    dir,             \* identity of that directory, 0 if there is none
    debris,          \* nodes left in .removed- directories
    unreadable,      \* applications whose state cannot be loaded
    requests, responses,
    waiting,         \* the request the client waits for
    nextId,
    fetched,         \* what the scan in progress has collected, of how many
    mode, list, selected, pending, confirming, busy, result,   \* InstallerUi
    alive,           \* the installer runs and its broker listens
    changes, faults,
    approved,        \* history: tokens the user has pressed install or confirm for
    effects          \* history: what requests have changed

store  == <<policy, payload, dir, debris, unreadable>>
socket == <<requests, responses>>
view   == <<mode, list, selected, pending, confirming, busy, result>>
client == <<waiting, nextId, fetched>>
vars == <<inbox, store, socket, client, view, alive, changes, faults, approved, effects>>

NoRequest == [command |-> "none", id |-> 0, index |-> 0, token |-> <<>>]
NothingFetched == [total |-> 0, entries |-> <<>>]
Mutations == {"install", "rollback", "remove"}
Queries   == {"scan", "candidate", "installed_scan", "installed_candidate"}
ScanCommand(m)  == IF m = "inbox" THEN "scan" ELSE "installed_scan"
FetchCommand(m) == IF m = "inbox" THEN "candidate" ELSE "installed_candidate"

\* What earlier runs of the installer may have left: nothing, a release, or two.
EarlierStates(a) ==
    LET packages == {f.package : f \in {g \in Files : g.app = a}}
        firsts   == {activation_state_for(p, NoState) : p \in packages}
    IN {NoState} \cup firsts
           \cup {activation_state_for(p, s) : p \in packages, s \in firsts \ {NoState}}

Init ==
    /\ inbox \in SUBSET Files
    /\ policy \in [Apps -> UNION {EarlierStates(a) : a \in Apps}]
    /\ \A a \in Apps : policy[a] \in EarlierStates(a)
    /\ payload = [a \in Apps |-> {policy[a].current, policy[a].previous} \ {0}]
    /\ dir = [a \in Apps |-> IF policy[a] = NoState THEN 0 ELSE 1]
    /\ debris = 0
    /\ unreadable = {}
    /\ requests = <<[NoRequest EXCEPT !.command = "scan", !.id = 1]>>
    /\ responses = <<>>
    /\ waiting = requests[1] /\ nextId = 2 /\ fetched = NothingFetched
    /\ mode = "inbox" /\ list = <<>> /\ selected = 1 /\ pending = "none"
    /\ confirming = FALSE /\ busy = FALSE /\ result = "none"
    /\ alive = TRUE
    /\ changes = 0 /\ faults = 0
    /\ approved = {} /\ effects = {}

Fault(kind) ==
    /\ kind \in Faults
    /\ faults < MaxFaults
    /\ faults' = faults + 1

-----------------------------------------------------------------------------
(* What the broker enumerates *)

\* raw_candidates: a package that does not verify has no identity, one of a
\* reserved id or with a state that cannot be loaded is not installable.
Candidate(f) ==
    [token       |-> <<f.package.digest>>,
     identified  |-> f.package.trusted,
     installable |-> /\ f.package.trusted
                     /\ f.app \in Apps \ unreadable
                     /\ evaluate_install_policy(f.package, policy[f.app])]

Candidates == {Candidate(f) : f \in inbox}

\* Which application, in which state: what the user is shown.
Identity(a) == <<a, dir[a], IF a \in unreadable THEN NoState ELSE policy[a]>>

installed_snapshot_token(a) ==
    <<a, dir[a], IF a \in unreadable THEN NoState ELSE policy[a]>>

RollbackAvailable(a) ==
    /\ a \notin unreadable
    /\ policy[a].previous # 0
    /\ policy[a].previous \in payload[a]

Snapshot(a) ==
    [token |-> installed_snapshot_token(a), rollback |-> RollbackAvailable(a)]

installed_application_ids == {a \in Apps : dir[a] # 0}

\* Both lists are sorted; the model needs an order, not which one it is.
InToken(f, g) == f.token[1] < g.token[1]
ScanResult == SetToSortSeq(Candidates, InToken)
InstalledResult == [i \in 1..Cardinality(installed_application_ids) |->
                       Snapshot(SetToSeq(installed_application_ids)[i])]

\* valid_candidate, valid_installed: what encode_installer_response can send.  A package
\* that failed verification has no identity, which valid_candidate asks for.
Encodes(answer) ==
    answer.command = "candidate" /\ answer.status = "ready" => answer.entry.identified

NoEntry == <<>>
Answer(status, count, entry) ==
    [command |-> Head(requests).command, id |-> Head(requests).id,
     status |-> status, count |-> count, entry |-> entry]

\* The answer is sent; one that cannot be encoded makes run_foreground end the
\* installer with 91.
Respond(answer) ==
    IF Encodes(answer)
    THEN /\ requests' = Tail(requests)
         /\ responses' = Append(responses, answer)
         /\ UNCHANGED alive
    ELSE /\ alive' = FALSE
         /\ UNCHANGED socket

Listed(entries) ==
    LET index == Head(requests).index
    IN IF Head(requests).command \in {"scan", "installed_scan"}
       THEN Answer(IF entries = <<>> THEN "empty" ELSE "ready", Len(entries), NoEntry)
       ELSE IF index \in DOMAIN entries
            THEN Answer("ready", 0, entries[index])
            ELSE Answer("not_found", 0, NoEntry)

Serves(commands) == alive /\ requests # <<>> /\ Head(requests).command \in commands

\* prepare_application_storage or the scan fails.
ServeUnavailable ==
    /\ Serves(Mutations \cup Queries)
    /\ Fault("io")
    /\ Respond(Answer("io_error", 0, NoEntry))
    /\ UNCHANGED <<inbox, store, client, view, changes, approved, effects>>

ServeInbox ==
    /\ Serves({"scan", "candidate"})
    /\ Respond(Listed(ScanResult))
    /\ UNCHANGED <<inbox, store, client, view, changes, faults, approved, effects>>

-----------------------------------------------------------------------------
(* Changes *)

\* The request at the head of the queue did something to what.
Effect(what) ==
    effects' = effects \cup {[id |-> Head(requests).id, command |-> Head(requests).command,
                              token |-> Head(requests).token, what |-> what]}

\* Wrong variant: whatever file is in the inbox now.
TokenMatches_AnyFile(f) == TRUE

TokenMatches(f) == <<f.package.digest>> = Head(requests).token

\* install_official_inbox_candidate: the inbox is read and verified again.
ServeInstall ==
    /\ Serves({"install"})
    /\ \/ /\ ~\E f \in inbox : TokenMatches(f)
          /\ Respond(Answer("not_found", 0, NoEntry))
          /\ UNCHANGED <<store, faults, effects>>
       \/ \E f \in inbox :
             LET new == activation_state_for(f.package, policy[f.app])
             IN /\ TokenMatches(f)
                /\ \/ /\ ~Candidate(f).installable \/ new = NoState
                      /\ Respond(Answer("rejected", 0, NoEntry))
                      /\ UNCHANGED <<store, faults, effects>>
                   \/ /\ Candidate(f).installable /\ new # NoState
                      /\ dir' = [dir EXCEPT ![f.app] = IF @ = 0 THEN Cardinality(effects) + 1 ELSE @]
                      /\ payload' = [payload EXCEPT ![f.app] = @ \cup {f.package.counter}]
                      /\ \/ /\ policy' = [policy EXCEPT ![f.app] = new]
                            /\ Respond(Answer("ready", 0, NoEntry))
                            /\ UNCHANGED faults
                         \/ /\ Fault("io")     \* staged; persisted or not, reported failed
                            /\ policy' \in {policy, [policy EXCEPT ![f.app] = new]}
                            /\ Respond(Answer("rejected", 0, NoEntry))
                      /\ Effect(<<f.package.digest>>)
                      /\ UNCHANGED <<debris, unreadable>>
    /\ UNCHANGED <<inbox, client, view, changes, approved>>

\* Wrong variant: nothing is removed when there is more than one call can remove.
cleanup_application_tombstones_AllOrNothing ==
    IF debris <= NodeLimit THEN {0} ELSE {debris}

\* What a cleanup leaves.  The directories on the way to where it stops are
\* counted and stay.
cleanup_application_tombstones ==
    IF debris <= NodeLimit THEN {0} ELSE (debris - NodeLimit)..(debris - 1)

\* Every request about installed applications first continues unfinished removals.
ServeDebris ==
    /\ Serves({"installed_scan", "installed_candidate", "rollback", "remove"})
    /\ debris > NodeLimit
    /\ debris' \in cleanup_application_tombstones
    /\ Respond(Answer("io_error", 0, NoEntry))
    /\ UNCHANGED <<inbox, policy, payload, dir, unreadable, client, view, changes, faults,
                   approved, effects>>

ServeInstalled ==
    /\ Serves({"installed_scan", "installed_candidate"})
    /\ debris <= NodeLimit
    /\ debris' = 0
    /\ Respond(Listed(InstalledResult))
    /\ UNCHANGED <<inbox, policy, payload, dir, unreadable, client, view, changes, faults,
                   approved, effects>>

Matching == {a \in installed_application_ids :
                installed_snapshot_token(a) = Head(requests).token}

ServeRollback ==
    /\ Serves({"rollback"})
    /\ debris <= NodeLimit
    /\ debris' = 0
    /\ \/ /\ Matching = {}
          /\ Respond(Answer("not_found", 0, NoEntry))
          /\ UNCHANGED <<policy, faults, effects>>
       \/ \E a \in Matching :
             LET new == rollback_release(policy[a], FALSE)
             IN \/ /\ ~RollbackAvailable(a) \/ new = NoState
                   /\ Respond(Answer(IF RollbackAvailable(a) THEN "io_error" ELSE "rejected",
                                     0, NoEntry))
                   /\ UNCHANGED <<policy, faults, effects>>
                \/ /\ RollbackAvailable(a) /\ new # NoState
                   /\ policy' = [policy EXCEPT ![a] = new]
                   /\ Respond(Answer("ready", 0, NoEntry))
                   /\ Effect(Identity(a))
                   /\ UNCHANGED faults
                \/ /\ RollbackAvailable(a) /\ new # NoState
                   /\ Fault("io")          \* the audit record or persisting failed
                   /\ \/ policy' = policy /\ UNCHANGED effects
                      \/ policy' = [policy EXCEPT ![a] = new] /\ Effect(Identity(a))
                   /\ Respond(Answer("io_error", 0, NoEntry))
    /\ UNCHANGED <<inbox, payload, dir, unreadable, client, view, changes, approved>>

\* BEGIN is audited, the directory renamed, its contents removed as far as the
\* limit allows.  That clean-up failed does not fail the request.
Removed(a) ==
    LET nodes == Nodes * Cardinality(payload[a])
    IN /\ dir' = [dir EXCEPT ![a] = 0]
       /\ payload' = [payload EXCEPT ![a] = {}]
       /\ debris' \in IF nodes <= NodeLimit THEN {0} ELSE (nodes - NodeLimit)..(nodes - 1)
       /\ Effect(Identity(a))

ServeRemove ==
    /\ Serves({"remove"})
    /\ debris <= NodeLimit
    /\ \/ /\ Matching = {}
          /\ debris' = 0
          /\ Respond(Answer("not_found", 0, NoEntry))
          /\ UNCHANGED <<payload, dir, faults, effects>>
       \/ \E a \in Matching :
             \/ /\ Removed(a)
                /\ Respond(Answer("ready", 0, NoEntry))
                /\ UNCHANGED faults
             \/ /\ Fault("io")             \* before the rename, or in the fsync after it
                /\ \/ debris' = 0 /\ UNCHANGED <<payload, dir, effects>>
                   \/ /\ dir' = [dir EXCEPT ![a] = 0]
                      /\ payload' = [payload EXCEPT ![a] = {}]
                      /\ debris' = Nodes * Cardinality(payload[a])
                      /\ Effect(Identity(a))
                /\ Respond(Answer("io_error", 0, NoEntry))
    /\ UNCHANGED <<inbox, policy, unreadable, client, view, changes, approved>>

Broker ==
    \/ ServeUnavailable \/ ServeInbox \/ ServeInstall \/ ServeDebris \/ ServeInstalled
    \/ ServeRollback \/ ServeRemove

-----------------------------------------------------------------------------
(* InstallerClient *)

Send(command, index, token) ==
    LET request == [command |-> command, id |-> nextId, index |-> index, token |-> token]
    IN /\ nextId <= MaxRequests
       /\ nextId' = nextId + 1
       /\ requests' = Append(requests, request)
       /\ waiting' = request

\* Wrong variant: the answer to an earlier request of the same kind is taken.
Answers_AnyId(answer, request) == answer.command = request.command

Answers(answer, request) == answer.command = request.command /\ answer.id = request.id

\* Wrong variant: an answer to an operation is a success whatever its status.
Succeeds_AnyStatus(answer, request) ==
    Answers(answer, request) /\ (answer.status = "ready" \/ request.command \in Mutations)

Succeeds(answer, request) == Answers(answer, request) /\ answer.status = "ready"

Idle == waiting = NoRequest

\* A scan is over: the list it found, or none.
Scanned(entries) ==
    /\ waiting' = NoRequest
    /\ list' = entries
    /\ selected' = Max({1, Min({selected, Len(entries)})})
    /\ fetched' = NothingFetched
    /\ UNCHANGED <<requests, nextId, mode, pending, confirming, busy, result>>

\* finish_operation
Finished(success) ==
    /\ waiting' = NoRequest
    /\ result' = IF success THEN "success" ELSE "failure"
    /\ busy' = FALSE
    /\ pending' = "none"
    /\ UNCHANGED <<requests, nextId, fetched, mode, list, selected, confirming>>

\* scan, scan_installed: first the number of entries, then one after the other.
ScanAnswered(answer) ==
    LET first == waiting.command \in {"scan", "installed_scan"}
        total == IF first THEN answer.count ELSE fetched.total
        entries == IF first THEN <<>> ELSE Append(fetched.entries, answer.entry)
    IN \/ /\ ~Succeeds(answer, waiting)
          /\ Scanned(<<>>)
       \/ /\ Succeeds(answer, waiting) /\ Len(entries) = total
          /\ Scanned(entries)
       \/ /\ Succeeds(answer, waiting) /\ Len(entries) < total
          /\ Send(FetchCommand(mode), Len(entries) + 1, <<>>)
          /\ fetched' = [total |-> total, entries |-> entries]
          /\ UNCHANGED view

Receive ==
    /\ alive /\ ~Idle /\ responses # <<>>
    /\ responses' = Tail(responses)
    /\ IF waiting.command \in Mutations
       THEN Finished(Succeeds(Head(responses), waiting))
       ELSE ScanAnswered(Head(responses))
    /\ UNCHANGED <<inbox, store, alive, changes, faults, approved, effects>>

\* SO_RCVTIMEO, 30 s: the exchange fails and its answer stays on the way.
ReceiveTimesOut ==
    /\ alive /\ ~Idle
    /\ Fault("timeout")
    /\ IF waiting.command \in Mutations THEN Finished(FALSE) ELSE Scanned(<<>>)
    /\ UNCHANGED <<inbox, store, responses, alive, changes, approved, effects>>

\* The installer is not trusted: it may send again a request it sent before.
Replay ==
    /\ alive /\ Idle /\ ~busy /\ ~confirming /\ result = "none"
    /\ Fault("replay")
    /\ \E e \in {f \in effects : f.command # "install"}, c \in {"rollback", "remove"} :
          Send(c, 0, e.token)
    /\ UNCHANGED <<inbox, store, responses, fetched, view, alive, changes, approved, effects>>

-----------------------------------------------------------------------------
(* InstallerUi.  The confirmation covers the whole screen. *)

Event == alive /\ Idle /\ ~confirming /\ ~busy

Rescan(m) ==
    /\ Send(ScanCommand(m), 0, <<>>)
    /\ fetched' = NothingFetched

\* The tabs.
SwitchMode ==
    /\ Event
    /\ result # "success"
    /\ \E m \in {"inbox", "installed"} \ {mode} :
          mode' = m /\ Rescan(m)
    /\ selected' = 1
    /\ result' = "none"
    /\ pending' = "none"
    /\ UNCHANGED <<inbox, store, responses, list, confirming, busy, alive, changes, faults,
                   approved, effects>>

\* The action button after a failed operation; after a successful one it leaves.
Acknowledge ==
    /\ Event
    /\ result # "none"
    /\ \/ /\ result = "success"
          /\ alive' = FALSE
          /\ UNCHANGED <<requests, client, result>>
       \/ /\ result = "failure"
          /\ result' = "none"
          /\ Rescan(mode)
          /\ UNCHANGED alive
    /\ UNCHANGED <<inbox, store, responses, mode, list, selected, pending, confirming, busy,
                   changes, faults, approved, effects>>

Entry == list[selected]

\* begin_operation: an install starts at once, the others ask for confirmation.
BeginInstall ==
    /\ Event /\ result = "none" /\ mode = "inbox"
    /\ selected <= Len(list) /\ Entry.installable
    /\ pending' = "install"
    /\ busy' = TRUE
    /\ approved' = approved \cup {Entry.token}
    /\ UNCHANGED <<inbox, store, socket, client, mode, list, selected, confirming, result, alive,
                   changes, faults, effects>>

BeginLifecycle ==
    /\ Event /\ result = "none" /\ mode = "installed"
    /\ selected <= Len(list)
    /\ \/ pending' = "remove"
       \/ pending' = "rollback" /\ Entry.rollback
    /\ confirming' = TRUE
    /\ UNCHANGED <<inbox, store, socket, client, mode, list, selected, busy, result, alive,
                   changes, faults, approved, effects>>

Confirm ==
    /\ alive /\ confirming
    /\ confirming' = FALSE
    /\ busy' = TRUE
    /\ approved' = approved \cup {Entry.token}
    /\ UNCHANGED <<inbox, store, socket, client, mode, list, selected, pending, result, alive,
                   changes, faults, effects>>

Cancel ==
    /\ alive /\ confirming
    /\ confirming' = FALSE
    /\ pending' = "none"
    /\ UNCHANGED <<inbox, store, socket, client, mode, list, selected, busy, result, alive,
                   changes, faults, approved, effects>>

NextEntry ==
    /\ Event /\ result = "none"
    /\ Len(list) > 1
    /\ selected' = (selected % Len(list)) + 1
    /\ UNCHANGED <<inbox, store, socket, client, mode, list, pending, confirming, busy, result,
                   alive, changes, faults, approved, effects>>

\* The one-shot timer of 80 ms.
execute_operation ==
    /\ alive /\ Idle /\ busy
    /\ pending \in Mutations
    /\ Send(pending, 0, Entry.token)
    /\ UNCHANGED <<inbox, store, responses, fetched, view, alive, changes, faults, approved,
                   effects>>

-----------------------------------------------------------------------------
(* The rest of the world *)

InboxChanges ==
    /\ changes < MaxChanges
    /\ changes' = changes + 1
    /\ \E f \in Files : inbox' = IF f \in inbox THEN inbox \ {f} ELSE inbox \cup {f}
    /\ UNCHANGED <<store, socket, client, view, alive, faults, approved, effects>>

\* The state of an application is damaged on the disk.
StateDamaged ==
    /\ Fault("io")
    /\ \E a \in installed_application_ids : unreadable' = unreadable \cup {a}
    /\ UNCHANGED <<inbox, policy, payload, dir, debris, socket, client, view, alive, changes,
                   approved, effects>>

\* The user leaves (the shell's home gesture), the daemon starts the installer again.
Restart ==
    /\ ~busy \/ ~alive
    /\ nextId <= MaxRequests
    /\ alive' = TRUE
    /\ requests' = <<[NoRequest EXCEPT !.command = "scan", !.id = nextId]>>
    /\ responses' = <<>>
    /\ waiting' = requests'[1] /\ nextId' = nextId + 1 /\ fetched' = NothingFetched
    /\ mode' = "inbox" /\ list' = <<>> /\ selected' = 1 /\ pending' = "none"
    /\ confirming' = FALSE /\ busy' = FALSE /\ result' = "none"
    /\ UNCHANGED <<inbox, store, changes, faults, approved, effects>>

User == SwitchMode \/ Acknowledge \/ BeginInstall \/ BeginLifecycle \/ Confirm \/ Cancel \/ NextEntry

Next ==
    \/ Broker \/ User \/ execute_operation
    \/ Receive \/ ReceiveTimesOut \/ Replay
    \/ InboxChanges \/ StateDamaged \/ Restart

Spec == Init /\ [][Next]_vars

-----------------------------------------------------------------------------
(* Properties *)

\* Every variable keeps its type.
TypeOK ==
    /\ inbox \subseteq Files
    /\ policy \in [Apps -> ReleaseStates]
    /\ dir \in [Apps -> Nat] /\ debris \in Nat /\ unreadable \subseteq Apps
    /\ \A a \in Apps : dir[a] = 0 => payload[a] = {}
    /\ mode \in {"inbox", "installed"}
    /\ selected \in 1..Max({1, Len(list)})
    /\ pending \in Mutations \cup {"none"}
    /\ result \in {"none", "success", "failure"}
    /\ busy => pending \in Mutations /\ selected <= Len(list)
    /\ confirming => ~busy /\ pending \in {"rollback", "remove"}
    /\ nextId \in 1..(MaxRequests + 1)

\* Whatever the broker installs, rolls back or removes is what the user was shown
\* and approved: this package, this application in this directory and state, also
\* when the inbox changes, an operation is executed after its timeout or the
\* installer sends it again.
ApprovedByUser == \A e \in effects : e.what \in approved

\* "Done" is shown only for an operation that was carried out, never for the answer
\* to an earlier one.
SuccessMeansDone == result = "success" => \E e \in effects : e.id = nextId - 1

\* Why these two hold.  A mutation on the way carries a token the user has approved,
\* and an answer on the way that says "ready" tells of something done; the client takes
\* no other answer than the one to its last request, and between an approval and its
\* request nothing else is sent and the entry it is about stays selected.
IsQueue(s) == s \in Seq({s[i] : i \in DOMAIN s})

RequestApproved(request) == request.command \in Mutations => request.token \in approved

AnswerIsTrue(answer) ==
    answer.command \in Mutations /\ answer.status = "ready" => \E e \in effects : e.id = answer.id

OnTheWay ==
    /\ IsQueue(requests) /\ \A i \in DOMAIN requests : RequestApproved(requests[i])
    /\ IsQueue(responses) /\ \A i \in DOMAIN responses : AnswerIsTrue(responses[i])
    /\ \A e \in effects : e.token \in approved /\ e.what \in approved

OneAtATime ==
    /\ nextId \in Nat
    /\ Idle \/ waiting.id = nextId - 1
    /\ busy => Entry.token \in approved /\ (Idle \/ waiting.command \in Mutations)
    /\ confirming => Idle /\ ~busy
    /\ result = "success" => Idle /\ ~busy /\ ~confirming

BrokerInv == OnTheWay /\ OneAtATime /\ SuccessMeansDone

\* A request that is refused because of unfinished removals brings them nearer to
\* their end, so that the next ones get through.
CleanupProgresses ==
    [][(/\ Serves({"installed_scan", "installed_candidate", "rollback", "remove"})
        /\ debris > NodeLimit /\ Len(responses') > Len(responses) /\ faults' = faults)
          => debris' < debris]_vars

\* Why: only the broker answers, one request each, and what an application has on the
\* disk can be counted.
DebrisInv ==
    /\ faults \in Nat /\ debris \in Nat
    /\ DOMAIN payload = Apps /\ \A a \in Apps : IsFiniteSet(payload[a])
    /\ IsQueue(responses)

\* docs/superpowers/plans/2026-08-24-lvgl-commercial-platform.md:209: every invalid
\* package class maps to a stable, actionable failure.  The broker answers.
BrokerAnswers == [][Serves(Queries) => alive']_vars

=============================================================================
