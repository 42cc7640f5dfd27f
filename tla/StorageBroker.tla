---------------------------- MODULE StorageBroker ---------------------------
(***************************************************************************)
(* Private storage of an application: AppStorage, the client in the SDK    *)
(* runtime (src/runtime/app_storage.cpp), and the broker that serves it in *)
(* lvgl-sessiond (platform/src/session/session_daemon.cpp), joined by a    *)
(* SEQPACKET socket pair (platform/src/ipc/storage_protocol.cpp).  A run is *)
(* one stay of the application in the foreground: the broker opens the     *)
(* directory once per run and keeps that descriptor for every request.     *)
(*                                                                         *)
(* Record contents are opaque values with a size.  A rename is visible at  *)
(* once and survives a power loss only after the directory is synced.      *)
(***************************************************************************)
EXTENDS Integers, Sequences, FiniteSets, FiniteSetsExt

CONSTANTS
    Records,        \* record names
    Values,         \* record contents
    Size(_),        \* their sizes
    MaxFiles,       \* limits.maximum_files of the signed manifest
    MaxBytes,       \* limits.data_mib, in the unit of Size
    MaxCalls,       \* bound on the calls of one run
    MaxFaults       \* bound on errors, timeouts, kills and power losses

ASSUME StorageAssumption ==
    /\ \A v \in Values : Size(v) \in Nat \ {0}
    /\ MaxFiles \in Nat \ {0} /\ MaxBytes \in Nat \ {0}
    /\ MaxCalls \in Nat /\ MaxFaults \in Nat

None == "none"       \* the record does not exist

VARIABLES
    live,            \* what the directory holds now
    durable,         \* per record, what it may hold after a power loss
    temps,           \* how many .broker- files it holds besides
    scanned,         \* this run's directory descriptor has been read to its end
    unread,          \* directory entries made since
    running,         \* the application is in the foreground
    bpc,             \* where the broker is in write_storage_record
    requests, responses,  \* the two directions of the socket
    waiting,         \* the request the client waits for, NoRequest if none
    nextId,          \* AppStorage::next_request_id_
    faults,
    expected,        \* history: per record, what the client must be prepared to find
    reported         \* history: what the last successful read returned

disk   == <<live, durable, temps>>
client == <<waiting, nextId, expected, reported>>
vars == <<disk, scanned, unread, running, bpc, requests, responses, client, faults>>

Commands == {"read", "write"}
Statuses == {"ok", "not_found", "quota_exceeded", "storage_corrupt", "io_error"}
Requests == [command: Commands, id: Nat, record: Records, data: Values \cup {None}, maximum: Nat]
Responses == [command: Commands, id: Nat, status: Statuses, data: Values \cup {None}]
NoRequest == [command |-> "read", id |-> 0]
NoReport  == [record |-> None, data |-> None]

Init ==
    /\ live = [r \in Records |-> None]
    /\ durable = [r \in Records |-> {None}]
    /\ temps = 0
    /\ scanned = FALSE /\ unread = {}
    /\ running = FALSE
    /\ bpc = "idle"
    /\ requests = <<>> /\ responses = <<>>
    /\ waiting = NoRequest /\ nextId = 1
    /\ faults = 0
    /\ expected = [r \in Records |-> {None}]
    /\ reported = NoReport

Fault == faults < MaxFaults /\ faults' = faults + 1

-----------------------------------------------------------------------------
(* A run of the application *)

\* ensure_private_storage and the socket pair of run_foreground.
StartRun ==
    /\ ~running /\ bpc = "idle"
    /\ running' = TRUE
    /\ scanned' = FALSE /\ unread' = {}
    /\ requests' = <<>> /\ responses' = <<>>
    /\ waiting' = NoRequest /\ nextId' = 1
    /\ UNCHANGED <<disk, bpc, faults, expected, reported>>

\* The application leaves the foreground.  The broker finishes what it is serving
\* and may take up one more request that is still in the socket.
EndRun ==
    /\ running
    /\ running' = FALSE
    /\ responses' = <<>>
    /\ waiting' = NoRequest
    /\ UNCHANGED <<disk, scanned, unread, bpc, requests, nextId, faults, expected, reported>>

-----------------------------------------------------------------------------
(* AppStorage: exchange() sends the request and waits two seconds for one packet. *)

Call(request) ==
    /\ running /\ waiting = NoRequest
    /\ nextId <= MaxCalls
    /\ requests' = Append(requests, request)
    /\ waiting' = request
    /\ nextId' = nextId + 1
    /\ UNCHANGED <<disk, scanned, unread, running, bpc, responses, faults, reported>>

Read(r, maximum) ==
    /\ Call([command |-> "read", id |-> nextId, record |-> r, data |-> None,
             maximum |-> maximum])
    /\ UNCHANGED expected

WriteAtomic(r, v) ==
    /\ Call([command |-> "write", id |-> nextId, record |-> r, data |-> v,
             maximum |-> Size(v)])
    /\ expected' = [expected EXCEPT ![r] = @ \cup {v}]

\* Wrong variant: the answer to an earlier request of the same kind is taken.
Answers_AnyId(response, request) == response.command = request.command

Answers(response, request) ==
    response.id = request.id /\ response.command = request.command

Receive ==
    /\ waiting # NoRequest /\ responses # <<>>
    /\ responses' = Tail(responses)
    /\ waiting' = NoRequest
    /\ LET answer == Head(responses)
           succeeds == Answers(answer, waiting) /\ answer.status = "ok"
       IN /\ expected' = IF succeeds /\ waiting.command = "write"
                         THEN [expected EXCEPT ![waiting.record] = {waiting.data}]
                         ELSE expected
          /\ reported' = IF succeeds /\ waiting.command = "read"
                         THEN [record |-> waiting.record, data |-> answer.data]
                         ELSE NoReport
    /\ UNCHANGED <<disk, scanned, unread, running, bpc, requests, nextId, faults>>

\* SO_RCVTIMEO: the call fails, the answer will arrive later.
ReceiveTimesOut ==
    /\ waiting # NoRequest
    /\ Fault
    /\ waiting' = NoRequest
    /\ UNCHANGED <<disk, scanned, unread, running, bpc, requests, responses, nextId, expected,
                   reported>>

-----------------------------------------------------------------------------
(* The broker *)

Bytes(entries) == MapThenSumSet(LAMBDA r : Size(live[r]), entries)

Existing == {r \in Records : live[r] # None}

\* scan_storage reads the directory through a dup() of the run's descriptor, which
\* shares its position: the entries a previous scan of the run has passed are not
\* seen again, those made since may be.
Scans == IF ~scanned THEN {Existing} ELSE SUBSET (unread \cap Existing)

\* Wrong variant: temporary files are left alone.
TempsAfterScan_Kept == temps

\* Temporary files it sees are removed.
TempsAfterScan == IF scanned THEN temps ELSE 0

\* The usage that the scan counted, with what fstatat says of the record.
storage_write_within_quota(entries, r, v) ==
    LET exists == live[r] # None
        existing_size == IF exists THEN Size(live[r]) ELSE 0
    IN /\ exists => Cardinality(entries) # 0 /\ existing_size <= Bytes(entries)
       /\ (Bytes(entries) - existing_size) + Size(v) <= MaxBytes
       /\ IF exists THEN Cardinality(entries) <= MaxFiles ELSE Cardinality(entries) < MaxFiles

\* The answer; when it cannot be sent, run_foreground gives up the socket.
Respond(status, data) ==
    /\ bpc' = "idle"
    /\ \/ /\ running
          /\ requests' = Tail(requests)
          /\ responses' = Append(responses, [command |-> Head(requests).command,
                                            id      |-> Head(requests).id,
                                            status  |-> status, data |-> data])
       \/ ~running /\ requests' = <<>> /\ UNCHANGED responses

ReadStatus(entries, request) ==
    CASE Cardinality(entries) > MaxFiles \/ Bytes(entries) > MaxBytes -> "storage_corrupt"
      [] live[request.record] = None                                  -> "not_found"
      [] Size(live[request.record]) > request.maximum                 -> "storage_corrupt"
      [] OTHER                                                        -> "ok"

\* dup or fdopendir fails before anything is read.
ScanFails ==
    /\ Fault
    /\ Respond("storage_corrupt", None)
    /\ UNCHANGED <<scanned, unread, temps>>

Serves(command) == bpc = "idle" /\ requests # <<>> /\ Head(requests).command = command

ServeRead ==
    /\ Serves("read")
    /\ \/ ScanFails
       \/ /\ scanned' = TRUE /\ unread' = {} /\ temps' = TempsAfterScan
          /\ \/ /\ \E entries \in Scans :
                      LET status == ReadStatus(entries, Head(requests))
                      IN Respond(status, IF status = "ok" THEN live[Head(requests).record]
                                         ELSE None)
                /\ UNCHANGED faults
             \/ Fault /\ Respond("io_error", None)
    /\ UNCHANGED <<live, durable, running, client>>

\* Scan and quota, then the temporary file is written and synced; it is removed
\* when that fails.
ServeWrite ==
    /\ Serves("write")
    /\ \/ ScanFails
       \/ /\ scanned' = TRUE /\ unread' = {}
          /\ \E entries \in Scans :
                LET fits == storage_write_within_quota(entries, Head(requests).record,
                                                       Head(requests).data)
                IN \/ /\ ~fits
                      /\ temps' = TempsAfterScan
                      /\ Respond("quota_exceeded", None)
                      /\ UNCHANGED faults
                   \/ /\ fits
                      /\ temps' = TempsAfterScan + 1
                      /\ bpc' = "rename"
                      /\ UNCHANGED <<requests, responses, faults>>
                   \/ /\ fits
                      /\ Fault
                      /\ temps' = TempsAfterScan
                      /\ Respond("io_error", None)
    /\ UNCHANGED <<live, durable, running, client>>

RenameRecord ==
    /\ bpc = "rename"
    /\ LET r == Head(requests).record
           v == Head(requests).data
       IN \/ /\ live' = [live EXCEPT ![r] = v]
             /\ durable' = [durable EXCEPT ![r] = @ \cup {v}]
             /\ unread' = unread \cup {r}
             /\ bpc' = "sync"
             /\ UNCHANGED <<requests, responses, faults>>
          \/ /\ Fault
             /\ Respond("io_error", None)
             /\ UNCHANGED <<live, durable, unread>>
    /\ temps' = temps - 1
    /\ UNCHANGED <<scanned, running, client>>

\* Wrong variant: the directory is not synced.
SyncRecord_Skipped ==
    /\ bpc = "sync"
    /\ Respond("ok", None)
    /\ UNCHANGED <<disk, scanned, unread, running, faults, client>>

SyncRecord ==
    /\ bpc = "sync"
    /\ \/ /\ durable' = [r \in Records |-> {live[r]}]
          /\ Respond("ok", None)
          /\ UNCHANGED faults
       \/ /\ Fault
          /\ Respond("io_error", None)
          /\ UNCHANGED durable
    /\ UNCHANGED <<live, temps, scanned, unread, running, client>>

\* lvgl-sessiond is killed, or the power goes.
Stopped ==
    /\ Fault
    /\ running' = FALSE
    /\ bpc' = "idle"
    /\ requests' = <<>> /\ responses' = <<>>
    /\ waiting' = NoRequest
    /\ UNCHANGED <<scanned, unread, nextId, expected, reported>>

Kill == Stopped /\ UNCHANGED disk

PowerLoss ==
    /\ Stopped
    /\ live' \in {f \in [Records -> Values \cup {None}] : \A r \in Records : f[r] \in durable[r]}
    /\ durable' = [r \in Records |-> {live'[r]}]
    /\ temps' \in 0..temps

Next ==
    \/ StartRun \/ EndRun
    \/ \E r \in Records, v \in Values : Read(r, Size(v)) \/ WriteAtomic(r, v)
    \/ Receive \/ ReceiveTimesOut
    \/ ServeRead \/ ServeWrite \/ RenameRecord \/ SyncRecord
    \/ Kill \/ PowerLoss

Spec == Init /\ [][Next]_vars

-----------------------------------------------------------------------------
(* Properties *)

\* Every variable keeps its type.
TypeOK ==
    /\ live \in [Records -> Values \cup {None}]
    /\ durable \in [Records -> SUBSET (Values \cup {None})]
    /\ temps \in Nat /\ scanned \in BOOLEAN /\ running \in BOOLEAN
    /\ unread \subseteq Records
    /\ bpc \in {"idle", "rename", "sync"}
    /\ requests \in Seq(Requests) /\ (bpc # "idle" => requests # <<>>)
    /\ responses \in Seq(Responses)
    /\ waiting \in Requests \cup {NoRequest}
    /\ nextId \in 1..(MaxCalls + 1)
    /\ faults \in 0..MaxFaults
    /\ expected \in [Records -> SUBSET (Values \cup {None})]
    /\ reported \in [record: Records \cup {None}, data: Values \cup {None}]

\* Once write_atomic has returned true for a record, a power loss at any moment
\* leaves that content or that of a write called later, never an older one.
AckedWriteSurvives == \A r \in Records : durable[r] \subseteq expected[r]

\* What read returns is what the record was last successfully written with, or the
\* content of a later write whose outcome the client does not know, even when
\* earlier calls timed out and their answers are still on the way.
ReadsWhatWasWritten ==
    [][reported' # reported /\ reported' # NoReport
          => reported'.data \in expected[reported'.record]]_vars

\* The temporary file of a write that was cut short is removed by the first request
\* of the next run: they do not pile up.
LeftoversAreRemoved ==
    running /\ scanned => temps = IF bpc = "rename" THEN 1 ELSE 0

\* docs/architecture/overview.md: every read and write scans the directory again
\* and enforces maxFiles and dataMiB.
QuotaHolds == Cardinality(Existing) <= MaxFiles /\ Bytes(Existing) <= MaxBytes

=============================================================================
