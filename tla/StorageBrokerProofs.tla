------------------------- MODULE StorageBrokerProofs ------------------------
(***************************************************************************)
(* For every set of records, contents, limits and faults: a write that was *)
(* reported survives a power loss, a read returns what was written, and    *)
(* temporary files do not pile up.                                         *)
(***************************************************************************)
EXTENDS StorageBroker, SequenceTheorems, TLAPS

-----------------------------------------------------------------------------
(* The inductive invariant *)

\* Ids grow: what was answered precedes what is still to be served, and what the
\* client waits for is the last it sent.
QueueInv ==
    /\ \A j \in 1..Len(requests) : requests[j].id < nextId
    /\ \A i, j \in 1..Len(requests) : i < j => requests[i].id < requests[j].id
    /\ \A i \in 1..Len(responses) : responses[i].id < nextId
    /\ \A i \in 1..Len(responses), j \in 1..Len(requests) : responses[i].id < requests[j].id
    /\ waiting # NoRequest =>
          /\ waiting \in Requests
          /\ waiting.id = nextId - 1
          /\ \A j \in 1..Len(requests) : requests[j].id = waiting.id => requests[j] = waiting

\* What is to be written is expected, and what is renamed is what was asked for.
WriteInv ==
    /\ \A j \in 1..Len(requests) :
          requests[j].command = "write" => requests[j].data \in expected[requests[j].record]
    /\ bpc # "idle" => Head(requests).command = "write"
    /\ bpc = "sync" => live[Head(requests).record] = Head(requests).data
    /\ \A r \in Records : live[r] \in durable[r]

\* The answer the client waits for, when it is on the way, is true: the write is
\* durable, what was read was written.
AnswerInv ==
    \A i \in 1..Len(responses) :
        waiting # NoRequest /\ Answers(responses[i], waiting) /\ responses[i].status = "ok" =>
            /\ waiting.command = "write" => durable[waiting.record] \subseteq {waiting.data}
            /\ waiting.command = "read" => responses[i].data \in expected[waiting.record]

\* While a record is being written there is its temporary file.
TempInv == bpc = "rename" => scanned /\ temps # 0

StorageInv ==
    /\ TypeOK
    /\ QueueInv
    /\ WriteInv
    /\ AnswerInv
    /\ TempInv
    /\ AckedWriteSurvives
    /\ LeftoversAreRemoved

-----------------------------------------------------------------------------
(* Sequences and answers *)

\* What a queue holds after its head is taken.
LEMMA TailOf ==
    ASSUME NEW S, NEW s \in Seq(S), s # <<>>
    PROVE  /\ Len(s) \in Nat \ {0} /\ Head(s) = s[1] /\ Head(s) \in S
           /\ Tail(s) \in Seq(S) /\ Len(Tail(s)) = Len(s) - 1
           /\ \A i \in 1..Len(Tail(s)) : Tail(s)[i] = s[i + 1] /\ i + 1 \in 1..Len(s)
BY HeadTailProperties, LenProperties, EmptySeq

\* What a queue holds after one more is put at its end.
LEMMA AppendTo ==
    ASSUME NEW S, NEW s \in Seq(S), NEW e \in S
    PROVE  /\ Append(s, e) \in Seq(S) /\ Len(Append(s, e)) = Len(s) + 1
           /\ Len(s) \in Nat /\ Append(s, e) # <<>>
           /\ \A i \in 1..Len(s) : Append(s, e)[i] = s[i]
           /\ Append(s, e)[Len(s) + 1] = e
BY AppendProperties, LenProperties

\* While requests are queued no answer is for the one the client waits for.
LEMMA NoAnswerYet ==
    ASSUME TypeOK, QueueInv, requests # <<>>, waiting # NoRequest,
           NEW i \in 1..Len(responses)
    PROVE  responses[i].id # waiting.id
<1>1. Len(requests) \in Nat \ {0} /\ requests[1] \in Requests
  BY TailOf DEF TypeOK
<1>2. responses[i] \in Responses
  BY ElementOfSeq DEF TypeOK
<1>3. requests[1].id \in Nat /\ responses[i].id \in Nat
  BY <1>1, <1>2 DEF Requests, Responses
<1>4. nextId \in Nat
  BY StorageAssumption DEF TypeOK
<1> QED BY <1>1, <1>3, <1>4 DEF QueueInv

\* The request at the head is one the client may be waiting for.
LEMMA HeadIsWaiting ==
    ASSUME TypeOK, QueueInv, requests # <<>>, waiting # NoRequest,
           Head(requests).id = waiting.id
    PROVE  Head(requests) = waiting
BY TailOf DEF TypeOK, QueueInv

\* An answer is a response.
LEMMA ResponseTypes ==
    ASSUME TypeOK, requests # <<>>, NEW status \in Statuses,
           NEW data \in Values \cup {None}
    PROVE  /\ Head(requests) \in Requests
           /\ [command |-> Head(requests).command, id |-> Head(requests).id,
               status |-> status, data |-> data] \in Responses
<1>1. Head(requests) \in Requests
  BY TailOf DEF TypeOK
<1> QED BY <1>1 DEF Requests, Responses

-----------------------------------------------------------------------------
(* Types *)

DiskTypes ==
    /\ live \in [Records -> Values \cup {None}]
    /\ durable \in [Records -> SUBSET (Values \cup {None})]
    /\ temps \in Nat
ScanTypes == scanned \in BOOLEAN /\ running \in BOOLEAN /\ unread \subseteq Records
QueueTypes ==
    /\ bpc \in {"idle", "rename", "sync"}
    /\ requests \in Seq(Requests) /\ (bpc # "idle" => requests # <<>>)
    /\ responses \in Seq(Responses)
ClientTypes == waiting \in Requests \cup {NoRequest} /\ nextId \in 1..(MaxCalls + 1)
HistoryTypes ==
    /\ expected \in [Records -> SUBSET (Values \cup {None})]
    /\ reported \in [record: Records \cup {None}, data: Values \cup {None}]
FaultTypes == faults \in 0..MaxFaults

\* TypeOK, grouped as the actions change it.
LEMMA TypeParts ==
    TypeOK <=> /\ DiskTypes /\ ScanTypes /\ QueueTypes /\ ClientTypes /\ HistoryTypes
               /\ FaultTypes
BY DEF TypeOK, DiskTypes, ScanTypes, QueueTypes, ClientTypes, HistoryTypes, FaultTypes

\* A step that leaves a group of variables alone keeps their types.
LEMMA UnchangedTypes ==
    /\ DiskTypes /\ UNCHANGED disk => DiskTypes'
    /\ ScanTypes /\ UNCHANGED <<scanned, running, unread>> => ScanTypes'
    /\ QueueTypes /\ UNCHANGED <<bpc, requests, responses>> => QueueTypes'
    /\ ClientTypes /\ UNCHANGED <<waiting, nextId>> => ClientTypes'
    /\ HistoryTypes /\ UNCHANGED <<expected, reported>> => HistoryTypes'
    /\ FaultTypes /\ UNCHANGED faults => FaultTypes'
BY DEF DiskTypes, ScanTypes, QueueTypes, ClientTypes, HistoryTypes, FaultTypes, disk

\* A fault is counted once and only within the bound.
LEMMA FaultStep ==
    FaultTypes /\ Fault => FaultTypes'
BY StorageAssumption DEF Fault, FaultTypes

\* A broker that answers takes the request off its queue.
LEMMA RespondTypes ==
    ASSUME TypeOK, requests # <<>>, NEW status \in Statuses,
           NEW data \in Values \cup {None}, Respond(status, data)
    PROVE  QueueTypes'
<1> DEFINE answer == [command |-> Head(requests).command, id |-> Head(requests).id,
                      status |-> status, data |-> data]
<1>1. answer \in Responses
  BY ResponseTypes
<1>2. requests \in Seq(Requests) /\ responses \in Seq(Responses)
  BY DEF TypeOK
<1>3. Tail(requests) \in Seq(Requests)
  BY <1>2, TailOf
<1>4. Append(responses, answer) \in Seq(Responses)
  BY <1>1, <1>2, AppendTo
<1>5. <<>> \in Seq(Requests)
  BY EmptySeq
<1> HIDE DEF answer
<1> QED BY <1>2, <1>3, <1>4, <1>5 DEF Respond, QueueTypes, answer

\* The answers the broker gives are statuses, what is read is a content.
LEMMA ReadAnswers ==
    ASSUME TypeOK, requests # <<>>, NEW entries
    PROVE  LET status == ReadStatus(entries, Head(requests))
           IN /\ status \in Statuses
              /\ (IF status = "ok" THEN live[Head(requests).record] ELSE None)
                    \in Values \cup {None}
<1>1. Head(requests).record \in Records
  BY ResponseTypes DEF Requests, Statuses
<1>2. live[Head(requests).record] \in Values \cup {None}
  BY <1>1 DEF TypeOK
<1>3. ReadStatus(entries, Head(requests)) \in Statuses
  BY DEF ReadStatus, Statuses
<1> QED BY <1>2, <1>3

\* Calls, answers and the end of a call keep the client's types.
LEMMA CallTypes ==
    ASSUME TypeOK, NEW request \in Requests, Call(request)
    PROVE  QueueTypes' /\ ClientTypes'
<1>1. requests \in Seq(Requests) /\ responses \in Seq(Responses)
  BY DEF TypeOK
<1>2. Append(requests, request) \in Seq(Requests) /\ Append(requests, request) # <<>>
  BY <1>1, AppendTo
<1>3. QueueTypes'
  BY <1>1, <1>2 DEF Call, QueueTypes, TypeOK
<1>4. ClientTypes'
  BY StorageAssumption DEF Call, ClientTypes, TypeOK
<1> QED BY <1>3, <1>4

\* What the client sends are requests.
LEMMA RequestTypes ==
    ASSUME TypeOK, NEW r \in Records, NEW v \in Values
    PROVE  /\ [command |-> "read", id |-> nextId, record |-> r, data |-> None,
               maximum |-> Size(v)] \in Requests
           /\ [command |-> "write", id |-> nextId, record |-> r, data |-> v,
               maximum |-> Size(v)] \in Requests
<1>1. nextId \in Nat /\ Size(v) \in Nat
  BY StorageAssumption DEF TypeOK
<1> QED BY <1>1 DEF Requests, Commands

\* A request is of a record, and its content is one to write.
LEMMA HeadTypes ==
    ASSUME TypeOK, requests # <<>>
    PROVE  /\ Head(requests).record \in Records
           /\ Head(requests).data \in Values \cup {None}
           /\ Head(requests).command \in Commands
           /\ Head(requests).id \in Nat
BY ResponseTypes DEF Requests, Statuses

\* Every action keeps the types.
LEMMA NextTypeOK ==
    ASSUME StorageInv, [Next]_vars
    PROVE  TypeOK'
<1> USE UnchangedTypes, FaultStep
<1> DEFINE Typed == /\ DiskTypes' /\ ScanTypes' /\ QueueTypes' /\ ClientTypes'
                    /\ HistoryTypes' /\ FaultTypes'
<1> SUFFICES Typed
  BY TypeParts, PTL
<1>0. /\ TypeOK /\ TempInv /\ DiskTypes /\ ScanTypes /\ QueueTypes /\ ClientTypes
      /\ HistoryTypes /\ FaultTypes
  BY TypeParts DEF StorageInv
<1>d. UNCHANGED disk <=> live' = live /\ durable' = durable /\ temps' = temps
  BY DEF disk
<1>1. CASE StartRun
  <2>1. QueueTypes'
    BY <1>0, <1>1, EmptySeq DEF StartRun, QueueTypes
  <2>2. ClientTypes'
    BY <1>1, StorageAssumption DEF StartRun, ClientTypes
  <2>3. ScanTypes'
    BY <1>1 DEF StartRun, ScanTypes
  <2> QED BY <1>0, <1>1, <2>1, <2>2, <2>3 DEF StartRun
<1>2. CASE EndRun
  <2>1. QueueTypes'
    BY <1>0, <1>2, EmptySeq DEF EndRun, QueueTypes
  <2>2. ClientTypes'
    BY <1>0, <1>2 DEF EndRun, ClientTypes
  <2>3. ScanTypes'
    BY <1>0, <1>2 DEF EndRun, ScanTypes
  <2> QED BY <1>0, <1>2, <2>1, <2>2, <2>3 DEF EndRun
<1>3. ASSUME NEW r \in Records, NEW v \in Values, Read(r, Size(v))
      PROVE  Typed
  <2>1. QueueTypes' /\ ClientTypes'
    BY <1>0, <1>3, RequestTypes, CallTypes DEF Read
  <2> QED BY <1>0, <1>3, <2>1 DEF Read, Call
<1>4. ASSUME NEW r \in Records, NEW v \in Values, WriteAtomic(r, v)
      PROVE  Typed
  <2>1. QueueTypes' /\ ClientTypes'
    BY <1>0, <1>4, RequestTypes, CallTypes DEF WriteAtomic
  <2>2. HistoryTypes'
    BY <1>0, <1>4 DEF WriteAtomic, Call, HistoryTypes
  <2> QED BY <1>0, <1>4, <2>1, <2>2 DEF WriteAtomic, Call
<1>5. CASE Receive
  <2>1. responses \in Seq(Responses) /\ responses # <<>>
    BY <1>0, <1>5 DEF Receive, QueueTypes
  <2>2. Tail(responses) \in Seq(Responses) /\ Head(responses) \in Responses
    BY <2>1, TailOf
  <2>3. QueueTypes'
    BY <1>0, <1>5, <2>2 DEF Receive, QueueTypes
  <2>4. ClientTypes'
    BY <1>0, <1>5 DEF Receive, ClientTypes
  <2>5. waiting \in Requests
    BY <1>0, <1>5 DEF Receive, ClientTypes
  <2>6. /\ waiting.record \in Records /\ waiting.data \in Values \cup {None}
        /\ Head(responses).data \in Values \cup {None}
    BY <2>2, <2>5 DEF Requests, Responses
  <2>7. HistoryTypes'
    BY <1>0, <1>5, <2>6 DEF Receive, HistoryTypes, NoReport
  <2> QED BY <1>0, <1>5, <2>3, <2>4, <2>7 DEF Receive
<1>6. CASE ReceiveTimesOut
  <2>1. ClientTypes'
    BY <1>0, <1>6 DEF ReceiveTimesOut, ClientTypes
  <2> QED BY <1>0, <1>6, <2>1 DEF ReceiveTimesOut
<1>7. CASE ServeRead
  <2>1. requests # <<>> /\ bpc = "idle"
    BY <1>7 DEF ServeRead, Serves
  <2>2. QueueTypes'
    <3>1. ASSUME ScanFails PROVE QueueTypes'
      BY <1>0, <2>1, <3>1, RespondTypes DEF ScanFails, Statuses
    <3>2. ASSUME NEW entries \in Scans,
                 LET status == ReadStatus(entries, Head(requests))
                 IN Respond(status, IF status = "ok" THEN live[Head(requests).record]
                                    ELSE None)
          PROVE  QueueTypes'
      BY <1>0, <2>1, <3>2, RespondTypes, ReadAnswers
    <3>3. ASSUME Respond("io_error", None) PROVE QueueTypes'
      BY <1>0, <2>1, <3>3, RespondTypes DEF Statuses
    <3> QED BY <1>7, <3>1, <3>2, <3>3 DEF ServeRead
  <2>d. live' = live /\ durable' = durable /\ running' = running
    BY <1>7 DEF ServeRead
  <2>t. temps' \in {temps, TempsAfterScan, TempsAfterScan + 1}
    BY <1>7 DEF ServeRead, ScanFails
  <2>s. UNCHANGED <<scanned, unread>> \/ (scanned' = TRUE /\ unread' = {})
    BY <1>7 DEF ServeRead, ScanFails
  <2>a. DiskTypes'
    BY <1>0, <2>d, <2>t DEF DiskTypes, TempsAfterScan
  <2>b. ScanTypes'
    BY <1>0, <2>d, <2>s DEF ScanTypes
  <2>3. DiskTypes' /\ ScanTypes'
    BY <2>a, <2>b
  <2>4. FaultTypes'
    BY <1>0, <1>7 DEF ServeRead, ScanFails
  <2> QED BY <1>0, <1>7, <2>2, <2>3, <2>4 DEF ServeRead, client
<1>8. CASE ServeWrite
  <2>1. requests # <<>> /\ bpc = "idle"
    BY <1>8 DEF ServeWrite, Serves
  <2>2. QueueTypes'
    <3>1. ASSUME NEW status \in Statuses, Respond(status, None) PROVE QueueTypes'
      BY <1>0, <2>1, <3>1, RespondTypes
    <3>2. {"storage_corrupt", "quota_exceeded", "io_error"} \subseteq Statuses
      BY DEF Statuses
    <3>3. ASSUME bpc' = "rename", UNCHANGED <<requests, responses>> PROVE QueueTypes'
      BY <1>0, <2>1, <3>3 DEF QueueTypes
    <3> QED BY <1>8, <3>1, <3>2, <3>3 DEF ServeWrite, ScanFails
  <2>d. live' = live /\ durable' = durable /\ running' = running
    BY <1>8 DEF ServeWrite
  <2>t. temps' \in {temps, TempsAfterScan, TempsAfterScan + 1}
    BY <1>8 DEF ServeWrite, ScanFails
  <2>s. UNCHANGED <<scanned, unread>> \/ (scanned' = TRUE /\ unread' = {})
    BY <1>8 DEF ServeWrite, ScanFails
  <2>a. DiskTypes'
    BY <1>0, <2>d, <2>t DEF DiskTypes, TempsAfterScan
  <2>b. ScanTypes'
    BY <1>0, <2>d, <2>s DEF ScanTypes
  <2>3. DiskTypes' /\ ScanTypes'
    BY <2>a, <2>b
  <2>4. FaultTypes'
    BY <1>0, <1>8 DEF ServeWrite, ScanFails
  <2> QED BY <1>0, <1>8, <2>2, <2>3, <2>4 DEF ServeWrite, client
<1>9. CASE RenameRecord
  <2>1. requests # <<>>
    BY <1>0, <1>9 DEF RenameRecord, QueueTypes
  <2>2. Head(requests).record \in Records /\ Head(requests).data \in Values \cup {None}
    BY <1>0, <2>1, HeadTypes
  <2>3. QueueTypes'
    BY <1>0, <1>9, <2>1, RespondTypes DEF RenameRecord, QueueTypes, Statuses
  <2>4. DiskTypes'
    BY <1>0, <1>9, <2>2 DEF RenameRecord, DiskTypes, TempInv
  <2>5. ScanTypes'
    BY <1>0, <1>9, <2>2 DEF RenameRecord, ScanTypes
  <2>6. FaultTypes'
    BY <1>0, <1>9 DEF RenameRecord
  <2> QED BY <1>0, <1>9, <2>3, <2>4, <2>5, <2>6 DEF RenameRecord, client
<1>10. CASE SyncRecord
  <2>1. requests # <<>>
    BY <1>0, <1>10 DEF SyncRecord, QueueTypes
  <2>2. QueueTypes'
    BY <1>0, <1>10, <2>1, RespondTypes DEF SyncRecord, Statuses
  <2>3. DiskTypes'
    BY <1>0, <1>10 DEF SyncRecord, DiskTypes
  <2>4. FaultTypes'
    BY <1>0, <1>10 DEF SyncRecord
  <2> QED BY <1>0, <1>10, <2>2, <2>3, <2>4 DEF SyncRecord, client
<1>11. ASSUME Stopped
       PROVE  ScanTypes' /\ QueueTypes' /\ ClientTypes' /\ HistoryTypes' /\ FaultTypes'
  <2>1. QueueTypes'
    BY <1>0, <1>11, EmptySeq DEF Stopped, QueueTypes
  <2>2. ClientTypes' /\ ScanTypes'
    BY <1>0, <1>11 DEF Stopped, ClientTypes, ScanTypes
  <2> QED BY <1>0, <1>11, <2>1, <2>2 DEF Stopped
<1>12. CASE Kill
  BY <1>0, <1>11, <1>12 DEF Kill
<1>13. CASE PowerLoss
  <2>1. DiskTypes'
    BY <1>0, <1>13 DEF PowerLoss, DiskTypes
  <2> QED BY <1>11, <1>13, <2>1 DEF PowerLoss
<1>14. CASE UNCHANGED vars
  BY <1>0, <1>14 DEF vars, disk, client
<1> QED BY <1>1, <1>2, <1>3, <1>4, <1>5, <1>6, <1>7, <1>8, <1>9, <1>10, <1>12, <1>13, <1>14
        DEF Next

-----------------------------------------------------------------------------
(* The queues *)

\* What a request to come or an answer given does to the order of the ids.
LEMMA CallOrder ==
    ASSUME TypeOK, QueueInv, NEW request \in Requests, request.id = nextId, Call(request)
    PROVE  QueueInv'
<1>1. requests \in Seq(Requests) /\ responses \in Seq(Responses) /\ nextId \in Nat
  BY StorageAssumption DEF TypeOK
<1>2. /\ requests' = Append(requests, request) /\ waiting' = request
      /\ nextId' = nextId + 1 /\ responses' = responses
  BY DEF Call
<1>3. /\ Len(requests') = Len(requests) + 1 /\ Len(requests) \in Nat
      /\ \A j \in 1..Len(requests) : requests'[j] = requests[j]
      /\ requests'[Len(requests) + 1] = request
  BY <1>1, <1>2, AppendTo
<1>4. /\ \A j \in 1..Len(requests) : requests[j].id \in Nat
      /\ \A i \in 1..Len(responses) : responses[i].id \in Nat
  <2>1. /\ \A j \in 1..Len(requests) : requests[j] \in Requests
        /\ \A i \in 1..Len(responses) : responses[i] \in Responses
    BY <1>1, ElementOfSeq
  <2> QED BY <2>1 DEF Requests, Responses
<1>5. \A j \in 1..Len(requests') : j \in 1..Len(requests) \/ requests'[j] = request
  BY <1>3
<1>6. \A j \in 1..Len(requests') : requests'[j].id < nextId'
  BY <1>1, <1>2, <1>3, <1>4, <1>5 DEF QueueInv
<1>7. \A i, j \in 1..Len(requests') : i < j => requests'[i].id < requests'[j].id
  <2> SUFFICES ASSUME NEW i \in 1..Len(requests'), NEW j \in 1..Len(requests'), i < j
               PROVE  requests'[i].id < requests'[j].id
    OBVIOUS
  <2>1. i \in 1..Len(requests) /\ requests'[i] = requests[i]
    BY <1>3
  <2>2. CASE j \in 1..Len(requests)
    BY <1>3, <2>1, <2>2 DEF QueueInv
  <2>3. CASE j = Len(requests) + 1
    BY <1>1, <1>3, <2>1, <2>3 DEF QueueInv
  <2> QED BY <1>3, <2>2, <2>3
<1>8. \A i \in 1..Len(responses') : responses'[i].id < nextId'
  BY <1>1, <1>2, <1>4 DEF QueueInv
<1>9. \A i \in 1..Len(responses'), j \in 1..Len(requests') : responses'[i].id < requests'[j].id
  BY <1>2, <1>3, <1>5 DEF QueueInv
<1>10. \A j \in 1..Len(requests') : requests'[j].id = waiting'.id => requests'[j] = waiting'
  <2>1. \A j \in 1..Len(requests) : requests[j].id < nextId
    BY DEF QueueInv
  <2> QED BY <1>1, <1>2, <1>3, <1>4, <1>5, <2>1
<1>11. waiting' \in Requests /\ waiting'.id = nextId' - 1
  BY <1>1, <1>2
<1> QED BY <1>6, <1>7, <1>8, <1>9, <1>10, <1>11 DEF QueueInv

\* An answer carries the id of the request it takes from the socket, so requests
\* and answers stay in order (run_storage_broker).
LEMMA RespondOrder ==
    ASSUME TypeOK, QueueInv, requests # <<>>, NEW status \in Statuses,
           NEW data \in Values \cup {None}, Respond(status, data),
           UNCHANGED <<waiting, nextId>>
    PROVE  QueueInv'
<1> DEFINE answer == [command |-> Head(requests).command, id |-> Head(requests).id,
                      status |-> status, data |-> data]
<1>1. requests \in Seq(Requests) /\ responses \in Seq(Responses) /\ answer \in Responses
  BY ResponseTypes DEF TypeOK
<1>t. /\ Len(requests) \in Nat \ {0} /\ Head(requests) = requests[1]
      /\ Len(Tail(requests)) = Len(requests) - 1
      /\ \A i \in 1..Len(Tail(requests)) :
            Tail(requests)[i] = requests[i + 1] /\ i + 1 \in 1..Len(requests)
  BY <1>1, TailOf
<1>i. answer.id = requests[1].id
  BY <1>t
<1> HIDE DEF answer
<1>a. /\ Len(Append(responses, answer)) = Len(responses) + 1 /\ Len(responses) \in Nat
      /\ \A i \in 1..Len(responses) : Append(responses, answer)[i] = responses[i]
      /\ Append(responses, answer)[Len(responses) + 1] = answer
  BY <1>1, AppendTo
<1>2. CASE running /\ requests' = Tail(requests) /\ responses' = Append(responses, answer)
  <2>1. \A i \in 1..Len(responses') : responses'[i] = answer \/ (i \in 1..Len(responses)
                                                    /\ responses'[i] = responses[i])
    BY <1>2, <1>a
  <2>2. \A j \in 1..Len(requests') : j + 1 \in 1..Len(requests) /\ requests'[j] = requests[j + 1]
    BY <1>2, <1>t
  <2>3. \A j \in 1..Len(requests') : 1 < j + 1
    BY <1>2, <1>t
  <2>4. Len(requests') \in Nat
    BY <1>2, <1>t
  <2>5. \A j \in 1..Len(requests') : requests'[j].id < nextId'
    BY <2>2 DEF QueueInv
  <2>6. \A i, j \in 1..Len(requests') : i < j => requests'[i].id < requests'[j].id
    BY <2>2, <2>4 DEF QueueInv
  <2>7. \A i \in 1..Len(responses') : responses'[i].id < nextId'
    BY <2>1, <1>i, <1>t DEF QueueInv
  <2>8. \A i \in 1..Len(responses'), j \in 1..Len(requests') : responses'[i].id < requests'[j].id
    BY <2>1, <2>2, <2>3, <1>i, <1>t DEF QueueInv
  <2>9. waiting' # NoRequest =>
          /\ waiting' \in Requests
          /\ waiting'.id = nextId' - 1
          /\ \A j \in 1..Len(requests') : requests'[j].id = waiting'.id => requests'[j] = waiting'
    BY <2>2 DEF QueueInv
  <2> QED BY <2>5, <2>6, <2>7, <2>8, <2>9 DEF QueueInv
<1>3. CASE requests' = <<>> /\ responses' = responses
  <2>1. Len(requests') = 0
    BY <1>3, EmptySeq
  <2> QED BY <1>3, <2>1 DEF QueueInv
<1> QED BY <1>2, <1>3 DEF Respond, answer

\* Emptied queues, and a call that is given up, keep the order.
LEMMA ClearedOrder ==
    ASSUME TypeOK, QueueInv, responses' = <<>>, waiting' = NoRequest,
           \/ requests' = requests /\ nextId' = nextId
           \/ requests' = <<>> /\ nextId' \in Nat
    PROVE  QueueInv'
<1>1. Len(responses') = 0 /\ (requests' = <<>> => Len(requests') = 0)
  BY EmptySeq
<1> QED BY <1>1 DEF QueueInv

\* Every step keeps the order of requests and answers.
LEMMA NextQueueInv ==
    ASSUME StorageInv, [Next]_vars
    PROVE  QueueInv'
<1>0. TypeOK /\ QueueInv
  BY DEF StorageInv
<1>n. nextId \in Nat
  BY <1>0, StorageAssumption DEF TypeOK
<1>1. CASE StartRun
  BY <1>0, <1>1, ClearedOrder DEF StartRun
<1>2. CASE EndRun
  BY <1>0, <1>2, ClearedOrder DEF EndRun
<1>3. ASSUME NEW r \in Records, NEW v \in Values, Read(r, Size(v)) \/ WriteAtomic(r, v)
      PROVE  QueueInv'
  <2>1. PICK request \in Requests : request.id = nextId /\ Call(request)
    BY <1>0, <1>3, RequestTypes DEF Read, WriteAtomic
  <2> QED BY <1>0, <2>1, CallOrder
<1>4. CASE Receive
  <2>1. responses \in Seq(Responses) /\ responses # <<>>
    BY <1>0, <1>4 DEF TypeOK, Receive
  <2>2. /\ Len(responses') \in Nat /\ UNCHANGED <<requests, nextId>>
        /\ \A i \in 1..Len(responses') :
              responses'[i] = responses[i + 1] /\ i + 1 \in 1..Len(responses)
    BY <1>4, <2>1, TailOf DEF Receive
  <2>3. waiting' = NoRequest
    BY <1>4 DEF Receive
  <2> QED BY <1>0, <2>2, <2>3 DEF QueueInv
<1>5. CASE ReceiveTimesOut
  BY <1>0, <1>5 DEF ReceiveTimesOut, QueueInv
<1>6. ASSUME NEW status \in Statuses, NEW data \in Values \cup {None},
             requests # <<>>, Respond(status, data), UNCHANGED <<waiting, nextId>>
      PROVE  QueueInv'
  BY <1>0, <1>6, RespondOrder
<1>7. CASE ServeRead
  <2>1. requests # <<>> /\ UNCHANGED <<waiting, nextId>>
    BY <1>7 DEF ServeRead, Serves, client
  <2>2. \E status \in Statuses, data \in Values \cup {None} : Respond(status, data)
    <3>1. ASSUME ScanFails PROVE Respond("storage_corrupt", None)
      BY <3>1 DEF ScanFails
    <3>2. ASSUME NEW entries \in Scans,
                 LET status == ReadStatus(entries, Head(requests))
                 IN Respond(status, IF status = "ok" THEN live[Head(requests).record]
                                    ELSE None)
          PROVE  \E status \in Statuses, data \in Values \cup {None} : Respond(status, data)
      BY <1>0, <2>1, <3>2, ReadAnswers
    <3>3. {"storage_corrupt", "io_error"} \subseteq Statuses
      BY DEF Statuses
    <3> QED BY <1>7, <3>1, <3>2, <3>3 DEF ServeRead
  <2> QED BY <1>6, <2>1, <2>2
<1>8. CASE ServeWrite
  <2>1. requests # <<>> /\ UNCHANGED <<waiting, nextId>>
    BY <1>8 DEF ServeWrite, Serves, client
  <2>2. \/ UNCHANGED <<requests, responses>>
        \/ \E status \in {"storage_corrupt", "quota_exceeded", "io_error"} : Respond(status, None)
    BY <1>8 DEF ServeWrite, ScanFails
  <2> QED BY <1>0, <1>6, <2>1, <2>2 DEF Statuses, QueueInv
<1>9. CASE RenameRecord
  <2>1. requests # <<>> /\ UNCHANGED <<waiting, nextId>>
    BY <1>0, <1>9 DEF RenameRecord, TypeOK, client
  <2>2. UNCHANGED <<requests, responses>> \/ Respond("io_error", None)
    BY <1>9 DEF RenameRecord
  <2> QED BY <1>0, <1>6, <2>1, <2>2 DEF Statuses, QueueInv
<1>10. CASE SyncRecord
  <2>1. requests # <<>> /\ UNCHANGED <<waiting, nextId>>
    BY <1>0, <1>10 DEF SyncRecord, TypeOK, client
  <2>2. Respond("ok", None) \/ Respond("io_error", None)
    BY <1>10 DEF SyncRecord
  <2> QED BY <1>6, <2>1, <2>2 DEF Statuses
<1>11. CASE Kill \/ PowerLoss
  BY <1>0, <1>n, <1>11, ClearedOrder DEF Kill, PowerLoss, Stopped
<1>12. CASE UNCHANGED vars
  BY <1>0, <1>12 DEF vars, client, QueueInv
<1> QED BY <1>1, <1>2, <1>3, <1>4, <1>5, <1>7, <1>8, <1>9, <1>10, <1>11, <1>12 DEF Next

-----------------------------------------------------------------------------
(* What the broker does to the queues, and when the client believes it *)

\* A step of the broker leaves the client alone, and either leaves the queues alone
\* or answers the request at the head.
LEMMA BrokerSteps ==
    ASSUME TypeOK, ServeRead \/ ServeWrite \/ RenameRecord \/ SyncRecord
    PROVE  /\ requests # <<>> /\ UNCHANGED <<waiting, nextId, expected, reported, running>>
           /\ \/ UNCHANGED <<requests, responses>> /\ bpc' \in {"rename", "sync"}
              \/ \E status \in Statuses, data \in Values \cup {None} :
                    Respond(status, data)
<1>0. {"ok", "storage_corrupt", "quota_exceeded", "io_error"} \subseteq Statuses
  BY DEF Statuses
<1>1. CASE ServeRead
  <2>1. requests # <<>>
    BY <1>1 DEF ServeRead, Serves
  <2>2. ASSUME ScanFails PROVE Respond("storage_corrupt", None)
    BY <2>2 DEF ScanFails
  <2>3. ASSUME NEW entries \in Scans,
               LET status == ReadStatus(entries, Head(requests))
               IN Respond(status, IF status = "ok" THEN live[Head(requests).record]
                                  ELSE None)
        PROVE  \E status \in Statuses, data \in Values \cup {None} : Respond(status, data)
    BY <2>1, <2>3, ReadAnswers
  <2> QED BY <1>0, <1>1, <2>1, <2>2, <2>3 DEF ServeRead, client
<1>2. CASE ServeWrite
  BY <1>0, <1>2 DEF ServeWrite, ScanFails, Serves, client
<1>3. CASE RenameRecord
  BY <1>0, <1>3 DEF RenameRecord, TypeOK, client
<1>4. CASE SyncRecord
  BY <1>0, <1>4 DEF SyncRecord, TypeOK, client
<1> QED BY <1>1, <1>2, <1>3, <1>4

\* An answer changes the queues only at their ends.
LEMMA RespondEnds ==
    ASSUME TypeOK, requests # <<>>, NEW status \in Statuses,
           NEW data \in Values \cup {None}, Respond(status, data)
    PROVE  /\ bpc' = "idle"
           /\ \A j \in 1..Len(requests') : j + 1 \in 1..Len(requests)
                                           /\ requests'[j] = requests[j + 1]
           /\ \A i \in 1..Len(responses') :
                 \/ i \in 1..Len(responses) /\ responses'[i] = responses[i]
                 \/ responses'[i] = [command |-> Head(requests).command,
                                     id |-> Head(requests).id,
                                     status |-> status, data |-> data]
<1> DEFINE answer == [command |-> Head(requests).command, id |-> Head(requests).id,
                      status |-> status, data |-> data]
<1>1. requests \in Seq(Requests) /\ responses \in Seq(Responses) /\ answer \in Responses
  BY ResponseTypes DEF TypeOK
<1>2. \A j \in 1..Len(Tail(requests)) :
          j + 1 \in 1..Len(requests) /\ Tail(requests)[j] = requests[j + 1]
  BY <1>1, TailOf
<1> HIDE DEF answer
<1>3. \A i \in 1..Len(Append(responses, answer)) :
          \/ i \in 1..Len(responses) /\ Append(responses, answer)[i] = responses[i]
          \/ Append(responses, answer)[i] = answer
  BY <1>1, AppendTo
<1>4. Len(<<>>) = 0
  BY EmptySeq
<1>5. /\ bpc' = "idle"
      /\ \/ requests' = Tail(requests) /\ responses' = Append(responses, answer)
         \/ requests' = <<>> /\ responses' = responses
  BY DEF Respond, answer
<1>6. \A j \in 1..Len(requests') : j + 1 \in 1..Len(requests) /\ requests'[j] = requests[j + 1]
  BY <1>2, <1>4, <1>5
<1>7. \A i \in 1..Len(responses') :
          \/ i \in 1..Len(responses) /\ responses'[i] = responses[i]
          \/ responses'[i] = answer
  BY <1>3, <1>5
<1> QED BY <1>5, <1>6, <1>7 DEF answer

\* A call that succeeds was the only one under way.
LEMMA SuccessIsLast ==
    ASSUME TypeOK, QueueInv, waiting # NoRequest, responses # <<>>,
           Answers(Head(responses), waiting)
    PROVE  requests = <<>> /\ bpc = "idle" /\ Head(responses) = responses[1]
           /\ 1 \in 1..Len(responses)
<1>1. Head(responses) = responses[1] /\ Len(responses) \in Nat \ {0}
  BY TailOf DEF TypeOK
<1> QED BY <1>1, NoAnswerYet DEF Answers, TypeOK

\* What is expected of a record only grows, but when a write of it succeeds.
LEMMA ExpectedSteps ==
    ASSUME TypeOK, QueueInv, [Next]_vars
    PROVE  \/ \A r \in Records : expected[r] \subseteq expected'[r]
           \/ /\ Receive /\ waiting.command = "write" /\ Head(responses).status = "ok"
              /\ Answers(Head(responses), waiting)
              /\ expected' = [expected EXCEPT ![waiting.record] = {waiting.data}]
<1>1. CASE Receive
  BY <1>1 DEF Receive
<1>2. ASSUME NEW r \in Records, NEW v \in Values, WriteAtomic(r, v)
      PROVE  \A s \in Records : expected[s] \subseteq expected'[s]
  BY <1>2 DEF WriteAtomic, TypeOK
<1>3. CASE ServeRead \/ ServeWrite \/ RenameRecord \/ SyncRecord
  BY <1>3, BrokerSteps
<1>4. ASSUME NEW r \in Records, NEW v \in Values, Read(r, Size(v))
      PROVE  UNCHANGED expected
  BY <1>4 DEF Read
<1>5. CASE StartRun \/ EndRun \/ ReceiveTimesOut \/ Kill \/ PowerLoss
  BY <1>5 DEF StartRun, EndRun, ReceiveTimesOut, Kill, PowerLoss, Stopped
<1>6. CASE UNCHANGED vars
  BY <1>6 DEF vars, client
<1> QED BY <1>1, <1>2, <1>3, <1>4, <1>5, <1>6 DEF Next

-----------------------------------------------------------------------------
(* What is written *)

\* The step of what write_atomic is doing: record, temporary file, what was reported.
LEMMA NextWriteInv ==
    ASSUME StorageInv, [Next]_vars
    PROVE  WriteInv'
<1>0. TypeOK /\ QueueInv /\ WriteInv
  BY DEF StorageInv
<1> DEFINE Expects(queue, what) ==
              \A j \in 1..Len(queue) :
                 queue[j].command = "write" => queue[j].data \in what[queue[j].record]
           Renaming == bpc # "idle" => Head(requests).command = "write"
           Renamed == bpc = "sync" => live[Head(requests).record] = Head(requests).data
           MayBeLost == \A r \in Records : live[r] \in durable[r]
<1>p. WriteInv = (Expects(requests, expected) /\ Renaming /\ Renamed /\ MayBeLost)
  BY DEF WriteInv
<1>q. WriteInv' = ((Expects(requests, expected))' /\ Renaming' /\ Renamed' /\ MayBeLost')
  BY DEF WriteInv
<1>e. Len(<<>>) = 0
  BY EmptySeq
<1>r. \A j \in 1..Len(requests) : requests[j] \in Requests
  BY <1>0, ElementOfSeq DEF TypeOK
<1>1. CASE StartRun
  BY <1>0, <1>1, <1>e DEF StartRun, WriteInv, disk
<1>2. CASE EndRun
  BY <1>0, <1>2 DEF EndRun, WriteInv, disk
<1>3. ASSUME NEW request \in Requests, Call(request), UNCHANGED disk,
             \A r \in Records : expected[r] \subseteq expected'[r],
             request.command = "write" => request.data \in expected'[request.record]
      PROVE  WriteInv'
  <2>1. requests' = Append(requests, request) /\ bpc' = bpc /\ live' = live /\ durable' = durable
    BY <1>3 DEF Call, disk
  <2>2. /\ Len(requests') = Len(requests) + 1 /\ Len(requests) \in Nat /\ requests' # <<>>
        /\ \A j \in 1..Len(requests) : requests'[j] = requests[j]
        /\ requests'[Len(requests) + 1] = request
        /\ requests' \in Seq(Requests)
    BY <1>0, <2>1, AppendTo DEF TypeOK
  <2>3. \A j \in 1..Len(requests') : j \in 1..Len(requests) \/ requests'[j] = request
    BY <2>2
  <2>4. (Expects(requests, expected))'
    <3> SUFFICES ASSUME NEW j \in 1..Len(requests'), requests'[j].command = "write"
                 PROVE  requests'[j].data \in expected'[requests'[j].record]
      OBVIOUS
    <3>1. CASE j \in 1..Len(requests)
      <4>1. requests[j].record \in Records
        BY <1>r, <3>1 DEF Requests
      <4> QED BY <1>0, <1>3, <2>2, <3>1, <4>1 DEF WriteInv
    <3> QED BY <1>3, <2>3, <3>1
  <2>5. bpc # "idle" => Head(requests') = Head(requests)
    <3>1. ASSUME requests # <<>> PROVE Head(requests') = Head(requests)
      BY <1>0, <2>2, <3>1, TailOf DEF TypeOK
    <3> QED BY <1>0, <3>1 DEF TypeOK
  <2>6. Renaming' /\ Renamed' /\ MayBeLost'
    BY <1>0, <2>1, <2>5 DEF WriteInv
  <2> QED BY <1>q, <2>4, <2>6
<1>4. ASSUME NEW r \in Records, NEW v \in Values, Read(r, Size(v)) \/ WriteAtomic(r, v)
      PROVE  WriteInv'
  <2>1. CASE Read(r, Size(v))
    BY <1>0, <1>3, <2>1, RequestTypes DEF Read, Call
  <2>2. CASE WriteAtomic(r, v)
    BY <1>0, <1>3, <2>2, RequestTypes DEF WriteAtomic, Call, TypeOK
  <2> QED BY <1>4, <2>1, <2>2
<1>5. CASE Receive
  <2>1. UNCHANGED <<requests, bpc, live, durable>> /\ waiting # NoRequest /\ responses # <<>>
    BY <1>5 DEF Receive, disk
  <2>2. CASE Answers(Head(responses), waiting)
    BY <1>0, <1>e, <2>1, <2>2, SuccessIsLast DEF WriteInv
  <2>3. CASE ~Answers(Head(responses), waiting)
    BY <1>0, <1>5, <2>1, <2>3 DEF Receive, WriteInv
  <2> QED BY <2>2, <2>3
<1>6. CASE ReceiveTimesOut
  BY <1>0, <1>6 DEF ReceiveTimesOut, WriteInv, disk
<1>7. ASSUME requests # <<>>, UNCHANGED expected,
             NEW status \in Statuses, NEW data \in Values \cup {None}, Respond(status, data)
      PROVE  (Expects(requests, expected))' /\ Renaming' /\ Renamed'
  <2>1. /\ bpc' = "idle"
        /\ \A j \in 1..Len(requests') : j + 1 \in 1..Len(requests)
                                        /\ requests'[j] = requests[j + 1]
    BY <1>0, <1>7, RespondEnds
  <2>2. (Expects(requests, expected))'
    BY <1>0, <1>7, <2>1 DEF WriteInv
  <2> QED BY <2>1, <2>2
<1>8. CASE ServeRead
  <2>1. requests # <<>> /\ UNCHANGED <<expected, live, durable>> /\ bpc' = "idle"
    BY <1>8 DEF ServeRead, Serves, client, ScanFails, Respond
  <2> QED BY <1>0, <1>7, <1>8, <1>q, <2>1, BrokerSteps DEF WriteInv
<1>9. CASE ServeWrite
  <2>1. /\ requests # <<>> /\ UNCHANGED <<expected, live, durable>>
        /\ Head(requests).command = "write"
    BY <1>9 DEF ServeWrite, Serves, client
  <2>2. \/ UNCHANGED <<requests, responses>> /\ bpc' = "rename"
        \/ \E status \in Statuses : Respond(status, None)
    BY <1>9 DEF ServeWrite, ScanFails, Statuses
  <2>3. CASE UNCHANGED requests /\ bpc' = "rename"
    BY <1>0, <2>1, <2>3 DEF WriteInv
  <2>4. CASE \E status \in Statuses : Respond(status, None)
    BY <1>0, <1>7, <1>q, <2>1, <2>4 DEF WriteInv
  <2> QED BY <2>2, <2>3, <2>4
<1>10. CASE RenameRecord
  <2>1. requests # <<>> /\ UNCHANGED expected /\ bpc = "rename"
    BY <1>0, <1>10 DEF RenameRecord, TypeOK, client
  <2>2. Head(requests).record \in Records
    BY <1>0, <2>1, HeadTypes
  <2>3. CASE /\ live' = [live EXCEPT ![Head(requests).record] = Head(requests).data]
             /\ durable' = [durable EXCEPT ![Head(requests).record] =
                                                        @ \cup {Head(requests).data}]
             /\ bpc' = "sync" /\ UNCHANGED requests
    <3>1. (Expects(requests, expected))' /\ Renaming'
      BY <1>0, <2>1, <2>3 DEF WriteInv
    <3>2. Renamed' /\ MayBeLost'
      BY <1>0, <2>2, <2>3 DEF WriteInv, TypeOK
    <3> QED BY <1>q, <3>1, <3>2
  <2>4. CASE UNCHANGED <<live, durable>> /\ Respond("io_error", None)
    <3>1. "io_error" \in Statuses
      BY DEF Statuses
    <3> QED BY <1>0, <1>7, <1>q, <2>1, <2>4, <3>1 DEF WriteInv
  <2> QED BY <1>10, <2>3, <2>4 DEF RenameRecord
<1>11. CASE SyncRecord
  <2>1. requests # <<>> /\ UNCHANGED <<expected, live>>
    BY <1>0, <1>11 DEF SyncRecord, TypeOK, client
  <2>2. \E status \in Statuses : Respond(status, None)
    BY <1>11 DEF SyncRecord, Statuses
  <2>3. MayBeLost'
    BY <1>0, <1>11, <2>1 DEF SyncRecord, WriteInv
  <2> QED BY <1>7, <1>q, <2>1, <2>2, <2>3
<1>12. CASE Kill
  BY <1>0, <1>12, <1>e DEF Kill, Stopped, WriteInv, disk
<1>13. CASE PowerLoss
  <2>1. MayBeLost'
    BY <1>13 DEF PowerLoss
  <2>2. requests' = <<>> /\ bpc' = "idle"
    BY <1>13 DEF PowerLoss, Stopped
  <2>3. (Expects(requests, expected))'
    BY <1>e, <2>2
  <2>4. Renaming' /\ Renamed'
    BY <2>2
  <2> QED BY <1>q, <2>1, <2>3, <2>4
<1>14. CASE UNCHANGED vars
  BY <1>0, <1>14 DEF vars, client, disk, WriteInv
<1> QED BY <1>1, <1>2, <1>4, <1>5, <1>6, <1>8, <1>9, <1>10, <1>11, <1>12, <1>13, <1>14 DEF Next

-----------------------------------------------------------------------------
(* What is answered *)

\* The step of what waits in the socket: an answer carries what was asked for.
LEMMA NextAnswerInv ==
    ASSUME StorageInv, [Next]_vars
    PROVE  AnswerInv'
<1>0. TypeOK /\ QueueInv /\ WriteInv /\ AnswerInv /\ AckedWriteSurvives
  BY DEF StorageInv
<1>n. /\ nextId \in Nat
      /\ \A i \in 1..Len(responses) : responses[i].id < nextId /\ responses[i].id # nextId
  <2>1. \A i \in 1..Len(responses) : responses[i] \in Responses
    BY <1>0, ElementOfSeq DEF TypeOK
  <2>2. nextId \in Nat /\ \A i \in 1..Len(responses) : responses[i].id \in Nat
    BY <1>0, <2>1, StorageAssumption DEF TypeOK, Responses
  <2> QED BY <1>0, <2>2 DEF QueueInv
<1>1. CASE waiting' = NoRequest
  BY <1>1 DEF AnswerInv
<1>2. ASSUME NEW r \in Records, NEW v \in Values, Read(r, Size(v)) \/ WriteAtomic(r, v)
      PROVE  AnswerInv'
  <2>1. waiting'.id = nextId /\ responses' = responses
    BY <1>2 DEF Read, WriteAtomic, Call
  <2> QED BY <1>n, <2>1 DEF AnswerInv, Answers
<1>3. ASSUME requests # <<>>, UNCHANGED <<waiting, expected>>,
             NEW status \in Statuses, NEW data \in Values \cup {None}, Respond(status, data),
             status = "ok" /\ waiting # NoRequest /\ Head(requests) = waiting =>
                /\ waiting.command = "write" => durable'[waiting.record] \subseteq {waiting.data}
                /\ waiting.command = "read" => data \in expected[waiting.record]
      PROVE  AnswerInv'
  <2> SUFFICES ASSUME NEW i \in 1..Len(responses'), waiting # NoRequest,
                      Answers(responses'[i], waiting), responses'[i].status = "ok"
               PROVE  /\ waiting.command = "write" => durable'[waiting.record] \subseteq {waiting.data}
                      /\ waiting.command = "read" => responses'[i].data \in expected[waiting.record]
    BY <1>3 DEF AnswerInv, Answers
  <2>1. ~(i \in 1..Len(responses) /\ responses'[i] = responses[i])
    BY <1>0, <1>3, NoAnswerYet DEF Answers
  <2>2. responses'[i] = [command |-> Head(requests).command, id |-> Head(requests).id,
                         status |-> status, data |-> data]
    BY <1>0, <1>3, <2>1, RespondEnds
  <2>3. Head(requests) = waiting
    BY <1>0, <1>3, <2>2, HeadIsWaiting DEF Answers
  <2> QED BY <1>3, <2>2, <2>3
<1>4. ASSUME requests # <<>>, UNCHANGED <<waiting, expected, responses>>
      PROVE  AnswerInv'
  BY <1>0, <1>4, NoAnswerYet DEF AnswerInv, Answers
<1>5. CASE ServeRead
  <2>1. /\ requests # <<>> /\ UNCHANGED <<waiting, expected>>
        /\ Head(requests).command = "read"
    BY <1>5 DEF ServeRead, Serves, client
  <2>2. Head(requests).record \in Records
    BY <1>0, <2>1, HeadTypes
  <2>3. live[Head(requests).record] \in expected[Head(requests).record]
    BY <1>0, <2>2 DEF WriteInv, AckedWriteSurvives
  <2>4. ASSUME NEW status \in Statuses, status # "ok", Respond(status, None) PROVE AnswerInv'
    BY <1>3, <2>1, <2>4
  <2>5. ASSUME NEW entries \in Scans,
               LET status == ReadStatus(entries, Head(requests))
               IN Respond(status, IF status = "ok" THEN live[Head(requests).record]
                                  ELSE None)
        PROVE  AnswerInv'
    <3> DEFINE status == ReadStatus(entries, Head(requests))
    <3>1. /\ status \in Statuses
          /\ (IF status = "ok" THEN live[Head(requests).record] ELSE None) \in Values \cup {None}
      BY <1>0, <2>1, ReadAnswers
    <3>2. Respond(status, IF status = "ok" THEN live[Head(requests).record] ELSE None)
      BY <2>5
    <3> HIDE DEF status
    <3>3. CASE status = "ok"
      <4>1. /\ Respond(status, live[Head(requests).record])
            /\ live[Head(requests).record] \in Values \cup {None}
        BY <3>1, <3>2, <3>3
      <4>2. "read" # "write"
        OBVIOUS
      <4> QED BY <1>3, <2>1, <2>3, <3>1, <4>1, <4>2
    <3>4. CASE status # "ok"
      BY <2>4, <3>1, <3>2, <3>4
    <3> QED BY <3>3, <3>4
  <2>6. ASSUME ScanFails PROVE AnswerInv'
    BY <2>4, <2>6 DEF ScanFails, Statuses
  <2>7. ASSUME Respond("io_error", None) PROVE AnswerInv'
    BY <2>4, <2>7 DEF Statuses
  <2> QED BY <1>5, <2>5, <2>6, <2>7 DEF ServeRead
<1>6. CASE ServeWrite
  <2>1. requests # <<>> /\ UNCHANGED <<waiting, expected>>
    BY <1>6 DEF ServeWrite, Serves, client
  <2>2. \/ UNCHANGED responses
        \/ \E status \in Statuses : status # "ok" /\ Respond(status, None)
    BY <1>6 DEF ServeWrite, ScanFails, Statuses
  <2> QED BY <1>3, <1>4, <2>1, <2>2
<1>7. CASE RenameRecord
  <2>1. requests # <<>> /\ UNCHANGED <<waiting, expected>>
    BY <1>0, <1>7 DEF RenameRecord, TypeOK, client
  <2>2. \/ UNCHANGED responses
        \/ \E status \in Statuses : status # "ok" /\ Respond(status, None)
    BY <1>7 DEF RenameRecord, Statuses
  <2> QED BY <1>3, <1>4, <2>1, <2>2
<1>8. CASE SyncRecord
  <2>1. /\ requests # <<>> /\ UNCHANGED <<waiting, expected, live>> /\ bpc = "sync"
        /\ Head(requests).command = "write"
    BY <1>0, <1>8 DEF SyncRecord, TypeOK, WriteInv, client
  <2>2. Head(requests).record \in Records /\ live[Head(requests).record] = Head(requests).data
    BY <1>0, <2>1, HeadTypes DEF WriteInv
  <2>3. CASE durable' = [r \in Records |-> {live[r]}] /\ Respond("ok", None)
    <3>1. durable'[Head(requests).record] = {Head(requests).data}
      BY <2>2, <2>3
    <3>2. "ok" \in Statuses /\ None \in Values \cup {None}
      BY DEF Statuses
    <3> QED BY <1>3, <2>1, <2>3, <3>1, <3>2
  <2>4. CASE Respond("io_error", None)
    BY <1>3, <2>1, <2>4 DEF Statuses
  <2> QED BY <1>8, <2>3, <2>4 DEF SyncRecord
<1>9. CASE StartRun \/ EndRun \/ Receive \/ ReceiveTimesOut \/ Kill \/ PowerLoss
  BY <1>1, <1>9 DEF StartRun, EndRun, Receive, ReceiveTimesOut, Kill, PowerLoss, Stopped
<1>10. CASE UNCHANGED vars
  BY <1>0, <1>10 DEF vars, client, disk, AnswerInv, Answers
<1> QED BY <1>2, <1>5, <1>6, <1>7, <1>8, <1>9, <1>10 DEF Next

-----------------------------------------------------------------------------
(* The rest of the invariant *)

\* The step of what scan_storage and the writes leave of temporary files.
LEMMA NextTempInv ==
    ASSUME StorageInv, [Next]_vars
    PROVE  TempInv' /\ LeftoversAreRemoved'
<1>0. /\ TempInv /\ LeftoversAreRemoved /\ temps \in Nat
      /\ bpc \in {"idle", "rename", "sync"} /\ scanned \in BOOLEAN
  BY DEF StorageInv, TypeOK
<1>1. CASE StartRun
  BY <1>1 DEF StartRun, TempInv, LeftoversAreRemoved
<1>2. CASE EndRun
  BY <1>0, <1>2 DEF EndRun, TempInv, LeftoversAreRemoved, disk
<1>3. ASSUME UNCHANGED <<bpc, scanned, temps, running>>
      PROVE  TempInv' /\ LeftoversAreRemoved'
  BY <1>0, <1>3 DEF TempInv, LeftoversAreRemoved
<1>4. ASSUME NEW r \in Records, NEW v \in Values, Read(r, Size(v)) \/ WriteAtomic(r, v)
      PROVE  TempInv' /\ LeftoversAreRemoved'
  BY <1>3, <1>4 DEF Read, WriteAtomic, Call, disk
<1>5. CASE Receive \/ ReceiveTimesOut
  BY <1>3, <1>5 DEF Receive, ReceiveTimesOut, disk
<1>6. CASE ServeRead
  <2>1. bpc = "idle" /\ bpc' = "idle" /\ running' = running
    BY <1>6 DEF ServeRead, Serves, ScanFails, Respond
  <2>2. \/ UNCHANGED <<scanned, temps>>
        \/ scanned' = TRUE /\ temps' = TempsAfterScan
    BY <1>6 DEF ServeRead, ScanFails
  <2> QED BY <1>0, <2>1, <2>2 DEF TempInv, LeftoversAreRemoved, TempsAfterScan
<1>7. CASE ServeWrite
  <2>1. bpc = "idle" /\ running' = running
    BY <1>7 DEF ServeWrite, Serves
  <2>2. \/ UNCHANGED <<scanned, temps>> /\ bpc' = "idle"
        \/ scanned' = TRUE /\ temps' = TempsAfterScan /\ bpc' = "idle"
        \/ scanned' = TRUE /\ temps' = TempsAfterScan + 1 /\ bpc' = "rename"
    BY <1>7 DEF ServeWrite, ScanFails, Respond
  <2>3. TempsAfterScan \in Nat /\ (running /\ scanned => temps = 0)
    BY <1>0, <2>1 DEF TempsAfterScan, LeftoversAreRemoved
  <2>4. running => TempsAfterScan = 0
    BY <1>0, <2>3 DEF TempsAfterScan
  <2> QED BY <1>0, <2>1, <2>2, <2>3, <2>4 DEF TempInv, LeftoversAreRemoved
<1>8. CASE RenameRecord
  <2>1. /\ bpc = "rename" /\ bpc' \in {"idle", "sync"} /\ temps' = temps - 1
        /\ UNCHANGED <<scanned, running>>
    BY <1>8 DEF RenameRecord, Respond
  <2> QED BY <1>0, <2>1 DEF TempInv, LeftoversAreRemoved
<1>9. CASE SyncRecord
  <2>1. bpc = "sync" /\ bpc' = "idle" /\ UNCHANGED <<scanned, running, temps>>
    BY <1>9 DEF SyncRecord, Respond
  <2> QED BY <1>0, <2>1 DEF TempInv, LeftoversAreRemoved
<1>10. CASE Kill \/ PowerLoss
  BY <1>10 DEF Kill, PowerLoss, Stopped, TempInv, LeftoversAreRemoved
<1>11. CASE UNCHANGED vars
  BY <1>3, <1>11 DEF vars, disk
<1> QED BY <1>1, <1>2, <1>4, <1>5, <1>6, <1>7, <1>8, <1>9, <1>10, <1>11 DEF Next

\* Every step keeps a reported write on the disk.
LEMMA NextAckedWrite ==
    ASSUME StorageInv, [Next]_vars
    PROVE  AckedWriteSurvives'
<1>0. TypeOK /\ QueueInv /\ WriteInv /\ AnswerInv /\ AckedWriteSurvives
  BY DEF StorageInv
<1>1. CASE Receive
  <2>1. durable' = durable
    BY <1>1 DEF Receive, disk
  <2>2. CASE /\ waiting.command = "write" /\ Head(responses).status = "ok"
             /\ Answers(Head(responses), waiting)
             /\ expected' = [expected EXCEPT ![waiting.record] = {waiting.data}]
    <3>1. durable[waiting.record] \subseteq {waiting.data}
      BY <1>0, <1>1, <2>2, SuccessIsLast DEF Receive, AnswerInv
    <3> QED BY <1>0, <2>1, <2>2, <3>1 DEF AckedWriteSurvives, TypeOK
  <2>3. CASE \A r \in Records : expected[r] \subseteq expected'[r]
    BY <1>0, <2>1, <2>3 DEF AckedWriteSurvives
  <2> QED BY <1>0, <2>2, <2>3, ExpectedSteps
<1>2. ASSUME ~Receive PROVE \A r \in Records : expected[r] \subseteq expected'[r]
  BY <1>0, <1>2, ExpectedSteps
<1>3. ASSUME ~Receive, \A r \in Records : durable'[r] \subseteq durable[r]
      PROVE  AckedWriteSurvives'
  BY <1>0, <1>2, <1>3 DEF AckedWriteSurvives
<1>4. CASE RenameRecord
  <2>1. requests # <<>> /\ UNCHANGED expected
    BY <1>0, <1>4 DEF RenameRecord, TypeOK, client
  <2>2. Head(requests).record \in Records /\ Head(requests).command = "write"
    BY <1>0, <1>4, <2>1, HeadTypes DEF RenameRecord, WriteInv
  <2>3. Head(requests).data \in expected[Head(requests).record]
    BY <1>0, <2>1, <2>2, TailOf DEF TypeOK, WriteInv
  <2>4. durable' = durable \/ durable' = [durable EXCEPT ![Head(requests).record] =
                                                            @ \cup {Head(requests).data}]
    BY <1>4 DEF RenameRecord
  <2> QED BY <1>0, <2>1, <2>2, <2>3, <2>4 DEF AckedWriteSurvives, TypeOK
<1>5. CASE SyncRecord
  <2>1. UNCHANGED expected
    BY <1>5 DEF SyncRecord, client
  <2>2. \A r \in Records : durable'[r] \subseteq durable[r]
    BY <1>0, <1>5 DEF SyncRecord, WriteInv
  <2> QED BY <1>0, <2>1, <2>2 DEF AckedWriteSurvives
<1>6. CASE PowerLoss
  <2>1. \A r \in Records : durable'[r] \subseteq durable[r]
    BY <1>6 DEF PowerLoss
  <2>2. UNCHANGED expected
    BY <1>6 DEF PowerLoss, Stopped
  <2> QED BY <1>0, <2>1, <2>2 DEF AckedWriteSurvives
<1>7. ASSUME UNCHANGED durable PROVE AckedWriteSurvives'
  BY <1>1, <1>3, <1>7
<1>8. ASSUME NEW r \in Records, NEW v \in Values, Read(r, Size(v)) \/ WriteAtomic(r, v)
      PROVE  UNCHANGED durable
  BY <1>8 DEF Read, WriteAtomic, Call, disk
<1>9. CASE StartRun \/ EndRun \/ ReceiveTimesOut \/ ServeRead \/ ServeWrite \/ Kill
           \/ UNCHANGED vars
  BY <1>7, <1>9 DEF StartRun, EndRun, ReceiveTimesOut, ServeRead, ServeWrite, Kill, vars, disk
<1> QED BY <1>1, <1>4, <1>5, <1>6, <1>7, <1>8, <1>9 DEF Next

-----------------------------------------------------------------------------
(* The theorems *)

\* The invariant of the storage service: the queues in order, what is renamed,
\* answered and left behind, for every set of records and every number of faults.
THEOREM StorageInvariance == Spec => []StorageInv
<1>1. Init => StorageInv
  <2> SUFFICES ASSUME Init PROVE StorageInv
    OBVIOUS
  <2>1. Len(requests) = 0 /\ Len(responses) = 0 /\ requests \in Seq(Requests)
        /\ responses \in Seq(Responses)
    BY EmptySeq DEF Init
  <2>2. QueueInv /\ WriteInv /\ AnswerInv /\ TempInv /\ AckedWriteSurvives
    BY <2>1 DEF Init, QueueInv, WriteInv, AnswerInv, TempInv, AckedWriteSurvives
  <2>3. LeftoversAreRemoved
    BY DEF Init, LeftoversAreRemoved
  <2>4. nextId \in 1..(MaxCalls + 1) /\ faults \in 0..MaxFaults /\ temps \in Nat
    BY StorageAssumption DEF Init
  <2>5. TypeOK
    BY <2>1, <2>4 DEF Init, TypeOK, NoReport
  <2> QED BY <2>2, <2>3, <2>5 DEF StorageInv
<1>2. StorageInv /\ [Next]_vars => StorageInv'
  BY NextTypeOK, NextQueueInv, NextWriteInv, NextAnswerInv, NextTempInv, NextAckedWrite
     DEF StorageInv
<1> QED BY <1>1, <1>2, PTL DEF Spec

\* Every variable of the storage service keeps its type.
THEOREM StorageTypes == Spec => []TypeOK
<1>1. StorageInv => TypeOK
  BY DEF StorageInv
<1> QED BY <1>1, StorageInvariance, PTL

\* Once AppStorage::write_atomic has returned true, no power loss brings back an
\* older content of the record.
THEOREM ReportedWriteSurvives == Spec => []AckedWriteSurvives
<1>1. StorageInv => AckedWriteSurvives
  BY DEF StorageInv
<1> QED BY <1>1, StorageInvariance, PTL

\* The first request of a run removes what a killed broker left (scan_storage).
THEOREM NoLeftovers == Spec => []LeftoversAreRemoved
<1>1. StorageInv => LeftoversAreRemoved
  BY DEF StorageInv
<1> QED BY <1>1, StorageInvariance, PTL

\* AppStorage::read returns what was last written to the record, also when earlier
\* calls timed out.
THEOREM ReadIsTrue == Spec => ReadsWhatWasWritten
<1>1. StorageInv /\ [Next]_vars =>
         [reported' # reported /\ reported' # NoReport
            => reported'.data \in expected[reported'.record]]_vars
  <2> SUFFICES ASSUME StorageInv, Next, reported' # reported, reported' # NoReport
               PROVE  reported'.data \in expected[reported'.record]
    BY DEF vars, client
  <2>0. TypeOK /\ QueueInv /\ AnswerInv
    BY DEF StorageInv
  <2>1. CASE Receive
    <3>1. /\ waiting # NoRequest /\ responses # <<>>
          /\ Answers(Head(responses), waiting) /\ Head(responses).status = "ok"
          /\ waiting.command = "read"
          /\ reported' = [record |-> waiting.record, data |-> Head(responses).data]
      BY <2>1 DEF Receive
    <3>2. Head(responses).data \in expected[waiting.record]
      BY <2>0, <3>1, SuccessIsLast DEF AnswerInv
    <3> QED BY <3>1, <3>2
  <2>2. CASE ServeRead \/ ServeWrite \/ RenameRecord \/ SyncRecord
    BY <2>0, <2>2, BrokerSteps
  <2>3. ASSUME NEW r \in Records, NEW v \in Values, Read(r, Size(v)) \/ WriteAtomic(r, v)
        PROVE  UNCHANGED reported
    BY <2>3 DEF Read, WriteAtomic, Call
  <2>4. CASE StartRun \/ EndRun \/ ReceiveTimesOut \/ Kill \/ PowerLoss
    BY <2>4 DEF StartRun, EndRun, ReceiveTimesOut, Kill, PowerLoss, Stopped
  <2> QED BY <2>1, <2>2, <2>3, <2>4 DEF Next
<1> QED BY <1>1, StorageInvariance, PTL DEF Spec, ReadsWhatWasWritten
=============================================================================
