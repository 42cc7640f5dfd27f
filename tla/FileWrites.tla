----------------------------- MODULE FileWrites -----------------------------
(***************************************************************************)
(* How the platform writes a file that something else reads: a slot of the *)
(* release state, an application's record, the session status, the         *)
(* registry of the desktop, the files of a release.  Each is a sequence of *)
(* system calls: make the directories, create a temporary file, write it   *)
(* in pieces, fsync, rename it to its name, fsync the directory.  Every    *)
(* call may fail, the writer may be killed before any of them, and a power *)
(* loss may keep or drop what has not been synced: any directory entry and *)
(* the end of any file.  /run is in memory and only sees kills.            *)
(***************************************************************************)
EXTENDS Integers, Sequences, FiniteSets

CONSTANTS Writers,      \* the files written: names of Calls
          Pieces,       \* calls of write() that a whole file takes
          MaxRuns,      \* bound on the attempts
          MaxFaults,    \* bound on the calls that fail
          MaxLosses     \* bound on the power losses

FilesAssumption ==
    /\ Writers \subseteq {"slot", "record", "status", "release"}
    /\ Pieces \in Nat \ {0} /\ {MaxRuns, MaxFaults, MaxLosses} \subseteq Nat

VARIABLES writer,       \* the file that is written in this behaviour
          run,          \* history: attempts so far, each writes other contents
          pc,           \* the next call of the attempt, 0 when there is none
          made,         \* the directory was made by this attempt (`created`)
          entry,        \* what every name of every directory leads to
          disk,         \* what a power loss may leave under the name
          file,         \* the pieces in each file, and whether they are synced
          acked,        \* history: the last attempt reported as done
          missed,       \* history: a directory was taken as it was, not synced
          faults, losses

vars == <<writer, run, pc, made, entry, disk, file, acked, missed, faults, losses>>

None == <<>>
Dir  == <<"directory">>

\* mkdir, open and check, and fsync of both only if this call made it.
ensure_directory_at(parent, name) ==
    << <<"mkdir", parent, name>>, <<"sync_made", name>>, <<"sync_made", parent>> >>

\* Of the two directories of an application's records the outer is not synced itself.
ensure_private_storage ==
    << <<"mkdir", "root", "data">>, <<"sync_made", "root">> >>
    \o ensure_directory_at("data", "app")

\* Wrong variant: a short write counts as the whole file.
write_all_Short == << <<"write_once">> >>

\* Pieces are written until the whole file is; EINTR only repeats the call.
write_all == << <<"write">> >>

\* Create exclusively under a name of its own, write, sync.
Written(dir, name) == << <<"create", dir, name>> >> \o write_all \o << <<"sync_file">> >>

write_slot ==
    Written("app", "temporary")
    \o << <<"rename", "app", "temporary", "final">>, <<"sync", "app">> >>

write_storage_record == write_slot

\* The name of the temporary file holds the process id: one that a process of
\* the same id left is removed, then created again.
atomic_status ==
    << <<"remove", "run", "temporary">> >> \o Written("run", "temporary")
    \o << <<"rename", "run", "temporary", "final">>, <<"sync", "run">> >>

\* One payload file, in a directory of the release.
create_file ==
    ensure_directory_at("stage", "assets") \o Written("assets", "file")
    \o << <<"sync", "assets">> >>

create_package_copy ==
    Written("stage", "package") \o Written("stage", "marker") \o << <<"sync", "stage">> >>

stage_verified_release ==
    ensure_directory_at("root", "apps") \o ensure_directory_at("apps", "app")
    \o ensure_directory_at("app", "releases")
    \o << <<"present", "releases", "final">>, <<"stage", "releases", "temporary">> >>
    \o create_file \o create_package_copy
    \o << <<"rename", "releases", "temporary", "final">>,
          <<"sync", "releases">>, <<"sync", "app">>, <<"sync", "apps">>, <<"sync", "root">> >>

\* persist_release_state writes the other slot in the same way before the last two.
Calls ==
    CASE writer = "slot" ->
            ensure_directory_at("root", "apps") \o ensure_directory_at("apps", "app")
            \o write_slot \o << <<"sync", "apps">>, <<"sync", "root">> >>
      [] writer = "record"  -> ensure_private_storage \o write_storage_record
      [] writer = "status"  -> atomic_status
      [] writer = "release" -> stage_verified_release

\* The names that lead from the root of the store to the final name.
Top ==
    CASE writer = "slot"    -> {<<"root", "apps">>, <<"apps", "app">>, <<"app", "final">>}
      [] writer = "record"  -> {<<"root", "data">>, <<"data", "app">>, <<"app", "final">>}
      [] writer = "status"  -> {<<"run", "final">>}
      [] writer = "release" -> {<<"root", "apps">>, <<"apps", "app">>, <<"app", "releases">>,
                                <<"releases", "final">>}

\* The names within a release, and those of its files.
Inner == {<<"stage", "assets">>, <<"assets", "file">>, <<"stage", "package">>,
          <<"stage", "marker">>}
Contents ==
    IF writer = "release" THEN Inner \ {<<"stage", "assets">>}
    ELSE {e \in Top : e[2] = "final"}

Temporary == {<<d, "temporary">> : d \in {"app", "run", "releases"}}
Names == Top \union (IF writer = "release" THEN Inner ELSE {}) \union
         {t \in Temporary : \E e \in Top : e = <<t[1], "final">>}

Init == /\ writer \in Writers
        /\ run = 0 /\ pc = 0 /\ made = FALSE /\ file = <<>> /\ acked = 0
        /\ missed = FALSE /\ faults = 0 /\ losses = 0
        /\ entry = [e \in Names |-> None] /\ disk = [e \in Names |-> {None}]

-----------------------------------------------------------------------------
\* The steps of an attempt.

Call(name) == pc # 0 /\ Calls[pc][1] = name
At == <<Calls[pc][2], Calls[pc][3]>>

\* The last call done is what the attempt reports.
Continue ==
    /\ pc' = IF pc = Len(Calls) THEN 0 ELSE pc + 1
    /\ acked' = IF pc = Len(Calls) THEN run ELSE acked

\* Names change in memory at once and on the disk at some time until the fsync.
Link(changed, value) ==
    /\ entry' = [e \in Names |-> IF e \in changed THEN value ELSE entry[e]]
    /\ disk' = [e \in Names |-> disk[e] \union (IF e \in changed THEN {value} ELSE {})]

Start ==
    /\ pc = 0 /\ run < MaxRuns
    /\ run' = run + 1 /\ pc' = 1 /\ made' = FALSE
    /\ UNCHANGED <<writer, entry, disk, file, acked, missed, faults, losses>>

\* A directory that is made, after a power loss took it perhaps, is empty.
MakeDirectory ==
    /\ Call("mkdir")
    /\ made' = (entry[At] = None)
    /\ missed' = (missed \/ (entry[At] # None /\ None \in disk[At]))
    /\ IF made'
       THEN /\ entry' = [e \in Names |-> IF e = At THEN Dir
                                         ELSE IF e[1] = At[2] THEN None ELSE entry[e]]
            /\ disk' = [e \in Names |-> IF e = At THEN disk[e] \union {Dir}
                                        ELSE IF e[1] = At[2] THEN {None} ELSE disk[e]]
       ELSE UNCHANGED <<entry, disk>>
    /\ Continue
    /\ UNCHANGED <<writer, run, file, faults, losses>>

\* A stage has a random name: what an earlier attempt left is another directory.
MakeStage ==
    /\ Call("stage")
    /\ entry' = [e \in Names |-> IF e = At THEN Dir ELSE IF e \in Inner THEN None ELSE entry[e]]
    /\ disk' = [e \in Names |-> IF e = At THEN {None, Dir}
                                ELSE IF e \in Inner THEN {None} ELSE disk[e]]
    /\ Continue
    /\ UNCHANGED <<writer, run, made, file, missed, faults, losses>>

Synced(dir) == disk' = [e \in Names |-> IF e[1] = dir THEN {entry[e]} ELSE disk[e]]

SyncDirectory ==
    /\ Call("sync") \/ Call("sync_made")
    /\ IF Call("sync_made") /\ ~made THEN UNCHANGED disk ELSE Synced(Calls[pc][2])
    /\ Continue
    /\ UNCHANGED <<writer, run, made, entry, file, missed, faults, losses>>

\* A temporary file of a random name never meets one that was left.
Create ==
    /\ Call("create")
    /\ LET id == <<run, pc>> IN
        /\ Link({At}, id)
        /\ file' = [i \in DOMAIN file \union {id} |->
                        IF i = id THEN [pieces |-> 0, synced |-> FALSE] ELSE file[i]]
    /\ Continue
    /\ UNCHANGED <<writer, run, made, missed, faults, losses>>

RemoveOld ==
    /\ Call("remove")
    /\ Link({At}, None)
    /\ Continue
    /\ UNCHANGED <<writer, run, made, file, missed, faults, losses>>

\* The file this attempt created last.
Open == CHOOSE i \in DOMAIN file :
            i[1] = run /\ \A j \in DOMAIN file : j[1] = run => j[2] <= i[2]

Write ==
    /\ Call("write") \/ Call("write_once")
    /\ file' = [file EXCEPT ![Open].pieces = @ + 1]
    /\ IF Call("write") /\ file[Open].pieces + 1 < Pieces THEN UNCHANGED <<pc, acked>>
       ELSE Continue
    /\ UNCHANGED <<writer, run, made, entry, disk, missed, faults, losses>>

SyncFile ==
    /\ Call("sync_file")
    /\ file' = [file EXCEPT ![Open].synced = TRUE]
    /\ Continue
    /\ UNCHANGED <<writer, run, made, entry, disk, missed, faults, losses>>

\* A release is renamed only to a name that is free, which "present" made sure of.
Rename ==
    /\ Call("rename")
    /\ LET final == <<Calls[pc][2], Calls[pc][4]>> IN
        /\ entry' = [entry EXCEPT ![final] = entry[At], ![At] = None]
        /\ disk' = [disk EXCEPT ![final] = @ \union {entry[At]}, ![At] = @ \union {None}]
    /\ Continue
    /\ UNCHANGED <<writer, run, made, file, missed, faults, losses>>

\* release_package_matches: the copy of the package and its digest are compared.
release_package_matches ==
    \A e \in {<<"stage", "package">>, <<"stage", "marker">>} :
        entry[e] # None /\ file[entry[e]].pieces = Pieces

\* A release of this number that holds the same package needs no staging.
FindPresent ==
    /\ Call("present")
    /\ IF entry[At] = None THEN Continue /\ UNCHANGED missed
       ELSE /\ pc' = 0
            /\ acked' = IF release_package_matches THEN run ELSE acked
            /\ missed' = (missed \/ (release_package_matches /\ None \in disk[At]))
    /\ UNCHANGED <<writer, run, made, entry, disk, file, faults, losses>>

\* Any call may fail.  The temporary file of a record or of the status is then
\* removed; that of a slot, and a stage, stay.
Fail ==
    /\ pc # 0 /\ faults < MaxFaults
    /\ pc' = 0 /\ faults' = faults + 1
    /\ \/ UNCHANGED <<entry, disk>>
       \/ /\ writer \in {"record", "status"}
          /\ Link(Names \intersect Temporary, None)
    /\ UNCHANGED <<writer, run, made, file, acked, missed, losses>>

Kill ==
    /\ pc # 0
    /\ pc' = 0
    /\ UNCHANGED <<writer, run, made, entry, disk, file, acked, missed, faults, losses>>

PowerLoss ==
    /\ losses < MaxLosses /\ writer # "status"
    /\ losses' = losses + 1 /\ pc' = 0
    /\ LET unsettled == {e \in Names : Cardinality(disk[e]) > 1}
           unsynced  == {i \in DOMAIN file : ~file[i].synced}
       IN  \E left \in [unsettled -> UNION {disk[e] : e \in unsettled}],
              kept \in [unsynced -> 0..Pieces] :
            /\ \A e \in unsettled : left[e] \in disk[e]
            /\ \A i \in unsynced : kept[i] <= file[i].pieces
            /\ entry' = [e \in Names |-> IF e \in unsettled THEN left[e]
                                         ELSE CHOOSE v \in disk[e] : TRUE]
            /\ file' = [i \in DOMAIN file |->
                            [pieces |-> IF i \in unsynced THEN kept[i] ELSE file[i].pieces,
                             synced |-> TRUE]]
    /\ disk' = [e \in Names |-> {entry'[e]}]
    /\ UNCHANGED <<writer, run, made, acked, missed, faults>>

Next == \/ Start \/ MakeDirectory \/ MakeStage \/ SyncDirectory \/ Create \/ RemoveOld
        \/ Write \/ SyncFile \/ Rename \/ FindPresent \/ Fail \/ Kill \/ PowerLoss

Spec == Init /\ [][Next]_vars

-----------------------------------------------------------------------------
\* What is found under the final name, after any failures, kills and power losses,
\* is whole: write_slot, write_storage_record, atomic_status and
\* stage_verified_release sync the contents before they rename.  And once an attempt
\* was reported as done, it or a later one is found, unless the attempt relied on a
\* directory or a release that an earlier one left unsynced.  The release state has
\* not even that exception: persist_release_state syncs the parents every time.
OldOrNew ==
    LET found == \A e \in Top : entry[e] # None
    IN  /\ found => /\ \A e \in Names \ Temporary : entry[e] # None
                    /\ \A e \in Contents : file[entry[e]].pieces = Pieces
        /\ (acked > 0 /\ (missed => writer = "slot")) =>
            found /\ (writer # "release" => \A e \in Contents : entry[e][1] >= acked)

-----------------------------------------------------------------------------
\* Why.  Whatever the writer, the files: those of this attempt are the ones it has
\* created so far, each is empty, then whole, then synced.
Whole(v) == v \in DOMAIN file /\ file[v].pieces = Pieces /\ file[v].synced

OfAttempt(i) ==
    /\ i[1] <= run /\ file[i] \in [pieces : Nat, synced : BOOLEAN]
    /\ (i[1] = run /\ pc # 0) => i[2] \in 1..(pc - 1) /\ Calls[i[2]][1] = "create"

Grows(k) ==
    /\ <<run, k>> \in DOMAIN file
    /\ pc = k + 1 => file[<<run, k>>].pieces < Pieces /\ ~file[<<run, k>>].synced
    /\ pc = k + 2 => file[<<run, k>>].pieces = Pieces
    /\ pc > k + 2 => Whole(<<run, k>>)

CreatedInv ==
    /\ DOMAIN file \subseteq Nat \X Nat /\ \A i \in DOMAIN file : OfAttempt(i)
    /\ \A k \in 1..(pc - 1) : Calls[k][1] = "create" => Grows(k)

\* What a name leads to is what the disk may have under it.
NamesInv ==
    /\ run \in Nat /\ acked \in 0..run /\ pc \in 0..Len(Calls)
    /\ made \in BOOLEAN /\ missed \in BOOLEAN
    /\ writer \in {"slot", "record", "status", "release"}
    /\ DOMAIN entry = Names /\ DOMAIN disk = Names
    /\ \A e \in Names : entry[e] \in disk[e]

\* The directories above the final name, the call that makes each and the one after
\* which it is settled, unless the attempt found it made and unsettled.
Above ==
    CASE writer = "slot"    -> {[name |-> <<"root", "apps">>, making |-> 1, settling |-> 3],
                                [name |-> <<"apps", "app">>, making |-> 4, settling |-> 6]}
      [] writer = "record"  -> {[name |-> <<"root", "data">>, making |-> 1, settling |-> 2],
                                [name |-> <<"data", "app">>, making |-> 3, settling |-> 5]}
      [] writer = "status"  -> {}
      [] writer = "release" -> {[name |-> <<"root", "apps">>, making |-> 1, settling |-> 3],
                                [name |-> <<"apps", "app">>, making |-> 4, settling |-> 6],
                                [name |-> <<"app", "releases">>, making |-> 7, settling |-> 9]}

Standing(d) ==
    /\ disk[d.name] \subseteq {None, Dir}
    /\ pc > d.making =>
        /\ entry[d.name] = Dir
        /\ missed \/ None \notin disk[d.name] \/ (made /\ pc <= d.settling)

AboveInv == \A d \in Above : Standing(d)

\* Where the writers put one file: its names, and the call that creates it.
Home == CASE writer \in {"slot", "record"} -> "app" [] writer = "status" -> "run"
          [] writer = "release" -> "releases"
Final == <<Home, "final">>
Temp  == <<Home, "temporary">>
Creating == CASE writer = "slot" -> 7 [] writer = "record" -> 6 [] writer = "status" -> 2
              [] writer = "release" -> 0

\* What may be left under the final name is whole; it changes to what is whole.
SingleInv ==
    writer # "release" =>
        /\ \A v \in disk[Final] : v = None \/ Whole(v)
        /\ pc \in (Creating + 1)..(Creating + 3) => entry[Temp] = <<run, Creating>>
        /\ pc > Creating + 3 => entry[Final] = <<run, Creating>>
        /\ pc > Creating + 4 => disk[Final] = {<<run, Creating>>}
        /\ writer = "slot" /\ pc > 12 => None \notin disk[<<"apps", "app">>]

\* A release has its name only when all that is in it is whole and settled.
Sealed == /\ \A e \in Inner : disk[e] = {entry[e]}
          /\ \A e \in Contents : Whole(entry[e])
          /\ entry[<<"stage", "assets">>] = Dir

ReleaseInv ==
    writer = "release" =>
        /\ disk[Final] \subseteq {None, Dir}
        /\ Dir \in disk[Final] => entry[Final] = Dir /\ Sealed
        /\ pc \in 11..26 => entry[Final] = None
        /\ pc \in 12..26 => entry[Temp] = Dir
        /\ pc = 12 => entry[<<"stage", "assets">>] = None
        /\ pc \in 13..26 => entry[<<"stage", "assets">>] = Dir
        /\ pc \in 16..26 => entry[<<"assets", "file">>] = <<run, 15>>
        /\ pc \in 19..26 => disk[<<"assets", "file">>] = {<<run, 15>>}
        /\ pc \in 20..26 => entry[<<"stage", "package">>] = <<run, 19>>
        /\ pc \in 23..26 => entry[<<"stage", "marker">>] = <<run, 22>>
        /\ pc = 26 => \A e \in Inner : disk[e] = {entry[e]}
        /\ pc > 26 => entry[Final] = Dir
        /\ pc > 27 => None \notin disk[Final]

\* What was reported is settled all the way down, and nothing older is left.
ReportedInv ==
    acked > 0 /\ (missed => writer = "slot") =>
        /\ \A e \in Top : None \notin disk[e]
        /\ writer # "release" => \A v \in disk[Final] : v[1] >= acked

FilesInv == NamesInv /\ CreatedInv /\ AboveInv /\ SingleInv /\ ReleaseInv /\ ReportedInv

=============================================================================
