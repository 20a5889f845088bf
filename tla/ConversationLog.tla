-------------------------- MODULE ConversationLog --------------------------
(***************************************************************************)
(* The conversation log: a request takes a number when it arrives, and     *)
(* when it has been answered a task of its own writes its record: it looks *)
(* at the size of the file, renames a full one to the backup, opens the    *)
(* file and appends.  Tasks share the file system and no lock.             *)
(*                                                                         *)
(* Files are kept apart by an inode, because a rename does not move an     *)
(* open file.  A record is the request it is of; sizes are in records.     *)
(***************************************************************************)
EXTENDS Naturals, Sequences, FiniteSets, SequencesExt

CONSTANTS
    Writers,   \* requests whose exchange is logged
    Absent,    \* no such file
    Sizes      \* possible values of max_size; 0 disables the rotation

ASSUME LogAssumption ==
    IsFiniteSet(Writers) /\ Sizes \subseteq Nat /\ Absent \notin Nat

Inodes == 1 .. Cardinality(Writers) + 1

VARIABLES
    maxSize,    \* inner.max_size
    counter,    \* inner.request_counter
    number,     \* the number a request has, 0 before it arrives
    at,         \* where a request and its task are
    earlier,    \* requests recorded before it arrived
    files,      \* what the inodes hold
    current,    \* the inode that has the name of the log
    backup,     \* the inode that has the name <path>.1
    handle,     \* the inode a task has opened
    recorded,   \* the records written, in that order
    peak,       \* how many tasks have been at work at a time
    refused,    \* a rename has failed
    restarts    \* how often the process was started again

logVars == <<maxSize, counter, number, at, earlier, files, current, backup,
             handle, recorded, peak, refused, restarts>>

LogInit ==
    /\ maxSize \in Sizes
    /\ counter = 0
    /\ number = [r \in Writers |-> 0]
    /\ at \in [Writers -> {"idle", "none"}]
    /\ earlier = [r \in Writers |-> {}]
    /\ files = [i \in Inodes |-> <<>>]
    /\ current = Absent /\ backup = Absent
    /\ handle = [r \in Writers |-> Absent]
    /\ recorded = <<>>
    /\ peak = 0 /\ refused = FALSE
    /\ restarts = 0

Working == {r \in Writers : at[r] \in {"stat", "rename", "open", "write"}}
Move(r, place) == at' = [at EXCEPT ![r] = place]
Unused == {i \in Inodes : /\ files[i] = <<>> /\ i \notin {current, backup}
                          /\ \A r \in Working : handle[r] # i}

NextInodes == {i \in Unused : \A j \in Unused : i <= j}

\* Slip: the number is derived from the records in the file.
NumberFromFile(r) ==
    /\ at[r] = "idle"
    /\ counter' = counter + 1
    /\ number' = [number EXCEPT ![r] =
                     1 + IF current = Absent THEN 0 ELSE Len(files[current])]
    /\ earlier' = [earlier EXCEPT ![r] = ToSet(recorded)]
    /\ Move(r, "running")
    /\ UNCHANGED <<maxSize, files, current, backup, handle, recorded,
                   peak, refused, restarts>>

\* A request arrives: next_request_number.
Arrive(r) ==
    /\ at[r] = "idle"
    /\ counter' = counter + 1
    /\ number' = [number EXCEPT ![r] = counter + 1]
    /\ earlier' = [earlier EXCEPT ![r] = ToSet(recorded)]
    /\ Move(r, "running")
    /\ UNCHANGED <<maxSize, files, current, backup, handle, recorded,
                   peak, refused, restarts>>

\* It fails or its client leaves, and nothing is logged.
Abandon(r) ==
    /\ at[r] = "running"
    /\ Move(r, "gone")
    /\ UNCHANGED <<maxSize, counter, number, earlier, files, current, backup,
                   handle, recorded, peak, refused, restarts>>

\* It is answered, and the task is spawned.
Spawn(r) ==
    /\ at[r] = "running"
    /\ Move(r, "stat")
    /\ peak' = IF Cardinality(Working) < peak THEN peak ELSE peak + 1
    /\ UNCHANGED <<maxSize, counter, number, earlier, files, current, backup,
                   handle, recorded, refused, restarts>>

\* Slip: a file is rotated one record too early.
StatEarly(r) ==
    /\ at[r] = "stat"
    /\ \/ Move(r, "gone")
       \/ Move(r, IF /\ maxSize # 0 /\ current # Absent
                     /\ Len(files[current]) + 1 >= maxSize
                  THEN "rename" ELSE "open")
    /\ UNCHANGED <<maxSize, counter, number, earlier, files, current, backup,
                   handle, recorded, peak, refused, restarts>>

\* Slip: the limit is taken for the last size that is allowed.
StatBeyond(r) ==
    /\ at[r] = "stat"
    /\ \/ Move(r, "gone")
       \/ Move(r, IF /\ maxSize # 0 /\ current # Absent
                     /\ Len(files[current]) > maxSize
                  THEN "rename" ELSE "open")
    /\ UNCHANGED <<maxSize, counter, number, earlier, files, current, backup,
                   handle, recorded, peak, refused, restarts>>

\* The first half of maybe_rotate: the size is looked at.  An error of the
\* file system other than a missing file ends the task.
Stat(r) ==
    /\ at[r] = "stat"
    /\ \/ Move(r, "gone")
       \/ Move(r, IF /\ maxSize # 0 /\ current # Absent
                     /\ Len(files[current]) >= maxSize
                  THEN "rename" ELSE "open")
    /\ UNCHANGED <<maxSize, counter, number, earlier, files, current, backup,
                   handle, recorded, peak, refused, restarts>>

\* The second half: a rename that fails is ignored; one that finds no file
\* any more, too.
Rename(r) ==
    /\ at[r] = "rename"
    /\ Move(r, "open")
    /\ \/ /\ current # Absent
          /\ backup' = current /\ current' = Absent
          /\ UNCHANGED refused
       \/ /\ refused' = (refused \/ current # Absent)
          /\ UNCHANGED <<current, backup>>
    /\ UNCHANGED <<maxSize, counter, number, earlier, files, handle, recorded,
                   peak, restarts>>

\* The file is opened for appending, and created if it is missing.
Open(r) ==
    /\ at[r] = "open"
    /\ \/ Move(r, "gone") /\ UNCHANGED <<current, handle>>
       \/ /\ Move(r, "write")
          /\ \E i \in IF current = Absent THEN NextInodes ELSE {current} :
                current' = i /\ handle' = [handle EXCEPT ![r] = i]
    /\ UNCHANGED <<maxSize, counter, number, earlier, files, backup, recorded,
                   peak, refused, restarts>>

\* The record is appended to the open file, whatever its name is now.
Write(r) ==
    /\ at[r] = "write"
    /\ \/ /\ files' = [files EXCEPT ![handle[r]] = Append(@, r)]
          /\ recorded' = Append(recorded, r)
       \/ UNCHANGED <<files, recorded>>
    /\ Move(r, "gone")
    /\ UNCHANGED <<maxSize, counter, number, earlier, current, backup, handle,
                   peak, refused, restarts>>

\* The process ends, with the tasks it has, and is started again.
Restart ==
    /\ restarts = 0
    /\ restarts' = restarts + 1
    /\ counter' = 0
    /\ number' = [r \in Writers |-> 0]
    /\ at' = [r \in Writers |-> IF at[r] \in {"idle", "none"}
                            THEN at[r] ELSE "gone"]
    /\ UNCHANGED <<maxSize, earlier, files, current, backup, handle, recorded,
                   peak, refused>>

LogStep(r) ==
    \/ Arrive(r) \/ Abandon(r) \/ Spawn(r)
    \/ Stat(r) \/ Rename(r) \/ Open(r) \/ Write(r)
LogNext == (\E r \in Writers : LogStep(r)) \/ Restart
-----------------------------------------------------------------------------
Contents(i) == IF i = Absent THEN <<>> ELSE files[i]
Kept == Contents(backup) \o Contents(current)

LogTypeOK ==
    /\ maxSize \in Sizes /\ counter \in Nat
    /\ number \in [Writers -> 0 .. counter]
    /\ at \in [Writers -> {"idle", "running", "stat", "rename", "open", "write",
                          "gone", "none"}]
    /\ earlier \in [Writers -> SUBSET Writers]
    /\ files \in [Inodes -> Seq(Writers)]
    /\ current \in Inodes \cup {Absent} /\ backup \in Inodes \cup {Absent}
    /\ current # Absent => current # backup
    /\ handle \in [Writers -> Inodes \cup {Absent}]
    /\ \A r \in Writers : at[r] = "write" => handle[r] \in Inodes
    /\ recorded \in Seq(Writers)
    /\ peak \in Nat /\ restarts \in Nat /\ refused \in BOOLEAN

\* The log does not outgrow its limit by more than the records of tasks that
\* looked at the size before the others wrote (maybe_rotate and log_cycle),
\* as long as renames succeed.
LogBounded ==
    maxSize # 0 /\ ~refused =>
        Len(Contents(current)) + Cardinality({r \in Working : at[r] = "write"
                                                 /\ handle[r] = current})
            <= maxSize - 1 + peak

\* What a reader finds in the backup and the log is in the order of writing,
\* and what a request found recorded when it arrived comes before its own
\* record and has a smaller number, if it is of the same process.
LogOrdered ==
    \A i, j \in 1 .. Len(Kept) :
        i < j => Kept[j] \notin earlier[Kept[i]]
                 /\ (Kept[i] \in earlier[Kept[j]] /\ number[Kept[i]] # 0
                     /\ number[Kept[j]] # 0
                     => number[Kept[i]] < number[Kept[j]])

\* Rotation "overwrites any previous backup" (the head of the file): it
\* leaves the records written last, a full file of them and the new one.
\* This needs tasks that do not overlap: two that find the file full rotate
\* one after the other, and the second backup is a short one.
KeepsLatest ==
    Working = {} /\ peak <= 1 =>
        \E n \in 0 .. Len(recorded) :
            /\ Kept = SubSeq(recorded, n + 1, Len(recorded))
            /\ n > 0 => Len(Kept) >= maxSize
=============================================================================
