---------------------------- MODULE Server_proofs ----------------------------
(***************************************************************************)
(* Proofs about what the server does with messages.                        *)
(*                                                                         *)
(* First ServerState, what it keeps between requests: types, whose failure *)
(* shows (FailureStaysOwn), how old an answered list may be (NoStaleList), *)
(* how long the log gets (LogBounded), in which order its records are      *)
(* (LogOrdered) and which ones are left (KeepsLatest).                     *)
(*                                                                         *)
(* Then Conversation, a request and its answer: lemmas about the operators *)
(* of Translation; the parser of ToolText, that it reads what is written   *)
(* as it was meant (WrittenIsUnderstood); the invariant ChatInv, that every*)
(* action keeps it, and what follows from it: results come after their     *)
(* calls (ResultsFollowCalls), nothing is lost on the way to the model     *)
(* (NothingLost), calls reach the client (CallsReachClient), texts are     *)
(* understood (TextUnderstood), the fallback helps (FallbackHelps), the    *)
(* log is true (LogTellsWhatHappened), the model is listed (ModelListed).  *)
(***************************************************************************)
EXTENDS ServerState, Conversation, WrittenAnswer, Integers, FiniteSetTheorems,
        SequenceTheorems, WellFoundedInduction, NaturalsInduction, TLAPS

\* No list is forgotten while it is under way, and what is under way or
\* cached was current not longer ago than a fetch may take.
AgeInv ==
    /\ \A r \in Readers :
          /\ step[r] \in {"token", "fetch", "answer"} => now <= began[r] + MaxFlight
          /\ step[r] = "answer" =>
                /\ list[r] # Fallback
                /\ list[r] = version \/ began[r] <= replacedAt[list[r]]
    /\ cache # NoEntry =>
          cache.models = version \/ cache.fetchedAt <= replacedAt[cache.models] + MaxFlight

CacheInv == CacheTypeOK /\ AgeInv /\ FailureStaysOwn

LEMMA CacheInitially == CacheInit => CacheInv
  BY CacheAssumption, SMTT(60)
  DEF CacheInit, CacheInv, CacheTypeOK, AgeInv, FailureStaysOwn

LEMMA LookupKeeps ==
  ASSUME CacheInv, NEW r \in Readers, Lookup(r) PROVE CacheInv'
<1> USE CacheAssumption DEF CacheInv, CacheTypeOK, AgeInv, FailureStaysOwn, Lookup
<1>1. CASE static
  <2>1. CacheTypeOK'
    BY <1>1, SMTT(60)
  <2>2. AgeInv'
    BY <1>1, SMTT(60)
  <2>3. FailureStaysOwn'
    BY <1>1, SMTT(60)
  <2> QED BY <2>1, <2>2, <2>3
<1>2. CASE ~static /\ Fresh(cache)
  <2>1. cache.models \in 0 .. version /\ cache.models # Fallback
    BY <1>2 DEF Fresh
  <2>2. /\ step' = [step EXCEPT ![r] = "done"]
        /\ list' = [list EXCEPT ![r] = cache.models]
        /\ UNCHANGED <<static, now, version, replacedAt, cache, began, failed>>
    BY <1>2
  <2>3. CacheTypeOK'
    BY <2>1, <2>2, SMTT(60)
  <2>4. AgeInv'
    BY <2>1, <2>2, SMTT(60)
  <2>5. FailureStaysOwn'
    BY <2>1, <2>2, SMTT(60)
  <2> QED BY <2>3, <2>4, <2>5
<1>3. CASE ~static /\ ~Fresh(cache)
  <2>1. /\ step' = [step EXCEPT ![r] = "token"]
        /\ began' = [began EXCEPT ![r] = now]
        /\ UNCHANGED <<static, now, version, replacedAt, cache, list, failed>>
    BY <1>3
  <2> HIDE DEF Lookup
  <2>2. CacheTypeOK'
    <3>1. began' \in [Readers -> 0 .. now]
      BY <2>1
    <3>2. step' \in [Readers -> {"idle", "none", "token", "fetch", "answer", "done"}]
      BY <2>1
    <3> QED BY <2>1, <3>1, <3>2
  <2>3. AgeInv'
    BY <2>1, SMTT(60)
  <2>4. FailureStaysOwn'
    BY <2>1, SMTT(60)
  <2> QED BY <2>2, <2>3, <2>4
<1> QED BY <1>1, <1>2, <1>3

LEMMA GetTokenKeeps ==
  ASSUME CacheInv, NEW r \in Readers, GetToken(r) PROVE CacheInv'
  BY CacheAssumption, SMTT(60) DEF CacheInv, CacheTypeOK, AgeInv, FailureStaysOwn, GetToken

LEMMA ServeKeeps ==
  ASSUME CacheInv, NEW r \in Readers, Serve(r) PROVE CacheInv'
  BY CacheAssumption, SMTT(60) DEF CacheInv, CacheTypeOK, AgeInv, FailureStaysOwn, Serve

LEMMA FetchFailsKeeps ==
  ASSUME CacheInv, NEW r \in Readers, FetchFails(r) PROVE CacheInv'
  BY CacheAssumption, SMTT(60) DEF CacheInv, CacheTypeOK, AgeInv, FailureStaysOwn, FetchFails

LEMMA StoreKeeps ==
  ASSUME CacheInv, NEW r \in Readers, Store(r) PROVE CacheInv'
  BY CacheAssumption, SMTT(60) DEF CacheInv, CacheTypeOK, AgeInv, FailureStaysOwn, Store

LEMMA ListChangesKeeps ==
  ASSUME CacheInv, ListChanges PROVE CacheInv'
  BY CacheAssumption, SMTT(60) DEF CacheInv, CacheTypeOK, AgeInv, FailureStaysOwn, ListChanges

LEMMA TickKeeps ==
  ASSUME CacheInv, Tick PROVE CacheInv'
  BY CacheAssumption, SMTT(60) DEF CacheInv, CacheTypeOK, AgeInv, FailureStaysOwn, Tick

-----------------------------------------------------------------------------
(***************************************************************************)
(* The log.                                                                *)
(***************************************************************************)
LEMMA LogInitially == LogInit => LogTypeOK
<1> SUFFICES ASSUME LogInit PROVE LogTypeOK
  OBVIOUS
<1> USE LogAssumption DEF LogInit, LogTypeOK
<1>1. maxSize \in Sizes /\ counter \in Nat
  OBVIOUS
<1>2. number \in [Writers -> 0 .. counter]
  OBVIOUS
<1>3. at \in [Writers -> {"idle", "running", "stat", "rename", "open", "write",
                         "gone", "none"}]
  OBVIOUS
<1>4. earlier \in [Writers -> SUBSET Writers]
  OBVIOUS
<1>5. files \in [Inodes -> Seq(Writers)]
  OBVIOUS
<1>6. /\ current \in Inodes \cup {Absent} /\ backup \in Inodes \cup {Absent}
         /\ current # Absent => current # backup
  OBVIOUS
<1>7. /\ handle \in [Writers -> Inodes \cup {Absent}]
         /\ \A q \in Writers : at[q] = "write" => handle[q] \in Inodes
  OBVIOUS
<1>9. recorded \in Seq(Writers)
  OBVIOUS
<1>10. peak \in Nat /\ restarts \in Nat /\ refused \in BOOLEAN
  OBVIOUS
<1> QED
    BY <1>1, <1>2, <1>3, <1>4, <1>5, <1>6, <1>7, <1>9, <1>10

LEMMA LogStepKeeps ==
  ASSUME LogTypeOK, NEW r \in Writers, LogStep(r) PROVE LogTypeOK'
<1> USE LogAssumption DEF LogTypeOK, Move
<1>1. CASE Arrive(r)
  <2> USE <1>1 DEF Arrive
  <2>1. (maxSize \in Sizes /\ counter \in Nat)'
    OBVIOUS
  <2>2. (number \in [Writers -> 0 .. counter])'
    OBVIOUS
  <2>3. (at \in [Writers -> {"idle", "running", "stat", "rename", "open", "write",
                         "gone", "none"}])'
    OBVIOUS
  <2>4. (earlier \in [Writers -> SUBSET Writers])'
    <3>1. ToSet(recorded) \in SUBSET Writers
      BY DEF ToSet
    <3> QED BY <3>1
  <2>5. (files \in [Inodes -> Seq(Writers)])'
    OBVIOUS
  <2>6. (/\ current \in Inodes \cup {Absent} /\ backup \in Inodes \cup {Absent}
         /\ current # Absent => current # backup)'
    OBVIOUS
  <2>7. (/\ handle \in [Writers -> Inodes \cup {Absent}]
         /\ \A q \in Writers : at[q] = "write" => handle[q] \in Inodes)'
    OBVIOUS
  <2>9. (recorded \in Seq(Writers))'
    OBVIOUS
  <2>10. (peak \in Nat /\ restarts \in Nat /\ refused \in BOOLEAN)'
    OBVIOUS
  <2> QED
    BY <2>1, <2>2, <2>3, <2>4, <2>5, <2>6, <2>7, <2>9, <2>10
<1>2. CASE Abandon(r)
  <2> USE <1>2 DEF Abandon
  <2>1. (maxSize \in Sizes /\ counter \in Nat)'
    OBVIOUS
  <2>2. (number \in [Writers -> 0 .. counter])'
    OBVIOUS
  <2>3. (at \in [Writers -> {"idle", "running", "stat", "rename", "open", "write",
                         "gone", "none"}])'
    OBVIOUS
  <2>4. (earlier \in [Writers -> SUBSET Writers])'
    OBVIOUS
  <2>5. (files \in [Inodes -> Seq(Writers)])'
    OBVIOUS
  <2>6. (/\ current \in Inodes \cup {Absent} /\ backup \in Inodes \cup {Absent}
         /\ current # Absent => current # backup)'
    OBVIOUS
  <2>7. (/\ handle \in [Writers -> Inodes \cup {Absent}]
         /\ \A q \in Writers : at[q] = "write" => handle[q] \in Inodes)'
    OBVIOUS
  <2>9. (recorded \in Seq(Writers))'
    OBVIOUS
  <2>10. (peak \in Nat /\ restarts \in Nat /\ refused \in BOOLEAN)'
    OBVIOUS
  <2> QED
    BY <2>1, <2>2, <2>3, <2>4, <2>5, <2>6, <2>7, <2>9, <2>10
<1>3. CASE Spawn(r)
  <2> USE <1>3 DEF Spawn
  <2>1. (maxSize \in Sizes /\ counter \in Nat)'
    OBVIOUS
  <2>2. (number \in [Writers -> 0 .. counter])'
    OBVIOUS
  <2>3. (at \in [Writers -> {"idle", "running", "stat", "rename", "open", "write",
                         "gone", "none"}])'
    OBVIOUS
  <2>4. (earlier \in [Writers -> SUBSET Writers])'
    OBVIOUS
  <2>5. (files \in [Inodes -> Seq(Writers)])'
    OBVIOUS
  <2>6. (/\ current \in Inodes \cup {Absent} /\ backup \in Inodes \cup {Absent}
         /\ current # Absent => current # backup)'
    OBVIOUS
  <2>7. (/\ handle \in [Writers -> Inodes \cup {Absent}]
         /\ \A q \in Writers : at[q] = "write" => handle[q] \in Inodes)'
    OBVIOUS
  <2>9. (recorded \in Seq(Writers))'
    OBVIOUS
  <2>10. (peak \in Nat /\ restarts \in Nat /\ refused \in BOOLEAN)'
    OBVIOUS
  <2> QED
    BY <2>1, <2>2, <2>3, <2>4, <2>5, <2>6, <2>7, <2>9, <2>10
<1>4. CASE Stat(r)
  <2> USE <1>4 DEF Stat
  <2>1. (maxSize \in Sizes /\ counter \in Nat)'
    OBVIOUS
  <2>2. (number \in [Writers -> 0 .. counter])'
    OBVIOUS
  <2>3. (at \in [Writers -> {"idle", "running", "stat", "rename", "open", "write",
                         "gone", "none"}])'
    OBVIOUS
  <2>4. (earlier \in [Writers -> SUBSET Writers])'
    OBVIOUS
  <2>5. (files \in [Inodes -> Seq(Writers)])'
    OBVIOUS
  <2>6. (/\ current \in Inodes \cup {Absent} /\ backup \in Inodes \cup {Absent}
         /\ current # Absent => current # backup)'
    OBVIOUS
  <2>7. (/\ handle \in [Writers -> Inodes \cup {Absent}]
         /\ \A q \in Writers : at[q] = "write" => handle[q] \in Inodes)'
    OBVIOUS
  <2>9. (recorded \in Seq(Writers))'
    OBVIOUS
  <2>10. (peak \in Nat /\ restarts \in Nat /\ refused \in BOOLEAN)'
    OBVIOUS
  <2> QED
    BY <2>1, <2>2, <2>3, <2>4, <2>5, <2>6, <2>7, <2>9, <2>10
<1>5. CASE Rename(r)
  <2> USE <1>5 DEF Rename
  <2>1. (maxSize \in Sizes /\ counter \in Nat)'
    OBVIOUS
  <2>2. (number \in [Writers -> 0 .. counter])'
    OBVIOUS
  <2>3. (at \in [Writers -> {"idle", "running", "stat", "rename", "open", "write",
                         "gone", "none"}])'
    OBVIOUS
  <2>4. (earlier \in [Writers -> SUBSET Writers])'
    OBVIOUS
  <2>5. (files \in [Inodes -> Seq(Writers)])'
    OBVIOUS
  <2>6. (/\ current \in Inodes \cup {Absent} /\ backup \in Inodes \cup {Absent}
         /\ current # Absent => current # backup)'
    OBVIOUS
  <2>7. (/\ handle \in [Writers -> Inodes \cup {Absent}]
         /\ \A q \in Writers : at[q] = "write" => handle[q] \in Inodes)'
    OBVIOUS
  <2>9. (recorded \in Seq(Writers))'
    OBVIOUS
  <2>10. (peak \in Nat /\ restarts \in Nat /\ refused \in BOOLEAN)'
    OBVIOUS
  <2> QED
    BY <2>1, <2>2, <2>3, <2>4, <2>5, <2>6, <2>7, <2>9, <2>10
<1>6. CASE Open(r)
  <2> USE <1>6 DEF Open, NextInodes, Unused
  <2>1. (maxSize \in Sizes /\ counter \in Nat)'
    OBVIOUS
  <2>2. (number \in [Writers -> 0 .. counter])'
    OBVIOUS
  <2>3. (at \in [Writers -> {"idle", "running", "stat", "rename", "open", "write",
                         "gone", "none"}])'
    OBVIOUS
  <2>4. (earlier \in [Writers -> SUBSET Writers])'
    OBVIOUS
  <2>5. (files \in [Inodes -> Seq(Writers)])'
    OBVIOUS
  <2>6. (/\ current \in Inodes \cup {Absent} /\ backup \in Inodes \cup {Absent}
         /\ current # Absent => current # backup)'
    OBVIOUS
  <2>7. (/\ handle \in [Writers -> Inodes \cup {Absent}]
         /\ \A q \in Writers : at[q] = "write" => handle[q] \in Inodes)'
    <3>1. CASE at' = [at EXCEPT ![r] = "gone"] /\ UNCHANGED handle
      BY <3>1
    <3>2. CASE /\ at' = [at EXCEPT ![r] = "write"]
               /\ \E i \in Inodes : handle' = [handle EXCEPT ![r] = i]
      BY <3>2
    <3> QED BY <3>1, <3>2
  <2>9. (recorded \in Seq(Writers))'
    OBVIOUS
  <2>10. (peak \in Nat /\ restarts \in Nat /\ refused \in BOOLEAN)'
    OBVIOUS
  <2> QED
    BY <2>1, <2>2, <2>3, <2>4, <2>5, <2>6, <2>7, <2>9, <2>10
<1>7. CASE Write(r)
  <2> USE <1>7 DEF Write
  <2>1. (maxSize \in Sizes /\ counter \in Nat)'
    OBVIOUS
  <2>2. (number \in [Writers -> 0 .. counter])'
    OBVIOUS
  <2>3. (at \in [Writers -> {"idle", "running", "stat", "rename", "open", "write",
                         "gone", "none"}])'
    OBVIOUS
  <2>4. (earlier \in [Writers -> SUBSET Writers])'
    OBVIOUS
  <2>5. (files \in [Inodes -> Seq(Writers)])'
    <3>1. Append(files[handle[r]], r) \in Seq(Writers) /\ handle[r] \in Inodes
      OBVIOUS
    <3> QED BY <3>1
  <2>6. (/\ current \in Inodes \cup {Absent} /\ backup \in Inodes \cup {Absent}
         /\ current # Absent => current # backup)'
    OBVIOUS
  <2>7. (/\ handle \in [Writers -> Inodes \cup {Absent}]
         /\ \A q \in Writers : at[q] = "write" => handle[q] \in Inodes)'
    OBVIOUS
  <2>9. (recorded \in Seq(Writers))'
    <3>1. Append(recorded, r) \in Seq(Writers)
      OBVIOUS
    <3> QED BY <3>1
  <2>10. (peak \in Nat /\ restarts \in Nat /\ refused \in BOOLEAN)'
    OBVIOUS
  <2> QED
    BY <2>1, <2>2, <2>3, <2>4, <2>5, <2>6, <2>7, <2>9, <2>10
<1> QED
  BY <1>1, <1>2, <1>3, <1>4, <1>5, <1>6, <1>7 DEF LogStep

LEMMA RestartKeeps == LogTypeOK /\ Restart => LogTypeOK'
<1> SUFFICES ASSUME LogTypeOK, Restart PROVE LogTypeOK'
  OBVIOUS
<1> USE LogAssumption DEF LogTypeOK, Restart
  <1>1. (maxSize \in Sizes /\ counter \in Nat)'
    OBVIOUS
  <1>2. (number \in [Writers -> 0 .. counter])'
    OBVIOUS
  <1>3. (at \in [Writers -> {"idle", "running", "stat", "rename", "open", "write",
                         "gone", "none"}])'
    OBVIOUS
  <1>4. (earlier \in [Writers -> SUBSET Writers])'
    OBVIOUS
  <1>5. (files \in [Inodes -> Seq(Writers)])'
    OBVIOUS
  <1>6. (/\ current \in Inodes \cup {Absent} /\ backup \in Inodes \cup {Absent}
         /\ current # Absent => current # backup)'
    OBVIOUS
  <1>7. (/\ handle \in [Writers -> Inodes \cup {Absent}]
         /\ \A q \in Writers : at[q] = "write" => handle[q] \in Inodes)'
    OBVIOUS
  <1>9. (recorded \in Seq(Writers))'
    OBVIOUS
  <1>10. (peak \in Nat /\ restarts \in Nat /\ refused \in BOOLEAN)'
    OBVIOUS
  <1> QED
    BY <1>1, <1>2, <1>3, <1>4, <1>5, <1>6, <1>7, <1>9, <1>10
-----------------------------------------------------------------------------
(***************************************************************************)
(* How long the log gets.                                                  *)
(***************************************************************************)
\* The tasks whose next record would go into the log.
Ready == {r \in Writers : at[r] = "open" \/ (at[r] = "write" /\ handle[r] = current)}

\* Tasks that have not seen a full log leave it as small as promised.
SizeInv ==
    /\ Cardinality(Working) <= peak
    /\ maxSize # 0 /\ ~refused =>
         Len(Contents(current)) + Cardinality(Ready) <= maxSize - 1 + peak

LEMMA Finiteness ==
  ASSUME NEW S \in SUBSET Writers
  PROVE  IsFiniteSet(S) /\ Cardinality(S) \in Nat
BY LogAssumption, FS_Subset, FS_CardinalityType

\* A part has no more elements.
LEMMA NotMore ==
  ASSUME NEW S \in SUBSET Writers, NEW T \in SUBSET S
  PROVE  Cardinality(T) <= Cardinality(S)
BY Finiteness, FS_Subset

\* One request more, or less.
LEMMA OneMore ==
  ASSUME NEW S \in SUBSET Writers, NEW r \in Writers
  PROVE  /\ r \notin S => Cardinality(S \cup {r}) = Cardinality(S) + 1
         /\ r \in S => Cardinality(S \ {r}) = Cardinality(S) - 1
BY Finiteness, FS_AddElement, FS_RemoveElement

\* The sets of tasks, and what the log holds, are what they are meant to be.
LEMMA ReadyTyping ==
  ASSUME LogTypeOK
  PROVE  /\ Working \in SUBSET Writers /\ Ready \in SUBSET Working
         /\ Cardinality(Working) \in Nat /\ Cardinality(Ready) \in Nat
         /\ Cardinality(Ready) <= Cardinality(Working)
         /\ \A i \in Inodes \cup {Absent} :
              Contents(i) \in Seq(Writers) /\ Len(Contents(i)) \in Nat
         /\ Contents(Absent) = <<>> /\ Len(Contents(Absent)) = 0
         /\ Absent \notin Inodes
<1>1. Working \in SUBSET Writers /\ Ready \in SUBSET Working
  BY DEF Working, Ready
<1>2. /\ Cardinality(Working) \in Nat /\ Cardinality(Ready) \in Nat
      /\ Cardinality(Ready) <= Cardinality(Working)
  BY <1>1, Finiteness, NotMore
<1>3. Cardinality(Writers) \in Nat
  BY LogAssumption, FS_CardinalityType
<1>4. Absent \notin Inodes
  BY <1>3, LogAssumption DEF Inodes
<1>5. Contents(Absent) = <<>> /\ Len(Contents(Absent)) = 0
  BY DEF Contents
<1>6. ASSUME NEW i \in Inodes \cup {Absent}
      PROVE  Contents(i) \in Seq(Writers) /\ Len(Contents(i)) \in Nat
  <2>1. Contents(i) \in Seq(Writers)
    BY DEF Contents, LogTypeOK
  <2> QED
    BY <2>1, LenProperties
<1> QED
  BY <1>1, <1>2, <1>4, <1>5, <1>6

LEMMA SizeInitially == LogInit => SizeInv
<1> SUFFICES ASSUME LogInit PROVE SizeInv
  OBVIOUS
<1>1. Working = {} /\ Ready = {} /\ Contents(current) = <<>> /\ peak = 0
  BY DEF LogInit, Working, Ready, Contents
<1>2. maxSize \in Nat
  BY LogAssumption DEF LogInit
<1>3. Cardinality({}) = 0 /\ Len(<<>>) = 0
  BY FS_EmptySet
<1> QED
  BY <1>1, <1>2, <1>3 DEF SizeInv

LEMMA SizeStep ==
  ASSUME LogTypeOK, LogTypeOK', SizeInv, NEW r \in Writers, LogStep(r)
  PROVE  SizeInv'
<1> USE DEF Move
<1>0. /\ maxSize \in Nat /\ peak \in Nat /\ at \in [Writers -> {"idle", "running", "stat",
                          "rename", "open", "write", "gone", "none"}]
      /\ current \in Inodes \cup {Absent} /\ current' \in Inodes \cup {Absent}
      /\ peak' \in Nat /\ maxSize' = maxSize
  BY LogAssumption DEF LogTypeOK, LogStep, Arrive, Abandon, Spawn, Stat, Rename, Open, Write
<1>1. /\ Cardinality(Working') \in Nat /\ Cardinality(Ready') \in Nat
      /\ Cardinality(Working) \in Nat /\ Cardinality(Ready) \in Nat
      /\ Len(Contents(current)) \in Nat
  <2>1. Working' \in SUBSET Writers /\ Ready' \in SUBSET Writers
    BY DEF Working, Ready
  <2> QED
    BY <1>0, <2>1, Finiteness, ReadyTyping
<1>2. ASSUME at'[r] \notin {"stat", "rename", "open", "write"},
             at' = [at EXCEPT ![r] = at'[r]],
             UNCHANGED <<current, handle, peak, refused>>,
             \/ UNCHANGED files
             \/ /\ at[r] = "write" /\ handle[r] \in Inodes
                /\ files' = [files EXCEPT ![handle[r]] = Append(@, r)]
      PROVE  SizeInv'
  <2>1. Working' \in SUBSET Working /\ Ready' \in SUBSET Ready
    BY <1>0, <1>2 DEF Working, Ready
  <2>2. /\ Cardinality(Working') <= Cardinality(Working)
        /\ Cardinality(Ready') <= Cardinality(Ready)
    BY <2>1, ReadyTyping, NotMore
  <2>3. CASE Contents(current)' = Contents(current)
    BY <1>0, <1>1, <1>2, <2>2, <2>3 DEF SizeInv
  <2>4. CASE Contents(current)' # Contents(current)
    <3>1. /\ handle[r] = current /\ current # Absent /\ at[r] = "write"
          /\ files'[current] = Append(files[current], r)
          /\ files[current] \in Seq(Writers)
      BY <1>0, <1>2, <2>4 DEF Contents, LogTypeOK
    <3>2. Len(Contents(current)') = Len(Contents(current)) + 1
      BY <1>2, <3>1, AppendProperties DEF Contents
    <3>3. Ready' = Ready \ {r} /\ r \in Ready
      BY <1>0, <1>2, <3>1 DEF Ready
    <3>4. Cardinality(Ready') = Cardinality(Ready) - 1
      BY <3>3, ReadyTyping, OneMore
    <3> QED
      BY <1>0, <1>1, <1>2, <2>2, <3>2, <3>4 DEF SizeInv
  <2> QED
    BY <2>3, <2>4
<1>3. CASE Arrive(r) \/ Abandon(r) \/ Write(r)
  <2>1. /\ at'[r] \in {"running", "gone"} /\ at' = [at EXCEPT ![r] = at'[r]]
        /\ UNCHANGED <<current, handle, peak, refused>>
    BY <1>0, <1>3 DEF Arrive, Abandon, Write
  <2>2. \/ UNCHANGED files
        \/ /\ at[r] = "write" /\ handle[r] \in Inodes
           /\ files' = [files EXCEPT ![handle[r]] = Append(@, r)]
    BY <1>3 DEF Arrive, Abandon, Write, LogTypeOK
  <2> QED
    BY <1>2, <2>1, <2>2
<1>4. CASE Spawn(r)
  <2>1. Working' = Working \cup {r} /\ r \notin Working /\ Ready' = Ready
        /\ Contents(current)' = Contents(current)
    BY <1>0, <1>4 DEF Spawn, Working, Ready, Contents
  <2>2. Cardinality(Working') = Cardinality(Working) + 1
    BY <2>1, ReadyTyping, OneMore
  <2>3. /\ peak' = IF Cardinality(Working) < peak THEN peak ELSE peak + 1
        /\ refused' = refused
    BY <1>4 DEF Spawn
  <2> QED
    BY <1>0, <2>1, <2>2, <2>3, ReadyTyping DEF SizeInv
<1>5. CASE Stat(r)
  <2>1. /\ at[r] = "stat"
        /\ UNCHANGED <<current, files, handle, peak, refused>>
        /\ Contents(current)' = Contents(current)
    BY <1>5 DEF Stat, Contents
  <2>2. CASE at' = [at EXCEPT ![r] = "gone"]
    BY <1>0, <1>2, <2>1, <2>2
  <2>3. CASE at' = [at EXCEPT ![r] = "rename"]
    <3>1. Working' = Working /\ Ready' = Ready
      BY <1>0, <2>1, <2>3 DEF Working, Ready
    <3> QED
      BY <1>0, <2>1, <3>1 DEF SizeInv
  <2>4. CASE at' = [at EXCEPT ![r] = "open"]
             /\ ~(maxSize # 0 /\ current # Absent /\ Len(files[current]) >= maxSize)
    <3>1. /\ Working' = Working /\ Ready' = Ready \cup {r} /\ r \notin Ready
          /\ Ready' \in SUBSET Working
      BY <1>0, <2>1, <2>4 DEF Working, Ready
    <3>2. Cardinality(Ready') <= Cardinality(Working)
      BY <3>1, ReadyTyping, NotMore
    <3>3. maxSize # 0 => Len(Contents(current)) <= maxSize - 1
      BY <1>0, <2>4, ReadyTyping DEF Contents
    <3> QED
      BY <1>0, <1>1, <2>1, <3>1, <3>2, <3>3 DEF SizeInv
  <2> QED
    BY <1>5, <2>2, <2>3, <2>4 DEF Stat
<1>6. CASE Rename(r)
  <2>1. /\ at[r] = "rename" /\ at' = [at EXCEPT ![r] = "open"]
        /\ UNCHANGED <<files, handle, peak>>
    BY <1>6 DEF Rename
  <2>2. Working' = Working /\ Ready' \in SUBSET Working'
    BY <1>0, <2>1 DEF Working, Ready
  <2>3. Cardinality(Ready') <= Cardinality(Working)
    BY <2>2, ReadyTyping, NotMore
  <2>4. CASE current' = Absent
    <3>1. Contents(current)' = <<>> /\ Len(<<>>) = 0
      BY <2>4 DEF Contents
    <3> QED
      BY <1>0, <1>1, <2>1, <2>2, <2>3, <3>1 DEF SizeInv
  <2>5. CASE current' # Absent
    <3>1. refused'
      BY <1>6, <2>5 DEF Rename
    <3> QED
      BY <1>0, <2>1, <2>2, <3>1 DEF SizeInv
  <2> QED
    BY <2>4, <2>5
<1>7. CASE Open(r)
  <2>1. at[r] = "open" /\ UNCHANGED <<files, peak, refused>>
    BY <1>7 DEF Open
  <2>2. CASE at' = [at EXCEPT ![r] = "gone"] /\ UNCHANGED <<current, handle>>
    BY <1>0, <1>2, <2>1, <2>2
  <2>3. ASSUME at' = [at EXCEPT ![r] = "write"],
               NEW i \in IF current = Absent THEN NextInodes ELSE {current},
               current' = i, handle' = [handle EXCEPT ![r] = i]
        PROVE  SizeInv'
    <3>1. Working' = Working
      BY <1>0, <2>1, <2>3 DEF Working
    <3>2. handle \in [Writers -> Inodes \cup {Absent}]
          /\ \A q \in Writers : at[q] = "write" => handle[q] # Absent
      BY ReadyTyping DEF LogTypeOK
    <3>3. current = Absent => \A q \in Working : handle[q] # i
      BY <2>3 DEF NextInodes, Unused
    <3>4. Ready' = Ready
      BY <1>0, <2>1, <2>3, <3>2, <3>3 DEF Ready, Working
    <3>5. Len(Contents(current)') = Len(Contents(current))
      <4>1. CASE current = Absent
        <5>1. files[i] = <<>> /\ i # Absent
          BY <2>3, <4>1, ReadyTyping DEF NextInodes, Unused
        <5> QED
          BY <2>1, <2>3, <4>1, <5>1 DEF Contents
      <4>2. CASE current # Absent
        BY <2>1, <2>3, <4>2 DEF Contents
      <4> QED
        BY <4>1, <4>2
    <3> QED
      BY <1>0, <2>1, <3>1, <3>4, <3>5 DEF SizeInv
  <2> QED
    BY <1>7, <2>2, <2>3 DEF Open
<1> QED
  BY <1>3, <1>4, <1>5, <1>6, <1>7 DEF LogStep

LEMMA SizeRestart ==
  ASSUME LogTypeOK, SizeInv, Restart
  PROVE  SizeInv'
<1>1. /\ Working' = {} /\ Ready' = {} /\ Contents(current)' = Contents(current)
      /\ UNCHANGED <<maxSize, refused, peak>>
  BY DEF Restart, Working, Ready, Contents
<1>2. Cardinality({}) = 0
  BY FS_EmptySet
<1>3. maxSize \in Nat /\ peak \in Nat /\ current \in Inodes \cup {Absent}
  BY LogAssumption DEF LogTypeOK
<1> QED
  BY <1>1, <1>2, <1>3, ReadyTyping DEF SizeInv

LEMMA SizeStutters ==
  ASSUME SizeInv, UNCHANGED logVars PROVE SizeInv'
BY DEF SizeInv, logVars, Working, Ready, Contents

LEMMA SizeBounds == LogTypeOK /\ SizeInv => LogBounded
<1> SUFFICES ASSUME LogTypeOK, SizeInv PROVE LogBounded
  OBVIOUS
<1> DEFINE S == {r \in Working : at[r] = "write" /\ handle[r] = current}
<1>1. S \in SUBSET Ready
  BY DEF Ready, Working
<1>2. Cardinality(S) <= Cardinality(Ready) /\ Cardinality(S) \in Nat
  BY <1>1, ReadyTyping, NotMore, Finiteness
<1> HIDE DEF S
<1>3. maxSize \in Nat /\ peak \in Nat /\ current \in Inodes \cup {Absent}
  BY LogAssumption DEF LogTypeOK
<1>4. maxSize # 0 /\ ~refused => Len(Contents(current)) + Cardinality(S) <= maxSize - 1 + peak
  BY <1>2, <1>3, ReadyTyping DEF SizeInv
<1> QED
  BY <1>4 DEF LogBounded, S
-----------------------------------------------------------------------------
(***************************************************************************)
(* The order of the records.                                               *)
(***************************************************************************)
\* Request x has a record in file f.
IsIn(x, f) == \E i \in 1 .. Len(files[f]) : files[f][i] = x

\* A record is written once and at the end, and found by later requests only.
RecordInv ==
    /\ \A r \in Writers : at[r] # "gone" =>
         /\ \A i \in 1 .. Len(recorded) : recorded[i] # r
         /\ \A f \in Inodes : ~IsIn(r, f)
         /\ \A x \in Writers : r \notin earlier[x]
    /\ \A r, x \in Writers : r \in earlier[x] =>
         \E i \in 1 .. Len(recorded) : recorded[i] = r

\* A request never writes to a file that was renamed before it arrived.
OrderInv ==
    /\ \A f \in Inodes : \A i, j \in 1 .. Len(files[f]) :
         i < j => files[f][j] \notin earlier[files[f][i]]
    /\ \A x, y \in Writers :
         x \in earlier[y] /\ current # Absent /\ IsIn(x, current) =>
           /\ at[y] = "write" => handle[y] = current
           /\ \A f \in Inodes \ {current} : ~IsIn(y, f)
    /\ \A x, y \in Writers : x \in earlier[y] /\ number[x] # 0 /\ number[y] # 0
         => number[x] < number[y]

\* Record r is appended to file f.
AppendedTo(f, r) ==
    /\ Len(files'[f]) = Len(files[f]) + 1 /\ Len(files[f]) \in Nat
    /\ files'[f][Len(files[f]) + 1] = r
    /\ \A i \in 1 .. Len(files[f]) : files'[f][i] = files[f][i]
    /\ \A g \in Inodes \ {f} : files'[g] = files[g]

LEMMA Appended ==
  ASSUME LogTypeOK, NEW r \in Writers, NEW f \in Inodes,
         files' = [files EXCEPT ![f] = Append(@, r)]
  PROVE  /\ AppendedTo(f, r)
         /\ \A x \in Writers : \A g \in Inodes :
              IsIn(x, g)' <=> IsIn(x, g) \/ (x = r /\ g = f)
<1>1. files[f] \in Seq(Writers) /\ files \in [Inodes -> Seq(Writers)]
  BY DEF LogTypeOK
<1>2. files'[f] = Append(files[f], r) /\ \A g \in Inodes \ {f} : files'[g] = files[g]
  BY <1>1
<1>3. /\ Len(files'[f]) = Len(files[f]) + 1 /\ Len(files[f]) \in Nat
      /\ files'[f][Len(files[f]) + 1] = r
      /\ \A i \in 1 .. Len(files[f]) : files'[f][i] = files[f][i]
  BY <1>1, <1>2, AppendProperties, LenProperties
<1>4. ASSUME NEW x \in Writers, NEW g \in Inodes
      PROVE  IsIn(x, g)' <=> IsIn(x, g) \/ (x = r /\ g = f)
  <2>1. CASE g = f
    <3>1. 1 .. Len(files'[f]) = (1 .. Len(files[f])) \cup {Len(files[f]) + 1}
      BY <1>3
    <3> QED
      BY <1>3, <2>1, <3>1 DEF IsIn
  <2>2. CASE g # f
    BY <1>2, <2>2 DEF IsIn
  <2> QED
    BY <2>1, <2>2
<1> QED
  BY <1>2, <1>3, <1>4 DEF AppendedTo

LEMMA Recorded ==
  ASSUME LogTypeOK, NEW r \in Writers, recorded' = Append(recorded, r)
  PROVE  /\ Len(recorded') = Len(recorded) + 1 /\ Len(recorded) \in Nat
         /\ recorded'[Len(recorded) + 1] = r
         /\ \A i \in 1 .. Len(recorded) : recorded'[i] = recorded[i]
<1>1. recorded \in Seq(Writers)
  BY DEF LogTypeOK
<1> QED
  BY <1>1, AppendProperties, LenProperties

LEMMA OrderInitially == LogInit => RecordInv /\ OrderInv
<1> SUFFICES ASSUME LogInit PROVE RecordInv /\ OrderInv
  OBVIOUS
<1>1. /\ \A f \in Inodes : Len(files[f]) = 0
      /\ Len(recorded) = 0 /\ \A r \in Writers : earlier[r] = {}
      /\ \A r \in Writers : number[r] = 0
  BY EmptySeq DEF LogInit
<1>2. RecordInv
  BY <1>1 DEF RecordInv, IsIn
<1>3. OrderInv
  BY <1>1 DEF OrderInv, IsIn
<1> QED
  BY <1>2, <1>3

LEMMA RecordStep ==
  ASSUME LogTypeOK, RecordInv, NEW r \in Writers, LogStep(r)
  PROVE  RecordInv'
<1> USE DEF Move
<1>0. /\ at \in [Writers -> {"idle", "running", "stat", "rename", "open", "write",
                             "gone", "none"}]
      /\ earlier \in [Writers -> SUBSET Writers]
      /\ handle \in [Writers -> Inodes \cup {Absent}]
  BY DEF LogTypeOK
<1>1. at[r] # "gone" /\ \A q \in Writers : q # r => at'[q] = at[q]
  BY <1>0 DEF LogStep, Arrive, Abandon, Spawn, Stat, Rename, Open, Write
<1>2. CASE Arrive(r)
  <2>1. /\ UNCHANGED <<files, recorded>>
        /\ earlier' = [earlier EXCEPT ![r] = ToSet(recorded)]
    BY <1>2 DEF Arrive
  <2>2. \A q \in Writers : q \in ToSet(recorded) <=>
          \E i \in 1 .. Len(recorded) : recorded[i] = q
    BY DEF ToSet, LogTypeOK
  <2>3. \A q, x \in Writers : q \in earlier'[x] =>
          q \in earlier[x] \/ \E i \in 1 .. Len(recorded) : recorded[i] = q
    BY <1>0, <2>1, <2>2
  <2>4. \A q \in Writers : \A f \in Inodes : IsIn(q, f)' <=> IsIn(q, f)
    BY <2>1 DEF IsIn
  <2>5. ASSUME NEW q \in Writers, at'[q] # "gone"
        PROVE  /\ \A i \in 1 .. Len(recorded') : recorded'[i] # q
               /\ \A f \in Inodes : ~IsIn(q, f)'
               /\ \A x \in Writers : q \notin earlier'[x]
    <3>1. at[q] # "gone"
      BY <1>1, <2>5
    <3>2. /\ \A i \in 1 .. Len(recorded) : recorded[i] # q
          /\ \A f \in Inodes : ~IsIn(q, f)
          /\ \A x \in Writers : q \notin earlier[x]
      BY <3>1 DEF RecordInv
    <3> QED
      BY <2>1, <2>3, <2>4, <3>2
  <2>6. \A q, x \in Writers : q \in earlier'[x] =>
          \E i \in 1 .. Len(recorded') : recorded'[i] = q
    BY <2>1, <2>3 DEF RecordInv
  <2> QED
    BY <2>5, <2>6 DEF RecordInv, IsIn
<1>3. CASE UNCHANGED <<files, recorded, earlier>>
  <2>1. ASSUME NEW q \in Writers, at'[q] # "gone"
        PROVE  at[q] # "gone"
    BY <1>1, <2>1
  <2> QED
    BY <1>3, <2>1 DEF RecordInv, IsIn
<1>4. CASE Write(r) /\ recorded' = Append(recorded, r)
  <2>1. /\ files' = [files EXCEPT ![handle[r]] = Append(@, r)] /\ handle[r] \in Inodes
        /\ earlier' = earlier /\ at' = [at EXCEPT ![r] = "gone"]
    <3>1. recorded' # recorded
      BY <1>4, AppendProperties, LenProperties DEF LogTypeOK
    <3> QED
      BY <1>4, <3>1 DEF Write, LogTypeOK
  <2>2. ASSUME NEW q \in Writers, at'[q] # "gone"
        PROVE  /\ \A i \in 1 .. Len(recorded') : recorded'[i] # q
               /\ \A f \in Inodes : ~IsIn(q, f)'
               /\ \A x \in Writers : q \notin earlier'[x]
    <3>1. at[q] # "gone" /\ q # r
      BY <1>0, <1>1, <2>1, <2>2
    <3>2. /\ \A i \in 1 .. Len(recorded) : recorded[i] # q
          /\ \A f \in Inodes : ~IsIn(q, f)
          /\ \A x \in Writers : q \notin earlier[x]
      BY <3>1 DEF RecordInv
    <3>3. \A i \in 1 .. Len(recorded') : recorded'[i] # q
      BY <1>4, <2>1, <3>1, <3>2, Recorded
    <3>4. \A f \in Inodes : ~IsIn(q, f)'
      BY <1>4, <2>1, <3>1, <3>2, Appended
    <3> QED
      BY <2>1, <3>2, <3>3, <3>4
  <2>3. ASSUME NEW q \in Writers, NEW x \in Writers, q \in earlier'[x]
        PROVE  \E i \in 1 .. Len(recorded') : recorded'[i] = q
    <3>1. PICK i \in 1 .. Len(recorded) : recorded[i] = q
      BY <2>1, <2>3 DEF RecordInv
    <3>2. i \in 1 .. Len(recorded') /\ recorded'[i] = q
      BY <1>4, <2>1, <3>1, Recorded
    <3> QED
      BY <3>2
  <2> QED
    BY <2>2, <2>3 DEF RecordInv, IsIn
<1> QED
  BY <1>2, <1>3, <1>4
  DEF LogStep, Abandon, Spawn, Stat, Rename, Open, Write

LEMMA OrderStep ==
  ASSUME LogTypeOK, RecordInv, OrderInv, NEW r \in Writers, LogStep(r)
  PROVE  OrderInv'
<1> USE DEF Move
<1>0. /\ at \in [Writers -> {"idle", "running", "stat", "rename", "open", "write",
                             "gone", "none"}]
      /\ earlier \in [Writers -> SUBSET Writers]
      /\ handle \in [Writers -> Inodes \cup {Absent}]
      /\ number \in [Writers -> 0 .. counter] /\ counter \in Nat
      /\ current \in Inodes \cup {Absent} /\ Absent \notin Inodes
      /\ files \in [Inodes -> Seq(Writers)]
  BY ReadyTyping DEF LogTypeOK
<1>1. /\ \A f \in Inodes : \A i, j \in 1 .. Len(files[f]) :
           i < j => files[f][j] \notin earlier[files[f][i]]
      /\ \A x, y \in Writers :
           x \in earlier[y] /\ current # Absent /\ IsIn(x, current) =>
             /\ at[y] = "write" => handle[y] = current
             /\ \A f \in Inodes \ {current} : ~IsIn(y, f)
      /\ \A x, y \in Writers : x \in earlier[y] /\ number[x] # 0 /\ number[y] # 0
           => number[x] < number[y]
  BY DEF OrderInv
<1>2. at[r] # "gone" => /\ \A f \in Inodes : ~IsIn(r, f)
                        /\ \A x \in Writers : r \notin earlier[x]
  BY DEF RecordInv
<1>3. CASE Arrive(r)
  <2>1. /\ UNCHANGED <<files, current, handle>> /\ at[r] = "idle"
        /\ at' = [at EXCEPT ![r] = "running"]
        /\ earlier' = [earlier EXCEPT ![r] = ToSet(recorded)]
        /\ number' = [number EXCEPT ![r] = counter + 1]
    BY <1>3 DEF Arrive
  <2>2. /\ \A y \in Writers \ {r} : earlier'[y] = earlier[y] /\ at'[y] = at[y]
        /\ \A y \in Writers \ {r} : number'[y] = number[y] /\ number[y] <= counter
        /\ number'[r] = counter + 1 /\ at'[r] = "running"
    BY <1>0, <2>1
  <2>3. \A f \in Inodes : ~IsIn(r, f)
    BY <1>2, <2>1
  <2>4. r \notin earlier'[r] /\ \A x \in Writers : r \notin earlier[x]
    <3>1. \A i \in 1 .. Len(recorded) : recorded[i] # r
      BY <2>1 DEF RecordInv
    <3>2. r \notin ToSet(recorded)
      BY <3>1 DEF ToSet, LogTypeOK
    <3> QED
      BY <1>0, <1>2, <2>1, <3>2
  <2>5. ASSUME NEW f \in Inodes, NEW i \in 1 .. Len(files[f]), NEW j \in 1 .. Len(files[f]),
               i < j
        PROVE  files[f][j] \notin earlier'[files[f][i]]
    <3>1. files[f][i] \in Writers
      BY <1>0, ElementOfSeq
    <3>2. files[f][i] # r
      BY <2>3 DEF IsIn
    <3> QED
      BY <1>1, <2>2, <2>5, <3>1, <3>2
  <2>6. ASSUME NEW x \in Writers, NEW y \in Writers,
               x \in earlier'[y], current # Absent, IsIn(x, current)
        PROVE  /\ at'[y] = "write" => handle[y] = current
               /\ \A f \in Inodes \ {current} : ~IsIn(y, f)
    BY <1>1, <2>2, <2>3, <2>6
  <2>7. ASSUME NEW x \in Writers, NEW y \in Writers,
               x \in earlier'[y], number'[x] # 0, number'[y] # 0
        PROVE  number'[x] < number'[y]
    <3>1. x # r
      BY <2>2, <2>4, <2>7
    <3>2. CASE y = r
      BY <1>0, <2>2, <3>1, <3>2
    <3>3. CASE y # r
      BY <1>1, <2>2, <2>7, <3>1, <3>3
    <3> QED
      BY <3>2, <3>3
  <2> QED
    BY <2>1, <2>5, <2>6, <2>7 DEF OrderInv, IsIn
<1>4. ASSUME UNCHANGED <<files, earlier, number>>, current' \in {current, Absent},
             \A y \in Writers : at'[y] = "write" => at[y] = "write" /\ handle'[y] = handle[y]
      PROVE  OrderInv'
  BY <1>1, <1>4 DEF OrderInv, IsIn
<1>5. CASE Abandon(r) \/ Spawn(r) \/ Stat(r) \/ Rename(r)
  <2>1. /\ UNCHANGED <<files, earlier, number, handle>> /\ current' \in {current, Absent}
        /\ \A y \in Writers : at'[y] = "write" => at[y] = "write"
    BY <1>0, <1>5 DEF Abandon, Spawn, Stat, Rename
  <2> QED
    BY <1>4, <2>1
<1>6. CASE Open(r)
  <2>1. UNCHANGED <<files, earlier, number>> /\ at[r] = "open"
    BY <1>6 DEF Open
  <2>2. CASE at' = [at EXCEPT ![r] = "gone"] /\ UNCHANGED <<current, handle>>
    <3>1. \A y \in Writers : at'[y] = "write" => at[y] = "write"
      BY <1>0, <2>2
    <3> QED
      BY <1>4, <2>1, <2>2, <3>1
  <2>3. ASSUME at' = [at EXCEPT ![r] = "write"],
               NEW i \in IF current = Absent THEN NextInodes ELSE {current},
               current' = i, handle' = [handle EXCEPT ![r] = i]
        PROVE  OrderInv'
    <3>1. /\ \A y \in Writers \ {r} : at'[y] = at[y] /\ handle'[y] = handle[y]
          /\ handle'[r] = i
      BY <1>0, <2>3
    <3>2. CASE current # Absent
      <4>1. current' = current /\ handle'[r] = current
        BY <2>3, <3>1, <3>2
      <4>2. \A y \in Writers : at'[y] = "write" =>
              (at[y] = "write" /\ handle'[y] = handle[y]) \/ handle'[y] = current
        BY <3>1, <4>1
      <4> QED
        BY <1>1, <2>1, <4>1, <4>2 DEF OrderInv, IsIn
    <3>3. CASE current = Absent
      <4>1. files[i] = <<>> /\ Len(<<>>) = 0
        BY <2>3, <3>3 DEF NextInodes, Unused
      <4>2. \A x \in Writers : ~IsIn(x, i)
        BY <4>1 DEF IsIn
      <4> QED
        BY <1>1, <2>1, <2>3, <4>2 DEF OrderInv, IsIn
    <3> QED
      BY <3>2, <3>3
  <2> QED
    BY <1>6, <2>2, <2>3 DEF Open
<1>7. CASE Write(r)
  <2>1. /\ UNCHANGED <<earlier, number, current, handle>> /\ at[r] = "write"
        /\ at' = [at EXCEPT ![r] = "gone"]
    BY <1>7 DEF Write
  <2>2. \A y \in Writers : at'[y] = "write" => at[y] = "write"
    BY <1>0, <2>1
  <2>3. CASE UNCHANGED files
    BY <1>4, <2>1, <2>2, <2>3
  <2>4. ASSUME NEW f \in Inodes, f = handle[r],
               files' = [files EXCEPT ![f] = Append(@, r)],
               recorded' = Append(recorded, r)
        PROVE  OrderInv'
    <3>0. /\ AppendedTo(f, r)
          /\ \A x \in Writers : \A g \in Inodes :
               IsIn(x, g)' <=> IsIn(x, g) \/ (x = r /\ g = f)
      BY <2>4, Appended
    <3>1. /\ Len(files'[f]) = Len(files[f]) + 1 /\ Len(files[f]) \in Nat
          /\ files'[f][Len(files[f]) + 1] = r
          /\ \A i \in 1 .. Len(files[f]) : files'[f][i] = files[f][i]
          /\ \A g \in Inodes \ {f} : files'[g] = files[g]
          /\ \A x \in Writers : \A g \in Inodes :
               IsIn(x, g)' <=> IsIn(x, g) \/ (x = r /\ g = f)
      BY <3>0 DEF AppendedTo
    <3>2. \A x \in Writers : r \notin earlier[x]
      BY <1>2, <2>1
    <3>3. ASSUME NEW g \in Inodes, NEW i \in 1 .. Len(files'[g]), NEW j \in 1 .. Len(files'[g]),
                 i < j
          PROVE  files'[g][j] \notin earlier[files'[g][i]]
      <4>1. CASE g # f
        BY <1>1, <3>1, <3>3, <4>1
      <4>2. CASE g = f /\ j = Len(files[f]) + 1
        <5>1. i \in 1 .. Len(files[f])
          BY <3>1, <3>3, <4>2
        <5>2. files'[f][i] \in Writers
          BY <1>0, <3>1, <5>1, ElementOfSeq
        <5> QED
          BY <3>1, <3>2, <4>2, <5>2
      <4>3. CASE g = f /\ j # Len(files[f]) + 1
        <5>1. i \in 1 .. Len(files[f]) /\ j \in 1 .. Len(files[f])
          BY <3>1, <3>3, <4>3
        <5> QED
          BY <1>1, <3>1, <3>3, <4>3, <5>1
      <4> QED
        BY <4>1, <4>2, <4>3
    <3>4. ASSUME NEW x \in Writers, NEW y \in Writers,
                 x \in earlier[y], current # Absent, IsIn(x, current)'
          PROVE  /\ at'[y] = "write" => handle[y] = current
                 /\ \A g \in Inodes \ {current} : ~IsIn(y, g)'
      <4>1. x # r /\ current \in Inodes
        BY <1>0, <3>2, <3>4
      <4>2. IsIn(x, current)
        BY <2>1, <3>1, <3>4, <4>1
      <4>3. /\ at[y] = "write" => handle[y] = current
            /\ \A g \in Inodes \ {current} : ~IsIn(y, g)
        BY <1>1, <3>4, <4>2
      <4>4. y = r => f = current
        BY <2>1, <2>4, <4>3
      <4> QED
        BY <2>2, <3>1, <4>3, <4>4
    <3> QED
      BY <1>1, <2>1, <3>3, <3>4 DEF OrderInv, IsIn
  <2> QED
    BY <1>7, <2>3, <2>4 DEF Write, LogTypeOK
<1> QED
  BY <1>3, <1>5, <1>6, <1>7 DEF LogStep

LEMMA OrderRestart ==
  ASSUME LogTypeOK, RecordInv, OrderInv, Restart
  PROVE  RecordInv' /\ OrderInv'
<1>1. /\ UNCHANGED <<files, recorded, earlier, current>>
      /\ \A r \in Writers : number'[r] = 0
      /\ \A r \in Writers : at'[r] # "gone" => at[r] # "gone"
      /\ \A r \in Writers : at'[r] # "write"
  BY DEF Restart
<1>2. RecordInv'
  BY <1>1 DEF RecordInv, IsIn
<1>3. OrderInv'
  BY <1>1 DEF OrderInv, IsIn
<1> QED
  BY <1>2, <1>3

LEMMA OrderStutters ==
  ASSUME RecordInv, OrderInv, UNCHANGED logVars PROVE RecordInv' /\ OrderInv'
BY DEF RecordInv, OrderInv, IsIn, logVars

LEMMA OrderKept == LogTypeOK /\ OrderInv => LogOrdered
<1> SUFFICES ASSUME LogTypeOK, OrderInv,
                    NEW i \in 1 .. Len(Kept), NEW j \in 1 .. Len(Kept), i < j
             PROVE  /\ Kept[j] \notin earlier[Kept[i]]
                    /\ (Kept[i] \in earlier[Kept[j]] /\ number[Kept[i]] # 0
                        /\ number[Kept[j]] # 0
                        => number[Kept[i]] < number[Kept[j]])
  BY DEF LogOrdered
<1> DEFINE b == Contents(backup)
           c == Contents(current)
<1>1. /\ b \in Seq(Writers) /\ c \in Seq(Writers)
      /\ Len(b) \in Nat /\ Len(c) \in Nat
  BY ReadyTyping DEF LogTypeOK
<1>2. Kept = b \o c
  BY DEF Kept
<1>3. backup # Absent => b = files[backup] /\ backup \in Inodes
  BY DEF Contents, LogTypeOK
<1>4. current # Absent => c = files[current] /\ current \in Inodes /\ current # backup
  BY DEF Contents, LogTypeOK
<1>5. /\ backup = Absent => Len(b) = 0
      /\ current = Absent => Len(c) = 0
  BY ReadyTyping
<1> HIDE DEF b, c
<1>6. /\ Len(b \o c) = Len(b) + Len(c)
      /\ \A k \in 1 .. Len(b) + Len(c) :
           (b \o c)[k] = IF k <= Len(b) THEN b[k] ELSE c[k - Len(b)]
      /\ b \o c \in Seq(Writers)
  BY <1>1, ConcatProperties
<1>7. Kept[i] \in Writers /\ Kept[j] \in Writers
  BY <1>2, <1>6, ElementOfSeq
<1>8. Kept[j] \notin earlier[Kept[i]]
  <2>1. CASE j <= Len(b)
    <3>1. /\ Kept[i] = b[i] /\ Kept[j] = b[j] /\ backup # Absent
          /\ i \in 1 .. Len(b) /\ j \in 1 .. Len(b)
      BY <1>1, <1>2, <1>5, <1>6, <2>1
    <3> QED
      BY <1>3, <3>1 DEF OrderInv
  <2>2. CASE i > Len(b)
    <3>1. /\ Kept[i] = c[i - Len(b)] /\ Kept[j] = c[j - Len(b)] /\ current # Absent
          /\ i - Len(b) \in 1 .. Len(c) /\ j - Len(b) \in 1 .. Len(c)
          /\ i - Len(b) < j - Len(b)
      BY <1>1, <1>2, <1>5, <1>6, <2>2
    <3> QED
      BY <1>4, <3>1 DEF OrderInv
  <2>3. CASE i <= Len(b) /\ j > Len(b)
    <3>1. /\ Kept[i] = b[i] /\ Kept[j] = c[j - Len(b)]
          /\ i \in 1 .. Len(b) /\ j - Len(b) \in 1 .. Len(c)
          /\ current # Absent /\ backup # Absent
      BY <1>1, <1>2, <1>5, <1>6, <2>3
    <3>2. IsIn(Kept[j], current) /\ IsIn(Kept[i], backup) /\ backup \in Inodes \ {current}
      BY <1>3, <1>4, <3>1 DEF IsIn
    <3> QED
      BY <1>7, <3>1, <3>2 DEF OrderInv
  <2> QED
    BY <1>1, <1>6, <2>1, <2>2, <2>3
<1> QED
  BY <1>7, <1>8 DEF OrderInv

-----------------------------------------------------------------------------
(***************************************************************************)
(* What is left of the records.                                            *)
(***************************************************************************)
\* Backup and log hold the records from the n-th on.
HeldFrom(n) ==
    LET b == Contents(backup)
        c == Contents(current)
    IN  /\ n + Len(b) + Len(c) = Len(recorded)
        /\ \A i \in 1 .. Len(b) : b[i] = recorded[n + i]
        /\ \A i \in 1 .. Len(c) : c[i] = recorded[n + Len(b) + i]

\* Tasks that do not overlap find the log as they left it.
LatestInv ==
    peak <= 1 =>
      /\ \A r \in Writers : at[r] = "write" => handle[r] = current
      /\ \A r \in Writers : at[r] = "rename" =>
           current # Absent /\ Len(files[current]) >= maxSize
      /\ \E n \in Nat : HeldFrom(n) /\ (n > 0 => Len(Contents(backup)) >= maxSize)

\* Two tasks do not work at a time.
LEMMA OnlyOne ==
  ASSUME LogTypeOK, SizeInv, peak <= 1, NEW r \in Working, NEW q \in Working
  PROVE  q = r
<1> SUFFICES ASSUME q # r
             PROVE  FALSE
  OBVIOUS
<1>1. /\ r \in Writers /\ q \in Writers /\ {r} \in SUBSET Writers
      /\ {r} \cup {q} \in SUBSET Working /\ Working \in SUBSET Writers
  BY DEF Working
<1>2. Cardinality({r}) = 1
  BY FS_Singleton
<1>3. Cardinality({r} \cup {q}) = 2
  BY <1>1, <1>2, OneMore
<1>4. Cardinality({r} \cup {q}) <= Cardinality(Working)
  BY <1>1, NotMore
<1>5. Cardinality(Working) \in Nat
  BY <1>1, Finiteness
<1>6. Cardinality(Working) <= peak
  BY DEF SizeInv
<1>7. peak \in Nat
  BY DEF LogTypeOK
<1> QED
  BY <1>3, <1>4, <1>5, <1>6, <1>7

LEMMA LatestInitially == LogInit => LatestInv
<1> SUFFICES ASSUME LogInit PROVE LatestInv
  OBVIOUS
<1>1. /\ Contents(backup) = <<>> /\ Contents(current) = <<>> /\ recorded = <<>>
      /\ Len(<<>>) = 0
  BY DEF LogInit, Contents
<1>2. HeldFrom(0)
  BY <1>1 DEF HeldFrom
<1>3. \A r \in Writers : at[r] # "write" /\ at[r] # "rename"
  BY DEF LogInit
<1> QED
  BY <1>2, <1>3 DEF LatestInv

LEMMA LatestStep ==
  ASSUME LogTypeOK, SizeInv, LatestInv, NEW r \in Writers, LogStep(r)
  PROVE  LatestInv'
<1> USE DEF Move
<1>1. /\ at \in [Writers -> {"idle", "running", "stat", "rename", "open", "write",
                             "gone", "none"}]
      /\ handle \in [Writers -> Inodes \cup {Absent}]
      /\ peak \in Nat /\ peak' \in Nat /\ peak <= peak' /\ maxSize' = maxSize
      /\ maxSize \in Nat
      /\ current \in Inodes \cup {Absent} /\ backup \in Inodes \cup {Absent}
      /\ files \in [Inodes -> Seq(Writers)]
  BY LogAssumption
  DEF LogTypeOK, LogStep, Arrive, Abandon, Spawn, Stat, Rename, Open, Write
<1> SUFFICES ASSUME peak' <= 1
             PROVE  LatestInv'
  BY DEF LatestInv
<1>2. peak <= 1
  BY <1>1
<1>3. /\ \A q \in Writers : at[q] = "write" => handle[q] = current
      /\ \A q \in Writers : at[q] = "rename" =>
           current # Absent /\ Len(files[current]) >= maxSize
  BY <1>2 DEF LatestInv
<1>4. PICK n \in Nat : HeldFrom(n) /\ (n > 0 => Len(Contents(backup)) >= maxSize)
  BY <1>2 DEF LatestInv
<1>5. /\ Len(Contents(backup)) \in Nat /\ Len(Contents(current)) \in Nat
      /\ Contents(backup) \in Seq(Writers) /\ Contents(current) \in Seq(Writers)
      /\ Absent \notin Inodes
  BY <1>1, ReadyTyping
<1>6. ASSUME r \in Working, at' = [at EXCEPT ![r] = at'[r]],
             NEW q \in Writers, q # r
      PROVE  at'[q] \notin {"write", "rename"}
  BY <1>1, <1>2, <1>6, OnlyOne DEF Working
<1>7. ASSUME UNCHANGED <<files, current, backup, recorded>>
      PROVE  HeldFrom(n)' /\ (n > 0 => Len(Contents(backup))' >= maxSize')
  BY <1>1, <1>4, <1>7 DEF HeldFrom, Contents
<1>8. CASE Arrive(r) \/ Abandon(r) \/ Spawn(r) \/ Stat(r)
  <2>1. /\ UNCHANGED <<files, current, backup, recorded, handle>>
        /\ at' = [at EXCEPT ![r] = at'[r]] /\ at'[r] # "write"
        /\ at'[r] = "rename" => current # Absent /\ Len(files[current]) >= maxSize
    BY <1>1, <1>8 DEF Arrive, Abandon, Spawn, Stat
  <2>2. \A q \in Writers : at'[q] = "write" => handle'[q] = current'
    BY <1>1, <1>3, <2>1
  <2>3. \A q \in Writers : at'[q] = "rename" =>
          current' # Absent /\ Len(files'[current']) >= maxSize'
    BY <1>1, <1>3, <2>1
  <2> QED
    BY <1>7, <2>1, <2>2, <2>3 DEF LatestInv
<1>9. CASE Rename(r)
  <2>1. /\ at[r] = "rename" /\ at' = [at EXCEPT ![r] = "open"]
        /\ UNCHANGED <<files, recorded, handle>>
    BY <1>9 DEF Rename
  <2>2. r \in Working /\ at'[r] = "open" /\ at' = [at EXCEPT ![r] = at'[r]]
    BY <1>1, <2>1 DEF Working
  <2>3. \A q \in Writers : at'[q] \notin {"write", "rename"}
    BY <1>6, <2>2
  <2>4. CASE UNCHANGED <<current, backup>>
    BY <1>7, <2>1, <2>3, <2>4 DEF LatestInv
  <2>5. CASE current # Absent /\ backup' = current /\ current' = Absent
    <3>1. /\ Contents(backup)' = Contents(current) /\ Contents(current)' = <<>>
          /\ Len(<<>>) = 0
      BY <2>1, <2>5 DEF Contents
    <3> PICK m \in Nat : m = n + Len(Contents(backup))
      BY <1>5
    <3>2. HeldFrom(m)'
      BY <1>4, <1>5, <2>1, <3>1 DEF HeldFrom
    <3>3. Len(Contents(backup)') >= maxSize'
      BY <1>1, <1>3, <2>1, <2>5, <3>1 DEF Contents
    <3> QED
      BY <2>3, <3>1, <3>2, <3>3 DEF LatestInv
  <2> QED
    BY <1>9, <2>4, <2>5 DEF Rename
<1>10. CASE Open(r)
  <2>1. /\ at[r] = "open" /\ r \in Working
        /\ UNCHANGED <<files, backup, recorded>>
    BY <1>10 DEF Open, Working
  <2>2. CASE at' = [at EXCEPT ![r] = "gone"] /\ UNCHANGED <<current, handle>>
    <3>1. \A q \in Writers : at'[q] \notin {"write", "rename"}
      BY <1>1, <1>6, <2>1, <2>2
    <3> QED
      BY <1>7, <2>1, <2>2, <3>1 DEF LatestInv
  <2>3. ASSUME at' = [at EXCEPT ![r] = "write"],
               NEW i \in IF current = Absent THEN NextInodes ELSE {current},
               current' = i, handle' = [handle EXCEPT ![r] = i]
        PROVE  LatestInv'
    <3>1. at'[r] = "write" /\ at' = [at EXCEPT ![r] = at'[r]] /\ handle'[r] = current'
      BY <1>1, <2>3
    <3>2. \A q \in Writers : q # r => at'[q] \notin {"write", "rename"}
      BY <1>6, <2>1, <3>1
    <3>3. Contents(current)' = Contents(current) /\ Contents(backup)' = Contents(backup)
      <4>1. CASE current = Absent
        <5>1. files[i] = <<>> /\ i # Absent
          BY <1>5, <2>3, <4>1 DEF NextInodes, Unused
        <5> QED
          BY <2>1, <2>3, <4>1, <5>1 DEF Contents
      <4>2. CASE current # Absent
        BY <2>1, <2>3, <4>2 DEF Contents
      <4> QED
        BY <4>1, <4>2
    <3>4. HeldFrom(n)' /\ (n > 0 => Len(Contents(backup)') >= maxSize')
      BY <1>1, <1>4, <2>1, <3>3 DEF HeldFrom
    <3> QED
      BY <3>1, <3>2, <3>4 DEF LatestInv
  <2> QED
    BY <1>10, <2>2, <2>3 DEF Open
<1>11. CASE Write(r)
  <2>1. /\ at[r] = "write" /\ at' = [at EXCEPT ![r] = "gone"] /\ r \in Working
        /\ UNCHANGED <<current, backup, handle>>
    BY <1>11 DEF Write, Working
  <2>2. \A q \in Writers : at'[q] \notin {"write", "rename"}
    BY <1>1, <1>6, <2>1
  <2>3. CASE UNCHANGED <<files, recorded>>
    BY <1>7, <2>1, <2>2, <2>3 DEF LatestInv
  <2>4. CASE /\ files' = [files EXCEPT ![handle[r]] = Append(@, r)]
             /\ recorded' = Append(recorded, r)
    <3>1. handle[r] = current /\ current \in Inodes /\ current # backup /\ current # Absent
      BY <1>3, <1>5, <2>1 DEF LogTypeOK
    <3>2. files' = [files EXCEPT ![current] = Append(@, r)]
      BY <2>4, <3>1
    <3>a. AppendedTo(current, r)
      BY <3>1, <3>2, Appended
    <3>b. /\ Len(recorded') = Len(recorded) + 1 /\ Len(recorded) \in Nat
          /\ recorded'[Len(recorded) + 1] = r
          /\ \A i \in 1 .. Len(recorded) : recorded'[i] = recorded[i]
      BY <2>4, Recorded
    <3>3. /\ Len(files'[current]) = Len(files[current]) + 1 /\ Len(files[current]) \in Nat
          /\ files'[current][Len(files[current]) + 1] = r
          /\ \A i \in 1 .. Len(files[current]) : files'[current][i] = files[current][i]
          /\ \A g \in Inodes \ {current} : files'[g] = files[g]
          /\ Len(recorded') = Len(recorded) + 1 /\ Len(recorded) \in Nat
          /\ recorded'[Len(recorded) + 1] = r
          /\ \A i \in 1 .. Len(recorded) : recorded'[i] = recorded[i]
      BY <3>a, <3>b DEF AppendedTo
    <3> DEFINE b == Contents(backup)
               c == Contents(current)
               d == files'[current]
    <3>4. /\ Contents(backup)' = b /\ Contents(current)' = d /\ files[current] = c
          /\ b \in Seq(Writers) /\ Len(b) \in Nat /\ Len(c) \in Nat
      BY <1>1, <1>5, <2>1, <3>1, <3>3 DEF Contents
    <3>5. /\ n + Len(b) + Len(c) = Len(recorded)
          /\ \A i \in 1 .. Len(b) : b[i] = recorded[n + i]
          /\ \A i \in 1 .. Len(c) : c[i] = recorded[n + Len(b) + i]
      BY <1>4 DEF HeldFrom
    <3> HIDE DEF b, c, d
    <3>6. /\ n + Len(b) + Len(d) = Len(recorded')
          /\ \A i \in 1 .. Len(b) : b[i] = recorded'[n + i]
          /\ \A i \in 1 .. Len(d) : d[i] = recorded'[n + Len(b) + i]
      <4>1. Len(d) = Len(c) + 1 /\ d[Len(c) + 1] = r
            /\ \A i \in 1 .. Len(c) : d[i] = c[i]
        BY <3>3, <3>4 DEF d
      <4>2. \A i \in 1 .. Len(b) : b[i] = recorded'[n + i]
        <5> SUFFICES ASSUME NEW i \in 1 .. Len(b)
                     PROVE  b[i] = recorded'[n + i]
          OBVIOUS
        <5>1. n + i \in 1 .. Len(recorded)
          BY <3>4, <3>5
        <5> QED
          BY <3>3, <3>5, <5>1
      <4>3. \A i \in 1 .. Len(d) : d[i] = recorded'[n + Len(b) + i]
        <5> SUFFICES ASSUME NEW i \in 1 .. Len(d)
                     PROVE  d[i] = recorded'[n + Len(b) + i]
          OBVIOUS
        <5>1. CASE i = Len(c) + 1
          BY <3>3, <3>4, <3>5, <4>1, <5>1
        <5>2. CASE i # Len(c) + 1
          <6>1. i \in 1 .. Len(c) /\ n + Len(b) + i \in 1 .. Len(recorded)
            BY <3>4, <3>5, <4>1, <5>2
          <6> QED
            BY <3>3, <3>5, <4>1, <6>1
        <5> QED
          BY <5>1, <5>2
      <4> QED
        BY <3>3, <3>4, <3>5, <4>1, <4>2, <4>3
    <3>7. HeldFrom(n)'
      BY <3>4, <3>6 DEF HeldFrom
    <3>8. n > 0 => Len(Contents(backup)') >= maxSize'
      BY <1>1, <1>4, <3>4 DEF b
    <3> QED
      BY <2>2, <3>7, <3>8 DEF LatestInv
  <2> QED
    BY <1>11, <2>3, <2>4 DEF Write
<1> QED
  BY <1>8, <1>9, <1>10, <1>11 DEF LogStep

LEMMA LatestRestart ==
  ASSUME LatestInv, Restart PROVE LatestInv'
<1>1. /\ UNCHANGED <<maxSize, files, current, backup, recorded, peak>>
      /\ \A r \in Writers : at'[r] \notin {"write", "rename"}
  BY DEF Restart
<1>2. \A n \in Nat : HeldFrom(n) => HeldFrom(n)'
  BY <1>1 DEF HeldFrom, Contents
<1> QED
  BY <1>1, <1>2 DEF LatestInv, Contents

LEMMA LatestStutters ==
  ASSUME LatestInv, UNCHANGED logVars PROVE LatestInv'
BY DEF LatestInv, HeldFrom, Contents, logVars

LEMMA LatestHeld == LogTypeOK /\ LatestInv => KeepsLatest
<1> SUFFICES ASSUME LogTypeOK, LatestInv, peak <= 1
             PROVE  \E n \in 0 .. Len(recorded) :
                      /\ Kept = SubSeq(recorded, n + 1, Len(recorded))
                      /\ n > 0 => Len(Kept) >= maxSize
  BY DEF KeepsLatest
<1>1. PICK n \in Nat : HeldFrom(n) /\ (n > 0 => Len(Contents(backup)) >= maxSize)
  BY DEF LatestInv
<1> DEFINE b == Contents(backup)
           c == Contents(current)
           s == SubSeq(recorded, n + 1, Len(recorded))
<1>2. /\ b \in Seq(Writers) /\ c \in Seq(Writers) /\ Len(b) \in Nat /\ Len(c) \in Nat
      /\ recorded \in Seq(Writers) /\ Len(recorded) \in Nat /\ maxSize \in Nat
  BY ReadyTyping, LenProperties, LogAssumption DEF LogTypeOK
<1>3. /\ n + Len(b) + Len(c) = Len(recorded)
      /\ \A i \in 1 .. Len(b) : b[i] = recorded[n + i]
      /\ \A i \in 1 .. Len(c) : c[i] = recorded[n + Len(b) + i]
  BY <1>1 DEF HeldFrom
<1>4. Kept = b \o c /\ (n > 0 => Len(b) >= maxSize)
  BY <1>1 DEF Kept
<1> HIDE DEF b, c
<1>5. /\ b \o c \in Seq(Writers) /\ Len(b \o c) = Len(b) + Len(c)
      /\ \A i \in 1 .. Len(b) + Len(c) :
           (b \o c)[i] = IF i <= Len(b) THEN b[i] ELSE c[i - Len(b)]
  BY <1>2, ConcatProperties
<1>6. /\ s \in Seq(Writers) /\ Len(s) = Len(b) + Len(c)
      /\ \A i \in 1 .. Len(b) + Len(c) : s[i] = recorded[n + i]
  <2> DEFINE f == n + 1
             l == Len(recorded)
             k == Len(b) + Len(c)
  <2>1. f \in Int /\ l \in Int /\ f >= 1 /\ l = n + k /\ l - f + 1 = k /\ k \in Nat
    BY <1>2, <1>3
  <2>2. \A i \in f .. l : recorded[i] \in Writers
    <3>1. \A i \in f .. l : i \in 1 .. Len(recorded)
      BY <1>2, <2>1
    <3> QED
      BY <1>2, <3>1
  <2>3. \A i \in 1 .. k : f + i - 1 = n + i
    OBVIOUS
  <2>4. (IF f <= l THEN l - f + 1 ELSE 0) = k
    BY <2>1
  <2> HIDE DEF f, l, k
  <2>5. /\ SubSeq(recorded, f, l) \in Seq(Writers)
        /\ Len(SubSeq(recorded, f, l)) = IF f <= l THEN l - f + 1 ELSE 0
        /\ \A i \in 1 .. l - f + 1 : SubSeq(recorded, f, l)[i] = recorded[f + i - 1]
    BY <2>1, <2>2, SubSeqProperties
  <2> QED
    BY <2>1, <2>3, <2>4, <2>5 DEF f, l, k
<1> HIDE DEF s
<1>7. ASSUME NEW i \in 1 .. Len(b) + Len(c)
      PROVE  (b \o c)[i] = s[i]
  <2>1. CASE i <= Len(b)
    BY <1>2, <1>3, <1>5, <1>6, <2>1
  <2>2. CASE i > Len(b)
    <3>1. i - Len(b) \in 1 .. Len(c) /\ n + Len(b) + (i - Len(b)) = n + i
      BY <1>2, <2>2
    <3>2. c[i - Len(b)] = recorded[n + Len(b) + (i - Len(b))]
      BY <1>3, <3>1
    <3> QED
      BY <1>2, <1>5, <1>6, <2>2, <3>1, <3>2
  <2> QED
    BY <1>2, <2>1, <2>2
<1>8. b \o c = s
  BY <1>5, <1>6, <1>7, SeqEqual
<1>9. n \in 0 .. Len(recorded) /\ (n > 0 => Len(Kept) >= maxSize)
  BY <1>2, <1>3, <1>4, <1>5
<1> QED
  BY <1>4, <1>8, <1>9 DEF s

-----------------------------------------------------------------------------
(***************************************************************************)
(* Theorems.                                                               *)
(***************************************************************************)
LEMMA CacheNextKeeps ==
  ASSUME CacheInv, CacheNext PROVE CacheInv'
<1>1. CASE \E r \in Readers : Resolve(r)
  BY <1>1, LookupKeeps, GetTokenKeeps, ServeKeeps, FetchFailsKeeps, StoreKeeps
  DEF Resolve
<1>2. CASE ListChanges \/ Tick
  BY <1>2, ListChangesKeeps, TickKeeps
<1> QED
  BY <1>1, <1>2 DEF CacheNext

LEMMA CacheStutters ==
  ASSUME CacheInv, UNCHANGED cacheVars PROVE CacheInv'
  BY DEF CacheInv, CacheTypeOK, AgeInv, FailureStaysOwn, cacheVars

LEMMA LogStutters ==
  ASSUME LogTypeOK, UNCHANGED logVars PROVE LogTypeOK'
  BY DEF LogTypeOK, logVars

Inv == CacheInv /\ LogTypeOK

LEMMA Invariance == Spec => []Inv
<1>1. Init => Inv
  BY CacheInitially, LogInitially DEF Init, Inv
<1>2. Inv /\ [Next]_vars => Inv'
  <2> SUFFICES ASSUME Inv, [Next]_vars PROVE Inv'
    OBVIOUS
  <2> USE DEF Inv
  <2>1. CASE CacheNext /\ UNCHANGED logVars
    BY <2>1, CacheNextKeeps, LogStutters
  <2>2. CASE LogNext /\ UNCHANGED cacheVars
    BY <2>2, LogStepKeeps, RestartKeeps, CacheStutters DEF LogNext
  <2>3. CASE UNCHANGED vars
    BY <2>3, CacheStutters, LogStutters DEF vars
  <2> QED
    BY <2>1, <2>2, <2>3 DEF Next, Idle
<1> QED
  BY <1>1, <1>2, PTL DEF Spec

\* Types: every variable of the shared state keeps its type, for any requests,
\* sizes and times (ModelsCache, ConversationLogger).
THEOREM TypeCorrect == Spec => []TypeOK
<1>1. Inv => TypeOK
  BY DEF Inv, CacheInv, TypeOK
<1> QED
  BY <1>1, Invariance, PTL

\* The built-in list is only answered to a request whose own fetch failed: a
\* failure is never cached (resolve_models).
THEOREM FailuresStayOwn == Spec => []FailureStaysOwn
<1>1. Inv => FailureStaysOwn
  BY DEF Inv, CacheInv
<1> QED
  BY <1>1, Invariance, PTL

\* The step of the action property: a reader that becomes done has a list from
\* the cache or the one it fetched.
LEMMA ListRecent ==
  ASSUME CacheInv, CacheNext, NEW r \in Readers,
         step[r] # "done", step'[r] = "done", list'[r] # Fallback
  PROVE  \/ list'[r] = version
         \/ now < replacedAt[list'[r]] + Ttl + MaxFlight
         \/ now <= replacedAt[list'[r]] + MaxFlight
<1> USE CacheAssumption DEF CacheInv, CacheTypeOK, AgeInv
<1>1. CASE Lookup(r)
  <2>1. CASE static
    BY <1>1, <2>1 DEF Lookup
  <2>2. CASE ~static /\ Fresh(cache)
    <3>1. list'[r] = cache.models
      BY <1>1, <2>2 DEF Lookup
    <3>2. now - cache.fetchedAt < Ttl /\ cache # NoEntry
      BY <2>2 DEF Fresh
    <3>3. CASE cache.models = version
      BY <3>1, <3>3
    <3>4. CASE cache.models # version
      <4>1. cache.models \in 0 .. version - 1 /\ cache.fetchedAt \in Nat
        BY <3>2, <3>4
      <4>2. cache.fetchedAt <= replacedAt[cache.models] + MaxFlight
        BY <3>2, <3>4
      <4>3. replacedAt[cache.models] \in Nat
        BY <4>1
      <4> QED
        BY <3>1, <3>2, <4>1, <4>2, <4>3
    <3> QED BY <3>3, <3>4
  <2>3. CASE ~static /\ ~Fresh(cache)
    BY <1>1, <2>3 DEF Lookup
  <2> QED BY <2>1, <2>2, <2>3
<1>2. CASE Store(r)
  <2>1. list'[r] = list[r] /\ step[r] = "answer"
    BY <1>2 DEF Store
  <2>2. CASE list[r] = version
    BY <2>1, <2>2
  <2>3. CASE list[r] # version
    <3>1. now <= began[r] + MaxFlight /\ began[r] <= replacedAt[list[r]]
      BY <2>1, <2>3
    <3>2. list[r] \in 0 .. version - 1 /\ began[r] \in Nat
      BY <2>1, <2>3
    <3>3. replacedAt[list[r]] \in Nat
      BY <3>2
    <3> QED
      BY <2>1, <3>1, <3>2, <3>3
  <2> QED BY <2>2, <2>3
<1>3. CASE GetToken(r) \/ Serve(r) \/ FetchFails(r)
  BY <1>3 DEF GetToken, Serve, FetchFails
<1>4. CASE ListChanges \/ Tick
  BY <1>4 DEF ListChanges, Tick
<1>5. CASE \E q \in Readers \ {r} : Resolve(q)
  BY <1>5 DEF Resolve, Lookup, GetToken, Serve, FetchFails, Store
<1> QED
  BY <1>1, <1>2, <1>3, <1>4, <1>5 DEF CacheNext, Resolve

\* An answered list, also one that a slow fetch cached over a newer one, was
\* current at most a time to live and a flight ago (resolve_models).
THEOREM ListsRecent == Spec => NoStaleList
<1> DEFINE Recent(r) == step[r] # "done" /\ step'[r] = "done" /\ list'[r] # Fallback =>
              \/ list'[r] = version
              \/ now < replacedAt[list'[r]] + Ttl + MaxFlight
              \/ now <= replacedAt[list'[r]] + MaxFlight
<1>1. Inv /\ [Next]_vars => [\A r \in Readers : Recent(r)]_cacheVars
  <2> SUFFICES ASSUME Inv, [Next]_vars, ~UNCHANGED cacheVars, NEW r \in Readers
               PROVE  Recent(r)
    OBVIOUS
  <2>1. CacheNext
    BY DEF Next, Idle, vars
  <2> QED
    BY <2>1, ListRecent DEF Inv
<1> QED
  BY <1>1, Invariance, PTL DEF Spec, NoStaleList

\* The log's inductive invariant.
LogInv == SizeInv /\ RecordInv /\ OrderInv /\ LatestInv

LEMMA LogInvariance == Spec => []LogInv
<1>1. Init => LogInv
  BY SizeInitially, OrderInitially, LatestInitially DEF Init, LogInv
<1>2. LogTypeOK /\ LogTypeOK' /\ LogInv /\ [Next]_vars => LogInv'
  <2> SUFFICES ASSUME LogTypeOK, LogTypeOK', LogInv, [Next]_vars
               PROVE  LogInv'
    OBVIOUS
  <2> USE DEF LogInv
  <2>1. CASE \E r \in Writers : LogStep(r)
    BY <2>1, SizeStep, RecordStep, OrderStep, LatestStep
  <2>2. CASE Restart
    BY <2>2, SizeRestart, OrderRestart, LatestRestart
  <2>3. CASE UNCHANGED logVars
    BY <2>3, SizeStutters, OrderStutters, LatestStutters
  <2> QED
    BY <2>1, <2>2, <2>3 DEF Next, LogNext, Idle, vars
<1>3. Inv => LogTypeOK
  BY DEF Inv
<1> QED
  BY <1>1, <1>2, <1>3, Invariance, PTL DEF Spec

\* For any requests and limit: as long as renames succeed, the log outgrows its
\* limit by no more than the tasks that were at work at a time (maybe_rotate
\* and log_cycle, which share no lock).
THEOREM LogIsBounded == Spec => []LogBounded
<1>1. Inv /\ LogInv => LogBounded
  BY SizeBounds DEF Inv, LogInv
<1> QED
  BY <1>1, Invariance, LogInvariance, PTL

\* For any requests and limit: in backup and log a record comes after those its
\* request found when it arrived, and has a larger number in the same process,
\* although tasks write to files that were renamed in the meantime.
THEOREM LogIsOrdered == Spec => []LogOrdered
<1>1. Inv /\ LogInv => LogOrdered
  BY OrderKept DEF Inv, LogInv
<1> QED
  BY <1>1, Invariance, LogInvariance, PTL

\* For any requests and limit: unless tasks overlap, backup and log hold the
\* records written last, at least a full file of them if any is gone.
THEOREM LatestKept == Spec => []KeepsLatest
<1>1. Inv /\ LogInv => KeepsLatest
  BY LatestHeld DEF Inv, LogInv
<1> QED
  BY <1>1, Invariance, LogInvariance, PTL

-----------------------------------------------------------------------------
(***************************************************************************)
(* Sequences, for Conversation: induction over their length.               *)
(***************************************************************************)
\* A set of numbers that has 0 and each successor has all of them: there is no
\* least number outside of it.
Below == {p \in Nat \X Nat : p[1] < p[2]}

LEMMA Induction ==
  ASSUME NEW T, 0 \in T, \A n \in Nat : n \in T => n + 1 \in T
  PROVE  \A n \in Nat : n \in T
<1> SUFFICES ASSUME Nat \ T # {}
             PROVE  FALSE
  OBVIOUS
<1>1. IsWellFoundedOn(Below, Nat)
  <2>1. Below = OpToRel(<, Nat)
    BY Zenon DEF Below, OpToRel
  <2> QED
    BY <2>1, NatLessThanWellFounded, Zenon
<1>2. PICK x \in Nat \ T : \A y \in Nat \ T : ~(<<y, x>> \in Below)
  <2>1. Nat \ T \in SUBSET Nat
    OBVIOUS
  <2> QED
    BY <1>1, <2>1, WFMin, Zenon
<1>3. x - 1 \in Nat /\ x - 1 \notin T
  BY <1>2
<1>4. <<x - 1, x>> \in Below
  <2> DEFINE p == <<x - 1, x>>
  <2>1. p \in Nat \X Nat /\ p[1] = x - 1 /\ p[2] = x
    BY <1>2, <1>3
  <2> HIDE DEF p
  <2>2. p[1] < p[2]
    BY <1>2, <1>3, <2>1
  <2> QED
    BY <2>1, <2>2 DEF Below, p
<1> QED
  BY <1>2, <1>3, <1>4

\* The same for sequences, which are built by appending elements.
LEMMA SequenceInduction ==
  ASSUME NEW S, NEW T, <<>> \in T,
         \A s \in Seq(S) : \A x \in S : s \in T => Append(s, x) \in T
  PROVE  \A s \in Seq(S) : s \in T
<1> DEFINE N == {n \in Nat : \A s \in Seq(S) : Len(s) = n => s \in T}
<1>1. 0 \in N
  <2> SUFFICES ASSUME NEW s \in Seq(S), Len(s) = 0
               PROVE  s \in T
    OBVIOUS
  <2> QED
    BY EmptySeq
<1>2. ASSUME NEW n \in Nat, n \in N
      PROVE  n + 1 \in N
  <2> SUFFICES ASSUME NEW s \in Seq(S), Len(s) = n + 1
               PROVE  s \in T
    BY <1>2
  <2>1. /\ SubSeq(s, 1, n) \in Seq(S) /\ Len(SubSeq(s, 1, n)) = n /\ s[n + 1] \in S
        /\ s = Append(SubSeq(s, 1, n), s[n + 1])
    OBVIOUS
  <2>2. SubSeq(s, 1, n) \in T
    BY <1>2, <2>1
  <2> QED
    BY <2>1, <2>2
<1> HIDE DEF N
<1>3. \A n \in Nat : n \in N
  BY <1>1, <1>2, Induction
<1> QED
  BY <1>3, LenProperties DEF N
-----------------------------------------------------------------------------
\* A function that is defined by what comes before: it exists.
Recurs(f, n, R, base, each) ==
  f \in [0 .. n -> R] /\ f[0] = base /\ \A i \in 1 .. n : f[i] = each[i][f[i - 1]]

LEMMA Recursion ==
  ASSUME NEW n \in Nat, NEW R, NEW base \in R, NEW each \in [1 .. n -> [R -> R]]
  PROVE  \E f : Recurs(f, n, R, base, each)
<1> DEFINE Upto(k, f) == f[0] = base /\ \A i \in 1 .. k : f[i] = each[i][f[i - 1]]
           N == {k \in Nat : k <= n => \E f \in [0 .. k -> R] : Upto(k, f)}
<1>1. 0 \in N
  <2> DEFINE f == [i \in 0 .. 0 |-> base]
  <2>1. f \in [0 .. 0 -> R] /\ f[0] = base
    OBVIOUS
  <2>2. \A i \in 1 .. 0 : FALSE
    OBVIOUS
  <2> HIDE DEF f
  <2> QED
    BY <2>1, <2>2
<1>2. ASSUME NEW k \in Nat, k \in N
      PROVE  k + 1 \in N
  <2> SUFFICES ASSUME k + 1 <= n
               PROVE  \E f \in [0 .. k + 1 -> R] : Upto(k + 1, f)
    OBVIOUS
  <2>1. PICK f \in [0 .. k -> R] : Upto(k, f)
    BY <1>2
  <2>2. f[k] \in R /\ each[k + 1] \in [R -> R]
    OBVIOUS
  <2>3. each[k + 1][f[k]] \in R
    BY <2>2
  <2> DEFINE g == [i \in 0 .. k + 1 |-> IF i = k + 1 THEN each[k + 1][f[k]] ELSE f[i]]
  <2>4. g \in [0 .. k + 1 -> R]
    BY <2>3
  <2>5. g[k + 1] = each[k + 1][f[k]] /\ \A i \in 0 .. k : g[i] = f[i]
    OBVIOUS
  <2> HIDE DEF g
  <2>6. ASSUME NEW i \in 1 .. k + 1
        PROVE  g[i] = each[i][g[i - 1]]
    <3>1. CASE i = k + 1
      BY <2>5, <3>1
    <3>2. CASE i \in 1 .. k
      <4>1. i - 1 \in 0 .. k /\ i \in 0 .. k
        BY <3>2
      <4> QED
        BY <2>1, <2>5, <3>2, <4>1
    <3> QED
      BY <3>1, <3>2
  <2>7. g[0] = base
    BY <2>1, <2>5
  <2> QED
    BY <2>4, <2>6, <2>7
<1> HIDE DEF N
<1>3. \A k \in Nat : k \in N
  BY <1>1, <1>2, Induction
<1> QED
  BY <1>3 DEF N, Recurs
-----------------------------------------------------------------------------
\* The function in FlattenSeq.
Flat(s, f) == f = [i \in 1 .. Len(s) |-> IF i = 1 THEN s[i] ELSE f[i - 1] \o s[i]]

LEMMA FlatExists ==
  ASSUME NEW S, NEW s \in Seq(Seq(S))
  PROVE  \E f \in [1 .. Len(s) -> Seq(S)] : Flat(s, f)
<1> DEFINE n == Len(s)
           each == [i \in 1 .. n |-> [r \in Seq(S) |-> r \o s[i]]]
<1>1. n \in Nat /\ \A i \in 1 .. n : s[i] \in Seq(S)
  BY LenProperties
<1> HIDE DEF n
<1>2. each \in [1 .. n -> [Seq(S) -> Seq(S)]]
  BY <1>1, ConcatProperties
<1>3. \A i \in 1 .. n : \A r \in Seq(S) : each[i][r] = r \o s[i]
  OBVIOUS
<1> HIDE DEF each
<1>4. <<>> \in Seq(S)
  OBVIOUS
<1>5. PICK f : Recurs(f, n, Seq(S), <<>>, each)
  <2> DEFINE e == <<>>
  <2>1. e \in Seq(S)
    BY <1>4
  <2> HIDE DEF e
  <2>2. \E f : Recurs(f, n, Seq(S), e, each)
    BY <1>1, <1>2, <2>1, Recursion
  <2> QED
    BY <2>2 DEF e
<1>5a. /\ f \in [0 .. n -> Seq(S)] /\ f[0] = <<>>
       /\ \A i \in 1 .. n : f[i] = each[i][f[i - 1]]
  BY <1>5 DEF Recurs
<1> DEFINE g == [i \in 1 .. n |-> f[i]]
<1>6. g \in [1 .. n -> Seq(S)] /\ \A i \in 1 .. n : g[i] = f[i]
  BY <1>5a
<1> HIDE DEF g
<1>7. ASSUME NEW i \in 1 .. n
      PROVE  g[i] = IF i = 1 THEN s[i] ELSE g[i - 1] \o s[i]
  <2>0. i - 1 \in 0 .. n /\ f[i - 1] \in Seq(S)
    BY <1>1, <1>5a
  <2>1. g[i] = f[i - 1] \o s[i]
    BY <1>3, <1>5a, <1>6, <2>0
  <2>2. CASE i = 1
    <3>1. s[i] \in Seq(S)
      BY <1>1
    <3>2. f[i - 1] = <<>>
      BY <1>5a, <2>2
    <3>3. <<>> \o s[i] = s[i]
      BY <3>1, ConcatEmptySeq
    <3> QED
      BY <2>1, <2>2, <3>2, <3>3
  <2>3. CASE i # 1
    <3>1. g[i - 1] = f[i - 1]
      BY <1>1, <1>6, <2>3
    <3> QED
      BY <2>1, <2>3, <3>1
  <2> QED
    BY <2>2, <2>3
<1>8. g = [i \in 1 .. n |-> IF i = 1 THEN s[i] ELSE g[i - 1] \o s[i]]
  <2>1. g = [i \in 1 .. n |-> g[i]]
    BY <1>6
  <2> QED
    BY <1>7, <2>1
<1> QED
  BY <1>6, <1>8 DEF Flat, n

LEMMA FlatStep ==
  ASSUME NEW s, NEW f, Flat(s, f), NEW i \in 1 .. Len(s)
  PROVE  f[i] = IF i = 1 THEN s[i] ELSE f[i - 1] \o s[i]
<1> DEFINE h == [j \in 1 .. Len(s) |-> IF j = 1 THEN s[j] ELSE f[j - 1] \o s[j]]
<1>1. f = h
  BY DEF Flat
<1>2. h[i] = IF i = 1 THEN s[i] ELSE f[i - 1] \o s[i]
  BY Zenon
<1> HIDE DEF h
<1> QED
  BY <1>1, <1>2

\* Two such functions agree where the sequences do.
Agree(f, g, n) == \A i \in 1 .. n : f[i] = g[i]

LEMMA FlatAgree ==
  ASSUME NEW S, NEW s \in Seq(Seq(S)), NEW t \in Seq(Seq(S)), NEW n \in Nat,
         n <= Len(s), n <= Len(t), Agree(s, t, n),
         NEW f, NEW g, Flat(s, f), Flat(t, g)
  PROVE  Agree(f, g, n)
<1> DEFINE N == {k \in Nat : \A i \in 1 .. n : i <= k => f[i] = g[i]}
<1>0. Len(s) \in Nat /\ Len(t) \in Nat
  BY LenProperties
<1>1. 0 \in N
  OBVIOUS
<1>2. ASSUME NEW k \in Nat, k \in N
      PROVE  k + 1 \in N
  <2> SUFFICES ASSUME k + 1 \in 1 .. n
               PROVE  f[k + 1] = g[k + 1]
    <3>1. k + 1 \in N <=> \A i \in 1 .. n : i <= k + 1 => f[i] = g[i]
      OBVIOUS
    <3>2. \A i \in 1 .. n : i <= k => f[i] = g[i]
      BY <1>2
    <3>3. \A i \in 1 .. n : i <= k + 1 => i <= k \/ i = k + 1
      OBVIOUS
    <3> HIDE DEF N
    <3> QED
      BY <3>1, <3>2, <3>3
  <2>0. k + 1 \in 1 .. Len(s) /\ k + 1 \in 1 .. Len(t) /\ (k + 1) - 1 = k
    BY <1>0
  <2>1. f[k + 1] = IF k + 1 = 1 THEN s[k + 1] ELSE f[k] \o s[k + 1]
    BY <2>0, FlatStep
  <2>2. g[k + 1] = IF k + 1 = 1 THEN t[k + 1] ELSE g[k] \o t[k + 1]
    BY <2>0, FlatStep
  <2>3. k + 1 # 1 => f[k] = g[k]
    BY <1>2
  <2>4. s[k + 1] = t[k + 1]
    BY DEF Agree
  <2> QED
    BY <2>1, <2>2, <2>3, <2>4
<1> HIDE DEF N
<1>3. \A k \in Nat : k \in N
  BY <1>1, <1>2, Induction
<1>4. \A i \in 1 .. n : f[i] = g[i]
  <2>1. n \in N
    BY <1>3
  <2> QED
    BY <2>1 DEF N
<1> QED
  BY <1>4 DEF Agree

\* FlattenSeq puts sequences together.
LEMMA FlattenValue ==
  ASSUME NEW S, NEW s \in Seq(Seq(S)), Len(s) # 0
  PROVE  \E f \in [1 .. Len(s) -> Seq(S)] : Flat(s, f) /\ FlattenSeq(s) = f[Len(s)]
<1> DEFINE c == CHOOSE f : Flat(s, f)
<1>1. PICK f \in [1 .. Len(s) -> Seq(S)] : Flat(s, f)
  BY FlatExists
<1>2. Flat(s, c)
  BY <1>1
<1>3. FlattenSeq(s) = c[Len(s)]
  BY DEF FlattenSeq, Flat
<1>4. c = f
  <2> HIDE DEF c
  <2>1. Len(s) \in Nat
    BY LenProperties
  <2>2. Agree(c, f, Len(s))
    BY <1>1, <1>2, <2>1, FlatAgree DEF Agree
  <2>3. c = [i \in 1 .. Len(s) |-> c[i]] /\ f = [i \in 1 .. Len(s) |-> f[i]]
    BY <1>1, <1>2 DEF Flat
  <2> QED
    BY <2>2, <2>3 DEF Agree
<1> QED
  BY <1>1, <1>3, <1>4

LEMMA FlattenEmpty == FlattenSeq(<<>>) = <<>>
BY DEF FlattenSeq

LEMMA FlattenAppend ==
  ASSUME NEW S, NEW s \in Seq(Seq(S)), NEW x \in Seq(S)
  PROVE  /\ FlattenSeq(s) \in Seq(S)
         /\ FlattenSeq(Append(s, x)) = FlattenSeq(s) \o x
<1> DEFINE n == Len(s)
           t == Append(s, x)
<1>1. /\ n \in Nat /\ t \in Seq(Seq(S)) /\ Len(t) = n + 1 /\ t[n + 1] = x
      /\ \A i \in 1 .. n : s[i] = t[i]
  BY AppendProperties, LenProperties
<1> HIDE DEF t
<1>2. PICK g \in [1 .. n + 1 -> Seq(S)] : Flat(t, g) /\ FlattenSeq(t) = g[n + 1]
  BY <1>1, FlattenValue
<1>3. g[n + 1] = IF n + 1 = 1 THEN x ELSE g[n] \o x
  <2>1. n + 1 \in 1 .. Len(t) /\ (n + 1) - 1 = n
    BY <1>1
  <2> QED
    BY <1>1, <1>2, <2>1, FlatStep
<1>4. CASE n = 0
  <2>1. s = <<>>
    BY <1>4, EmptySeq
  <2>2. FlattenSeq(s) = <<>>
    BY <2>1, FlattenEmpty
  <2>3. <<>> \o x = x /\ <<>> \in Seq(S)
    BY ConcatEmptySeq
  <2> QED
    BY <1>2, <1>3, <1>4, <2>2, <2>3 DEF t
<1>5. CASE n # 0
  <2>1. PICK f \in [1 .. n -> Seq(S)] : Flat(s, f) /\ FlattenSeq(s) = f[n]
    BY <1>5, FlattenValue
  <2>2. Agree(f, g, n)
    <3>1. n <= Len(t) /\ n <= Len(s) /\ Agree(s, t, n)
      BY <1>1 DEF Agree
    <3> QED
      BY <1>1, <1>2, <2>1, <3>1, FlatAgree
  <2>3. n \in 1 .. n /\ n + 1 # 1
    BY <1>1, <1>5
  <2>4. f[n] \in Seq(S) /\ f[n] = g[n]
    BY <2>2, <2>3 DEF Agree
  <2> QED
    BY <1>2, <1>3, <2>1, <2>3, <2>4 DEF t
<1> QED
  BY <1>4, <1>5
-----------------------------------------------------------------------------
\* The function in Of.
OfUpTo(s, K, f) ==
  f = [i \in 0 .. Len(s) |->
         IF i = 0 THEN <<>>
         ELSE IF s[i].k \in K THEN Append(f[i - 1], s[i]) ELSE f[i - 1]]

Only(S, K) == {b \in S : b.k \in K}

LEMMA OfExists ==
  ASSUME NEW S, NEW s \in Seq(S), NEW K
  PROVE  \E f \in [0 .. Len(s) -> Seq(Only(S, K))] : OfUpTo(s, K, f)
<1> DEFINE n == Len(s)
           R == Seq(Only(S, K))
           each == [i \in 1 .. n |-> [r \in R |->
                       IF s[i].k \in K THEN Append(r, s[i]) ELSE r]]
           e == <<>>
<1>1. n \in Nat /\ e \in R /\ \A i \in 1 .. n : s[i] \in S
  BY LenProperties
<1>2. each \in [1 .. n -> [R -> R]]
  <2> SUFFICES ASSUME NEW i \in 1 .. n, NEW r \in R
               PROVE  (IF s[i].k \in K THEN Append(r, s[i]) ELSE r) \in R
    OBVIOUS
  <2>1. s[i].k \in K => s[i] \in Only(S, K)
    BY <1>1 DEF Only
  <2> QED
    BY <2>1, AppendProperties
<1>3. \A i \in 1 .. n : \A r \in R :
        each[i][r] = IF s[i].k \in K THEN Append(r, s[i]) ELSE r
  BY Zenon
<1> HIDE DEF n, R, each, e
<1>4. PICK f : Recurs(f, n, R, e, each)
  BY <1>1, <1>2, Recursion
<1>5. f \in [0 .. n -> R] /\ f[0] = e /\ \A i \in 1 .. n : f[i] = each[i][f[i - 1]]
  BY <1>4 DEF Recurs
<1>6. ASSUME NEW i \in 0 .. n
      PROVE  f[i] = IF i = 0 THEN <<>>
                    ELSE IF s[i].k \in K THEN Append(f[i - 1], s[i]) ELSE f[i - 1]
  <2>1. CASE i = 0
    BY <1>5, <2>1 DEF e
  <2>2. CASE i # 0
    <3>1. i \in 1 .. n /\ i - 1 \in 0 .. n
      BY <1>1, <2>2
    <3>2. f[i - 1] \in R
      BY <1>5, <3>1
    <3> QED
      BY <1>3, <1>5, <2>2, <3>1, <3>2
  <2> QED
    BY <2>1, <2>2
<1>7. OfUpTo(s, K, f)
  <2>1. f = [i \in 0 .. n |-> f[i]]
    BY <1>5
  <2> QED
    BY <1>6, <2>1 DEF OfUpTo, n
<1> QED
  BY <1>5, <1>7 DEF n, R

LEMMA OfStep ==
  ASSUME NEW s, NEW K, NEW f, OfUpTo(s, K, f), NEW i \in 0 .. Len(s)
  PROVE  f[i] = IF i = 0 THEN <<>>
                ELSE IF s[i].k \in K THEN Append(f[i - 1], s[i]) ELSE f[i - 1]
<1> DEFINE h == [j \in 0 .. Len(s) |->
                   IF j = 0 THEN <<>>
                   ELSE IF s[j].k \in K THEN Append(f[j - 1], s[j]) ELSE f[j - 1]]
<1>1. f = h
  BY DEF OfUpTo
<1>2. h[i] = IF i = 0 THEN <<>>
             ELSE IF s[i].k \in K THEN Append(f[i - 1], s[i]) ELSE f[i - 1]
  BY Zenon
<1> HIDE DEF h
<1> QED
  BY <1>1, <1>2

SameAt(f, g, n) == f[n] = g[n]

LEMMA OfAgree ==
  ASSUME NEW s, NEW t, NEW n \in Nat, NEW K,
         Len(s) \in Nat, Len(t) \in Nat, n <= Len(s), n <= Len(t), Agree(s, t, n),
         NEW f, NEW g, OfUpTo(s, K, f), OfUpTo(t, K, g)
  PROVE  SameAt(f, g, n)
<1> DEFINE N == {k \in Nat : k <= n => f[k] = g[k]}
<1>1. 0 \in N
  <2>1. 0 \in 0 .. Len(s) /\ 0 \in 0 .. Len(t)
    OBVIOUS
  <2>2. f[0] = <<>> /\ g[0] = <<>>
    BY <2>1, OfStep
  <2> QED
    BY <2>2
<1>2. ASSUME NEW k \in Nat, k \in N
      PROVE  k + 1 \in N
  <2> SUFFICES ASSUME k + 1 <= n
               PROVE  f[k + 1] = g[k + 1]
    OBVIOUS
  <2>0. /\ k + 1 \in 0 .. Len(s) /\ k + 1 \in 0 .. Len(t) /\ (k + 1) - 1 = k
        /\ k + 1 # 0 /\ k + 1 \in 1 .. n
    OBVIOUS
  <2>1. f[k + 1] = IF s[k + 1].k \in K THEN Append(f[k], s[k + 1]) ELSE f[k]
    BY <2>0, OfStep
  <2>2. g[k + 1] = IF t[k + 1].k \in K THEN Append(g[k], t[k + 1]) ELSE g[k]
    BY <2>0, OfStep
  <2>3. f[k] = g[k]
    BY <1>2
  <2>4. s[k + 1] = t[k + 1]
    BY <2>0 DEF Agree
  <2> QED
    BY <2>1, <2>2, <2>3, <2>4
<1>3. \A k \in Nat : k \in N
  <2> HIDE DEF N
  <2> QED
    BY <1>1, <1>2, Induction
<1>4. f[n] = g[n]
  BY <1>3
<1> QED
  BY <1>4 DEF SameAt

LEMMA OfValue ==
  ASSUME NEW S, NEW s \in Seq(S), NEW K
  PROVE  \E f \in [0 .. Len(s) -> Seq(Only(S, K))] :
           OfUpTo(s, K, f) /\ Of(s, K) = f[Len(s)]
<1> DEFINE c == CHOOSE f : OfUpTo(s, K, f)
<1>1. PICK f \in [0 .. Len(s) -> Seq(Only(S, K))] : OfUpTo(s, K, f)
  BY OfExists
<1>2. OfUpTo(s, K, c)
  BY <1>1
<1>3. Of(s, K) = c[Len(s)]
  BY DEF Of, OfUpTo
<1>4. c[Len(s)] = f[Len(s)]
  <2> HIDE DEF c
  <2>1. Len(s) \in Nat
    BY LenProperties
  <2>2. Len(s) <= Len(s) /\ Agree(s, s, Len(s))
    BY <2>1 DEF Agree
  <2>3. SameAt(c, f, Len(s))
    BY <1>1, <1>2, <2>1, <2>2, OfAgree
  <2> QED
    BY <2>3 DEF SameAt
<1> QED
  BY <1>1, <1>3, <1>4

LEMMA OfEmpty == \A K : Of(<<>>, K) = <<>>
<1> SUFFICES ASSUME NEW K
             PROVE  Of(<<>>, K) = <<>>
  OBVIOUS
<1> DEFINE e == <<>>
<1>1. e \in Seq({}) /\ Len(e) = 0
  OBVIOUS
<1> HIDE DEF e
<1>2. PICK f \in [0 .. Len(e) -> Seq(Only({}, K))] : OfUpTo(e, K, f) /\ Of(e, K) = f[Len(e)]
  BY <1>1, OfValue
<1>3. 0 \in 0 .. Len(e)
  BY <1>1
<1>4. f[0] = <<>>
  BY <1>2, <1>3, OfStep
<1> QED
  BY <1>1, <1>2, <1>4 DEF e

LEMMA OfAppend ==
  ASSUME NEW S, NEW s \in Seq(S), NEW x \in S, NEW K
  PROVE  /\ Of(s, K) \in Seq(Only(S, K))
         /\ Of(Append(s, x), K) = IF x.k \in K THEN Append(Of(s, K), x) ELSE Of(s, K)
<1> DEFINE n == Len(s)
           t == Append(s, x)
<1>1. /\ n \in Nat /\ t \in Seq(S) /\ Len(t) = n + 1 /\ t[n + 1] = x
      /\ \A i \in 1 .. n : s[i] = t[i]
  BY AppendProperties, LenProperties
<1>2. PICK f \in [0 .. n -> Seq(Only(S, K))] : OfUpTo(s, K, f) /\ Of(s, K) = f[n]
  BY OfValue
<1> HIDE DEF n, t
<1>3. PICK g \in [0 .. n + 1 -> Seq(Only(S, K))] : OfUpTo(t, K, g) /\ Of(t, K) = g[n + 1]
  <2>1. \E g \in [0 .. Len(t) -> Seq(Only(S, K))] : OfUpTo(t, K, g) /\ Of(t, K) = g[Len(t)]
    BY <1>1, OfValue
  <2> QED
    BY <1>1, <2>1
<1>4. SameAt(f, g, n)
  <2>1. Len(s) = n /\ n <= Len(t) /\ n <= Len(s) /\ Agree(s, t, n) /\ Len(t) \in Nat
    BY <1>1 DEF Agree, n
  <2>2. n \in Nat /\ Len(s) \in Nat /\ OfUpTo(s, K, f) /\ OfUpTo(t, K, g)
    BY <1>1, <1>2, <1>3, <2>1
  <2> QED
    BY <2>1, <2>2, OfAgree
<1>5. f[n] = g[n]
  BY <1>4 DEF SameAt
<1>6. g[n + 1] = IF x.k \in K THEN Append(g[n], x) ELSE g[n]
  <2> DEFINE j == n + 1
  <2>1. j \in 0 .. Len(t) /\ j # 0 /\ j - 1 = n /\ t[j] = x
    BY <1>1
  <2> HIDE DEF j
  <2>2. g[j] = IF j = 0 THEN <<>>
               ELSE IF t[j].k \in K THEN Append(g[j - 1], t[j]) ELSE g[j - 1]
    BY <1>3, <2>1, OfStep
  <2> QED
    BY <2>1, <2>2 DEF j
<1>7. f[n] \in Seq(Only(S, K))
  BY <1>1, <1>2
<1> QED
  BY <1>2, <1>3, <1>5, <1>6, <1>7 DEF t
-----------------------------------------------------------------------------
LEMMA OfTyping ==
  ASSUME NEW S, NEW s \in Seq(S), NEW K
  PROVE  Of(s, K) \in Seq(Only(S, K)) /\ Of(s, K) \in Seq(S)
<1>1. PICK f \in [0 .. Len(s) -> Seq(Only(S, K))] : Of(s, K) = f[Len(s)]
  BY OfValue
<1>2. Len(s) \in 0 .. Len(s)
  BY LenProperties
<1>3. Of(s, K) \in Seq(Only(S, K))
  BY <1>1, <1>2
<1>4. Only(S, K) \subseteq S
  BY DEF Only
<1> QED
  BY <1>3, <1>4, SeqMonotonic

LEMMA FlattenTyping ==
  ASSUME NEW S, NEW s \in Seq(Seq(S))
  PROVE  FlattenSeq(s) \in Seq(S)
<1>1. CASE Len(s) = 0
  BY <1>1, FlattenEmpty, EmptySeq
<1>2. CASE Len(s) # 0
  <2>1. PICK f \in [1 .. Len(s) -> Seq(S)] : FlattenSeq(s) = f[Len(s)]
    BY <1>2, FlattenValue
  <2>2. Len(s) \in 1 .. Len(s)
    BY <1>2, LenProperties
  <2> QED
    BY <2>1, <2>2
<1> QED
  BY <1>1, <1>2

\* Appending to what is put together.
LEMMA ConcatAppend ==
  ASSUME NEW S, NEW s \in Seq(S), NEW t \in Seq(S), NEW x \in S
  PROVE  s \o Append(t, x) = Append(s \o t, x)
<1> DEFINE one == <<x>>
           w == s \o t
<1>1. one \in Seq(S) /\ w \in Seq(S)
  BY ConcatProperties
<1>2. Append(t, x) = t \o one /\ Append(w, x) = w \o one
  BY <1>1, AppendIsConcat
<1> HIDE DEF one
<1>3. s \o (t \o one) = w \o one
  BY <1>1, ConcatAssociative
<1> QED
  BY <1>2, <1>3 DEF w

LEMMA ConcatIs ==
  ASSUME NEW S, NEW p \in Seq(S), NEW q \in Seq(S), NEW r \in Seq(S),
         Len(r) = Len(p) + Len(q), \A i \in 1 .. Len(p) : r[i] = p[i],
         \A i \in 1 .. Len(q) : r[Len(p) + i] = q[i]
  PROVE  r = p \o q
<1> DEFINE s == p \o q
<1>1. /\ s \in Seq(S) /\ Len(s) = Len(p) + Len(q) /\ Len(p) \in Nat /\ Len(q) \in Nat
      /\ \A i \in 1 .. Len(p) + Len(q) : s[i] = IF i <= Len(p) THEN p[i] ELSE q[i - Len(p)]
  BY ConcatProperties, LenProperties
<1> HIDE DEF s
<1>2. ASSUME NEW i \in 1 .. Len(r)
      PROVE  r[i] = s[i]
  <2>0. i <= Len(p) \/ i > Len(p)
    BY <1>1
  <2>1. CASE i <= Len(p)
    BY <1>1, <2>1
  <2>2. CASE i > Len(p)
    <3> DEFINE j == i - Len(p)
    <3>1. j \in 1 .. Len(q) /\ Len(p) + j = i /\ ~(i <= Len(p))
      BY <1>1, <2>2
    <3>2. s[i] = q[j]
      BY <1>1, <3>1
    <3> HIDE DEF j
    <3> QED
      BY <3>1, <3>2
  <2> QED
    BY <2>0, <2>1, <2>2
<1>3. r = s
  BY <1>1, <1>2, SeqEqual
<1> QED
  BY <1>3 DEF s

LEMMA OfConcat ==
  ASSUME NEW S, NEW s \in Seq(S), NEW t \in Seq(S), NEW K
  PROVE  Of(s \o t, K) = Of(s, K) \o Of(t, K)
<1> DEFINE T == {u \in Seq(S) : Of(s \o u, K) = Of(s, K) \o Of(u, K)}
<1>1. <<>> \in T
  <2>1. Of(s, K) \in Seq(S)
    BY OfTyping
  <2>2. s \o <<>> = s /\ Of(s, K) \o <<>> = Of(s, K)
    BY <2>1, ConcatEmptySeq
  <2> DEFINE e == <<>>
  <2>3. e \in Seq(S) /\ Of(e, K) = e /\ s \o e = s /\ Of(s, K) \o e = Of(s, K)
    BY <2>2, OfEmpty
  <2> HIDE DEF e
  <2>4. e \in T
    BY <2>3
  <2> QED
    BY <2>4 DEF e
<1>2. ASSUME NEW u \in Seq(S), NEW x \in S, u \in T
      PROVE  Append(u, x) \in T
  <2>1. s \o u \in Seq(S) /\ Append(u, x) \in Seq(S)
    BY ConcatProperties, AppendProperties
  <2>2. s \o Append(u, x) = Append(s \o u, x)
    BY ConcatAppend
  <2>3. Of(Append(s \o u, x), K) = IF x.k \in K THEN Append(Of(s \o u, K), x)
                                   ELSE Of(s \o u, K)
    <3> DEFINE w == s \o u
    <3> HIDE DEF w
    <3>1. w \in Seq(S)
      BY <2>1 DEF w
    <3>2. Of(Append(w, x), K) = IF x.k \in K THEN Append(Of(w, K), x) ELSE Of(w, K)
      BY <3>1, OfAppend
    <3> QED
      BY <3>2 DEF w
  <2>4. Of(Append(u, x), K) = IF x.k \in K THEN Append(Of(u, K), x) ELSE Of(u, K)
    BY OfAppend
  <2>5. Of(s \o u, K) = Of(s, K) \o Of(u, K)
    BY <1>2
  <2>6. Of(s, K) \o Append(Of(u, K), x) = Append(Of(s, K) \o Of(u, K), x)
    <3>1. Of(s, K) \in Seq(S) /\ Of(u, K) \in Seq(S)
      BY OfTyping
    <3> QED
      BY <3>1, ConcatAppend
  <2> QED
    BY <2>1, <2>2, <2>3, <2>4, <2>5, <2>6
<1> HIDE DEF T
<1>3. \A u \in Seq(S) : u \in T
  BY <1>1, <1>2, SequenceInduction
<1> QED
  BY <1>3 DEF T

\* The same with the equation turned around.
LEMMA ConcatThree ==
  ASSUME NEW S
  PROVE  \A a, b, c \in Seq(S) : a \o (b \o c) = (a \o b) \o c
BY ConcatAssociative, Z3

LEMMA FlattenConcat ==
  ASSUME NEW S, NEW s \in Seq(Seq(S)), NEW t \in Seq(Seq(S))
  PROVE  FlattenSeq(s \o t) = FlattenSeq(s) \o FlattenSeq(t)
<1> DEFINE T == {u \in Seq(Seq(S)) : FlattenSeq(s \o u) = FlattenSeq(s) \o FlattenSeq(u)}
<1>1. <<>> \in T
  <2>1. FlattenSeq(s) \in Seq(S)
    BY FlattenTyping
  <2>2. s \o <<>> = s /\ FlattenSeq(s) \o <<>> = FlattenSeq(s)
    BY <2>1, ConcatEmptySeq
  <2> DEFINE e == <<>>
  <2>3. /\ e \in Seq(Seq(S)) /\ FlattenSeq(e) = e /\ s \o e = s
        /\ FlattenSeq(s) \o e = FlattenSeq(s)
    BY <2>2, FlattenEmpty
  <2> HIDE DEF e
  <2>4. e \in T
    BY <2>3
  <2> QED
    BY <2>4 DEF e
<1>2. ASSUME NEW u \in Seq(Seq(S)), NEW x \in Seq(S), u \in T
      PROVE  Append(u, x) \in T
  <2>1. s \o u \in Seq(Seq(S)) /\ Append(u, x) \in Seq(Seq(S))
    BY ConcatProperties, AppendProperties
  <2>2. s \o Append(u, x) = Append(s \o u, x)
    BY ConcatAppend
  <2>3. FlattenSeq(Append(s \o u, x)) = FlattenSeq(s \o u) \o x
    BY <2>1, FlattenAppend
  <2>4. FlattenSeq(Append(u, x)) = FlattenSeq(u) \o x
    BY FlattenAppend
  <2>5. FlattenSeq(s \o u) = FlattenSeq(s) \o FlattenSeq(u)
    BY <1>2
  <2>6. FlattenSeq(s) \o (FlattenSeq(u) \o x) = (FlattenSeq(s) \o FlattenSeq(u)) \o x
    <3>1. FlattenSeq(s) \in Seq(S) /\ FlattenSeq(u) \in Seq(S)
      BY FlattenTyping
    <3>2. \A a, b \in Seq(S) : a \o (b \o x) = (a \o b) \o x
      BY ONLY ConcatThree, x \in Seq(S)
    <3> QED
      BY ONLY <3>1, <3>2
  <2> QED
    BY <2>1, <2>2, <2>3, <2>4, <2>5, <2>6
<1> HIDE DEF T
<1>3. \A u \in Seq(Seq(S)) : u \in T
  BY <1>1, <1>2, SequenceInduction
<1> QED
  BY <1>3 DEF T

\* One sequence.
LEMMA FlattenOne ==
  ASSUME NEW S, NEW x \in Seq(S)
  PROVE  FlattenSeq(<<x>>) = x
<1> DEFINE e == <<>>
<1>1. e \in Seq(Seq(S)) /\ Append(e, x) = <<x>>
  OBVIOUS
<1>2. FlattenSeq(e) = <<>>
  BY FlattenEmpty
<1> HIDE DEF e
<1>3. FlattenSeq(Append(e, x)) = FlattenSeq(e) \o x
  BY <1>1, FlattenAppend
<1> QED
  BY <1>1, <1>2, <1>3, ConcatEmptySeq
-----------------------------------------------------------------------------
\* Selecting twice is selecting what is in both.
LEMMA OfOf ==
  ASSUME NEW S, NEW K, NEW L
  PROVE  \A s \in Seq(S) : Of(Of(s, K), L) = Of(s, K \cap L)
<1> DEFINE T == {s \in Seq(S) : Of(Of(s, K), L) = Of(s, K \cap L)}
           e == <<>>
<1>1. e \in T
  <2>1. e \in Seq(S) /\ Of(e, K) = e /\ Of(e, L) = e /\ Of(e, K \cap L) = e
    BY OfEmpty
  <2> HIDE DEF e
  <2> QED
    BY <2>1
<1>2. ASSUME NEW s \in Seq(S), NEW x \in S, s \in T
      PROVE  Append(s, x) \in T
  <2> DEFINE o == Of(s, K)
             a == Append(s, x)
  <2>1. a \in Seq(S) /\ o \in Seq(S)
    BY AppendProperties, OfTyping
  <2>2. Of(a, K) = IF x.k \in K THEN Append(o, x) ELSE o
    BY OfAppend
  <2>3. Of(a, K \cap L) = IF x.k \in K \cap L THEN Append(Of(s, K \cap L), x)
                          ELSE Of(s, K \cap L)
    BY OfAppend
  <2>4. Of(o, L) = Of(s, K \cap L)
    BY <1>2
  <2> HIDE DEF o, a
  <2>5. Of(Append(o, x), L) = IF x.k \in L THEN Append(Of(o, L), x) ELSE Of(o, L)
    BY <2>1, OfAppend
  <2>6. Of(Of(a, K), L) = Of(a, K \cap L)
    <3>1. CASE x.k \in K /\ x.k \in L
      BY <2>2, <2>3, <2>4, <2>5, <3>1
    <3>2. CASE x.k \in K /\ x.k \notin L
      BY <2>2, <2>3, <2>4, <2>5, <3>2
    <3>3. CASE x.k \notin K
      BY <2>2, <2>3, <2>4, <2>5, <3>3
    <3> QED
      BY <3>1, <3>2, <3>3
  <2> QED
    BY <2>1, <2>6 DEF a
<1>3. \A s \in Seq(S) : s \in T
  <2> HIDE DEF T
  <2> QED
    BY <1>1, <1>2, SequenceInduction DEF e
<1> QED
  BY <1>3

\* All of a sequence, and nothing of it.
LEMMA OfAll ==
  ASSUME NEW S, NEW K, \A x \in S : x.k \in K
  PROVE  \A s \in Seq(S) : Of(s, K) = s
<1> DEFINE T == {s \in Seq(S) : Of(s, K) = s}
           e == <<>>
<1>1. e \in T
  <2>1. e \in Seq(S) /\ Of(e, K) = e
    BY OfEmpty
  <2> HIDE DEF e
  <2> QED
    BY <2>1
<1>2. ASSUME NEW s \in Seq(S), NEW x \in S, s \in T
      PROVE  Append(s, x) \in T
  BY <1>2, AppendProperties, OfAppend
<1>3. \A s \in Seq(S) : s \in T
  <2> HIDE DEF T
  <2> QED
    BY <1>1, <1>2, SequenceInduction DEF e
<1> QED
  BY <1>3

LEMMA OfNone ==
  ASSUME NEW S, NEW K, \A x \in S : x.k \notin K
  PROVE  \A s \in Seq(S) : Of(s, K) = <<>>
<1> SUFFICES ASSUME NEW s \in Seq(S)
             PROVE  Of(s, K) = <<>>
  OBVIOUS
<1>1. Only(S, K) = {}
  BY DEF Only
<1>2. Of(s, K) \in Seq({})
  BY <1>1, OfTyping
<1> QED
  BY <1>2, LenProperties, EmptySeq

\* What is selected of sequences put together.
MapOf(ss, K) == [i \in 1 .. Len(ss) |-> Of(ss[i], K)]

LEMMA OfFlatten ==
  ASSUME NEW S, NEW K
  PROVE  \A ss \in Seq(Seq(S)) :
           /\ MapOf(ss, K) \in Seq(Seq(S))
           /\ Of(FlattenSeq(ss), K) = FlattenSeq(MapOf(ss, K))
<1>0. ASSUME NEW ss \in Seq(Seq(S))
      PROVE  MapOf(ss, K) \in Seq(Seq(S))
  <2>1. \A i \in 1 .. Len(ss) : Of(ss[i], K) \in Seq(S)
    BY OfTyping
  <2> QED
    BY <2>1, LenProperties DEF MapOf
<1> DEFINE T == {ss \in Seq(Seq(S)) : Of(FlattenSeq(ss), K) = FlattenSeq(MapOf(ss, K))}
           e == <<>>
<1>1. e \in T
  <2>1. e \in Seq(Seq(S)) /\ FlattenSeq(e) = e /\ Of(e, K) = e
    BY OfEmpty, FlattenEmpty
  <2>2. MapOf(e, K) = e
    BY DEF MapOf
  <2> HIDE DEF e
  <2> QED
    BY <2>1, <2>2
<1>2. ASSUME NEW ss \in Seq(Seq(S)), NEW x \in Seq(S), ss \in T
      PROVE  Append(ss, x) \in T
  <2> DEFINE a == Append(ss, x)
             f == FlattenSeq(ss)
             m == MapOf(ss, K)
             y == Of(x, K)
  <2>1. a \in Seq(Seq(S)) /\ f \in Seq(S) /\ y \in Seq(S) /\ m \in Seq(Seq(S))
    BY <1>0, AppendProperties, FlattenTyping, OfTyping
  <2>2. FlattenSeq(a) = f \o x
    BY FlattenAppend
  <2>3. MapOf(a, K) = Append(m, y)
    <3>1. /\ Len(a) = Len(ss) + 1 /\ a[Len(ss) + 1] = x /\ Len(ss) \in Nat
          /\ \A i \in 1 .. Len(ss) : a[i] = ss[i]
      BY AppendProperties, LenProperties
    <3> HIDE DEF a
    <3>2. /\ MapOf(a, K) \in Seq(Seq(S)) /\ Len(MapOf(a, K)) = Len(ss) + 1
          /\ \A i \in 1 .. Len(ss) + 1 : MapOf(a, K)[i] = Of(a[i], K)
      <4>1. MapOf(a, K) \in Seq(Seq(S))
        BY <1>0, <2>1
      <4>2. MapOf(a, K) = [i \in 1 .. Len(ss) + 1 |-> Of(a[i], K)]
        BY <3>1 DEF MapOf
      <4>3. Len(MapOf(a, K)) = Len(ss) + 1
        BY <3>1, <4>2
      <4>4. \A i \in 1 .. Len(ss) + 1 : MapOf(a, K)[i] = Of(a[i], K)
        BY <4>2
      <4> QED
        BY <4>1, <4>3, <4>4
    <3>3. /\ m \in Seq(Seq(S)) /\ Len(m) = Len(ss)
          /\ \A i \in 1 .. Len(ss) : m[i] = Of(ss[i], K)
      BY <2>1, <3>1 DEF MapOf
    <3> HIDE DEF m, y
    <3>4. /\ Append(m, y) \in Seq(Seq(S)) /\ Len(Append(m, y)) = Len(ss) + 1
          /\ Append(m, y)[Len(ss) + 1] = y
          /\ \A i \in 1 .. Len(ss) : Append(m, y)[i] = m[i]
      <4> DEFINE Q == Seq(S)
      <4>1. m \in Seq(Q) /\ y \in Q
        BY <2>1
      <4> HIDE DEF Q
      <4>2. /\ Append(m, y) \in Seq(Q) /\ Len(Append(m, y)) = Len(m) + 1
            /\ Append(m, y)[Len(m) + 1] = y
            /\ \A i \in 1 .. Len(m) : Append(m, y)[i] = m[i]
        BY <4>1, AppendProperties
      <4> QED
        BY <3>3, <4>2 DEF Q
    <3>5. \A i \in 1 .. Len(ss) + 1 : MapOf(a, K)[i] = Append(m, y)[i]
      <4> SUFFICES ASSUME NEW i \in 1 .. Len(ss) + 1
                   PROVE  MapOf(a, K)[i] = Append(m, y)[i]
        OBVIOUS
      <4>0. i = Len(ss) + 1 \/ i \in 1 .. Len(ss)
        BY <3>1
      <4>1. CASE i = Len(ss) + 1
        BY <3>1, <3>2, <3>4, <4>1 DEF y
      <4>2. CASE i \in 1 .. Len(ss)
        BY <3>1, <3>2, <3>3, <3>4, <4>2
      <4> QED
        BY <4>0, <4>1, <4>2
    <3> QED
      BY <3>2, <3>4, <3>5, SeqEqual
  <2>4. Of(f \o x, K) = Of(f, K) \o y
    BY <2>1, OfConcat
  <2>5. FlattenSeq(Append(m, y)) = FlattenSeq(m) \o y
    BY <2>1, FlattenAppend
  <2>6. Of(f, K) = FlattenSeq(m)
    BY <1>2
  <2> HIDE DEF a, f, m, y
  <2>7. Of(FlattenSeq(a), K) = FlattenSeq(MapOf(a, K))
    BY <2>2, <2>3, <2>4, <2>5, <2>6
  <2> QED
    BY <2>1, <2>7 DEF a
<1>3. \A ss \in Seq(Seq(S)) : ss \in T
  <2> HIDE DEF T
  <2> QED
    BY <1>1, <1>2, SequenceInduction DEF e
<1> QED
  BY <1>0, <1>3

\* Sequences of one element each.
Singles(s) == [i \in 1 .. Len(s) |-> <<s[i]>>]

LEMMA FlattenSingles ==
  ASSUME NEW S
  PROVE  \A s \in Seq(S) : FlattenSeq(Singles(s)) = s
<1>0. ASSUME NEW s \in Seq(S)
      PROVE  Singles(s) \in Seq(Seq(S))
  BY LenProperties DEF Singles
<1> DEFINE T == {s \in Seq(S) : FlattenSeq(Singles(s)) = s}
           e == <<>>
<1>1. e \in T
  <2>1. e \in Seq(S) /\ FlattenSeq(e) = e
    BY FlattenEmpty
  <2>2. Singles(e) = e
    BY DEF Singles
  <2> HIDE DEF e
  <2> QED
    BY <2>1, <2>2
<1>2. ASSUME NEW s \in Seq(S), NEW x \in S, s \in T
      PROVE  Append(s, x) \in T
  <2> DEFINE a == Append(s, x)
             y == <<x>>
             m == Singles(s)
  <2>1. a \in Seq(S) /\ y \in Seq(S) /\ m \in Seq(Seq(S))
    BY <1>0, AppendProperties
  <2>2. Singles(a) = Append(m, y)
    <3>1. /\ Len(a) = Len(s) + 1 /\ a[Len(s) + 1] = x /\ Len(s) \in Nat
          /\ \A i \in 1 .. Len(s) : a[i] = s[i]
      BY AppendProperties, LenProperties
    <3> HIDE DEF a
    <3>2. /\ Singles(a) \in Seq(Seq(S)) /\ Len(Singles(a)) = Len(s) + 1
          /\ \A i \in 1 .. Len(s) + 1 : Singles(a)[i] = <<a[i]>>
      BY <1>0, <2>1, <3>1 DEF Singles
    <3>3. m \in Seq(Seq(S)) /\ Len(m) = Len(s) /\ \A i \in 1 .. Len(s) : m[i] = <<s[i]>>
      BY <2>1, <3>1 DEF Singles
    <3>4. y = <<x>>
      OBVIOUS
    <3> HIDE DEF m, y
    <3>5. /\ Append(m, y) \in Seq(Seq(S)) /\ Len(Append(m, y)) = Len(s) + 1
          /\ Append(m, y)[Len(s) + 1] = y
          /\ \A i \in 1 .. Len(s) : Append(m, y)[i] = m[i]
      BY <2>1, <3>3, AppendProperties
    <3>6. ASSUME NEW i \in 1 .. Len(s) + 1
          PROVE  Singles(a)[i] = Append(m, y)[i]
      <4>0. i = Len(s) + 1 \/ i \in 1 .. Len(s)
        BY <3>1
      <4>1. CASE i = Len(s) + 1
        BY <3>1, <3>2, <3>4, <3>5, <4>1
      <4>2. CASE i \in 1 .. Len(s)
        <5>1. a[i] = s[i]
          BY <3>1, <4>2
        <5> QED
          BY <3>2, <3>3, <3>5, <4>2, <5>1
      <4> QED
        BY <4>0, <4>1, <4>2
    <3> QED
      BY <3>2, <3>5, <3>6, SeqEqual
  <2>3. FlattenSeq(Append(m, y)) = FlattenSeq(m) \o y
    BY <2>1, FlattenAppend
  <2>4. FlattenSeq(m) = s
    BY <1>2
  <2>5. Append(s, x) = s \o y
    BY AppendIsConcat
  <2> HIDE DEF a, y, m
  <2>6. FlattenSeq(Singles(a)) = s \o y
    BY <2>2, <2>3, <2>4
  <2> QED
    BY <2>1, <2>5, <2>6 DEF a
<1>3. \A s \in Seq(S) : s \in T
  <2> HIDE DEF T
  <2> QED
    BY <1>1, <1>2, SequenceInduction DEF e
<1> QED
  BY <1>3
-----------------------------------------------------------------------------
(***************************************************************************)
(* The parser returns sequences.                                           *)
(***************************************************************************)
IsSequence(s) == s \in Seq({s[i] : i \in 1 .. Len(s)})

LEMMA SequenceIs ==
  ASSUME NEW S, NEW s \in Seq(S)
  PROVE  IsSequence(s)
<1>1. s \in [1 .. Len(s) -> S] /\ Len(s) \in Nat
  BY LenProperties
<1> DEFINE R == {s[i] : i \in 1 .. Len(s)}
<1>2. \A i \in 1 .. Len(s) : s[i] \in R
  OBVIOUS
<1>3. s = [i \in 1 .. Len(s) |-> s[i]]
  BY <1>1
<1> HIDE DEF R
<1>4. s \in [1 .. Len(s) -> R]
  BY <1>2, <1>3
<1>5. s \in UNION {[1 .. n -> R] : n \in Nat}
  BY <1>1, <1>4, Zenon
<1>6. s \in Seq(R)
  BY <1>5, SeqDef
<1> QED
  BY <1>6 DEF IsSequence, R

\* The sequences put together may have elements of different kinds.
LEMMA FlattenSequences ==
  ASSUME NEW n \in Nat, NEW p, p = [i \in 1 .. n |-> p[i]],
         \A i \in 1 .. n : IsSequence(p[i])
  PROVE  IsSequence(FlattenSeq(p))
<1> DEFINE S == UNION {{p[i][j] : j \in 1 .. Len(p[i])} : i \in 1 .. n}
<1>1. ASSUME NEW i \in 1 .. n
      PROVE  p[i] \in Seq(S)
  <2>1. {p[i][j] : j \in 1 .. Len(p[i])} \subseteq S
    OBVIOUS
  <2>2. p[i] \in Seq({p[i][j] : j \in 1 .. Len(p[i])})
    BY DEF IsSequence
  <2> HIDE DEF S
  <2> QED
    BY <2>1, <2>2, SeqMonotonic
<1> HIDE DEF S
<1>2. p \in Seq(Seq(S))
  <2> DEFINE Q == Seq(S)
  <2>1. p \in [1 .. n -> Q]
    BY <1>1
  <2> HIDE DEF Q
  <2>2. p \in Seq(Q)
    BY <2>1, SeqDef, Zenon
  <2> QED
    BY <2>2 DEF Q
<1> QED
  BY <1>2, FlattenTyping, SequenceIs

LEMMA ConcatSequences ==
  ASSUME NEW s, NEW t, IsSequence(s), IsSequence(t)
  PROVE  IsSequence(s \o t)
<1> DEFINE S == {s[i] : i \in 1 .. Len(s)}
           T == {t[i] : i \in 1 .. Len(t)}
<1>1. s \in Seq(S) /\ t \in Seq(T)
  BY DEF IsSequence
<1> HIDE DEF S, T
<1>2. s \in Seq(S \cup T) /\ t \in Seq(S \cup T)
  <2>1. S \subseteq S \cup T /\ T \subseteq S \cup T
    OBVIOUS
  <2> QED
    BY <1>1, <2>1, SeqMonotonic
<1>3. s \o t \in Seq(S \cup T)
  BY <1>2, ConcatProperties
<1> QED
  BY <1>3, SequenceIs
-----------------------------------------------------------------------------
\* The function in Matches, and what one of its values is made of.
MatchAt(s, kinds, tag, min, i) ==
  LET b == Least(Begins(s, kinds, tag, min, i))
  IN  [b |-> b, e |-> Least({k \in b + min + 1 .. Len(s) : s[k] = Close(tag)})]
MatchesFrom(s, kinds, tag, min, f) ==
  f = [i \in 1 .. Len(s) + 1 |->
         IF Begins(s, kinds, tag, min, i) = {} THEN <<>>
         ELSE <<MatchAt(s, kinds, tag, min, i)>>
              \o f[MatchAt(s, kinds, tag, min, i).e + 1]]

LEMMA LeastIs ==
  ASSUME NEW S \in SUBSET Nat, S # {}
  PROVE  Least(S) \in S /\ \A k \in S : Least(S) <= k
<1>1. \E j \in S : \A k \in S : j <= k
  <2>1. IsWellFoundedOn(Below, Nat)
    <3>1. Below = OpToRel(<, Nat)
      BY Zenon DEF Below, OpToRel
    <3> QED
      BY <3>1, NatLessThanWellFounded, Zenon
  <2>2. PICK x \in S : \A y \in S : ~(<<y, x>> \in Below)
    BY <2>1, WFMin, Zenon
  <2>3. ASSUME NEW y \in S
        PROVE  x <= y
    <3> SUFFICES ASSUME y < x
                 PROVE  FALSE
      OBVIOUS
    <3> DEFINE p == <<y, x>>
    <3>1. p \in Nat \X Nat /\ p[1] = y /\ p[2] = x
      OBVIOUS
    <3> HIDE DEF p
    <3>2. p \in Below
      BY <3>1 DEF Below
    <3> QED
      BY <2>2, <3>2 DEF p
  <2> QED
    BY <2>3
<1> QED
  BY <1>1 DEF Least

LEMMA MatchBounds ==
  ASSUME NEW s, Len(s) \in Nat, NEW kinds, NEW tag, NEW min \in Nat,
         NEW i \in Nat \ {0}, Begins(s, kinds, tag, min, i) # {}
  PROVE  LET m == MatchAt(s, kinds, tag, min, i)
         IN  /\ m = [b |-> m.b, e |-> m.e]
             /\ m.b \in i .. Len(s) /\ m.e \in m.b + min + 1 .. Len(s)
             /\ IsOpening(s[m.b], kinds, tag) /\ s[m.e] = Close(tag)
<1> DEFINE B == Begins(s, kinds, tag, min, i)
           b == Least(B)
           E == {k \in b + min + 1 .. Len(s) : s[k] = Close(tag)}
           e == Least(E)
<1>1. /\ b \in i .. Len(s) /\ IsOpening(s[b], kinds, tag)
      /\ \E k \in b + min + 1 .. Len(s) : s[k] = Close(tag)
  <2>1. B \in SUBSET Nat /\ B # {}
    BY DEF Begins
  <2>2. b \in B
    <3> HIDE DEF B
    <3> QED
      BY <2>1, LeastIs
  <2> QED
    BY <2>2 DEF Begins
<1>2. e \in E
  <2> HIDE DEF b
  <2>1. E \in SUBSET Nat /\ E # {}
    BY <1>1
  <2> HIDE DEF E
  <2> QED
    BY <2>1, LeastIs
<1>3. MatchAt(s, kinds, tag, min, i) = [b |-> b, e |-> e]
  BY DEF MatchAt
<1> HIDE DEF b, e
<1> QED
  BY <1>1, <1>2, <1>3

\* A function that is defined by values further on: it exists.
FromBack(f, n, R, base, next, each) ==
  f \in [1 .. n + 1 -> R] /\ f[n + 1] = base
  /\ \A i \in 1 .. n : f[i] = each[i][f[next[i]]]

LEMMA RecursionFromBack ==
  ASSUME NEW n \in Nat, NEW R, NEW base \in R, NEW each \in [1 .. n -> [R -> R]],
         NEW next, \A i \in 1 .. n : next[i] \in i + 1 .. n + 1
  PROVE  \E f : FromBack(f, n, R, base, next, each)
<1> DEFINE Upto(k, f) == f[n + 1] = base
                         /\ \A i \in n + 1 - k .. n : f[i] = each[i][f[next[i]]]
           N == {k \in Nat : k <= n => \E f \in [n + 1 - k .. n + 1 -> R] : Upto(k, f)}
<1>1. 0 \in N
  <2> DEFINE f == [i \in n + 1 - 0 .. n + 1 |-> base]
  <2>1. f \in [n + 1 - 0 .. n + 1 -> R] /\ f[n + 1] = base
    OBVIOUS
  <2>2. \A i \in n + 1 - 0 .. n : FALSE
    OBVIOUS
  <2> HIDE DEF f
  <2> QED
    BY <2>1, <2>2
<1>2. ASSUME NEW k \in Nat, k \in N
      PROVE  k + 1 \in N
  <2> DEFINE j == n - k
  <2> SUFFICES ASSUME k + 1 <= n
               PROVE  \E g \in [n + 1 - (k + 1) .. n + 1 -> R] : Upto(k + 1, g)
    OBVIOUS
  <2>0. j \in 1 .. n /\ n + 1 - k = j + 1 /\ n + 1 - (k + 1) = j
    OBVIOUS
  <2>1. PICK f \in [j + 1 .. n + 1 -> R] :
          f[n + 1] = base /\ \A i \in j + 1 .. n : f[i] = each[i][f[next[i]]]
    BY <1>2
  <2> HIDE DEF j
  <2>2. next[j] \in j + 1 .. n + 1
    BY <2>0
  <2>3. f[next[j]] \in R /\ each[j] \in [R -> R]
    BY <2>0, <2>2
  <2> DEFINE v == each[j][f[next[j]]]
             g == [i \in j .. n + 1 |-> IF i = j THEN v ELSE f[i]]
  <2>4. v \in R
    BY <2>3
  <2>5. g \in [j .. n + 1 -> R] /\ g[j] = v /\ \A i \in j + 1 .. n + 1 : g[i] = f[i]
    <3> HIDE DEF v
    <3> QED
      BY <2>0, <2>4
  <2> HIDE DEF g
  <2>6. ASSUME NEW i \in j .. n
        PROVE  g[i] = each[i][g[next[i]]]
    <3>0. i \in 1 .. n
      BY <2>0
    <3>1. next[i] \in i + 1 .. n + 1
      BY <3>0
    <3>2. next[i] \in j + 1 .. n + 1
      BY <2>0, <3>1
    <3>3. g[next[i]] = f[next[i]]
      BY <2>5, <3>2
    <3>4. CASE i = j
      BY <2>5, <3>3, <3>4
    <3>5. CASE i # j
      <4>1. i \in j + 1 .. n /\ i \in j + 1 .. n + 1
        BY <2>0, <3>5
      <4> QED
        BY <2>1, <2>5, <3>3, <4>1
    <3> QED
      BY <3>4, <3>5
  <2>7. g[n + 1] = base
    BY <2>0, <2>1, <2>5
  <2> QED
    BY <2>0, <2>5, <2>6, <2>7
<1>3. n \in N
  <2> HIDE DEF N
  <2>1. \A k \in Nat : k \in N
    BY <1>1, <1>2, Induction
  <2> QED
    BY <2>1
<1>4. PICK f \in [n + 1 - n .. n + 1 -> R] : Upto(n, f)
  BY <1>3
<1>5. n + 1 - n = 1
  OBVIOUS
<1> QED
  BY <1>4, <1>5 DEF FromBack

LEMMA MatchesExist ==
  ASSUME NEW s, Len(s) \in Nat, NEW kinds, NEW tag, NEW min \in Nat
  PROVE  \E f : MatchesFrom(s, kinds, tag, min, f)
<1> DEFINE n == Len(s)
           M == [b : Nat, e : Nat]
           R == Seq(M)
           e == <<>>
           none(i) == Begins(s, kinds, tag, min, i) = {}
           hit(i) == MatchAt(s, kinds, tag, min, i)
           next == [i \in 1 .. n |-> IF none(i) THEN n + 1 ELSE hit(i).e + 1]
           each == [i \in 1 .. n |-> [r \in R |-> IF none(i) THEN e ELSE <<hit(i)>> \o r]]
<1>1. e \in R /\ n \in Nat
  OBVIOUS
<1>2. ASSUME NEW i \in 1 .. n, ~none(i)
      PROVE  hit(i) \in M /\ hit(i).e + 1 \in i + 1 .. n + 1
  <2>1. i \in Nat \ {0}
    OBVIOUS
  <2>2. /\ hit(i) = [b |-> hit(i).b, e |-> hit(i).e]
        /\ hit(i).b \in i .. n /\ hit(i).e \in hit(i).b + min + 1 .. n
    BY <1>2, <2>1, MatchBounds
  <2> HIDE DEF hit, n
  <2>3. hit(i).b \in Nat /\ hit(i).e \in Nat /\ hit(i).e + 1 \in i + 1 .. n + 1
    BY <1>1, <2>1, <2>2
  <2> QED
    BY <2>2, <2>3
<1>3. ASSUME NEW i \in 1 .. n
      PROVE  next[i] \in i + 1 .. n + 1
  <2> HIDE DEF hit, none, n
  <2>1. CASE none(i)
    BY <1>1, <2>1
  <2>2. CASE ~none(i)
    BY <1>2, <2>2
  <2> QED
    BY <2>1, <2>2
<1>4. each \in [1 .. n -> [R -> R]]
  <2> SUFFICES ASSUME NEW i \in 1 .. n, NEW r \in R
               PROVE  (IF none(i) THEN e ELSE <<hit(i)>> \o r) \in R
    OBVIOUS
  <2> HIDE DEF hit, none, n, e, M
  <2>1. ASSUME ~none(i)
        PROVE  <<hit(i)>> \o r \in Seq(M)
    <3>1. <<hit(i)>> \in Seq(M)
      BY <1>2, <2>1
    <3> QED
      BY <3>1, ConcatProperties
  <2> QED
    BY <1>1, <2>1
<1>5. \A i \in 1 .. n : \A r \in R :
        each[i][r] = IF none(i) THEN e ELSE <<hit(i)>> \o r
  BY Zenon
<1>6. \A i \in 1 .. n : ~none(i) => next[i] = hit(i).e + 1
  BY Zenon
<1> HIDE DEF n, R, e, none, hit, next, each
<1>7. PICK f : FromBack(f, n, R, e, next, each)
  BY <1>1, <1>3, <1>4, RecursionFromBack
<1>8. /\ f \in [1 .. n + 1 -> R] /\ f[n + 1] = e
      /\ \A i \in 1 .. n : f[i] = each[i][f[next[i]]]
  BY <1>7 DEF FromBack
<1>9. none(n + 1)
  BY <1>1 DEF none, n, Begins
<1>10. ASSUME NEW i \in 1 .. n + 1
       PROVE  f[i] = IF none(i) THEN e ELSE <<hit(i)>> \o f[hit(i).e + 1]
  <2>1. CASE i = n + 1
    BY <1>8, <1>9, <2>1
  <2>2. CASE i # n + 1
    <3>1. i \in 1 .. n
      BY <1>1, <2>2
    <3>2. next[i] \in 1 .. n + 1
      BY <1>1, <1>3, <3>1
    <3>3. f[next[i]] \in R
      BY <1>8, <3>2
    <3>4. f[i] = each[i][f[next[i]]]
      BY <1>8, <3>1
    <3>5. f[i] = IF none(i) THEN e ELSE <<hit(i)>> \o f[next[i]]
      BY <1>5, <3>1, <3>3, <3>4
    <3> QED
      BY <1>6, <3>1, <3>5
  <2> QED
    BY <2>1, <2>2
<1>11. MatchesFrom(s, kinds, tag, min, f)
  <2>1. f = [i \in 1 .. n + 1 |-> f[i]]
    BY <1>8
  <2> QED
    BY <1>10, <2>1 DEF MatchesFrom, n, none, e, hit
<1> QED
  BY <1>11

\* What the function in Matches has at each place.
Unfolds(s, kinds, tag, min, c) ==
  \A i \in 1 .. Len(s) + 1 :
     c[i] = IF Begins(s, kinds, tag, min, i) = {} THEN <<>>
            ELSE <<MatchAt(s, kinds, tag, min, i)>>
                 \o c[MatchAt(s, kinds, tag, min, i).e + 1]

LEMMA MatchesUnfold ==
  ASSUME NEW s, Len(s) \in Nat, NEW kinds, NEW tag, NEW min \in Nat
  PROVE  \E c : Matches(s, kinds, tag, min) = c[1] /\ Unfolds(s, kinds, tag, min, c)
<1> DEFINE n == Len(s)
           c == CHOOSE f : MatchesFrom(s, kinds, tag, min, f)
           none(i) == Begins(s, kinds, tag, min, i) = {}
           hit(i) == MatchAt(s, kinds, tag, min, i)
           h == [i \in 1 .. n + 1 |->
                     IF none(i) THEN <<>> ELSE <<hit(i)>> \o c[hit(i).e + 1]]
<1>1. MatchesFrom(s, kinds, tag, min, c)
  BY MatchesExist
<1>2. Matches(s, kinds, tag, min) = c[1]
  BY Zenon DEF Matches, MatchesFrom, MatchAt
<1>3. c = h
  <2> HIDE DEF c
  <2> QED
    BY <1>1, Zenon DEF MatchesFrom
<1>4. \A i \in 1 .. n + 1 :
        h[i] = IF none(i) THEN <<>> ELSE <<hit(i)>> \o c[hit(i).e + 1]
  BY Zenon
<1>5. \A i \in 1 .. n + 1 :
        c[i] = IF none(i) THEN <<>> ELSE <<hit(i)>> \o c[hit(i).e + 1]
  <2> HIDE DEF h, c
  <2> QED
    BY <1>3, <1>4
<1>6. Unfolds(s, kinds, tag, min, c)
  <2> HIDE DEF c
  <2> QED
    BY <1>5 DEF Unfolds
<1> HIDE DEF c
<1> QED
  BY <1>2, <1>6

\* The places of a match in s.
MatchOf(s) == {m \in [b : Nat, e : Nat] :
                 m.b \in 1 .. Len(s) /\ m.e \in m.b + 1 .. Len(s)}

LEMMA MatchesTyping ==
  ASSUME NEW s, Len(s) \in Nat, NEW kinds, NEW tag, NEW min \in Nat
  PROVE  Matches(s, kinds, tag, min) \in Seq(MatchOf(s))
<1>1. PICK c : Matches(s, kinds, tag, min) = c[1] /\ Unfolds(s, kinds, tag, min, c)
  BY MatchesUnfold
<1> DEFINE n == Len(s)
           R == Seq(MatchOf(s))
           none(i) == Begins(s, kinds, tag, min, i) = {}
           hit(i) == MatchAt(s, kinds, tag, min, i)
           N == {k \in Nat : \A i \in 1 .. n + 1 : i >= n + 1 - k => c[i] \in R}
<1>2. Matches(s, kinds, tag, min) = c[1]
  BY <1>1
<1>3. \A i \in 1 .. n + 1 : c[i] = IF none(i) THEN <<>> ELSE <<hit(i)>> \o c[hit(i).e + 1]
  BY <1>1 DEF Unfolds
<1>4. ASSUME NEW i \in 1 .. n + 1, ~none(i)
      PROVE  hit(i) \in MatchOf(s) /\ hit(i).e + 1 \in i + 1 .. n + 1
  <2>1. i \in Nat \ {0}
    OBVIOUS
  <2>2. /\ hit(i) = [b |-> hit(i).b, e |-> hit(i).e]
        /\ hit(i).b \in i .. n /\ hit(i).e \in hit(i).b + min + 1 .. n
    BY <1>4, <2>1, MatchBounds
  <2> HIDE DEF hit
  <2>3. hit(i).b \in 1 .. n /\ hit(i).e \in hit(i).b + 1 .. n /\ hit(i).e + 1 \in i + 1 .. n + 1
    BY <2>1, <2>2
  <2>4. hit(i) \in [b : Nat, e : Nat]
    <3>1. hit(i).b \in Nat /\ hit(i).e \in Nat
      BY <2>3
    <3> QED
      BY <2>2, <3>1
  <2> QED
    BY <2>3, <2>4 DEF MatchOf
<1> HIDE DEF n, R, none, hit
<1>5. n \in Nat
  BY DEF n
<1>6. none(n + 1)
  BY <1>5 DEF none, n, Begins
<1>7. <<>> \in R
  BY DEF R
<1>8. 0 \in N
  <2>1. c[n + 1] \in R
    <3>1. n + 1 \in 1 .. n + 1
      BY <1>5
    <3>2. c[n + 1] = <<>>
      BY <1>3, <1>6, <3>1
    <3> QED
      BY <1>7, <3>2
  <2>2. \A i \in 1 .. n + 1 : i >= n + 1 - 0 => i = n + 1
    BY <1>5
  <2> QED
    BY <2>1, <2>2
<1>9. ASSUME NEW k \in Nat, k \in N
      PROVE  k + 1 \in N
  <2> SUFFICES ASSUME NEW i \in 1 .. n + 1, i >= n + 1 - (k + 1)
               PROVE  c[i] \in R
    OBVIOUS
  <2>1. CASE none(i)
    BY <1>3, <1>7, <2>1
  <2>2. CASE ~none(i)
    <3>1. hit(i) \in MatchOf(s) /\ hit(i).e + 1 \in i + 1 .. n + 1
      BY <1>4, <2>2
    <3>2. hit(i).e + 1 \in 1 .. n + 1 /\ hit(i).e + 1 >= n + 1 - k
      BY <1>5, <3>1
    <3>3. c[hit(i).e + 1] \in Seq(MatchOf(s))
      BY <1>9, <3>2 DEF R
    <3>4. <<hit(i)>> \in Seq(MatchOf(s))
      BY <3>1
    <3>5. <<hit(i)>> \o c[hit(i).e + 1] \in R
      BY <3>3, <3>4, ConcatProperties DEF R
    <3> QED
      BY <1>3, <2>2, <3>5
  <2> QED
    BY <2>1, <2>2
<1>10. \A k \in Nat : k \in N
  <2> HIDE DEF N
  <2> QED
    BY <1>8, <1>9, Induction
<1>11. c[1] \in R
  <2>1. 1 \in 1 .. n + 1 /\ 1 >= n + 1 - n
    BY <1>5
  <2> QED
    BY <1>5, <1>10, <2>1
<1> QED
  BY <1>2, <1>11 DEF R

LEMMA InsideSequence ==
  ASSUME NEW s, IsSequence(s), NEW m \in MatchOf(s)
  PROVE  IsSequence(Inside(s, m))
<1> DEFINE S == {s[i] : i \in 1 .. Len(s)}
<1>1. s \in Seq(S)
  BY DEF IsSequence
<1> HIDE DEF S
<1>2. Len(s) \in Nat
  BY <1>1, LenProperties
<1>3. m.b + 1 \in 1 .. Len(s) + 1 /\ m.e - 1 \in (m.b + 1) - 1 .. Len(s)
  BY <1>2 DEF MatchOf
<1>4. SubSeq(s, m.b + 1, m.e - 1) \in Seq(S)
  BY <1>1, <1>3, SubSeqProperties
<1> QED
  BY <1>4, SequenceIs DEF Inside

LEMMA ExtractTyping ==
  ASSUME NEW s, IsSequence(s), NEW tag
  PROVE  LET x == ExtractBetweenTags(tag, s)
         IN  Len(x) \in Nat /\ \A i \in 1 .. Len(x) : IsSequence(x[i])
<1> DEFINE ms == Matches(s, {"open"}, tag, 1)
<1>1. Len(s) \in Nat
  BY LenProperties DEF IsSequence
<1>2. ms \in Seq(MatchOf(s))
  BY <1>1, MatchesTyping
<1> HIDE DEF ms
<1>3. Len(ms) \in Nat /\ \A i \in 1 .. Len(ms) : ms[i] \in MatchOf(s)
  BY <1>2
<1> DEFINE x == [i \in 1 .. Len(ms) |-> Inside(s, ms[i])]
<1>4. ExtractBetweenTags(tag, s) = x
  BY DEF ExtractBetweenTags, Insides, ms
<1>5. Len(x) = Len(ms)
  BY <1>3
<1>6. \A i \in 1 .. Len(ms) : IsSequence(x[i])
  BY <1>3, InsideSequence
<1> HIDE DEF x
<1> QED
  BY <1>3, <1>4, <1>5, <1>6

\* At most one call, and what it is does not matter here.
LEMMA InvokeSequence ==
  /\ \A s, registry : IsSequence(TryParseTagInvoke(s, registry))
  /\ \A name, s, registry : IsSequence(TryParseAttrInvoke(name, s, registry))
<1>1. \A x : IsSequence(<<x>>)
  BY DEF IsSequence
<1>2. IsSequence(<<>>)
  BY DEF IsSequence
<1> QED
  BY <1>1, <1>2, Zenon DEF TryParseTagInvoke, TryParseAttrInvoke

LEMMA InvokesSequence ==
  ASSUME NEW s, IsSequence(s), NEW registry
  PROVE  IsSequence(ParseInvokes(s, registry))
<1> DEFINE tagged == ExtractBetweenTags("invoke", s)
           named == Matches(s, {"attr", "unnamed"}, "invoke", 0)
           p == [i \in 1 .. Len(tagged) |-> TryParseTagInvoke(tagged[i], registry)]
           q == [i \in 1 .. Len(named) |->
                   TryParseAttrInvoke(s[named[i].b].name, Inside(s, named[i]), registry)]
<1>1. Len(tagged) \in Nat
  BY ExtractTyping
<1>2. Len(named) \in Nat
  <2>1. Len(s) \in Nat
    BY LenProperties DEF IsSequence
  <2>2. named \in Seq(MatchOf(s))
    BY <2>1, MatchesTyping
  <2> QED
    BY <2>2, LenProperties
<1>3. IsSequence(FlattenSeq(p))
  <2>1. p = [i \in 1 .. Len(tagged) |-> p[i]] /\ \A i \in 1 .. Len(tagged) : IsSequence(p[i])
    BY InvokeSequence
  <2> HIDE DEF p, tagged
  <2> QED
    BY <1>1, <2>1, FlattenSequences
<1>4. IsSequence(FlattenSeq(q))
  <2>1. q = [i \in 1 .. Len(named) |-> q[i]] /\ \A i \in 1 .. Len(named) : IsSequence(q[i])
    BY InvokeSequence
  <2> HIDE DEF q, named
  <2> QED
    BY <1>2, <2>1, FlattenSequences
<1>5. ParseInvokes(s, registry) = FlattenSeq(p) \o FlattenSeq(q)
  BY DEF ParseInvokes
<1> HIDE DEF p, q
<1> QED
  BY <1>3, <1>4, <1>5, ConcatSequences

LEMMA ParsedSequence ==
  ASSUME NEW s, IsSequence(s), NEW registry
  PROVE  IsSequence(ParseToolCalls(s, registry))
<1> DEFINE wrapped == ExtractBetweenTags("function_calls", s)
           p == [i \in 1 .. Len(wrapped) |-> ParseInvokes(wrapped[i], registry)]
<1>1. Len(wrapped) \in Nat /\ \A i \in 1 .. Len(wrapped) : IsSequence(wrapped[i])
  BY ExtractTyping
<1>2. IsSequence(FlattenSeq(p))
  <2> HIDE DEF wrapped
  <2>1. p = [i \in 1 .. Len(wrapped) |-> p[i]] /\ \A i \in 1 .. Len(wrapped) : IsSequence(p[i])
    BY <1>1, InvokesSequence
  <2> HIDE DEF p
  <2> QED
    BY <1>1, <2>1, FlattenSequences
<1>3. ParseToolCalls(s, registry) = IF FlattenSeq(p) # <<>> THEN FlattenSeq(p)
                                    ELSE ParseInvokes(s, registry)
  BY DEF ParseToolCalls
<1> HIDE DEF p
<1> QED
  BY <1>2, <1>3, InvokesSequence
-----------------------------------------------------------------------------
(***************************************************************************)
(* The parser.  A text is read as cells, one after the other.              *)
(***************************************************************************)
\* The next match is the one that begins at the first opening and ends at the
\* first closing tag that leaves enough between.
IsNext(s, kinds, tag, min, i, b, e) ==
  /\ b \in i .. Len(s) /\ e \in b + min + 1 .. Len(s)
  /\ IsOpening(s[b], kinds, tag) /\ s[e] = Close(tag)
  /\ \A j \in i .. b - 1 : ~IsOpening(s[j], kinds, tag)
  /\ \A k \in b + min + 1 .. e - 1 : s[k] # Close(tag)

LEMMA NextMatch ==
  ASSUME NEW s, Len(s) \in Nat, NEW kinds, NEW tag, NEW min \in Nat,
         NEW i \in Nat \ {0}, NEW b, NEW e, IsNext(s, kinds, tag, min, i, b, e)
  PROVE  /\ Begins(s, kinds, tag, min, i) # {}
         /\ MatchAt(s, kinds, tag, min, i) = [b |-> b, e |-> e]
<1> DEFINE B == Begins(s, kinds, tag, min, i)
           E(x) == {k \in x + min + 1 .. Len(s) : s[k] = Close(tag)}
<1>0. /\ b \in i .. Len(s) /\ e \in b + min + 1 .. Len(s)
      /\ IsOpening(s[b], kinds, tag) /\ s[e] = Close(tag)
      /\ \A j \in i .. b - 1 : ~IsOpening(s[j], kinds, tag)
      /\ \A k \in b + min + 1 .. e - 1 : s[k] # Close(tag)
  BY DEF IsNext
<1>1. b \in B /\ B \in SUBSET Nat
  BY <1>0 DEF Begins
<1>2. \A j \in B : b <= j
  <2> SUFFICES ASSUME NEW j \in i .. Len(s), IsOpening(s[j], kinds, tag), j < b
               PROVE  FALSE
    BY <1>0 DEF Begins
  <2>1. j \in i .. b - 1
    BY <1>0
  <2> QED
    BY <1>0, <2>1
<1>3. Least(B) = b
  <2> HIDE DEF B
  <2>1. Least(B) \in B /\ \A k \in B : Least(B) <= k
    BY <1>1, LeastIs
  <2>2. Least(B) <= b /\ b <= Least(B) /\ Least(B) \in Nat /\ b \in Nat
    BY <1>1, <1>2, <2>1
  <2> QED
    BY <2>2
<1>4. e \in E(b) /\ E(b) \in SUBSET Nat
  BY <1>0
<1>5. \A k \in E(b) : e <= k
  <2> SUFFICES ASSUME NEW k \in b + min + 1 .. Len(s), s[k] = Close(tag), k < e
               PROVE  FALSE
    BY <1>0
  <2>1. k \in b + min + 1 .. e - 1
    BY <1>0
  <2> QED
    BY <1>0, <2>1
<1>6. Least(E(b)) = e
  <2> DEFINE F == E(b)
  <2>0. e \in F /\ F \in SUBSET Nat /\ \A k \in F : e <= k
    BY <1>4, <1>5
  <2> HIDE DEF F
  <2>1. Least(F) \in F /\ \A k \in F : Least(F) <= k
    BY <2>0, LeastIs
  <2>2. Least(F) <= e /\ e <= Least(F) /\ Least(F) \in Nat /\ e \in Nat
    BY <2>0, <2>1
  <2>3. Least(F) = e
    BY <2>2
  <2> QED
    BY <2>3 DEF F
<1>7. MatchAt(s, kinds, tag, min, i) = [b |-> Least(B), e |-> Least(E(Least(B)))]
  BY DEF MatchAt
<1> HIDE DEF B, E
<1> QED
  BY <1>1, <1>3, <1>6, <1>7 DEF B

Mark == [b : Nat, e : Nat]

\* Where a text can be cut so that each piece ends with a match, and what is
\* behind the last one has none.
Marks(s, kinds, tag, min, ms, from) ==
  /\ from[1] = 1
  /\ \A k \in 1 .. Len(ms) :
       /\ from[k + 1] = ms[k].e + 1
       /\ from[k] \in Nat \ {0}
       /\ IsNext(s, kinds, tag, min, from[k], ms[k].b, ms[k].e)
  /\ \A j \in from[Len(ms) + 1] .. Len(s) : ~IsOpening(s[j], kinds, tag)

LEMMA MatchesAre ==
  ASSUME NEW s, Len(s) \in Nat, NEW kinds, NEW tag, NEW min \in Nat,
         NEW ms \in Seq(Mark), NEW from, Marks(s, kinds, tag, min, ms, from)
  PROVE  Matches(s, kinds, tag, min) = ms
<1> DEFINE n == Len(ms)
           none(i) == Begins(s, kinds, tag, min, i) = {}
           hit(i) == MatchAt(s, kinds, tag, min, i)
<1>0. n \in Nat /\ \A k \in 1 .. n : ms[k] \in Mark
  BY LenProperties
<1>1a. PICK c : Matches(s, kinds, tag, min) = c[1] /\ Unfolds(s, kinds, tag, min, c)
  BY MatchesUnfold
<1>1. \A i \in 1 .. Len(s) + 1 :
        c[i] = IF none(i) THEN <<>> ELSE <<hit(i)>> \o c[hit(i).e + 1]
  BY <1>1a, Zenon DEF Unfolds
<1>2. ASSUME NEW k \in 1 .. n
      PROVE  ~none(from[k]) /\ hit(from[k]) = ms[k]
  <2>1. ms[k] = [b |-> ms[k].b, e |-> ms[k].e]
    BY <1>0 DEF Mark
  <2> HIDE DEF none, hit, n
  <2> DEFINE i == from[k]
             b == ms[k].b
             e == ms[k].e
  <2>2. i \in Nat \ {0} /\ IsNext(s, kinds, tag, min, i, b, e)
    BY DEF Marks, n
  <2> HIDE DEF i, b, e
  <2>3. Begins(s, kinds, tag, min, i) # {} /\ MatchAt(s, kinds, tag, min, i) = [b |-> b, e |-> e]
    BY <2>2, NextMatch
  <2> QED
    BY <2>1, <2>3 DEF none, hit, i, b, e
<1>3. ASSUME NEW k \in 1 .. n + 1
      PROVE  from[k] \in Nat \ {0}
  <2>1. CASE k = 1
    BY <2>1 DEF Marks
  <2>2. CASE k # 1
    <3>1. k - 1 \in 1 .. n /\ (k - 1) + 1 = k
      BY <1>0, <2>2
    <3>2. from[k] = ms[k - 1].e + 1
      <4> DEFINE l == k - 1
      <4> HIDE DEF l
      <4>1. l \in 1 .. n /\ l + 1 = k
        BY <3>1 DEF l
      <4>2. from[l + 1] = ms[l].e + 1
        BY <4>1 DEF Marks
      <4> QED
        BY <4>1, <4>2 DEF l
    <3>3. ms[k - 1].e \in Nat
      BY <1>0, <3>1 DEF Mark
    <3> QED
      BY <3>2, <3>3
  <2> QED
    BY <2>1, <2>2
<1>4. from[n + 1] \in 1 .. Len(s) + 1
  <2>1. CASE n = 0
    BY <2>1 DEF Marks
  <2>2. CASE n # 0
    <3>1. n \in 1 .. n
      BY <1>0, <2>2
    <3>2. from[n + 1] = ms[n].e + 1 /\ ms[n].e \in ms[n].b + min + 1 .. Len(s) /\ ms[n].b \in Nat
      BY <1>0, <3>1 DEF Marks, Mark, IsNext
    <3> QED
      BY <3>2
  <2> QED
    BY <2>1, <2>2
<1>5. c[from[n + 1]] = <<>>
  <2>1. none(from[n + 1])
    <3> DEFINE i == from[n + 1]
    <3>1. \A j \in i .. Len(s) : ~IsOpening(s[j], kinds, tag)
      BY DEF Marks
    <3> HIDE DEF i
    <3>2. Begins(s, kinds, tag, min, i) = {}
      BY <3>1 DEF Begins
    <3> QED
      BY <3>2 DEF i
  <2> QED
    BY <1>1, <1>4, <2>1
<1>6. ASSUME NEW k \in 1 .. n
      PROVE  c[from[k]] = <<ms[k]>> \o c[from[k + 1]]
  <2>1. from[k] \in 1 .. Len(s) + 1 /\ from[k + 1] = ms[k].e + 1
    <3>1. from[k] \in Nat \ {0} /\ ms[k].b \in from[k] .. Len(s) /\ from[k + 1] = ms[k].e + 1
      BY DEF Marks, IsNext
    <3> QED
      BY <3>1
  <2> HIDE DEF none, hit, n
  <2>2. c[from[k]] = <<hit(from[k])>> \o c[hit(from[k]).e + 1]
    BY <1>1, <1>2, <2>1
  <2> QED
    BY <1>2, <2>1, <2>2
<1> DEFINE N == {j \in Nat : j <= n => c[from[n + 1 - j]] = SubSeq(ms, n + 1 - j, n)}
<1>7. 0 \in N
  <2>1. SubSeq(ms, n + 1, n) = <<>> /\ n + 1 - 0 = n + 1
    BY <1>0, SubSeqProperties, EmptySeq
  <2> QED
    BY <1>5, <2>1
<1>8. ASSUME NEW j \in Nat, j \in N
      PROVE  j + 1 \in N
  <2> SUFFICES ASSUME j + 1 <= n
               PROVE  c[from[n + 1 - (j + 1)]] = SubSeq(ms, n + 1 - (j + 1), n)
    OBVIOUS
  <2> DEFINE k == n - j
  <2>1. k \in 1 .. n /\ n + 1 - (j + 1) = k /\ n + 1 - j = k + 1
    BY <1>0
  <2>2. c[from[k + 1]] = SubSeq(ms, k + 1, n)
    BY <1>8, <2>1
  <2> HIDE DEF k, N
  <2>3. c[from[k]] = <<ms[k]>> \o c[from[k + 1]]
    BY <1>6, <2>1
  <2>4. SubSeq(ms, k, n) = <<ms[k]>> \o SubSeq(ms, k + 1, n)
    <3> DEFINE p == <<ms[k]>>
               q == SubSeq(ms, k + 1, n)
               r == SubSeq(ms, k, n)
    <3>1. p \in Seq(Mark) /\ Len(p) = 1 /\ p[1] = ms[k]
      BY <1>0, <2>1
    <3>2. q \in Seq(Mark) /\ Len(q) = n - k /\ \A i \in 1 .. n - k : q[i] = ms[k + i]
      BY <1>0, <2>1
    <3>3. r \in Seq(Mark) /\ Len(r) = n - k + 1 /\ \A i \in 1 .. n - k + 1 : r[i] = ms[k + i - 1]
      BY <1>0, <2>1
    <3> HIDE DEF p, q, r, n
    <3>4. \A i \in 1 .. Len(p) : r[i] = p[i]
      BY <1>0, <2>1, <3>1, <3>3
    <3>5. \A i \in 1 .. Len(q) : r[Len(p) + i] = q[i]
      BY <1>0, <2>1, <3>1, <3>2, <3>3
    <3>6. Len(r) = Len(p) + Len(q)
      BY <1>0, <2>1, <3>1, <3>2, <3>3
    <3> QED
      BY <3>1, <3>2, <3>3, <3>4, <3>5, <3>6, ConcatIs DEF p, q, r
  <2> QED
    BY <2>1, <2>2, <2>3, <2>4
<1>9. \A j \in Nat : j \in N
  <2> HIDE DEF N
  <2> QED
    BY <1>7, <1>8, Induction
<1>10. c[from[1]] = SubSeq(ms, 1, n)
  <2>1. n \in N /\ n + 1 - n = 1
    BY <1>0, <1>9
  <2> QED
    BY <1>0, <2>1
<1>11. from[1] = 1 /\ SubSeq(ms, 1, n) = ms
  BY <1>0 DEF Marks
<1> QED
  BY <1>1a, <1>10, <1>11

-----------------------------------------------------------------------------
(***************************************************************************)
(* Texts, and the places of what they are put together from.               *)
(***************************************************************************)
\* Where the elements of two sequences are once they are put together.
Joined(S, p, q, r) ==
  /\ r \in Seq(S) /\ Len(p) \in Nat /\ Len(q) \in Nat /\ Len(r) = Len(p) + Len(q)
  /\ \A i \in 1 .. Len(p) : r[i] = p[i]
  /\ \A i \in 1 .. Len(q) : r[Len(p) + i] = q[i]

LEMMA ConcatPlaces ==
  ASSUME NEW S, NEW p \in Seq(S), NEW q \in Seq(S)
  PROVE  Joined(S, p, q, p \o q)
<1> DEFINE r == p \o q
<1>1. /\ r \in Seq(S) /\ Len(p) \in Nat /\ Len(q) \in Nat /\ Len(r) = Len(p) + Len(q)
      /\ \A i \in 1 .. Len(p) + Len(q) : r[i] = IF i <= Len(p) THEN p[i] ELSE q[i - Len(p)]
  BY ConcatProperties, LenProperties
<1>2. ASSUME NEW i \in 1 .. Len(q)
      PROVE  r[Len(p) + i] = q[i]
  <2>1. /\ Len(p) + i \in 1 .. Len(p) + Len(q) /\ ~(Len(p) + i <= Len(p))
        /\ Len(p) + i - Len(p) = i
    BY <1>1
  <2> QED
    BY <1>1, <2>1
<1>3. ASSUME NEW i \in 1 .. Len(p)
      PROVE  r[i] = p[i]
  <2>1. i \in 1 .. Len(p) + Len(q) /\ i <= Len(p)
    BY <1>1
  <2> QED
    BY <1>1, <2>1
<1> HIDE DEF r
<1>4. Joined(S, p, q, r)
  BY <1>1, <1>2, <1>3 DEF Joined
<1> QED
  BY <1>4 DEF r

\* Where each of some sequences begins once they are put together.
Places(ss, o) ==
  /\ o \in [0 .. Len(ss) -> Nat]
  /\ o[0] = 0 /\ o[Len(ss)] = Len(FlattenSeq(ss))
  /\ \A k \in 1 .. Len(ss) :
       /\ o[k] = o[k - 1] + Len(ss[k]) /\ o[k] <= Len(FlattenSeq(ss))
       /\ \A j \in 1 .. Len(ss[k]) : FlattenSeq(ss)[o[k - 1] + j] = ss[k][j]

LEMMA FlattenPlaces ==
  ASSUME NEW S, NEW ss \in Seq(Seq(S))
  PROVE  \E o : Places(ss, o)
<1> DEFINE T == {u \in Seq(Seq(S)) : \E o : Places(u, o)}
<1>1. <<>> \in T
  <2> DEFINE e == <<>>
             o == [i \in 0 .. 0 |-> 0]
  <2>1. /\ e \in Seq(Seq(S)) /\ Len(e) = 0 /\ FlattenSeq(e) = <<>> /\ Len(FlattenSeq(e)) = 0
        /\ 1 .. Len(e) = {}
    BY FlattenEmpty
  <2>2. o \in [0 .. 0 -> Nat] /\ o[0] = 0
    OBVIOUS
  <2> HIDE DEF e, o
  <2>3. Places(e, o)
    BY <2>1, <2>2 DEF Places
  <2>4. e \in T
    BY <2>1, <2>3
  <2> QED
    BY <2>4 DEF e
<1>2. ASSUME NEW u \in Seq(Seq(S)), NEW x \in Seq(S), u \in T
      PROVE  Append(u, x) \in T
  <2> DEFINE n == Len(u)
             t == Append(u, x)
             F == FlattenSeq(u)
             G == FlattenSeq(t)
  <2>1. PICK o : Places(u, o)
    BY <1>2
  <2>2. /\ n \in Nat /\ t \in Seq(Seq(S)) /\ Len(t) = n + 1 /\ t[n + 1] = x
        /\ \A k \in 1 .. n : t[k] = u[k] /\ u[k] \in Seq(S)
    BY AppendProperties, LenProperties
  <2>3. F \in Seq(S) /\ G = F \o x
    BY FlattenAppend
  <2> HIDE DEF t, F, G
  <2>4. /\ Len(F) \in Nat /\ Len(x) \in Nat /\ Len(G) = Len(F) + Len(x)
        /\ \A i \in 1 .. Len(F) : G[i] = F[i]
        /\ \A i \in 1 .. Len(x) : G[Len(F) + i] = x[i]
    BY <2>3
  <2> DEFINE p == [i \in 0 .. n + 1 |-> IF i = n + 1 THEN Len(F) + Len(x) ELSE o[i]]
  <2>5. /\ o \in [0 .. n -> Nat] /\ o[0] = 0 /\ o[n] = Len(F)
        /\ \A k \in 1 .. n :
             /\ o[k] = o[k - 1] + Len(u[k]) /\ o[k] <= Len(F)
             /\ \A j \in 1 .. Len(u[k]) : F[o[k - 1] + j] = u[k][j]
    BY <2>1 DEF Places, F
  <2>6. /\ p \in [0 .. n + 1 -> Nat] /\ p[n + 1] = Len(F) + Len(x)
        /\ \A i \in 0 .. n : p[i] = o[i]
    BY <2>2, <2>4, <2>5
  <2> HIDE DEF p, n
  <2>7. p[0] = 0 /\ p[Len(t)] = Len(G)
    BY <2>2, <2>4, <2>5, <2>6
  <2>8. ASSUME NEW k \in 1 .. Len(t)
        PROVE  /\ p[k] = p[k - 1] + Len(t[k]) /\ p[k] <= Len(G)
               /\ \A j \in 1 .. Len(t[k]) : G[p[k - 1] + j] = t[k][j]
    <3>1. CASE k = n + 1
      <4>1. p[k - 1] = Len(F) /\ p[k] = Len(F) + Len(x) /\ t[k] = x
        BY <2>2, <2>5, <2>6, <3>1
      <4> QED
        BY <2>4, <4>1
    <3>2. CASE k # n + 1
      <4>1. k \in 1 .. n /\ k \in 0 .. n /\ k - 1 \in 0 .. n
        BY <2>2, <3>2
      <4>2. p[k] = o[k] /\ p[k - 1] = o[k - 1] /\ t[k] = u[k] /\ u[k] \in Seq(S)
        BY <2>2, <2>6, <4>1
      <4>3. o[k] = o[k - 1] + Len(u[k]) /\ o[k] <= Len(F) /\ o[k - 1] \in Nat /\ Len(u[k]) \in Nat
        <5>1. Len(u[k]) \in Nat
          BY <4>2, LenProperties
        <5>2. o[k] = o[k - 1] + Len(u[k]) /\ o[k] <= Len(F)
          BY <2>5, <4>1, Zenon
        <5>3. o[k - 1] \in Nat
          BY <2>5, <4>1
        <5> QED
          BY <5>1, <5>2, <5>3
      <4>4. ASSUME NEW j \in 1 .. Len(u[k])
            PROVE  G[o[k - 1] + j] = u[k][j]
        <5>1. F[o[k - 1] + j] = u[k][j]
          BY <2>5, <4>1, Zenon
        <5>2. o[k - 1] + j \in 1 .. Len(F)
          BY <2>4, <4>3
        <5> QED
          BY <2>4, <5>1, <5>2
      <4> QED
        BY <2>4, <4>2, <4>3, <4>4
    <3> QED
      BY <3>1, <3>2
  <2>9. Places(t, p)
    <3>1. 0 .. Len(t) = 0 .. n + 1
      BY <2>2
    <3> QED
      BY <2>6, <2>7, <2>8, <3>1 DEF Places, G
  <2> QED
    BY <2>2, <2>9 DEF t
<1> HIDE DEF T
<1>3. \A u \in Seq(Seq(S)) : u \in T
  BY <1>1, <1>2, SequenceInduction
<1> QED
  BY <1>3 DEF T

LEMMA SubSeqIs ==
  ASSUME NEW S, NEW s \in Seq(S), NEW r \in Seq(S), NEW a \in Nat \ {0}, NEW z \in Int,
         z = a - 1 + Len(r), z <= Len(s), \A j \in 1 .. Len(r) : s[a - 1 + j] = r[j]
  PROVE  SubSeq(s, a, z) = r
<1> DEFINE q == SubSeq(s, a, z)
<1>1. Len(r) \in Nat /\ Len(s) \in Nat
  OBVIOUS
<1>2. q \in Seq(S) /\ Len(q) = Len(r) /\ \A j \in 1 .. Len(r) : q[j] = s[a - 1 + j]
  <2>1. a .. z \subseteq 1 .. Len(s)
    BY <1>1
  <2>2. Len(q) = Len(r)
    BY <1>1
  <2>3. q \in Seq(S)
    <3>1. \A i \in a .. z : s[i] \in S
      BY <1>1, <2>1
    <3> QED
      BY <1>1, <3>1, SubSeqProperties
  <2>4. \A j \in 1 .. Len(r) : q[j] = s[a - 1 + j]
    BY <1>1
  <2> QED
    BY <2>2, <2>3, <2>4
<1> HIDE DEF q
<1>3. q = r
  BY <1>1, <1>2, SeqEqual
<1> QED
  BY <1>3 DEF q

\* What stands between two tags.
IsFramed(S, x, body, y, r) ==
  /\ r \in Seq(S) /\ Len(r) = Len(body) + 2 /\ Len(body) \in Nat
  /\ r[1] = x /\ r[Len(body) + 2] = y
  /\ \A j \in 1 .. Len(body) : r[1 + j] = body[j]

LEMMA FramedIs ==
  ASSUME NEW S, NEW x \in S, NEW y \in S, NEW body \in Seq(S)
  PROVE  IsFramed(S, x, body, y, Framed(x, body, y))
<1>1. PICK p : p = <<x>>
  OBVIOUS
<1>2. PICK q : q = <<y>>
  OBVIOUS
<1>3. PICK w : w = p \o body
  OBVIOUS
<1>4. PICK r : r = w \o q
  OBVIOUS
<1>5. p \in Seq(S) /\ Len(p) = 1 /\ p[1] = x /\ q \in Seq(S) /\ Len(q) = 1 /\ q[1] = y
  BY <1>1, <1>2
<1>6. Joined(S, p, body, w)
  BY <1>3, <1>5, ConcatPlaces
<1>7. /\ w \in Seq(S) /\ Len(w) = 1 + Len(body) /\ Len(body) \in Nat
      /\ w[1] = x /\ \A i \in 1 .. Len(body) : w[1 + i] = body[i]
  BY <1>5, <1>6 DEF Joined
<1>8. Joined(S, w, q, r)
  BY <1>4, <1>5, <1>7, ConcatPlaces
<1>9. /\ r \in Seq(S) /\ Len(r) = Len(w) + 1 /\ r[Len(w) + 1] = y
      /\ \A i \in 1 .. Len(w) : r[i] = w[i]
  BY <1>5, <1>8 DEF Joined
<1>10. r[1] = x /\ \A j \in 1 .. Len(body) : r[1 + j] = body[j]
  BY <1>7, <1>9
<1>11. Framed(x, body, y) = r
  BY <1>1, <1>2, <1>3, <1>4 DEF Framed
<1>12. IsFramed(S, x, body, y, r)
  BY <1>7, <1>9, <1>10 DEF IsFramed
<1> QED
  BY <1>11, <1>12

\* A piece of text with one element, and what is before it.
IsPiece(S, p, x, body, y, r) ==
  /\ r \in Seq(S) /\ Len(r) = Len(p) + Len(body) + 2
  /\ Len(p) \in Nat /\ Len(body) \in Nat
  /\ \A i \in 1 .. Len(p) : r[i] = p[i]
  /\ r[Len(p) + 1] = x /\ r[Len(r)] = y
  /\ \A j \in 1 .. Len(body) : r[Len(p) + 1 + j] = body[j]

LEMMA PieceIs ==
  ASSUME NEW S, NEW x \in S, NEW y \in S, NEW body \in Seq(S), NEW p \in Seq(S)
  PROVE  IsPiece(S, p, x, body, y, p \o Framed(x, body, y))
<1>1. PICK q : q = Framed(x, body, y)
  OBVIOUS
<1>2. PICK r : r = p \o q
  OBVIOUS
<1>3a. IsFramed(S, x, body, y, q)
  BY <1>1, FramedIs
<1>3. /\ q \in Seq(S) /\ Len(q) = Len(body) + 2 /\ Len(body) \in Nat
      /\ q[1] = x /\ q[Len(body) + 2] = y
      /\ \A j \in 1 .. Len(body) : q[1 + j] = body[j]
  BY <1>3a DEF IsFramed
<1>4a. Joined(S, p, q, r)
  BY <1>2, <1>3, ConcatPlaces
<1>4. /\ r \in Seq(S) /\ Len(p) \in Nat /\ Len(r) = Len(p) + Len(q)
      /\ \A i \in 1 .. Len(p) : r[i] = p[i]
      /\ \A i \in 1 .. Len(q) : r[Len(p) + i] = q[i]
  BY <1>4a DEF Joined
<1>5. r[Len(p) + 1] = x /\ r[Len(r)] = y
  <2>1. 1 \in 1 .. Len(q) /\ Len(q) \in 1 .. Len(q)
    BY <1>3
  <2> QED
    BY <1>3, <1>4, <2>1
<1>6. ASSUME NEW j \in 1 .. Len(body)
      PROVE  r[Len(p) + 1 + j] = body[j]
  <2>1. 1 + j \in 1 .. Len(q) /\ Len(p) + (1 + j) = Len(p) + 1 + j
    BY <1>3, <1>4
  <2> QED
    BY <1>3, <1>4, <2>1
<1>7. IsPiece(S, p, x, body, y, r)
  BY <1>3, <1>4, <1>5, <1>6 DEF IsPiece
<1> QED
  BY <1>1, <1>2, <1>7

-----------------------------------------------------------------------------
(***************************************************************************)
(* Cells: a text cut at the elements that a pattern finds, each of them    *)
(* with what stands before it.                                             *)
(***************************************************************************)
LEMMA TokenIs ==
  ASSUME NEW tag \in Names, NEW name \in Names
  PROVE  /\ Opening(tag) \in Token /\ Close(tag) \in Token /\ Run(tag) \in Token
         /\ Attr(tag, name) \in Token
<1>1. NoName \in Names
  BY DEF Names
<1>2. Opening(tag) \in Token /\ Close(tag) \in Token /\ Run(tag) \in Token
  BY <1>1 DEF Token, Opening, Close, Run
<1>3. Attr(tag, name) \in Token
  BY DEF Token, Attr
<1> QED
  BY <1>2, <1>3

\* A text cut into cells, each an element with what stands before it.
Cell == [before : Seq(Token), open : Token, body : Seq(Token)]
CellText(c, tag) == c.before \o Framed(c.open, c.body, Close(tag))
Laid(cells, after, tag) ==
  FlattenSeq([k \in 1 .. Len(cells) |-> CellText(cells[k], tag)]) \o after

Free(s, kinds, tag) == \A i \in 1 .. Len(s) : ~IsOpening(s[i], kinds, tag)

\* The pattern finds the cells, and nothing else.
Found(c, kinds, tag, min) ==
  /\ Free(c.before, kinds, tag) /\ IsOpening(c.open, kinds, tag)
  /\ Lacks(c.body, {Close(tag)}) /\ Len(c.body) >= min

\* The cell c is what s has behind place p and up to place q.
CellAt(s, c, tag, p, q) ==
  /\ p \in Nat /\ Len(c.before) \in Nat /\ Len(c.body) \in Nat
  /\ q = p + Len(c.before) + Len(c.body) + 2 /\ q <= Len(s)
  /\ \A j \in 1 .. Len(c.before) : s[p + j] = c.before[j]
  /\ s[p + Len(c.before) + 1] = c.open /\ s[q] = Close(tag)
  /\ \A j \in 1 .. Len(c.body) : s[p + Len(c.before) + 1 + j] = c.body[j]

LEMMA CellNext ==
  ASSUME NEW s \in Seq(Token), NEW c \in Cell, NEW kinds, NEW tag, NEW min \in Nat,
         NEW p, NEW q, CellAt(s, c, tag, p, q), Found(c, kinds, tag, min)
  PROVE  IsNext(s, kinds, tag, min, p + 1, p + Len(c.before) + 1, q)
<1> DEFINE l == Len(c.before)
           m == Len(c.body)
           b == p + l + 1
<1>1. /\ Len(s) \in Nat /\ p \in Nat /\ l \in Nat /\ m \in Nat /\ m >= min
      /\ q = p + l + m + 2 /\ q <= Len(s)
      /\ \A j \in 1 .. l : s[p + j] = c.before[j] /\ ~IsOpening(c.before[j], kinds, tag)
      /\ s[p + l + 1] = c.open /\ s[q] = Close(tag) /\ IsOpening(c.open, kinds, tag)
      /\ \A j \in 1 .. m : s[p + l + 1 + j] = c.body[j] /\ c.body[j] # Close(tag)
  BY LenProperties DEF CellAt, Found, Free, Lacks
<1> HIDE DEF l, m
<1>2. b \in p + 1 .. Len(s) /\ q \in b + min + 1 .. Len(s)
  BY <1>1
<1>3. IsOpening(s[b], kinds, tag) /\ s[q] = Close(tag)
  BY <1>1
<1>4. ASSUME NEW j \in p + 1 .. b - 1
      PROVE  ~IsOpening(s[j], kinds, tag)
  <2>1. PICK i \in 1 .. l : j = p + i
    <3>1. j - p \in 1 .. l /\ j = p + (j - p)
      BY <1>1
    <3> QED
      BY <3>1
  <2>2. s[j] = c.before[i] /\ ~IsOpening(c.before[i], kinds, tag)
    BY <1>1, <2>1
  <2> QED
    BY <2>2
<1>5. ASSUME NEW k \in b + min + 1 .. q - 1
      PROVE  s[k] # Close(tag)
  <2>1. PICK i \in 1 .. m : k = p + l + 1 + i
    <3>1. k \in Int /\ k >= p + l + 1 + min + 1 /\ k <= q - 1
      BY <1>1
    <3>2. k - (p + l + 1) \in 1 .. m /\ k = p + l + 1 + (k - (p + l + 1))
      BY <1>1, <3>1
    <3> QED
      BY <3>2
  <2>2. s[k] = c.body[i] /\ c.body[i] # Close(tag)
    BY <1>1, <2>1
  <2> QED
    BY <2>2
<1> HIDE DEF b
<1>6. IsNext(s, kinds, tag, min, p + 1, b, q)
  BY <1>2, <1>3, <1>4, <1>5 DEF IsNext
<1> QED
  BY <1>6 DEF b, l

LEMMA PartIs ==
  ASSUME NEW S, NEW s \in Seq(S), NEW r \in Seq(S), NEW p \in Nat,
         p + Len(r) <= Len(s), \A j \in 1 .. Len(r) : s[p + j] = r[j]
  PROVE  SubSeq(s, p + 1, p + Len(r)) = r
<1>1. PICK l \in Nat : l = Len(r)
  BY LenProperties
<1>2. PICK a \in Nat \ {0} : a = p + 1
  OBVIOUS
<1>3. PICK z \in Nat : z = p + l
  BY <1>1
<1>4. z = a - 1 + l /\ a - 1 = p
  BY <1>1, <1>2, <1>3
<1>5. z \in Int /\ z = a - 1 + Len(r) /\ z <= Len(s)
  BY <1>1, <1>3, <1>4
<1>6. \A j \in 1 .. Len(r) : s[a - 1 + j] = r[j]
  BY <1>4
<1>7. SubSeq(s, a, z) = r
  BY <1>5, <1>6, SubSeqIs
<1> QED
  BY <1>1, <1>2, <1>3, <1>7

HasParts(s, c, p, q) ==
  /\ SubSeq(s, p + 1, p + Len(c.before)) = c.before
  /\ SubSeq(s, p + Len(c.before) + 2, q - 1) = c.body

LEMMA CellParts ==
  ASSUME NEW s \in Seq(Token), NEW c \in Cell, NEW tag,
         NEW p, NEW q, CellAt(s, c, tag, p, q)
  PROVE  HasParts(s, c, p, q)
<1>1. PICK l \in Nat : l = Len(c.before)
  BY DEF CellAt
<1>2. PICK m \in Nat : m = Len(c.body)
  BY DEF CellAt
<1>3. PICK n \in Nat : n = Len(s)
  BY LenProperties
<1>4. p \in Nat /\ q = p + l + m + 2 /\ q <= n
  BY <1>1, <1>2, <1>3 DEF CellAt
<1>5. c.before \in Seq(Token) /\ c.body \in Seq(Token)
  BY DEF Cell
<1>6. SubSeq(s, p + 1, p + l) = c.before
  <2>1. p + l <= n
    BY <1>4
  <2>2. \A j \in 1 .. l : s[p + j] = c.before[j]
    BY <1>1 DEF CellAt
  <2> QED
    BY <1>1, <1>3, <1>4, <1>5, <2>1, <2>2, PartIs
<1>7. SubSeq(s, p + l + 2, q - 1) = c.body
  <2>1. PICK r \in Nat : r = p + l + 1
    BY <1>4
  <2>2. r + m <= n /\ r + 1 = p + l + 2 /\ r + m = q - 1
    BY <1>4, <2>1
  <2>3. \A j \in 1 .. m : s[r + j] = c.body[j]
    BY <1>1, <1>2, <2>1 DEF CellAt
  <2>4. SubSeq(s, r + 1, r + m) = c.body
    BY <1>2, <1>3, <1>5, <2>2, <2>3, PartIs
  <2> QED
    BY <2>2, <2>4
<1> QED
  BY <1>1, <1>6, <1>7 DEF HasParts

\* Where the cells of a text are.
CellPlaces(s, cells, after, tag, o) ==
  /\ s \in Seq(Token) /\ o \in [0 .. Len(cells) -> Nat] /\ o[0] = 0
  /\ \A k \in 1 .. Len(cells) : CellAt(s, cells[k], tag, o[k - 1], o[k])
  /\ Len(s) = o[Len(cells)] + Len(after)
  /\ \A j \in 1 .. Len(after) : s[o[Len(cells)] + j] = after[j]

LEMMA CellsAre ==
  ASSUME NEW tag \in Names, NEW cells \in Seq(Cell), NEW after \in Seq(Token)
  PROVE  \E o : CellPlaces(Laid(cells, after, tag), cells, after, tag, o)
<1> DEFINE n == Len(cells)
           ts == [k \in 1 .. Len(cells) |-> CellText(cells[k], tag)]
           F == FlattenSeq(ts)
           s == Laid(cells, after, tag)
<1>1. /\ n \in Nat /\ Close(tag) \in Token
      /\ \A k \in 1 .. n : /\ cells[k].before \in Seq(Token)
                           /\ cells[k].open \in Token /\ cells[k].body \in Seq(Token)
  <2>2. Close(tag) \in Token
    BY TokenIs
  <2>3. n \in Nat /\ \A k \in 1 .. n : cells[k] \in Cell
    BY LenProperties
  <2> QED
    BY <2>2, <2>3 DEF Cell
<1>2. ASSUME NEW k \in 1 .. n
      PROVE  IsPiece(Token, cells[k].before, cells[k].open, cells[k].body, Close(tag),
                     CellText(cells[k], tag))
  BY <1>1, PieceIs DEF CellText
<1>3. /\ ts \in Seq(Seq(Token)) /\ Len(ts) = n
      /\ \A k \in 1 .. n : ts[k] = CellText(cells[k], tag)
  <2>1. \A k \in 1 .. n : CellText(cells[k], tag) \in Seq(Token)
    BY <1>2 DEF IsPiece
  <2> QED
    BY <1>1, <2>1
<1> HIDE DEF ts
<1>4. PICK o : Places(ts, o)
  BY <1>3, FlattenPlaces
<1>5. F \in Seq(Token)
  BY <1>3, FlattenTyping
<1>6. s = F \o after
  BY DEF Laid, ts
<1> HIDE DEF F, s
<1>7. Joined(Token, F, after, s)
  BY <1>5, <1>6, ConcatPlaces
<1>8. /\ s \in Seq(Token) /\ Len(F) \in Nat /\ Len(after) \in Nat
      /\ Len(s) = Len(F) + Len(after)
      /\ \A i \in 1 .. Len(F) : s[i] = F[i]
      /\ \A j \in 1 .. Len(after) : s[Len(F) + j] = after[j]
  BY <1>7 DEF Joined
<1>9. /\ o \in [0 .. n -> Nat] /\ o[0] = 0 /\ o[n] = Len(F)
      /\ \A k \in 1 .. n :
           /\ o[k] = o[k - 1] + Len(ts[k]) /\ o[k] <= Len(F)
           /\ \A j \in 1 .. Len(ts[k]) : F[o[k - 1] + j] = ts[k][j]
  BY <1>3, <1>4 DEF Places, F
<1> HIDE DEF n
<1>10. ASSUME NEW k \in 1 .. n
       PROVE  CellAt(s, cells[k], tag, o[k - 1], o[k])
  <2> DEFINE c == cells[k]
             r == ts[k]
             p == o[k - 1]
             q == o[k]
             l == Len(c.before)
             m == Len(c.body)
  <2>1. IsPiece(Token, c.before, c.open, c.body, Close(tag), r)
    BY <1>2, <1>3
  <2>2. /\ p \in Nat /\ q = p + Len(r) /\ q <= Len(F)
        /\ \A j \in 1 .. Len(r) : F[p + j] = r[j]
    <3>1. k - 1 \in 0 .. n
      BY <1>1
    <3> QED
      BY <1>9, <3>1
  <2> HIDE DEF c, r, p, q
  <2>3. /\ Len(r) = l + m + 2 /\ l \in Nat /\ m \in Nat
        /\ \A i \in 1 .. l : r[i] = c.before[i]
        /\ r[l + 1] = c.open /\ r[Len(r)] = Close(tag)
        /\ \A j \in 1 .. m : r[l + 1 + j] = c.body[j]
    BY <2>1 DEF IsPiece
  <2> HIDE DEF l, m
  <2>4. \A j \in 1 .. Len(r) : s[p + j] = r[j]
    <3> SUFFICES ASSUME NEW j \in 1 .. Len(r)
                 PROVE  s[p + j] = r[j]
      OBVIOUS
    <3>1. p + j \in 1 .. Len(F)
      BY <1>8, <2>2, <2>3
    <3> QED
      BY <1>8, <2>2, <3>1
  <2>5. q = p + l + m + 2 /\ q <= Len(s)
    BY <1>8, <2>2, <2>3
  <2>6. \A j \in 1 .. l : s[p + j] = c.before[j]
    BY <2>3, <2>4
  <2>7. s[p + l + 1] = c.open
    <3>1. l + 1 \in 1 .. Len(r) /\ p + (l + 1) = p + l + 1
      BY <2>2, <2>3
    <3> QED
      BY <2>3, <2>4, <3>1
  <2>8. s[q] = Close(tag)
    <3>1. Len(r) \in 1 .. Len(r)
      BY <2>3
    <3> QED
      BY <2>2, <2>3, <2>4, <3>1
  <2>9. \A j \in 1 .. m : s[p + l + 1 + j] = c.body[j]
    <3> SUFFICES ASSUME NEW j \in 1 .. m
                 PROVE  s[p + l + 1 + j] = c.body[j]
      OBVIOUS
    <3>1. l + 1 + j \in 1 .. Len(r) /\ p + (l + 1 + j) = p + l + 1 + j
      BY <2>2, <2>3
    <3> QED
      BY <2>3, <2>4, <3>1
  <2>10. CellAt(s, c, tag, p, q)
    BY <2>2, <2>3, <2>5, <2>6, <2>7, <2>8, <2>9 DEF CellAt, l, m
  <2> QED
    BY <2>10 DEF c, p, q
<1>11. CellPlaces(s, cells, after, tag, o)
  BY <1>8, <1>9, <1>10 DEF CellPlaces, n
<1> QED
  BY <1>11 DEF s

\* The matches are the cells.
Scanned(s, ms, cells, after) ==
  /\ ms \in Seq(Mark) /\ Len(ms) = Len(cells)
  /\ \A k \in 1 .. Len(cells) :
       s[ms[k].b] = cells[k].open /\ Inside(s, ms[k]) = cells[k].body
  /\ Without(s, ms) = FlattenSeq([k \in 1 .. Len(cells) |-> cells[k].before]) \o after

\* The marks of the cells that are at o.
MarksOf(ms, cells, o) ==
  /\ Len(ms) = Len(cells)
  /\ \A k \in 1 .. Len(cells) :
       ms[k].b = o[k - 1] + Len(cells[k].before) + 1 /\ ms[k].e = o[k]

\* What is left without them is what is before and after the elements.
LEMMA WithoutIs ==
  ASSUME NEW s \in Seq(Token), NEW cells \in Seq(Cell), NEW after \in Seq(Token),
         NEW tag, NEW o, CellPlaces(s, cells, after, tag, o),
         NEW ms, MarksOf(ms, cells, o)
  PROVE  Without(s, ms) = FlattenSeq([k \in 1 .. Len(cells) |-> cells[k].before]) \o after
<1> DEFINE from(k) == IF k = 1 THEN 1 ELSE ms[k - 1].e + 1
           to(k) == IF k = Len(ms) + 1 THEN Len(s) ELSE ms[k].b - 1
           ps == [k \in 1 .. Len(ms) + 1 |-> SubSeq(s, from(k), to(k))]
           bs == [k \in 1 .. Len(cells) |-> cells[k].before]
<1>1. PICK n \in Nat : n = Len(cells)
  BY LenProperties
<1>1a. /\ Len(ms) = n
       /\ \A k \in 1 .. n :
            ms[k].b = o[k - 1] + Len(cells[k].before) + 1 /\ ms[k].e = o[k]
  BY <1>1 DEF MarksOf
<1>2. /\ \A k \in 1 .. n : CellAt(s, cells[k], tag, o[k - 1], o[k])
      /\ o \in [0 .. n -> Nat] /\ o[0] = 0 /\ Len(s) = o[n] + Len(after)
      /\ \A j \in 1 .. Len(after) : s[o[n] + j] = after[j]
  BY <1>1 DEF CellPlaces
<1>3. bs \in Seq(Seq(Token)) /\ Len(bs) = n /\ \A k \in 1 .. n : bs[k] = cells[k].before
  <2>1. \A k \in 1 .. n : cells[k].before \in Seq(Token)
    <3>1. \A k \in 1 .. n : cells[k] \in Cell
      BY <1>1, LenProperties
    <3> QED
      BY <3>1 DEF Cell
  <2> QED
    BY <1>1, <2>1
<1>4. ASSUME NEW k \in 1 .. n
      PROVE  SubSeq(s, from(k), to(k)) = cells[k].before
  <2>1. cells[k] \in Cell
    BY <1>1, LenProperties
  <2>2. PICK p : p = o[k - 1]
    OBVIOUS
  <2>3. p \in Nat /\ Len(cells[k].before) \in Nat
    BY <1>2, <2>2 DEF CellAt
  <2>4. SubSeq(s, p + 1, p + Len(cells[k].before)) = cells[k].before
    <3>1. CellAt(s, cells[k], tag, p, o[k])
      BY <1>2, <2>2
    <3>2. HasParts(s, cells[k], p, o[k])
      BY <2>1, <3>1, CellParts
    <3> QED
      BY <3>2 DEF HasParts
  <2>5. from(k) = p + 1
    <3>1. CASE k = 1
      BY <1>2, <2>2, <3>1
    <3>2. CASE k # 1
      <4>1. k - 1 \in 1 .. n
        BY <1>1, <3>2
      <4>2. ms[k - 1].e = o[k - 1]
        BY <1>1a, <4>1
      <4> QED
        BY <2>2, <3>2, <4>2
    <3> QED
      BY <3>1, <3>2
  <2>6. to(k) = p + Len(cells[k].before)
    <3>1. k # Len(ms) + 1 /\ ms[k].b = p + Len(cells[k].before) + 1
      BY <1>1a, <2>2
    <3>2. \A l \in Nat : (p + l + 1) - 1 = p + l
      BY <2>3
    <3> QED
      BY <2>3, <3>1, <3>2
  <2> QED
    BY <2>4, <2>5, <2>6
<1>5. SubSeq(s, from(n + 1), to(n + 1)) = after
  <2>1. PICK p : p = o[n]
    OBVIOUS
  <2>2. p \in Nat /\ Len(after) \in Nat /\ Len(s) \in Nat
    BY <1>2, <2>1, LenProperties
  <2>3. from(n + 1) = p + 1
    <3>1. CASE n = 0
      BY <1>2, <2>1, <3>1
    <3>2. CASE n # 0
      <4>1. n \in 1 .. n /\ n + 1 # 1 /\ (n + 1) - 1 = n
        BY <1>1, <3>2
      <4>2. ms[n].e = o[n]
        BY <1>1a, <4>1
      <4> QED
        BY <2>1, <4>1, <4>2
    <3> QED
      BY <3>1, <3>2
  <2>4. to(n + 1) = p + Len(after)
    BY <1>1a, <1>2, <2>1
  <2>5. \A j \in 1 .. Len(after) : s[p + j] = after[j]
    BY <1>2, <2>1
  <2>6. p + Len(after) <= Len(s)
    BY <1>2, <2>1, <2>2
  <2>7. SubSeq(s, p + 1, p + Len(after)) = after
    BY <2>2, <2>5, <2>6, PartIs
  <2> QED
    BY <2>3, <2>4, <2>7
<1>6. ps = Append(bs, after)
  <2>1. DOMAIN ps = 1 .. n + 1 /\ \A k \in 1 .. n + 1 : ps[k] = SubSeq(s, from(k), to(k))
    BY <1>1a
  <2>2. /\ Append(bs, after) \in Seq(Seq(Token)) /\ Len(Append(bs, after)) = n + 1
        /\ Append(bs, after)[n + 1] = after
        /\ \A k \in 1 .. n : Append(bs, after)[k] = bs[k]
    <3> HIDE DEF bs
    <3> QED
      BY <1>3, AppendProperties
  <2> HIDE DEF from, to, bs
  <2>3. ASSUME NEW k \in 1 .. n + 1
        PROVE  ps[k] = Append(bs, after)[k]
    <3>1. CASE k = n + 1
      BY <1>5, <2>1, <2>2, <3>1
    <3>2. CASE k # n + 1
      <4>1. k \in 1 .. n
        BY <3>2
      <4> QED
        BY <1>3, <1>4, <2>1, <2>2, <4>1
    <3> QED
      BY <3>1, <3>2
  <2>4. ps = [k \in 1 .. n + 1 |-> ps[k]]
    BY <2>1
  <2> HIDE DEF ps
  <2>5. ps \in Seq(Seq(Token)) /\ Len(ps) = n + 1
    <3>1. \A k \in 1 .. n + 1 : ps[k] \in Seq(Token)
      <4> SUFFICES ASSUME NEW k \in 1 .. n + 1
                   PROVE  ps[k] \in Seq(Token)
        OBVIOUS
      <4>1. Append(bs, after)[k] \in Seq(Token)
        BY <2>2, LenProperties
      <4> QED
        BY <2>3, <4>1
    <3> QED
      BY <1>1, <2>4, <3>1
  <2> QED
    BY <2>2, <2>3, <2>5, SeqEqual
<1>7. FlattenSeq(Append(bs, after)) = FlattenSeq(bs) \o after
  <2> HIDE DEF bs
  <2> QED
    BY <1>3, FlattenAppend
<1>8. Without(s, ms) = FlattenSeq(ps)
  BY Zenon DEF Without
<1> HIDE DEF ps
<1> QED
  BY <1>6, <1>7, <1>8

LEMMA Scan ==
  ASSUME NEW kinds, NEW tag \in Names, NEW min \in Nat,
         NEW cells \in Seq(Cell), NEW after \in Seq(Token), Free(after, kinds, tag),
         \A k \in 1 .. Len(cells) : Found(cells[k], kinds, tag, min)
  PROVE  LET s == Laid(cells, after, tag)
         IN  Scanned(s, Matches(s, kinds, tag, min), cells, after)
<1>1. PICK s : s = Laid(cells, after, tag)
  OBVIOUS
<1>2. PICK o : CellPlaces(s, cells, after, tag, o)
  BY <1>1, CellsAre
<1>3. PICK n \in Nat : n = Len(cells)
  BY LenProperties
<1> DEFINE l(k) == Len(cells[k].before)
           ms == [k \in 1 .. n |-> [b |-> o[k - 1] + l(k) + 1, e |-> o[k]]]
           from == [k \in 1 .. n + 1 |-> o[k - 1] + 1]
<1>4. /\ s \in Seq(Token) /\ Len(s) \in Nat
      /\ o \in [0 .. n -> Nat] /\ o[0] = 0
      /\ \A k \in 1 .. n : CellAt(s, cells[k], tag, o[k - 1], o[k])
      /\ Len(s) = o[n] + Len(after)
      /\ \A j \in 1 .. Len(after) : s[o[n] + j] = after[j]
  BY <1>2, <1>3, LenProperties DEF CellPlaces
<1>5. \A k \in 1 .. n : cells[k] \in Cell /\ o[k - 1] \in Nat /\ l(k) \in Nat /\ o[k] \in Nat
  <2>1. \A k \in 1 .. n : cells[k] \in Cell
    BY <1>3, LenProperties
  <2>2. \A k \in 1 .. n : o[k - 1] \in Nat /\ l(k) \in Nat
    BY <1>4 DEF CellAt
  <2>3. \A k \in 1 .. n : k \in 0 .. n
    OBVIOUS
  <2> HIDE DEF l, ms, from
  <2>4. \A k \in 1 .. n : o[k] \in Nat
    BY <1>4, <2>3
  <2> QED
    BY <2>1, <2>2, <2>4
<1>6. ms \in Seq(Mark) /\ Len(ms) = n
  <2>1. \A k \in 1 .. n : [b |-> o[k - 1] + l(k) + 1, e |-> o[k]] \in Mark
    <3> HIDE DEF l
    <3>1. \A x, y, z \in Nat : [b |-> x + y + 1, e |-> z] \in Mark
      BY DEF Mark
    <3> QED
      BY <1>5, <3>1, Zenon
  <2> QED
    BY <1>3, <2>1
<1>7. \A k \in 1 .. n : ms[k].b = o[k - 1] + l(k) + 1 /\ ms[k].e = o[k]
  BY Zenon
<1>8. from[1] = 1 /\ \A k \in 1 .. n : from[k] = o[k - 1] + 1 /\ from[k + 1] = o[k] + 1
  <2>1. \A k \in 1 .. n + 1 : from[k] = o[k - 1] + 1
    OBVIOUS
  <2>2. 1 \in 1 .. n + 1 /\ 1 - 1 = 0 /\ \A k \in 1 .. n : k \in 1 .. n + 1 /\ k + 1 \in 1 .. n + 1 /\ (k + 1) - 1 = k
    OBVIOUS
  <2> HIDE DEF from
  <2> QED
    BY <1>4, <2>1, <2>2
<1>9. from[n + 1] = o[n] + 1
  OBVIOUS
<1> HIDE DEF ms, from
<1>10. \A j \in from[n + 1] .. Len(s) : ~IsOpening(s[j], kinds, tag)
  <2>1. PICK p \in Nat : p = o[n]
    BY <1>4
  <2>2. Len(after) \in Nat /\ Len(s) = p + Len(after)
    BY <1>4, <2>1, LenProperties
  <2> SUFFICES ASSUME NEW j \in p + 1 .. Len(s)
               PROVE  ~IsOpening(s[j], kinds, tag)
    BY <1>9, <2>1
  <2>3. PICK i \in 1 .. Len(after) : j = p + i
    <3>1. j - p \in 1 .. Len(after) /\ j = p + (j - p)
      BY <2>2
    <3> QED
      BY <3>1
  <2>4. s[j] = after[i]
    BY <1>4, <2>1, <2>3
  <2> QED
    BY <2>4 DEF Free
<1>11. ASSUME NEW k \in 1 .. n
       PROVE  /\ from[k + 1] = ms[k].e + 1 /\ from[k] \in Nat \ {0}
              /\ IsNext(s, kinds, tag, min, from[k], ms[k].b, ms[k].e)
  <2>1. from[k + 1] = ms[k].e + 1
    BY <1>7, <1>8
  <2>2. from[k] \in Nat \ {0}
    <3>1. PICK p \in Nat : p = o[k - 1]
      BY <1>5
    <3>2. from[k] = p + 1
      BY <1>8, <3>1
    <3> QED
      BY <3>2
  <2>3. Found(cells[k], kinds, tag, min)
    BY <1>3
  <2>4. IsNext(s, kinds, tag, min, o[k - 1] + 1, o[k - 1] + l(k) + 1, o[k])
    BY <1>4, <1>5, <2>3, CellNext
  <2> QED
    BY <1>7, <1>8, <2>1, <2>2, <2>4
<1>12. Marks(s, kinds, tag, min, ms, from)
  BY <1>6, <1>8, <1>10, <1>11 DEF Marks
<1>13. Matches(s, kinds, tag, min) = ms
  BY <1>4, <1>6, <1>12, MatchesAre
<1>14. ASSUME NEW k \in 1 .. n
       PROVE  s[ms[k].b] = cells[k].open /\ Inside(s, ms[k]) = cells[k].body
  <2>1. CellAt(s, cells[k], tag, o[k - 1], o[k])
    BY <1>4
  <2>2. s[o[k - 1] + l(k) + 1] = cells[k].open
    BY <2>1 DEF CellAt
  <2>3. SubSeq(s, o[k - 1] + l(k) + 2, o[k] - 1) = cells[k].body
    <3>1. HasParts(s, cells[k], o[k - 1], o[k])
      BY <1>4, <1>5, <2>1, CellParts
    <3> QED
      BY <3>1 DEF HasParts
  <2>4. ms[k].b + 1 = o[k - 1] + l(k) + 2
    <3> HIDE DEF l
    <3> QED
      BY <1>5, <1>7
  <2> QED
    BY <1>7, <2>2, <2>3, <2>4 DEF Inside
<1>15. Without(s, ms) = FlattenSeq([k \in 1 .. Len(cells) |-> cells[k].before]) \o after
  <2>1. MarksOf(ms, cells, o)
    BY <1>3, <1>6, <1>7 DEF MarksOf
  <2> QED
    BY <1>2, <1>4, <2>1, WithoutIs
<1>16. Scanned(s, ms, cells, after)
  BY <1>3, <1>6, <1>14, <1>15 DEF Scanned
<1> QED
  BY <1>1, <1>13, <1>16

LEMMA SeqOver ==
  ASSUME NEW S, NEW T, NEW s \in Seq(S), \A i \in 1 .. Len(s) : s[i] \in T
  PROVE  s \in Seq(T)
OBVIOUS

LEMMA SeqWidens ==
  ASSUME NEW S, NEW T, S \subseteq T, NEW s \in Seq(S)
  PROVE  s \in Seq(T)
BY LenProperties

\* Nothing is found where no opening tag has a closing tag behind it.
LEMMA NoMatch ==
  ASSUME NEW s \in Seq(Token), NEW kinds, NEW tag, NEW min \in Nat,
         Begins(s, kinds, tag, min, 1) = {}
  PROVE  Matches(s, kinds, tag, min) = <<>> /\ Without(s, <<>>) = s
<1>1. PICK c : Matches(s, kinds, tag, min) = c[1] /\ Unfolds(s, kinds, tag, min, c)
  BY MatchesUnfold, LenProperties
<1>2. 1 \in 1 .. Len(s) + 1
  BY LenProperties
<1>3. Matches(s, kinds, tag, min) = <<>>
  BY <1>1, <1>2 DEF Unfolds
<1>4. Without(s, <<>>) = s
  <2> DEFINE ps == [k \in 1 .. 1 |-> SubSeq(s, 1, Len(s))]
  <2>1. SubSeq(s, 1, Len(s)) = s
    BY LenProperties
  <2>2. ps = <<s>>
    BY <2>1
  <2>3. Without(s, <<>>) = FlattenSeq(ps)
    <3> DEFINE e == <<>>
               from(k) == IF k = 1 THEN 1 ELSE e[k - 1].e + 1
               to(k) == IF k = Len(e) + 1 THEN Len(s) ELSE e[k].b - 1
               qs == [k \in 1 .. Len(e) + 1 |-> SubSeq(s, from(k), to(k))]
    <3>1. Without(s, e) = FlattenSeq(qs)
      BY Zenon DEF Without
    <3>2. Len(e) = 0
      OBVIOUS
    <3>3. qs = ps
      <4> HIDE DEF e
      <4>1. 1 .. Len(e) + 1 = 1 .. 1
        BY <3>2
      <4>2. \A k \in 1 .. 1 : from(k) = 1 /\ to(k) = Len(s)
        BY <3>2
      <4> HIDE DEF from, to
      <4> QED
        BY <4>1, <4>2
    <3> HIDE DEF qs, ps
    <3> QED
      BY <3>1, <3>3
  <2> QED
    BY <2>2, <2>3, FlattenOne
<1> QED
  BY <1>3, <1>4

LEMMA NoOpening ==
  ASSUME NEW s \in Seq(Token), NEW kinds, NEW tag, NEW min \in Nat, Free(s, kinds, tag)
  PROVE  Begins(s, kinds, tag, min, 1) = {}
BY DEF Begins, Free

LEMMA NoClosing ==
  ASSUME NEW s \in Seq(Token), NEW kinds, NEW tag, NEW min \in Nat, Lacks(s, {Close(tag)})
  PROVE  Begins(s, kinds, tag, min, 1) = {}
<1> SUFFICES ASSUME NEW j \in 1 .. Len(s), NEW k \in j + min + 1 .. Len(s),
                    s[k] = Close(tag)
             PROVE  FALSE
  BY DEF Begins
<1>1. k \in 1 .. Len(s)
  BY LenProperties
<1> QED
  BY <1>1 DEF Lacks

\* A function applied to each element.
Mapped(f, u) == [i \in 1 .. Len(u) |-> f[u[i]]]

LEMMA MappedAppend ==
  ASSUME NEW S, NEW u \in Seq(S), NEW x \in S, NEW f
  PROVE  Mapped(f, Append(u, x)) = Append(Mapped(f, u), f[x])
<1> DEFINE t == Append(u, x)
           F == [i \in 1 .. Len(u) |-> f[u[i]]]
           D == {f[y] : y \in S}
<1>1. PICK n \in Nat : n = Len(u)
  BY LenProperties
<1>2. /\ Len(t) = n + 1 /\ t[n + 1] = x /\ \A i \in 1 .. n : t[i] = u[i]
  BY <1>1, AppendProperties
<1>3. F \in Seq(D) /\ Len(F) = n /\ f[x] \in D
  BY <1>1, LenProperties
<1>4. \A i \in 1 .. n : F[i] = f[u[i]]
  BY <1>1
<1> HIDE DEF F, D, t
<1>5. /\ DOMAIN Append(F, f[x]) = 1 .. n + 1 /\ Append(F, f[x])[n + 1] = f[x]
      /\ \A i \in 1 .. n : Append(F, f[x])[i] = F[i]
  <2>1. /\ Append(F, f[x]) \in Seq(D) /\ Len(Append(F, f[x])) = n + 1
        /\ Append(F, f[x])[n + 1] = f[x]
        /\ \A i \in 1 .. n : Append(F, f[x])[i] = F[i]
    BY <1>3, AppendProperties
  <2> QED
    BY <2>1, LenProperties
<1>6. \A i \in 1 .. n + 1 : f[t[i]] = Append(F, f[x])[i]
  <2> SUFFICES ASSUME NEW i \in 1 .. n + 1
               PROVE  f[t[i]] = Append(F, f[x])[i]
    OBVIOUS
  <2>1. CASE i = n + 1
    BY <1>2, <1>5, <2>1
  <2>2. CASE i # n + 1
    <3>1. i \in 1 .. n
      BY <2>2
    <3> QED
      BY <1>2, <1>4, <1>5, <3>1
  <2> QED
    BY <2>1, <2>2
<1>7. Append(F, f[x]) = [i \in 1 .. n + 1 |-> Append(F, f[x])[i]]
  <2>1. Append(F, f[x]) \in Seq(D)
    BY <1>3, AppendProperties
  <2> QED
    BY <1>5, <2>1
<1>8. [i \in 1 .. Len(t) |-> f[t[i]]] = Append(F, f[x])
  BY <1>2, <1>6, <1>7
<1> QED
  BY <1>8 DEF F, t, Mapped

LEMMA MappedTyping ==
  ASSUME NEW S, NEW T, NEW u \in Seq(S), NEW f, \A y \in S : f[y] \in T
  PROVE  Mapped(f, u) \in Seq(T) /\ Len(Mapped(f, u)) = Len(u)
BY LenProperties DEF Mapped

LEMMA MappedEmpty ==
  ASSUME NEW f
  PROVE  Mapped(f, <<>>) = <<>>
<1>1. PICK e : e = <<>>
  OBVIOUS
<1>2. Len(e) = 0
  BY <1>1
<1>3. 1 .. Len(e) = {}
  BY <1>2
<1>4. Mapped(f, e) = <<>>
  BY <1>3 DEF Mapped
<1> QED
  BY <1>1, <1>4

LEMMA MappedConcat ==
  ASSUME NEW S, NEW p \in Seq(S), NEW q \in Seq(S), NEW f
  PROVE  Mapped(f, p \o q) = Mapped(f, p) \o Mapped(f, q)
<1> DEFINE T == {f[y] : y \in S}
<1>1. PICK r : r = p \o q
  OBVIOUS
<1>2. Joined(S, p, q, r)
  BY <1>1, ConcatPlaces
<1>3. /\ r \in Seq(S) /\ Len(p) \in Nat /\ Len(q) \in Nat /\ Len(r) = Len(p) + Len(q)
      /\ \A i \in 1 .. Len(p) : r[i] = p[i]
      /\ \A i \in 1 .. Len(q) : r[Len(p) + i] = q[i]
  BY <1>2 DEF Joined
<1>4. \A y \in S : f[y] \in T
  OBVIOUS
<1> HIDE DEF T
<1>5. /\ Mapped(f, p) \in Seq(T) /\ Len(Mapped(f, p)) = Len(p)
      /\ Mapped(f, q) \in Seq(T) /\ Len(Mapped(f, q)) = Len(q)
      /\ Mapped(f, r) \in Seq(T) /\ Len(Mapped(f, r)) = Len(r)
  BY <1>3, <1>4, MappedTyping
<1>6. \A i \in 1 .. Len(p) : Mapped(f, r)[i] = Mapped(f, p)[i]
  <2> SUFFICES ASSUME NEW i \in 1 .. Len(p)
               PROVE  Mapped(f, r)[i] = Mapped(f, p)[i]
    OBVIOUS
  <2>1. i \in 1 .. Len(r) /\ r[i] = p[i]
    BY <1>3
  <2> QED
    BY <2>1 DEF Mapped
<1>7. \A i \in 1 .. Len(q) : Mapped(f, r)[Len(p) + i] = Mapped(f, q)[i]
  <2> SUFFICES ASSUME NEW i \in 1 .. Len(q)
               PROVE  Mapped(f, r)[Len(p) + i] = Mapped(f, q)[i]
    OBVIOUS
  <2>1. Len(p) + i \in 1 .. Len(r) /\ r[Len(p) + i] = q[i]
    BY <1>3
  <2> QED
    BY <2>1 DEF Mapped
<1>8. Mapped(f, r) = Mapped(f, p) \o Mapped(f, q)
  <2>1. PICK a \in Seq(T) : a = Mapped(f, p)
    BY <1>5
  <2>2. PICK b \in Seq(T) : b = Mapped(f, q)
    BY <1>5
  <2>3. PICK c \in Seq(T) : c = Mapped(f, r)
    BY <1>5
  <2>4. Len(a) = Len(p) /\ Len(b) = Len(q) /\ Len(c) = Len(a) + Len(b)
    BY <1>3, <1>5, <2>1, <2>2, <2>3
  <2>5. \A i \in 1 .. Len(a) : c[i] = a[i]
    BY <1>6, <2>1, <2>3, <2>4
  <2>6. \A i \in 1 .. Len(b) : c[Len(a) + i] = b[i]
    BY <1>7, <2>2, <2>3, <2>4
  <2>7. c = a \o b
    BY <2>4, <2>5, <2>6, ConcatIs
  <2> QED
    BY <2>1, <2>2, <2>3, <2>7
<1> QED
  BY <1>1, <1>8

Takes(S, T, f) == \A y \in S : f[y] \in T
Maps(S, f, g) == \A u \in Seq(S) : g[u] = Mapped(f, u)

LEMMA FlattenMapped ==
  ASSUME NEW S, NEW T, NEW f, Takes(S, T, f), NEW g, Maps(S, f, g), NEW ss \in Seq(Seq(S))
  PROVE  FlattenSeq(Mapped(g, ss)) = Mapped(f, FlattenSeq(ss))
<1>h. (\A y \in S : f[y] \in T) /\ \A u \in Seq(S) : g[u] = Mapped(f, u)
  BY DEF Takes, Maps
<1> DEFINE good == {u \in Seq(Seq(S)) : FlattenSeq(Mapped(g, u)) = Mapped(f, FlattenSeq(u))}
<1>1. <<>> \in good
  <2>1. <<>> \in Seq(Seq(S))
    OBVIOUS
  <2>2. FlattenSeq(Mapped(g, <<>>)) = Mapped(f, FlattenSeq(<<>>))
    BY MappedEmpty, FlattenEmpty
  <2> QED
    BY <2>1, <2>2
<1>2. ASSUME NEW u \in Seq(Seq(S)), NEW x \in Seq(S), u \in good
      PROVE  Append(u, x) \in good
  <2>1. Mapped(g, Append(u, x)) = Append(Mapped(g, u), g[x])
    BY MappedAppend
  <2>2. g[x] = Mapped(f, x) /\ g[x] \in Seq(T)
    BY <1>h, MappedTyping
  <2>3. Mapped(g, u) \in Seq(Seq(T))
    <3>1. \A v \in Seq(S) : g[v] \in Seq(T)
      BY <1>h, MappedTyping
    <3> QED
      BY <3>1, MappedTyping
  <2>4. FlattenSeq(Append(Mapped(g, u), g[x])) = FlattenSeq(Mapped(g, u)) \o g[x]
    BY <2>2, <2>3, FlattenAppend
  <2>5. FlattenSeq(Mapped(g, u)) = Mapped(f, FlattenSeq(u))
    BY <1>2
  <2>6. FlattenSeq(u) \in Seq(S) /\ FlattenSeq(Append(u, x)) = FlattenSeq(u) \o x
    BY FlattenAppend
  <2>7. Mapped(f, FlattenSeq(u) \o x) = Mapped(f, FlattenSeq(u)) \o Mapped(f, x)
    BY <2>6, MappedConcat
  <2>8. Append(u, x) \in Seq(Seq(S))
    OBVIOUS
  <2> QED
    BY <2>1, <2>2, <2>4, <2>5, <2>6, <2>7, <2>8
<1> HIDE DEF good
<1>3. \A u \in Seq(Seq(S)) : u \in good
  BY <1>1, <1>2, SequenceInduction
<1> QED
  BY <1>3 DEF good

LEMMA FlattenNothing ==
  ASSUME NEW S, NEW x \in Seq(S), NEW f, \A y \in S : f[y] = <<>>
  PROVE  FlattenSeq(Mapped(f, x)) = <<>>
<1> DEFINE good == {u \in Seq(S) : FlattenSeq(Mapped(f, u)) = <<>>}
<1>1. <<>> \in good
  <2>1. <<>> \in Seq(S)
    OBVIOUS
  <2> QED
    BY <2>1, MappedEmpty, FlattenEmpty
<1>2. ASSUME NEW u \in Seq(S), NEW y \in S, u \in good
      PROVE  Append(u, y) \in good
  <2>1. Mapped(f, Append(u, y)) = Append(Mapped(f, u), f[y])
    BY MappedAppend
  <2>2. \A z \in S : f[z] \in Seq(S)
    <3>1. <<>> \in Seq(S)
      OBVIOUS
    <3> QED
      BY <3>1
  <2>3. Mapped(f, u) \in Seq(Seq(S))
    BY <2>2, MappedTyping
  <2>4. FlattenSeq(Append(Mapped(f, u), f[y])) = FlattenSeq(Mapped(f, u)) \o f[y]
    BY <2>2, <2>3, FlattenAppend
  <2>5. <<>> \o <<>> = <<>> /\ Append(u, y) \in Seq(S)
    OBVIOUS
  <2>6. FlattenSeq(Mapped(f, u)) = <<>> /\ f[y] = <<>>
    BY <1>2
  <2> QED
    BY <2>1, <2>4, <2>5, <2>6
<1> HIDE DEF good
<1>3. \A u \in Seq(S) : u \in good
  BY <1>1, <1>2, SequenceInduction
<1> QED
  BY <1>3 DEF good

-----------------------------------------------------------------------------
(***************************************************************************)
(* One call: what its parameters are read as, in either form.              *)
(***************************************************************************)
LEMMA TagsAreNames ==
  /\ "function_calls" \in Names /\ "invoke" \in Names /\ "tool_name" \in Names
  /\ "parameters" \in Names /\ "parameter" \in Names /\ NoName \in Names
  /\ \A x \in STRING : x \in Names
BY DEF Names

\* Cells with nothing before them.
LEMMA PlainCells ==
  ASSUME NEW tag \in Names, NEW cells \in Seq(Cell),
         \A k \in 1 .. Len(cells) : cells[k].before = <<>>
  PROVE  Laid(cells, <<>>, tag)
           = FlattenSeq([k \in 1 .. Len(cells) |->
                            Framed(cells[k].open, cells[k].body, Close(tag))])
<1> DEFINE F(k) == Framed(cells[k].open, cells[k].body, Close(tag))
           ts == [k \in 1 .. Len(cells) |-> F(k)]
<1>1. ASSUME NEW k \in 1 .. Len(cells)
      PROVE  F(k) \in Seq(Token) /\ CellText(cells[k], tag) = F(k)
  <2>1. cells[k] \in Cell
    BY LenProperties
  <2>2. cells[k].open \in Token /\ cells[k].body \in Seq(Token) /\ Close(tag) \in Token
    BY <2>1, TokenIs DEF Cell
  <2>3. F(k) \in Seq(Token)
    BY <2>2, FramedIs DEF IsFramed
  <2>4. CellText(cells[k], tag) = <<>> \o F(k)
    BY DEF CellText
  <2> HIDE DEF F
  <2>5. <<>> \o F(k) = F(k)
    BY <2>3
  <2> QED
    BY <2>3, <2>4, <2>5
<1> HIDE DEF F
<1>2. ts = [k \in 1 .. Len(cells) |-> CellText(cells[k], tag)]
  BY <1>1
<1>3. ts \in Seq(Seq(Token))
  BY <1>1, LenProperties
<1> HIDE DEF ts
<1>4. FlattenSeq(ts) \in Seq(Token)
  BY <1>3, FlattenTyping
<1>5. Laid(cells, <<>>, tag) = FlattenSeq(ts) \o <<>>
  BY <1>2 DEF Laid
<1>6. FlattenSeq(ts) \o <<>> = FlattenSeq(ts)
  BY <1>4
<1>7. ts = [k \in 1 .. Len(cells) |-> Framed(cells[k].open, cells[k].body, Close(tag))]
  BY DEF ts, F
<1> QED
  BY <1>5, <1>6, <1>7

\* The parameters of a call as the parser reads them.
ReadParams(call, registry) ==
  [n \in ParamNames(call) |->
      ParseValueWithType(ValueOf(call, n), GetParamType(registry, call.tool, n))]

\* Its parameters are found at the places at, in their order.
Indexed(call, spots, names, values) ==
  /\ \A k \in 1 .. Len(call.params) : spots[k] \in Nat
  /\ DOMAIN names = {spots[k] : k \in 1 .. Len(call.params)}
  /\ \A k \in 1 .. Len(call.params) :
       names[spots[k]] = call.params[k].name /\ values[spots[k]] = call.params[k].value

LEMMA ByNameIs ==
  ASSUME NEW call \in CallShape, DistinctNames(call), NEW registry,
         NEW spots, NEW names, NEW values, Indexed(call, spots, names, values)
  PROVE  ByName(names, values, call.tool, registry) = ReadParams(call, registry)
<1> DEFINE I == DOMAIN names
           last(m) == CHOOSE i \in I : /\ names[i] = m
                                       /\ \A j \in I : names[j] = m => j <= i
           N == {names[i] : i \in I}
           read(m, v) == ParseValueWithType(v, GetParamType(registry, call.tool, m))
<1>0. /\ \A k \in 1 .. Len(call.params) : spots[k] \in Nat
      /\ I = {spots[k] : k \in 1 .. Len(call.params)}
      /\ \A k \in 1 .. Len(call.params) :
           names[spots[k]] = call.params[k].name /\ values[spots[k]] = call.params[k].value
  BY DEF Indexed
<1> HIDE DEF I
<1>1. N = ParamNames(call)
  <2>1. ASSUME NEW i \in I
        PROVE  names[i] \in ParamNames(call)
    BY <1>0 DEF ParamNames
  <2>2. ASSUME NEW k \in 1 .. Len(call.params)
        PROVE  call.params[k].name \in N
    BY <1>0
  <2> HIDE DEF N
  <2>3. \A m \in N : m \in ParamNames(call)
    BY <2>1 DEF N
  <2>4. \A m \in ParamNames(call) : m \in N
    BY <2>2 DEF ParamNames
  <2> QED
    BY <2>3, <2>4
<1>2. ASSUME NEW m \in N
      PROVE  values[last(m)] = ValueOf(call, m)
  <2>1. PICK k \in 1 .. Len(call.params) : call.params[k].name = m
    BY <1>1 DEF ParamNames
  <2>2. \A i \in I : names[i] = m => i = spots[k]
    BY <1>0, <2>1 DEF DistinctNames
  <2>3. spots[k] \in I /\ names[spots[k]] = m /\ spots[k] <= spots[k]
    BY <1>0, <2>1
  <2>4. last(m) = spots[k]
    <3> DEFINE C == {i \in I : /\ names[i] = m
                               /\ \A j \in I : names[j] = m => j <= i}
    <3>1. spots[k] \in C
      BY <2>2, <2>3
    <3>2. \A i \in C : i = spots[k]
      BY <2>2
    <3>3. last(m) \in I /\ names[last(m)] = m
      BY <3>1
    <3> QED
      BY <2>2, <3>3
  <2>5. ValueOf(call, m) = call.params[k].value
    <3> DEFINE c == CHOOSE i \in 1 .. Len(call.params) : call.params[i].name = m
    <3>1. c \in 1 .. Len(call.params) /\ call.params[c].name = m
      BY <2>1
    <3>2. c = k
      BY <2>1, <3>1 DEF DistinctNames
    <3> HIDE DEF c
    <3>3. ValueOf(call, m) = call.params[c].value
      BY DEF ValueOf, c
    <3> QED
      BY <3>2, <3>3
  <2> QED
    BY <1>0, <2>1, <2>4, <2>5
<1>3. ByName(names, values, call.tool, registry) = [m \in N |-> read(m, values[last(m)])]
  BY Zenon DEF ByName, I
<1> HIDE DEF last, N, read
<1>4. [m \in N |-> read(m, values[last(m)])] = [m \in N |-> read(m, ValueOf(call, m))]
  BY <1>2
<1>5. [m \in N |-> read(m, ValueOf(call, m))] = ReadParams(call, registry)
  BY <1>1, Zenon DEF ReadParams, read
<1> QED
  BY <1>3, <1>4, <1>5

LEMMA ShapeIs ==
  ASSUME NEW call \in CallShape
  PROVE  /\ call.tool \in Names /\ call.tool \in STRING /\ call.tool # NoName
         /\ Len(call.params) \in Nat
         /\ \A i \in 1 .. Len(call.params) :
              /\ call.params[i].name \in Names /\ call.params[i].name \in STRING
              /\ call.params[i].name # NoName /\ call.params[i].value \in Seq(Token)
<1>1. call.tool \in STRING \ {NoName}
      /\ call.params \in Seq([name : STRING \ {NoName}, value : Seq(Token)])
  BY DEF CallShape
<1>2. \A i \in 1 .. Len(call.params) :
        call.params[i] \in [name : STRING \ {NoName}, value : Seq(Token)]
  BY <1>1, LenProperties
<1> QED
  BY <1>1, <1>2, TagsAreNames, LenProperties

\* What is in an invoke element.
ParametersOf(call) == FlattenSeq(Each(Parameter, call.params))

LEMMA AttributeParamsAre ==
  ASSUME NEW call \in CallShape, DistinctNames(call), WellInvoked(call), NEW registry
  PROVE  ParseAttributeParams(ParametersOf(call), call.tool, registry)
           = ReadParams(call, registry)
<1> DEFINE ps == call.params
           cell(i) == [before |-> <<>>, open |-> Attr("parameter", ps[i].name),
                       body |-> ps[i].value]
           cells == [i \in 1 .. Len(call.params) |-> cell(i)]
           s == ParametersOf(call)
           found == Matches(s, {"attr"}, "parameter", 0)
           names == [i \in 1 .. Len(found) |-> s[found[i].b].name]
           values == Insides(s, found)
           spots == [i \in 1 .. Len(found) |-> i]
<1>1. PICK n \in Nat : n = Len(call.params)
  BY ShapeIs
<1>2. \A i \in 1 .. n : /\ ps[i].name \in Names /\ ps[i].name # NoName
                        /\ ps[i].value \in Seq(Token)
                        /\ Attr("parameter", ps[i].name) \in Token
  BY <1>1, ShapeIs, TagsAreNames, TokenIs
<1>3. \A i \in 1 .. n : cell(i) \in Cell
  <2>1. <<>> \in Seq(Token)
    OBVIOUS
  <2> QED
    BY <1>2, <2>1 DEF Cell
<1>4. cells \in Seq(Cell) /\ Len(cells) = n /\ \A i \in 1 .. n : cells[i] = cell(i)
  BY <1>1, <1>3
<1>5. \A i \in 1 .. n : Found(cell(i), {"attr"}, "parameter", 0)
  <2> SUFFICES ASSUME NEW i \in 1 .. n
               PROVE  Found(cell(i), {"attr"}, "parameter", 0)
    OBVIOUS
  <2>1. Free(<<>>, {"attr"}, "parameter")
    BY DEF Free
  <2>2. IsOpening(Attr("parameter", ps[i].name), {"attr"}, "parameter")
    BY <1>2 DEF IsOpening, Attr
  <2>3. Lacks(ps[i].value, {Close("parameter")})
    BY <1>1 DEF WellInvoked, Lacks
  <2>4. Len(ps[i].value) >= 0
    BY <1>2, LenProperties
  <2> QED
    BY <2>1, <2>2, <2>3, <2>4 DEF Found
<1> HIDE DEF cells
<1>6. Laid(cells, <<>>, "parameter")
        = FlattenSeq([k \in 1 .. Len(cells) |->
                         Framed(cells[k].open, cells[k].body, Close("parameter"))])
  <2>1. \A k \in 1 .. Len(cells) : cells[k].before = <<>>
    BY <1>4
  <2> QED
    BY <1>4, <2>1, TagsAreNames, PlainCells
<1>7. [k \in 1 .. Len(cells) |-> Framed(cells[k].open, cells[k].body, Close("parameter"))]
        = Each(Parameter, call.params)
  <2>1. \A k \in 1 .. n : Framed(cells[k].open, cells[k].body, Close("parameter"))
                           = Parameter(ps[k])
    BY <1>4 DEF Parameter
  <2>2. Each(Parameter, call.params) = [k \in 1 .. n |-> Parameter(ps[k])]
    BY <1>1 DEF Each
  <2> QED
    BY <1>4, <2>1, <2>2
<1>8. Laid(cells, <<>>, "parameter") = s
  BY <1>6, <1>7 DEF ParametersOf
<1>9. Scanned(s, found, cells, <<>>)
  <2>1. Free(<<>>, {"attr"}, "parameter")
    BY DEF Free
  <2>2. \A k \in 1 .. Len(cells) : Found(cells[k], {"attr"}, "parameter", 0)
    BY <1>4, <1>5
  <2>3. <<>> \in Seq(Token) /\ 0 \in Nat /\ "parameter" \in Names
    BY TagsAreNames
  <2> HIDE DEF s
  <2> QED
    BY <1>4, <1>8, <2>1, <2>2, <2>3, Scan
<1> HIDE DEF s, found
<1>10. /\ Len(found) = n
       /\ \A k \in 1 .. n : s[found[k].b] = Attr("parameter", ps[k].name)
                            /\ Inside(s, found[k]) = ps[k].value
  <2>1. /\ Len(found) = Len(cells)
        /\ \A k \in 1 .. Len(cells) :
             s[found[k].b] = cells[k].open /\ Inside(s, found[k]) = cells[k].body
    BY <1>9 DEF Scanned
  <2> QED
    BY <1>4, <2>1
<1>11. \A k \in 1 .. n : spots[k] = k /\ names[k] = ps[k].name /\ values[k] = ps[k].value
  <2> SUFFICES ASSUME NEW k \in 1 .. n
               PROVE  spots[k] = k /\ names[k] = ps[k].name /\ values[k] = ps[k].value
    OBVIOUS
  <2>1. names[k] = s[found[k].b].name /\ spots[k] = k
    BY <1>10
  <2>2. values[k] = Inside(s, found[k])
    BY <1>10 DEF Insides
  <2>3. Attr("parameter", ps[k].name).name = ps[k].name
    BY DEF Attr
  <2> QED
    BY <1>10, <2>1, <2>2, <2>3
<1>12. DOMAIN names = {spots[k] : k \in 1 .. n}
  BY <1>10
<1> HIDE DEF names, values, spots
<1>13. ByName(names, values, call.tool, registry) = ReadParams(call, registry)
  <2>1. Indexed(call, spots, names, values)
    BY <1>1, <1>11, <1>12 DEF Indexed
  <2> QED
    BY <2>1, ByNameIs
<1>14. ParseAttributeParams(s, call.tool, registry)
         = ByName(names, values, call.tool, registry)
  BY Zenon DEF ParseAttributeParams, names, values, found
<1> QED
  BY <1>13, <1>14 DEF s

LEMMA LeastOne ==
  ASSUME NEW S \in SUBSET Nat, NEW x \in S, \A y \in S : x <= y
  PROVE  Least(S) = x
<1>1. Least(S) \in S /\ \A k \in S : Least(S) <= k
  BY LeastIs
<1>2. Least(S) <= x /\ x <= Least(S) /\ Least(S) \in Nat /\ x \in Nat
  BY <1>1
<1> QED
  BY <1>2

\* Which of the pieces a place is in.
LEMMA PieceOf ==
  ASSUME NEW n \in Nat, NEW o \in [0 .. n -> Nat], o[0] = 0, NEW i \in 1 .. o[n]
  PROVE  \E k \in 1 .. n : o[k - 1] < i /\ i <= o[k]
<1> DEFINE K == {k \in 1 .. n : i <= o[k]}
<1>1. n # 0 /\ n \in 0 .. n /\ o[n] \in Nat
  OBVIOUS
<1>2. n \in K /\ K \in SUBSET Nat
  BY <1>1
<1> HIDE DEF K
<1>3. PICK k : k = Least(K)
  OBVIOUS
<1>4. k \in K /\ \A j \in K : k <= j
  BY <1>2, <1>3, LeastIs
<1>5. k \in 1 .. n /\ i <= o[k]
  BY <1>4 DEF K
<1>6. o[k - 1] < i
  <2>1. CASE k = 1
    BY <2>1
  <2>2. CASE k # 1
    <3>1. k - 1 \in 1 .. n /\ ~(k <= k - 1) /\ k - 1 \in 0 .. n
      BY <1>5, <2>2
    <3>2. k - 1 \notin K
      BY <1>4, <3>1
    <3>3. ~(i <= o[k - 1]) /\ o[k - 1] \in Nat
      BY <3>1, <3>2 DEF K
    <3> QED
      BY <3>3
  <2> QED
    BY <2>1, <2>2
<1> QED
  BY <1>5, <1>6

FieldsOf(call) == FlattenSeq(Each(Field, call.params))

\* A field is at the places p + 1 to q, and has text inside.
FieldAt(s, p, q, name, value) ==
  /\ p \in Nat /\ q = p + Len(value) + 2 /\ q <= Len(s) /\ Len(value) \in Nat
  /\ s[p + 1] = Opening(name) /\ s[q] = Close(name)
  /\ \A j \in 1 .. Len(value) : s[p + 1 + j] = value[j] /\ value[j].t = "text"

LEMMA FieldsAre ==
  ASSUME NEW call \in CallShape, WellTagged(call)
  PROVE  \E o : LET s == FieldsOf(call)
                    n == Len(call.params)
                IN  /\ s \in Seq(Token) /\ o \in [0 .. n -> Nat] /\ o[0] = 0
                    /\ o[n] = Len(s)
                    /\ \A k \in 1 .. n :
                         FieldAt(s, o[k - 1], o[k], call.params[k].name,
                                 call.params[k].value)
<1> DEFINE ps == call.params
           ts == Each(Field, call.params)
           s == FieldsOf(call)
<1>1. PICK n \in Nat : n = Len(call.params)
  BY ShapeIs
<1>2. ASSUME NEW k \in 1 .. n
      PROVE  /\ ps[k].value \in Seq(Token)
             /\ IsFramed(Token, Opening(ps[k].name), ps[k].value, Close(ps[k].name),
                         Field(ps[k]))
  <2>1. ps[k].name \in Names /\ ps[k].value \in Seq(Token)
    BY <1>1, ShapeIs
  <2>2. Opening(ps[k].name) \in Token /\ Close(ps[k].name) \in Token
    BY <2>1, TokenIs
  <2> QED
    BY <2>1, <2>2, FramedIs DEF Field
<1>3. Len(ts) = n /\ \A k \in 1 .. n : ts[k] = Field(ps[k])
  BY <1>1 DEF Each
<1>4. ts \in Seq(Seq(Token))
  <2>1. \A k \in 1 .. n : Field(ps[k]) \in Seq(Token)
    BY <1>2 DEF IsFramed
  <2> QED
    BY <1>1, <2>1 DEF Each
<1> HIDE DEF ts
<1>5. PICK o : Places(ts, o)
  BY <1>4, FlattenPlaces
<1>6. s = FlattenSeq(ts)
  BY DEF FieldsOf, ts
<1> HIDE DEF s
<1>7. s \in Seq(Token)
  BY <1>4, <1>6, FlattenTyping
<1>8. /\ o \in [0 .. n -> Nat] /\ o[0] = 0 /\ o[n] = Len(s)
      /\ \A k \in 1 .. n :
           /\ o[k] = o[k - 1] + Len(ts[k]) /\ o[k] <= Len(s)
           /\ \A j \in 1 .. Len(ts[k]) : s[o[k - 1] + j] = ts[k][j]
  BY <1>3, <1>5, <1>6 DEF Places
<1>9. ASSUME NEW k \in 1 .. n
      PROVE  FieldAt(s, o[k - 1], o[k], ps[k].name, ps[k].value)
  <2>1. PICK r : r = ts[k]
    OBVIOUS
  <2>2. PICK v : v = ps[k].value
    OBVIOUS
  <2>3. PICK p : p = o[k - 1]
    OBVIOUS
  <2>4. /\ Len(r) = Len(v) + 2 /\ Len(v) \in Nat
        /\ r[1] = Opening(ps[k].name) /\ r[Len(v) + 2] = Close(ps[k].name)
        /\ \A j \in 1 .. Len(v) : r[1 + j] = v[j]
    BY <1>2, <1>3, <2>1, <2>2 DEF IsFramed
  <2>5. p \in Nat /\ o[k] = p + Len(r) /\ o[k] <= Len(s)
        /\ \A j \in 1 .. Len(r) : s[p + j] = r[j]
    <3>1. k - 1 \in 0 .. n
      OBVIOUS
    <3> QED
      BY <1>8, <2>1, <2>3, <3>1
  <2>6. o[k] = p + Len(v) + 2 /\ o[k] <= Len(s)
    BY <2>4, <2>5
  <2>7. s[p + 1] = Opening(ps[k].name)
    <3>1. 1 \in 1 .. Len(r)
      BY <2>4
    <3> QED
      BY <2>4, <2>5, <3>1
  <2>8. s[o[k]] = Close(ps[k].name)
    <3>1. Len(r) \in 1 .. Len(r) /\ Len(r) = Len(v) + 2
      BY <2>4
    <3> QED
      BY <2>4, <2>5, <3>1
  <2>9. \A j \in 1 .. Len(v) : v[j].t = "text"
    BY <1>1, <2>2 DEF WellTagged
  <2>10. ASSUME NEW j \in 1 .. Len(v)
         PROVE  s[p + 1 + j] = v[j]
    <3>1. 1 + j \in 1 .. Len(r) /\ p + (1 + j) = p + 1 + j
      BY <2>4, <2>5
    <3> QED
      BY <2>4, <2>5, <3>1
  <2> QED
    BY <2>2, <2>3, <2>4, <2>5, <2>6, <2>7, <2>8, <2>9, <2>10 DEF FieldAt
<1> QED
  BY <1>1, <1>7, <1>8, <1>9 DEF s

LEMMA XmlParamsAre ==
  ASSUME NEW call \in CallShape, DistinctNames(call), WellTagged(call), NEW registry
  PROVE  ParseXmlParams(FieldsOf(call), call.tool, registry) = ReadParams(call, registry)
<1> DEFINE ps == call.params
           s == FieldsOf(call)
           ends(i) == {k \in i + 1 .. Len(s) : s[k] = Close(s[i].v)}
           opens == {i \in 1 .. Len(s) : s[i].t = "open" /\ ends(i) # {}}
           names == [i \in opens |-> s[i].v]
           values == [i \in opens |-> SubSeq(s, i + 1, Least(ends(i)) - 1)]
<1>1. PICK n \in Nat : n = Len(call.params)
  BY ShapeIs
<1>2. PICK o : /\ s \in Seq(Token) /\ o \in [0 .. n -> Nat] /\ o[0] = 0
               /\ o[n] = Len(s)
               /\ \A k \in 1 .. n : FieldAt(s, o[k - 1], o[k], ps[k].name, ps[k].value)
  BY <1>1, FieldsAre
<1> DEFINE spots == [k \in 1 .. n |-> o[k - 1] + 1]
<1>3. \A k \in 1 .. n : spots[k] = o[k - 1] + 1 /\ spots[k] \in Nat
  <2>1. \A k \in 1 .. n : o[k - 1] \in Nat
    BY <1>2 DEF FieldAt
  <2> QED
    BY <2>1
<1>4. ParseXmlParams(s, call.tool, registry) = ByName(names, values, call.tool, registry)
  BY Zenon DEF ParseXmlParams
<1> HIDE DEF s, spots
<1>5. ASSUME NEW k \in 1 .. n
      PROVE  /\ spots[k] \in 1 .. Len(s) /\ s[spots[k]] = Opening(ps[k].name)
             /\ o[k] \in ends(spots[k]) /\ Least(ends(spots[k])) = o[k]
             /\ SubSeq(s, spots[k] + 1, o[k] - 1) = ps[k].value
  <2>1. PICK p : p = o[k - 1]
    OBVIOUS
  <2>2. PICK q : q = o[k]
    OBVIOUS
  <2>3. PICK v : v = ps[k].value
    OBVIOUS
  <2>4. /\ p \in Nat /\ q = p + Len(v) + 2 /\ q <= Len(s) /\ Len(v) \in Nat
        /\ s[p + 1] = Opening(ps[k].name) /\ s[q] = Close(ps[k].name)
        /\ \A j \in 1 .. Len(v) : s[p + 1 + j] = v[j] /\ v[j].t = "text"
    BY <1>2, <2>1, <2>2, <2>3 DEF FieldAt
  <2>5. PICK a \in Nat : a = p + 1
    BY <2>4
  <2>6. PICK l \in Nat : l = Len(v)
    BY <2>4
  <2>7. Len(s) \in Nat /\ v \in Seq(Token) /\ a = spots[k]
    BY <1>1, <1>2, <1>3, <2>1, <2>3, <2>5, LenProperties, ShapeIs
  <2>8. a \in 1 .. Len(s) /\ q \in a + 1 .. Len(s) /\ q \in Nat
    BY <2>4, <2>5, <2>6, <2>7
  <2>9. s[a] = Opening(ps[k].name) /\ s[a].v = ps[k].name
    BY <2>4, <2>5 DEF Opening
  <2>10. q \in ends(a) /\ ends(a) \in SUBSET Nat
    BY <2>4, <2>5, <2>8, <2>9
  <2>11. \A i \in ends(a) : q <= i
    <3> SUFFICES ASSUME NEW i \in a + 1 .. Len(s), s[i] = Close(ps[k].name), i < q
                 PROVE  FALSE
      BY <2>8, <2>9
    <3>1. i - a \in 1 .. l /\ i = p + 1 + (i - a)
      BY <2>4, <2>5, <2>6, <2>7
    <3>2. s[i] = v[i - a] /\ v[i - a].t = "text"
      BY <2>4, <2>6, <3>1
    <3> QED
      BY <3>2 DEF Close
  <2>12. Least(ends(a)) = q
    <3> DEFINE E == ends(a)
    <3>1. E \in SUBSET Nat /\ q \in E /\ \A i \in E : q <= i
      BY <2>10, <2>11
    <3> HIDE DEF E
    <3>2. Least(E) = q
      BY <3>1, LeastOne
    <3> QED
      BY <3>2 DEF E
  <2>13. SubSeq(s, a + 1, q - 1) = v
    <3>1. a + l <= Len(s) /\ a + l = q - 1
      BY <2>4, <2>5, <2>6, <2>7
    <3>2. \A j \in 1 .. l : s[a + j] = v[j]
      BY <2>4, <2>5, <2>6
    <3>3. SubSeq(s, a + 1, a + l) = v
      BY <1>2, <2>6, <2>7, <3>1, <3>2, PartIs
    <3> QED
      BY <3>1, <3>3
  <2> HIDE DEF ends
  <2> QED
    BY <2>2, <2>3, <2>7, <2>8, <2>9, <2>10, <2>12, <2>13
<1>6. \A k \in 1 .. n : spots[k] \in opens
  <2> SUFFICES ASSUME NEW k \in 1 .. n
               PROVE  spots[k] \in opens
    OBVIOUS
  <2>1. spots[k] \in 1 .. Len(s) /\ s[spots[k]].t = "open"
    <3>1. spots[k] \in 1 .. Len(s) /\ s[spots[k]] = Opening(ps[k].name)
      BY <1>5
    <3> QED
      BY <3>1 DEF Opening
  <2>2. ends(spots[k]) # {}
    <3>1. o[k] \in ends(spots[k])
      BY <1>5
    <3> HIDE DEF ends
    <3> QED
      BY <3>1
  <2> HIDE DEF ends
  <2> QED
    BY <2>1, <2>2
<1>7. ASSUME NEW i \in opens
      PROVE  \E k \in 1 .. n : i = spots[k]
  <2>1. i \in 1 .. o[n] /\ s[i].t = "open"
    BY <1>2
  <2>2. PICK k \in 1 .. n : o[k - 1] < i /\ i <= o[k]
    BY <1>2, <2>1, PieceOf
  <2>3. PICK p : p = o[k - 1]
    OBVIOUS
  <2>4. PICK v : v = ps[k].value
    OBVIOUS
  <2>5. /\ p \in Nat /\ o[k] = p + Len(v) + 2 /\ Len(v) \in Nat
        /\ s[o[k]] = Close(ps[k].name)
        /\ \A j \in 1 .. Len(v) : s[p + 1 + j] = v[j] /\ v[j].t = "text"
    BY <1>2, <2>3, <2>4 DEF FieldAt
  <2>6. CASE i = p + 1
    BY <1>3, <2>3, <2>6
  <2>7. CASE i = o[k]
    BY <2>1, <2>5, <2>7 DEF Close
  <2>8. CASE i # p + 1 /\ i # o[k]
    <3>0. PICK l \in Nat : l = Len(v)
      BY <2>5
    <3>1. PICK j \in Int : j = i - p - 1
      BY <2>1, <2>5
    <3>2. j \in 1 .. l /\ i = p + 1 + j
      <4>1. i \in Int /\ p \in Nat /\ p < i /\ i <= p + l + 2 /\ i # p + 1 /\ i # p + l + 2
        BY <2>1, <2>2, <2>3, <2>5, <2>8, <3>0
      <4>2. i = p + 1 + j
        BY <3>1, <4>1
      <4>3. j >= 1 /\ j <= l
        BY <3>1, <4>1
      <4> QED
        BY <4>2, <4>3
    <3> QED
      BY <2>1, <2>5, <3>0, <3>2
  <2> QED
    BY <2>6, <2>7, <2>8
<1>8. opens = {spots[k] : k \in 1 .. n}
  <2> HIDE DEF opens
  <2> QED
    BY <1>6, <1>7
<1>9. \A k \in 1 .. n : names[spots[k]] = ps[k].name /\ values[spots[k]] = ps[k].value
  <2> HIDE DEF opens, ends
  <2> SUFFICES ASSUME NEW k \in 1 .. n
               PROVE  names[spots[k]] = ps[k].name /\ values[spots[k]] = ps[k].value
    OBVIOUS
  <2>1. names[spots[k]] = s[spots[k]].v
        /\ values[spots[k]] = SubSeq(s, spots[k] + 1, Least(ends(spots[k])) - 1)
    BY <1>6
  <2>2. Opening(ps[k].name).v = ps[k].name
    BY DEF Opening
  <2> QED
    BY <1>5, <2>1, <2>2
<1>10. Indexed(call, spots, names, values)
  <2>1. DOMAIN names = {spots[k] : k \in 1 .. n}
    <3> HIDE DEF opens
    <3> QED
      BY <1>8
  <2> HIDE DEF names, values
  <2> QED
    BY <1>1, <1>3, <1>9, <2>1 DEF Indexed
<1> HIDE DEF names, values
<1> QED
  BY <1>4, <1>10, ByNameIs DEF s

LEMMA TokenOf ==
  ASSUME NEW x \in Token
  PROVE  /\ x.t = "open" => x = Opening(x.v)
         /\ x.t = "close" => x = Close(x.v)
         /\ x.t = "text" => x = Run(x.v)
BY DEF Token, Opening, Close, Run

LEMMA OneCell ==
  ASSUME NEW tag \in Names, NEW c \in Cell, NEW after \in Seq(Token)
  PROVE  /\ <<c>> \in Seq(Cell) /\ Len(<<c>>) = 1 /\ <<c>>[1] = c
         /\ CellText(c, tag) \in Seq(Token)
         /\ Laid(<<c>>, after, tag) = CellText(c, tag) \o after
<1>1. <<c>> \in Seq(Cell) /\ Len(<<c>>) = 1 /\ <<c>>[1] = c
  OBVIOUS
<1>2. CellText(c, tag) \in Seq(Token)
  <2>1. /\ c.before \in Seq(Token) /\ c.open \in Token /\ c.body \in Seq(Token)
        /\ Close(tag) \in Token
    BY TokenIs DEF Cell
  <2> QED
    BY <2>1, PieceIs DEF IsPiece, CellText
<1>3. PICK cs : cs = <<c>>
  OBVIOUS
<1>4. [k \in 1 .. Len(cs) |-> CellText(cs[k], tag)] = <<CellText(c, tag)>>
  BY <1>1, <1>3
<1>5. Laid(cs, after, tag) = CellText(c, tag) \o after
  BY <1>2, <1>4, FlattenOne DEF Laid
<1> QED
  BY <1>1, <1>2, <1>3, <1>5

\* What is between the tags, for every cell.
LEMMA ExtractIs ==
  ASSUME NEW tag \in Names, NEW cells \in Seq(Cell), NEW after \in Seq(Token),
         Free(after, {"open"}, tag),
         \A k \in 1 .. Len(cells) : Found(cells[k], {"open"}, tag, 1)
  PROVE  ExtractBetweenTags(tag, Laid(cells, after, tag))
           = [k \in 1 .. Len(cells) |-> cells[k].body]
<1>1. PICK s : s = Laid(cells, after, tag)
  OBVIOUS
<1>2. PICK ms : ms = Matches(s, {"open"}, tag, 1)
  OBVIOUS
<1>3. Scanned(s, ms, cells, after)
  BY <1>1, <1>2, Scan
<1>4. Len(ms) = Len(cells) /\ \A k \in 1 .. Len(cells) : Inside(s, ms[k]) = cells[k].body
  BY <1>3 DEF Scanned
<1>5. Insides(s, ms) = [k \in 1 .. Len(cells) |-> cells[k].body]
  BY <1>4 DEF Insides
<1> QED
  BY <1>1, <1>2, <1>5 DEF ExtractBetweenTags

LEMMA ExtractNothing ==
  ASSUME NEW s \in Seq(Token), NEW tag, Begins(s, {"open"}, tag, 1, 1) = {}
  PROVE  ExtractBetweenTags(tag, s) = <<>>
<1>1. Matches(s, {"open"}, tag, 1) = <<>>
  BY NoMatch
<1>2. PICK e : e = <<>>
  OBVIOUS
<1>3. Len(e) = 0
  BY <1>2
<1>4. Insides(s, e) = <<>>
  BY <1>3 DEF Insides
<1> QED
  BY <1>1, <1>2, <1>4 DEF ExtractBetweenTags

\* Tokens that the fields of a call may have.
Plain == {x \in Token :
            /\ x.t \in {"text", "open", "close"}
            /\ x.t # "text" =>
                 x.v \notin {"invoke", "function_calls", "tool_name", "parameters"}}

LEMMA FieldsPlain ==
  ASSUME NEW call \in CallShape, WellTagged(call)
  PROVE  FieldsOf(call) \in Seq(Plain)
<1> DEFINE ps == call.params
           ts == Each(Field, call.params)
<1>1. PICK n \in Nat : n = Len(call.params)
  BY ShapeIs
<1>2. ASSUME NEW k \in 1 .. n
      PROVE  Field(ps[k]) \in Seq(Plain)
  <2>1. /\ ps[k].name \in Names /\ ps[k].value \in Seq(Token)
        /\ ps[k].name \notin {"invoke", "function_calls", "tool_name", "parameters"}
        /\ \A j \in 1 .. Len(ps[k].value) : ps[k].value[j].t = "text"
    BY <1>1, ShapeIs DEF WellTagged
  <2>2. Opening(ps[k].name) \in Plain /\ Close(ps[k].name) \in Plain
    <3>1. Opening(ps[k].name) \in Token /\ Close(ps[k].name) \in Token
      BY <2>1, TokenIs
    <3>2. /\ Opening(ps[k].name).t = "open" /\ Opening(ps[k].name).v = ps[k].name
          /\ Close(ps[k].name).t = "close" /\ Close(ps[k].name).v = ps[k].name
      BY DEF Opening, Close
    <3> QED
      BY <2>1, <3>1, <3>2 DEF Plain
  <2>3. ps[k].value \in Seq(Plain)
    <3>1. \A j \in 1 .. Len(ps[k].value) : ps[k].value[j] \in Plain
      BY <2>1, LenProperties DEF Plain
    <3> QED
      BY <2>1, <3>1, SeqOver
  <2>4. IsFramed(Plain, Opening(ps[k].name), ps[k].value, Close(ps[k].name), Field(ps[k]))
    BY <2>2, <2>3, FramedIs DEF Field
  <2> QED
    BY <2>4 DEF IsFramed
<1>3. ts \in Seq(Seq(Plain))
  BY <1>1, <1>2 DEF Each
<1> HIDE DEF ts
<1>4. FlattenSeq(ts) \in Seq(Plain)
  BY <1>3, FlattenTyping
<1> QED
  BY <1>4 DEF FieldsOf, ts

\* What is in the invoke element of the form of tags.
NameOf(call) == Framed(Opening("tool_name"), <<Run(call.tool)>>, Close("tool_name"))
InTagged(call) ==
  NameOf(call)
  \o Framed(Opening("parameters"), FieldsOf(call), Close("parameters"))

ReadCall(call, registry) == ToolCall(call.tool, ReadParams(call, registry))

LEMMA TaggedName ==
  ASSUME NEW call \in CallShape, WellTagged(call)
  PROVE  ExtractBetweenTags("tool_name", InTagged(call)) = <<<<Run(call.tool)>>>>
<1> DEFINE c == [before |-> <<>>, open |-> Opening("tool_name"),
                 body |-> <<Run(call.tool)>>]
           after == Framed(Opening("parameters"), FieldsOf(call), Close("parameters"))
           X == {x \in Token : ~IsOpening(x, {"open"}, "tool_name")}
<1>1. /\ Opening("tool_name") \in Token /\ Close("tool_name") \in Token
      /\ Run(call.tool) \in Token
      /\ Opening("parameters") \in Token /\ Close("parameters") \in Token
  BY TokenIs, TagsAreNames, ShapeIs
<1>2. c \in Cell
  <2>1. <<>> \in Seq(Token) /\ <<Run(call.tool)>> \in Seq(Token)
    BY <1>1
  <2> QED
    BY <1>1, <2>1 DEF Cell
<1>3. after \in Seq(X)
  <2>1. Opening("parameters") \in X /\ Close("parameters") \in X
    BY <1>1 DEF IsOpening, Opening, Close
  <2>2. Plain \subseteq X
    BY DEF Plain, IsOpening
  <2>3. FieldsOf(call) \in Seq(X)
    BY <2>2, FieldsPlain, SeqWidens
  <2> HIDE DEF X
  <2>4. IsFramed(X, Opening("parameters"), FieldsOf(call), Close("parameters"), after)
    BY <2>1, <2>3, FramedIs
  <2> QED
    BY <2>4 DEF IsFramed
<1> HIDE DEF after
<1>4. after \in Seq(Token) /\ Free(after, {"open"}, "tool_name")
  <2>1. X \subseteq Token
    OBVIOUS
  <2>2. after \in Seq(Token)
    BY <1>3, <2>1, SeqWidens
  <2>3. \A i \in 1 .. Len(after) : after[i] \in X
    <3> HIDE DEF X
    <3> QED
      BY <1>3, LenProperties
  <2> QED
    BY <2>2, <2>3 DEF Free
<1>5. Found(c, {"open"}, "tool_name", 1)
  <2>1. Free(<<>>, {"open"}, "tool_name")
    BY DEF Free
  <2>2. IsOpening(Opening("tool_name"), {"open"}, "tool_name")
    BY DEF IsOpening, Opening
  <2>3. Lacks(<<Run(call.tool)>>, {Close("tool_name")})
    <3>1. Run(call.tool) # Close("tool_name")
      BY DEF Run, Close
    <3> QED
      BY <3>1 DEF Lacks
  <2>4. Len(<<Run(call.tool)>>) >= 1
    OBVIOUS
  <2> QED
    BY <2>1, <2>2, <2>3, <2>4 DEF Found
<1>6. CellText(c, "tool_name") = NameOf(call)
  <2>1. NameOf(call) \in Seq(Token)
    <3>1. <<Run(call.tool)>> \in Seq(Token)
      BY <1>1
    <3> QED
      BY <1>1, <3>1, FramedIs DEF NameOf, IsFramed
  <2>2. CellText(c, "tool_name") = <<>> \o NameOf(call)
    BY DEF CellText, NameOf
  <2> QED
    BY <2>1, <2>2
<1> HIDE DEF c
<1>7. PICK cs : cs = <<c>>
  OBVIOUS
<1>8. cs \in Seq(Cell) /\ Len(cs) = 1 /\ cs[1] = c
  BY <1>2, <1>7
<1>9. Laid(cs, after, "tool_name") = InTagged(call)
  BY <1>2, <1>4, <1>6, <1>7, OneCell, TagsAreNames DEF InTagged, after
<1>10. ExtractBetweenTags("tool_name", Laid(cs, after, "tool_name"))
         = [k \in 1 .. Len(cs) |-> cs[k].body]
  <2>1. \A k \in 1 .. Len(cs) : Found(cs[k], {"open"}, "tool_name", 1)
    BY <1>5, <1>8
  <2> QED
    BY <1>4, <1>8, <2>1, ExtractIs, TagsAreNames
<1>11. [k \in 1 .. Len(cs) |-> cs[k].body] = <<c.body>>
  BY <1>8
<1>12. c.body = <<Run(call.tool)>>
  BY DEF c
<1> QED
  BY <1>9, <1>10, <1>11, <1>12

\* Without a token of the set X inside.
LEMMA FreeOf ==
  ASSUME NEW X, X \subseteq Token, NEW kinds, NEW tag,
         \A x \in X : ~IsOpening(x, kinds, tag), NEW s \in Seq(X)
  PROVE  s \in Seq(Token) /\ Free(s, kinds, tag)
<1>1. s \in Seq(Token)
  BY SeqWidens
<1>2. \A i \in 1 .. Len(s) : s[i] \in X
  BY LenProperties
<1> QED
  BY <1>1, <1>2 DEF Free

LEMMA LacksOf ==
  ASSUME NEW X, X \subseteq Token, NEW y, y \notin X, NEW s \in Seq(X)
  PROVE  s \in Seq(Token) /\ Lacks(s, {y})
<1>1. s \in Seq(Token)
  BY SeqWidens
<1>2. \A i \in 1 .. Len(s) : s[i] \in X
  BY LenProperties
<1> QED
  BY <1>1, <1>2 DEF Lacks

LEMMA NameIs ==
  ASSUME NEW call \in CallShape, WellTagged(call), NEW X, X \subseteq Token,
         Opening("tool_name") \in X, Run(call.tool) \in X, Close("tool_name") \in X
  PROVE  NameOf(call) \in Seq(X) /\ Len(NameOf(call)) = 3
<1>1. PICK b : b = <<Run(call.tool)>>
  OBVIOUS
<1>2. b \in Seq(X) /\ Len(b) = 1
  BY <1>1
<1>3. IsFramed(X, Opening("tool_name"), b, Close("tool_name"), NameOf(call))
  BY <1>1, <1>2, FramedIs DEF NameOf
<1> QED
  BY <1>2, <1>3 DEF IsFramed

LEMMA TaggedParameters ==
  ASSUME NEW call \in CallShape, WellTagged(call), FieldsOf(call) # <<>>
  PROVE  ExtractBetweenTags("parameters", InTagged(call)) = <<FieldsOf(call)>>
<1> DEFINE c == [before |-> NameOf(call), open |-> Opening("parameters"),
                 body |-> FieldsOf(call)]
           X == {x \in Token : ~IsOpening(x, {"open"}, "parameters")}
           Y == Token \ {Close("parameters")}
<1>1. /\ Opening("tool_name") \in X /\ Run(call.tool) \in X /\ Close("tool_name") \in X
      /\ Opening("parameters") \in Token /\ Close("parameters") \in Token
  <2>1. /\ Opening("tool_name") \in Token /\ Run(call.tool) \in Token
        /\ Close("tool_name") \in Token
        /\ Opening("parameters") \in Token /\ Close("parameters") \in Token
    BY TokenIs, TagsAreNames, ShapeIs
  <2>2. /\ Opening("tool_name").v # "parameters" /\ Run(call.tool).t # "open"
        /\ Close("tool_name").t # "open"
    BY DEF Opening, Run, Close
  <2> QED
    BY <2>1, <2>2 DEF IsOpening
<1>2. NameOf(call) \in Seq(Token) /\ Free(NameOf(call), {"open"}, "parameters")
  <2>1. X \subseteq Token /\ \A x \in X : ~IsOpening(x, {"open"}, "parameters")
    OBVIOUS
  <2> HIDE DEF X
  <2>2. NameOf(call) \in Seq(X)
    BY <1>1, <2>1, NameIs
  <2> QED
    BY <2>1, <2>2, FreeOf
<1>3. FieldsOf(call) \in Seq(Token) /\ Lacks(FieldsOf(call), {Close("parameters")})
  <2>1. Plain \subseteq Token /\ Close("parameters") \notin Plain
    BY DEF Plain, Close
  <2> QED
    BY <2>1, FieldsPlain, LacksOf
<1>4. c \in Cell
  BY <1>1, <1>2, <1>3 DEF Cell
<1>5. Found(c, {"open"}, "parameters", 1)
  <2>1. IsOpening(Opening("parameters"), {"open"}, "parameters")
    BY DEF IsOpening, Opening
  <2>2. PICK f \in Seq(Token) : f = FieldsOf(call)
    BY <1>3
  <2>3. Len(f) >= 1
    <3>1. f # <<>>
      BY <2>2
    <3> QED
      BY <3>1
  <2> QED
    BY <1>2, <1>3, <2>1, <2>2, <2>3 DEF Found
<1>6. CellText(c, "parameters") = InTagged(call)
  BY DEF CellText, InTagged
<1>7. c.body = FieldsOf(call)
  OBVIOUS
<1> HIDE DEF c
<1>8. PICK cs : cs = <<c>>
  OBVIOUS
<1>9. cs \in Seq(Cell) /\ Len(cs) = 1 /\ cs[1] = c
  BY <1>4, <1>8
<1>10. Laid(cs, <<>>, "parameters") = InTagged(call)
  <2>1. <<>> \in Seq(Token)
    OBVIOUS
  <2>2. /\ CellText(c, "parameters") \in Seq(Token)
        /\ Laid(cs, <<>>, "parameters") = CellText(c, "parameters") \o <<>>
    BY <1>4, <1>8, <2>1, OneCell, TagsAreNames
  <2>3. InTagged(call) \in Seq(Token)
        /\ Laid(cs, <<>>, "parameters") = InTagged(call) \o <<>>
    BY <1>6, <2>2
  <2> QED
    BY <2>3
<1>11. ExtractBetweenTags("parameters", Laid(cs, <<>>, "parameters"))
         = [k \in 1 .. Len(cs) |-> cs[k].body]
  <2>1. \A k \in 1 .. Len(cs) : Found(cs[k], {"open"}, "parameters", 1)
    BY <1>5, <1>9
  <2>2. <<>> \in Seq(Token) /\ Free(<<>>, {"open"}, "parameters")
    BY DEF Free
  <2> QED
    BY <1>9, <2>1, <2>2, ExtractIs, TagsAreNames
<1>12. [k \in 1 .. Len(cs) |-> cs[k].body] = <<c.body>>
  BY <1>9
<1> QED
  BY <1>7, <1>10, <1>11, <1>12

LEMMA TaggedNoParameters ==
  ASSUME NEW call \in CallShape, WellTagged(call), FieldsOf(call) = <<>>
  PROVE  ExtractBetweenTags("parameters", InTagged(call)) = <<>>
<1>1. PICK a : a = NameOf(call)
  OBVIOUS
<1>2. PICK b : b = Framed(Opening("parameters"), FieldsOf(call), Close("parameters"))
  OBVIOUS
<1>3. PICK s : s = a \o b
  OBVIOUS
<1> DEFINE X == {x \in Token : ~IsOpening(x, {"open"}, "parameters")}
<1>4. /\ Opening("tool_name") \in X /\ Run(call.tool) \in X /\ Close("tool_name") \in X
      /\ Opening("parameters") \in Token /\ Close("parameters") \in Token
  <2>1. /\ Opening("tool_name") \in Token /\ Run(call.tool) \in Token
        /\ Close("tool_name") \in Token
        /\ Opening("parameters") \in Token /\ Close("parameters") \in Token
    BY TokenIs, TagsAreNames, ShapeIs
  <2>2. /\ Opening("tool_name").v # "parameters" /\ Run(call.tool).t # "open"
        /\ Close("tool_name").t # "open"
    BY DEF Opening, Run, Close
  <2> QED
    BY <2>1, <2>2 DEF IsOpening
<1>5. a \in Seq(Token) /\ Len(a) = 3 /\ Free(a, {"open"}, "parameters")
  <2>1. X \subseteq Token /\ \A x \in X : ~IsOpening(x, {"open"}, "parameters")
    OBVIOUS
  <2> HIDE DEF X
  <2>2. a \in Seq(X) /\ Len(a) = 3
    BY <1>1, <1>4, <2>1, NameIs
  <2> QED
    BY <2>1, <2>2, FreeOf
<1>6. b \in Seq(Token) /\ Len(b) = 2
  <2>1. PICK f : f = FieldsOf(call)
    OBVIOUS
  <2>2. f \in Seq(Token) /\ Len(f) = 0
    BY <2>1
  <2>3. IsFramed(Token, Opening("parameters"), f, Close("parameters"), b)
    BY <1>2, <1>4, <2>1, <2>2, FramedIs
  <2> QED
    BY <2>2, <2>3 DEF IsFramed
<1>7. Joined(Token, a, b, s)
  BY <1>3, <1>5, <1>6, ConcatPlaces
<1>8. /\ s \in Seq(Token) /\ Len(s) = 5 /\ \A i \in 1 .. 3 : s[i] = a[i]
  BY <1>5, <1>6, <1>7 DEF Joined
<1>9. Begins(s, {"open"}, "parameters", 1, 1) = {}
  <2> SUFFICES ASSUME NEW j \in 1 .. 5, NEW k \in j + 1 + 1 .. 5,
                      IsOpening(s[j], {"open"}, "parameters")
               PROVE  FALSE
    BY <1>8 DEF Begins
  <2>1. j \in 1 .. 3
    OBVIOUS
  <2>2. ~IsOpening(a[j], {"open"}, "parameters") /\ s[j] = a[j]
    BY <1>5, <1>8, <2>1 DEF Free
  <2> QED
    BY <2>2
<1> QED
  BY <1>1, <1>2, <1>3, <1>8, <1>9, ExtractNothing DEF InTagged

\* A call in the form of tags is read as it was meant.
LEMMA TaggedIs ==
  ASSUME NEW call \in CallShape, DistinctNames(call), WellTagged(call), NEW registry
  PROVE  TryParseTagInvoke(InTagged(call), registry) = <<ReadCall(call, registry)>>
<1> DEFINE s == InTagged(call)
           names == ExtractBetweenTags("tool_name", s)
           params == ExtractBetweenTags("parameters", s)
           tool == names[1][1].v
           read == IF params = <<>> THEN <<>> ELSE ParseXmlParams(params[1], tool, registry)
<1>1. names = <<<<Run(call.tool)>>>>
  BY TaggedName
<1>2. TryParseTagInvoke(s, registry)
        = IF names = <<>> \/ Head(names)[1].t # "text" THEN <<>>
          ELSE <<ToolCall(tool, read)>>
  BY Zenon DEF TryParseTagInvoke
<1>3. tool = call.tool /\ names # <<>> /\ Head(names)[1].t = "text"
  <2> HIDE DEF names
  <2>1. names[1] = <<Run(call.tool)>> /\ Head(names) = <<Run(call.tool)>> /\ names # <<>>
    BY <1>1
  <2>2. names[1][1] = Run(call.tool) /\ Head(names)[1] = Run(call.tool)
    BY <2>1
  <2>3. Run(call.tool).v = call.tool /\ Run(call.tool).t = "text"
    BY DEF Run
  <2> QED
    BY <2>1, <2>2, <2>3
<1>4. read = ReadParams(call, registry)
  <2>1. CASE FieldsOf(call) = <<>>
    <3>1. params = <<>>
      BY <2>1, TaggedNoParameters
    <3>2. Len(call.params) = 0
      <4>1. PICK n \in Nat : n = Len(call.params)
        BY ShapeIs
      <4>2. PICK t : t = FieldsOf(call)
        OBVIOUS
      <4>3. PICK o : /\ o \in [0 .. n -> Nat]
                     /\ \A k \in 1 .. n : FieldAt(t, o[k - 1], o[k], call.params[k].name,
                                                  call.params[k].value)
        BY <4>1, <4>2, FieldsAre
      <4>4. Len(t) = 0
        BY <2>1, <4>2
      <4>5. ASSUME n # 0
            PROVE  FALSE
        <5>1. 1 \in 1 .. n
          BY <4>5
        <5>2. FieldAt(t, o[1 - 1], o[1], call.params[1].name, call.params[1].value)
          BY <4>3, <5>1
        <5> QED
          BY <4>4, <5>2 DEF FieldAt
      <4> QED
        BY <4>1, <4>5
    <3>3. ParamNames(call) = {}
      BY <3>2 DEF ParamNames
    <3>4. ReadParams(call, registry) = <<>>
      BY <3>3 DEF ReadParams
    <3> QED
      BY <3>1, <3>4
  <2>2. CASE FieldsOf(call) # <<>>
    <3>1. params = <<FieldsOf(call)>>
      BY <2>2, TaggedParameters
    <3> HIDE DEF params, tool
    <3>2. params # <<>> /\ params[1] = FieldsOf(call)
      BY <3>1
    <3>3. read = ParseXmlParams(FieldsOf(call), call.tool, registry)
      BY <1>3, <3>2
    <3> QED
      BY <3>3, XmlParamsAre
  <2> QED
    BY <2>1, <2>2
<1> HIDE DEF names, tool, read
<1> QED
  BY <1>2, <1>3, <1>4 DEF ReadCall, s

\* So is one in the form of attributes.
LEMMA NamedIs ==
  ASSUME NEW call \in CallShape, DistinctNames(call), WellInvoked(call), NEW registry
  PROVE  TryParseAttrInvoke(call.tool, ParametersOf(call), registry)
           = <<ReadCall(call, registry)>>
BY AttributeParamsAre, ShapeIs DEF TryParseAttrInvoke, ReadCall

\* What has no name of a tool is no call in the form of tags.
LEMMA Untagged ==
  ASSUME NEW s \in Seq(Token \ {Opening("tool_name")}), NEW registry
  PROVE  TryParseTagInvoke(s, registry) = <<>>
<1> DEFINE X == Token \ {Opening("tool_name")}
           names == ExtractBetweenTags("tool_name", s)
<1>1. X \subseteq Token /\ \A x \in X : ~IsOpening(x, {"open"}, "tool_name")
  BY TokenOf DEF IsOpening
<1>2. s \in Seq(Token) /\ Free(s, {"open"}, "tool_name")
  <2>1. s \in Seq(X)
    OBVIOUS
  <2> HIDE DEF X
  <2> QED
    BY <1>1, <2>1, FreeOf
<1>3. Begins(s, {"open"}, "tool_name", 1, 1) = {}
  BY <1>2, NoOpening
<1>4. names = <<>>
  BY <1>2, <1>3, ExtractNothing
<1> QED
  BY <1>4, Zenon DEF TryParseTagInvoke

-----------------------------------------------------------------------------
(***************************************************************************)
(* Calls with prose around them.                                           *)
(***************************************************************************)
WellCall(tagged, call) ==
  DistinctNames(call) /\ IF tagged THEN WellTagged(call) ELSE WellInvoked(call)
InCall(tagged, call) == IF tagged THEN InTagged(call) ELSE ParametersOf(call)
OpeningOf(tagged, call) == IF tagged THEN Opening("invoke") ELSE Attr("invoke", call.tool)
OneCall(tagged, call) == IF tagged THEN Tagged(call) ELSE Invoke(call)

\* Tokens that a call may have inside of its element.
InnerTokens(tagged) ==
  {x \in Token : /\ x # Close("invoke") /\ x # Close("function_calls")
                 /\ IF tagged THEN ~IsOpening(x, {"attr", "unnamed"}, "invoke")
                    ELSE x # Opening("tool_name")}

LEMMA ParametersInner ==
  ASSUME NEW call \in CallShape, WellInvoked(call)
  PROVE  ParametersOf(call) \in Seq(InnerTokens(FALSE))
<1> DEFINE ps == call.params
           ts == Each(Parameter, call.params)
           X == InnerTokens(FALSE)
<1>1. PICK n \in Nat : n = Len(call.params)
  BY ShapeIs
<1>2. ASSUME NEW k \in 1 .. n
      PROVE  Parameter(ps[k]) \in Seq(X)
  <2>1. /\ ps[k].name \in Names /\ ps[k].value \in Seq(Token)
        /\ Lacks(ps[k].value, {Close("parameter"), Close("invoke"),
                               Close("function_calls"), Opening("tool_name")})
    BY <1>1, ShapeIs DEF WellInvoked
  <2>2. Attr("parameter", ps[k].name) \in X /\ Close("parameter") \in X
    <3>1. Attr("parameter", ps[k].name) \in Token /\ Close("parameter") \in Token
      BY <2>1, TokenIs, TagsAreNames
    <3>2. /\ Attr("parameter", ps[k].name) # Close("invoke")
          /\ Attr("parameter", ps[k].name) # Close("function_calls")
          /\ Attr("parameter", ps[k].name) # Opening("tool_name")
      BY DEF Attr, Close, Opening
    <3>3. /\ Close("parameter") # Close("invoke")
          /\ Close("parameter") # Close("function_calls")
          /\ Close("parameter") # Opening("tool_name")
      BY DEF Close, Opening
    <3> QED
      BY <3>1, <3>2, <3>3 DEF InnerTokens
  <2>3. ps[k].value \in Seq(X)
    <3>1. \A j \in 1 .. Len(ps[k].value) : ps[k].value[j] \in X
      <4> SUFFICES ASSUME NEW j \in 1 .. Len(ps[k].value)
                   PROVE  ps[k].value[j] \in X
        OBVIOUS
      <4>1. ps[k].value[j] \in Token
        BY <2>1, LenProperties
      <4> QED
        BY <2>1, <4>1 DEF Lacks, InnerTokens
    <3> QED
      BY <2>1, <3>1, SeqOver
  <2> HIDE DEF X
  <2>4. IsFramed(X, Attr("parameter", ps[k].name), ps[k].value, Close("parameter"),
                 Parameter(ps[k]))
    BY <2>2, <2>3, FramedIs DEF Parameter
  <2> QED
    BY <2>4 DEF IsFramed
<1> HIDE DEF X
<1>3. ts \in Seq(Seq(X))
  BY <1>1, <1>2 DEF Each
<1> HIDE DEF ts
<1>4. FlattenSeq(ts) \in Seq(X)
  BY <1>3, FlattenTyping
<1> QED
  BY <1>4 DEF ParametersOf, ts, X

LEMMA TaggedInner ==
  ASSUME NEW call \in CallShape, WellTagged(call)
  PROVE  InTagged(call) \in Seq(InnerTokens(TRUE)) /\ Len(InTagged(call)) >= 1
<1> DEFINE X == InnerTokens(TRUE)
<1>1. PICK a : a = NameOf(call)
  OBVIOUS
<1>2. PICK b : b = Framed(Opening("parameters"), FieldsOf(call), Close("parameters"))
  OBVIOUS
<1>3. /\ Opening("tool_name") \in X /\ Run(call.tool) \in X /\ Close("tool_name") \in X
      /\ Opening("parameters") \in X /\ Close("parameters") \in X
  <2>1. /\ Opening("tool_name") \in Token /\ Run(call.tool) \in Token
        /\ Close("tool_name") \in Token
        /\ Opening("parameters") \in Token /\ Close("parameters") \in Token
    BY TokenIs, TagsAreNames, ShapeIs
  <2>2. /\ Opening("tool_name").t = "open" /\ Opening("parameters").t = "open"
        /\ Run(call.tool).t = "text"
    BY DEF Opening, Run
  <2>3. /\ Close("tool_name").t = "close" /\ Close("parameters").t = "close"
        /\ Close("tool_name").v = "tool_name" /\ Close("parameters").v = "parameters"
        /\ Close("invoke").t = "close" /\ Close("function_calls").t = "close"
        /\ Close("invoke").v = "invoke" /\ Close("function_calls").v = "function_calls"
    BY DEF Close
  <2> QED
    BY <2>1, <2>2, <2>3 DEF InnerTokens, IsOpening
<1>4. FieldsOf(call) \in Seq(X)
  <2>1. Plain \subseteq X
    BY DEF Plain, InnerTokens, IsOpening, Close
  <2> HIDE DEF X
  <2> QED
    BY <2>1, FieldsPlain, SeqWidens
<1>5. X \subseteq Token
  BY DEF InnerTokens
<1> HIDE DEF X
<1>6. a \in Seq(X) /\ Len(a) = 3
  BY <1>1, <1>3, <1>5, NameIs
<1>7. b \in Seq(X)
  <2>1. IsFramed(X, Opening("parameters"), FieldsOf(call), Close("parameters"), b)
    BY <1>2, <1>3, <1>4, FramedIs
  <2> QED
    BY <2>1 DEF IsFramed
<1>8. PICK s : s = a \o b
  OBVIOUS
<1>9. Joined(X, a, b, s)
  BY <1>6, <1>7, <1>8, ConcatPlaces
<1>10. s \in Seq(X) /\ Len(s) >= 1
  BY <1>6, <1>9 DEF Joined
<1> QED
  BY <1>1, <1>2, <1>8, <1>10 DEF InTagged, X

LEMMA CallInner ==
  ASSUME NEW tagged \in BOOLEAN, NEW call \in CallShape, WellCall(tagged, call)
  PROVE  /\ InCall(tagged, call) \in Seq(InnerTokens(tagged))
         /\ InCall(tagged, call) \in Seq(Token)
         /\ tagged => Len(InCall(tagged, call)) >= 1
         /\ OpeningOf(tagged, call) \in Token
         /\ OneCall(tagged, call)
              = Framed(OpeningOf(tagged, call), InCall(tagged, call), Close("invoke"))
<1>1. InCall(tagged, call) \in Seq(InnerTokens(tagged))
      /\ (tagged => Len(InCall(tagged, call)) >= 1)
  <2>1. CASE tagged
    <3>1. InCall(tagged, call) = InTagged(call) /\ WellTagged(call) /\ tagged = TRUE
      BY <2>1 DEF InCall, WellCall
    <3> QED
      BY <3>1, TaggedInner
  <2>2. CASE ~tagged
    <3>1. InCall(tagged, call) = ParametersOf(call) /\ WellInvoked(call) /\ tagged = FALSE
      BY <2>2 DEF InCall, WellCall
    <3> QED
      BY <2>2, <3>1, ParametersInner
  <2> QED
    BY <2>1, <2>2
<1>2. InnerTokens(tagged) \subseteq Token
  BY DEF InnerTokens
<1>3. InCall(tagged, call) \in Seq(Token)
  BY <1>1, <1>2, SeqWidens
<1>4. OpeningOf(tagged, call) \in Token
  BY TokenIs, TagsAreNames, ShapeIs DEF OpeningOf
<1>5. OneCall(tagged, call)
        = Framed(OpeningOf(tagged, call), InCall(tagged, call), Close("invoke"))
  <2>1. Tagged(call) = Framed(Opening("invoke"), InTagged(call), Close("invoke"))
    BY Zenon DEF Tagged, InTagged, NameOf, FieldsOf
  <2>2. Invoke(call) = Framed(Attr("invoke", call.tool), ParametersOf(call), Close("invoke"))
    BY Zenon DEF Invoke, ParametersOf
  <2> QED
    BY <2>1, <2>2 DEF OneCall, OpeningOf, InCall
<1> QED
  BY <1>1, <1>3, <1>4, <1>5

\* Calls with prose around them.
BarePart == [before : Seq(Token), call : CallShape]
Bare(tagged, bs, after) ==
  FlattenSeq([k \in 1 .. Len(bs) |-> bs[k].before \o OneCall(tagged, bs[k].call)]) \o after

\* What may be around them.
Around(tagged) ==
  {x \in Token : /\ ~(x.v = "invoke" /\ x.t # "close")
                 /\ ~tagged => x # Opening("tool_name")}
WellBare(tagged, bs, after) ==
  /\ bs \in Seq(BarePart) /\ after \in Seq(Around(tagged))
  /\ \A k \in 1 .. Len(bs) :
       bs[k].before \in Seq(Around(tagged)) /\ WellCall(tagged, bs[k].call)

BareCell(tagged, b) ==
  [before |-> b.before, open |-> OpeningOf(tagged, b.call), body |-> InCall(tagged, b.call)]
BareCells(tagged, bs) == [k \in 1 .. Len(bs) |-> BareCell(tagged, bs[k])]

LEMMA BareIs ==
  ASSUME NEW tagged \in BOOLEAN, NEW bs, NEW after, WellBare(tagged, bs, after)
  PROVE  /\ BareCells(tagged, bs) \in Seq(Cell) /\ Len(BareCells(tagged, bs)) = Len(bs)
         /\ Len(bs) \in Nat /\ after \in Seq(Token)
         /\ \A k \in 1 .. Len(bs) : BareCells(tagged, bs)[k] = BareCell(tagged, bs[k])
         /\ Bare(tagged, bs, after) = Laid(BareCells(tagged, bs), after, "invoke")
<1>1. PICK n \in Nat : n = Len(bs)
  BY LenProperties DEF WellBare
<1>2. \A k \in 1 .. n : /\ bs[k] \in BarePart /\ bs[k].before \in Seq(Token)
                        /\ bs[k].call \in CallShape /\ WellCall(tagged, bs[k].call)
  <2>1. \A k \in 1 .. n : bs[k] \in BarePart /\ WellCall(tagged, bs[k].call)
    BY <1>1, LenProperties DEF WellBare
  <2> QED
    BY <2>1 DEF BarePart
<1>3. ASSUME NEW k \in 1 .. n
      PROVE  /\ BareCell(tagged, bs[k]) \in Cell
             /\ CellText(BareCell(tagged, bs[k]), "invoke")
                  = bs[k].before \o OneCall(tagged, bs[k].call)
  <2>1. /\ InCall(tagged, bs[k].call) \in Seq(Token)
        /\ OpeningOf(tagged, bs[k].call) \in Token
        /\ OneCall(tagged, bs[k].call)
             = Framed(OpeningOf(tagged, bs[k].call), InCall(tagged, bs[k].call),
                      Close("invoke"))
    BY <1>2, CallInner
  <2> QED
    BY <1>2, <2>1 DEF BareCell, Cell, CellText
<1>4. /\ BareCells(tagged, bs) \in Seq(Cell) /\ Len(BareCells(tagged, bs)) = n
      /\ \A k \in 1 .. n : BareCells(tagged, bs)[k] = BareCell(tagged, bs[k])
  <2>1. BareCells(tagged, bs) = [k \in 1 .. n |-> BareCell(tagged, bs[k])]
    BY <1>1 DEF BareCells
  <2>2. PICK cs : cs = BareCells(tagged, bs)
    OBVIOUS
  <2>3. \A k \in 1 .. n : BareCell(tagged, bs[k]) \in Cell
    BY <1>3
  <2>4. \A k \in 1 .. n : cs[k] = BareCell(tagged, bs[k])
    BY <2>1, <2>2
  <2>5. cs \in [1 .. n -> Cell]
    BY <2>1, <2>2, <2>3
  <2>6. cs \in Seq(Cell) /\ Len(cs) = n
    BY <2>5
  <2> QED
    BY <2>2, <2>4, <2>6
<1>5. [k \in 1 .. Len(BareCells(tagged, bs)) |-> CellText(BareCells(tagged, bs)[k], "invoke")]
        = [k \in 1 .. Len(bs) |-> bs[k].before \o OneCall(tagged, bs[k].call)]
  BY <1>1, <1>3, <1>4
<1>6. after \in Seq(Token)
  <2>1. Around(tagged) \subseteq Token
    BY DEF Around
  <2> QED
    BY <2>1, SeqWidens DEF WellBare
<1> QED
  BY <1>1, <1>4, <1>5, <1>6 DEF Bare, Laid

\* How an invoke element of the one form or the other begins.
LEMMA CallFound ==
  ASSUME NEW tagged \in BOOLEAN, NEW bs, NEW after, WellBare(tagged, bs, after),
         NEW kinds, NEW min \in {0, 1}, min = 1 => tagged,
         kinds \subseteq {"open", "attr", "unnamed"},
         IF tagged THEN "open" \in kinds ELSE {"attr", "unnamed"} \subseteq kinds
  PROVE  /\ \A k \in 1 .. Len(bs) :
              Found(BareCells(tagged, bs)[k], kinds, "invoke", min)
         /\ Free(after, kinds, "invoke")
<1>1. /\ \A x \in Around(tagged) : ~IsOpening(x, kinds, "invoke")
      /\ Around(tagged) \subseteq Token
  BY DEF Around, IsOpening
<1>2. \A s \in Seq(Around(tagged)) : Free(s, kinds, "invoke")
  BY <1>1, FreeOf
<1>3. ASSUME NEW k \in 1 .. Len(bs)
      PROVE  Found(BareCell(tagged, bs[k]), kinds, "invoke", min)
  <2>1. bs[k] \in BarePart /\ bs[k].before \in Seq(Around(tagged))
        /\ WellCall(tagged, bs[k].call)
    BY LenProperties DEF WellBare
  <2>2. PICK call \in CallShape : call = bs[k].call
    BY <2>1 DEF BarePart
  <2>3. InCall(tagged, call) \in Seq(InnerTokens(tagged))
        /\ InCall(tagged, call) \in Seq(Token)
        /\ (tagged => Len(InCall(tagged, call)) >= 1)
    BY <2>1, <2>2, CallInner
  <2>4. Lacks(InCall(tagged, call), {Close("invoke")})
    <3>1. InnerTokens(tagged) \subseteq Token /\ Close("invoke") \notin InnerTokens(tagged)
      BY DEF InnerTokens
    <3> QED
      BY <2>3, <3>1, LacksOf
  <2>5. Len(InCall(tagged, call)) >= min
    BY <2>3, LenProperties
  <2>6. IsOpening(OpeningOf(tagged, call), kinds, "invoke")
    <3>1. Opening("invoke").t = "open" /\ Opening("invoke").v = "invoke"
      BY DEF Opening
    <3>2. /\ Attr("invoke", call.tool).t \in {"attr", "unnamed"}
          /\ Attr("invoke", call.tool).v = "invoke"
      BY DEF Attr
    <3>3. CASE tagged
      BY <3>1, <3>3 DEF OpeningOf, IsOpening
    <3>4. CASE ~tagged
      BY <3>2, <3>4 DEF OpeningOf, IsOpening
    <3> QED
      BY <3>3, <3>4
  <2>7. Free(bs[k].before, kinds, "invoke")
    BY <1>2, <2>1
  <2> QED
    BY <2>2, <2>4, <2>5, <2>6, <2>7 DEF Found, BareCell
<1>4. after \in Seq(Around(tagged))
  BY DEF WellBare
<1> QED
  BY <1>2, <1>3, <1>4, BareIs

\* The tokens of the whole.
LEMMA BareOver ==
  ASSUME NEW tagged \in BOOLEAN, NEW bs, NEW after, WellBare(tagged, bs, after),
         NEW X, X \subseteq Token, InnerTokens(tagged) \subseteq X,
         Close("invoke") \in X, after \in Seq(X),
         \A k \in 1 .. Len(bs) : bs[k].before \in Seq(X)
                                 /\ OpeningOf(tagged, bs[k].call) \in X
  PROVE  Bare(tagged, bs, after) \in Seq(X)
<1> DEFINE F(k) == bs[k].before \o OneCall(tagged, bs[k].call)
           ts == [k \in 1 .. Len(bs) |-> F(k)]
<1>1. Len(bs) \in Nat
  BY BareIs
<1>2. ASSUME NEW k \in 1 .. Len(bs)
      PROVE  F(k) \in Seq(X)
  <2>1. bs[k] \in BarePart /\ WellCall(tagged, bs[k].call)
    BY LenProperties DEF WellBare
  <2>2. PICK call \in CallShape : call = bs[k].call
    BY <2>1 DEF BarePart
  <2>3. /\ InCall(tagged, call) \in Seq(InnerTokens(tagged))
        /\ OneCall(tagged, call)
             = Framed(OpeningOf(tagged, call), InCall(tagged, call), Close("invoke"))
    BY <2>1, <2>2, CallInner
  <2>4. InCall(tagged, call) \in Seq(X)
    BY <2>3, SeqWidens
  <2>5. IsPiece(X, bs[k].before, OpeningOf(tagged, call), InCall(tagged, call),
                Close("invoke"),
                bs[k].before \o Framed(OpeningOf(tagged, call), InCall(tagged, call),
                                       Close("invoke")))
    BY <2>2, <2>4, PieceIs
  <2> QED
    BY <2>2, <2>3, <2>5 DEF IsPiece
<1> HIDE DEF F
<1>3. ts \in Seq(Seq(X))
  BY <1>1, <1>2
<1> HIDE DEF ts
<1>4. FlattenSeq(ts) \in Seq(X)
  BY <1>3, FlattenTyping
<1>5. Bare(tagged, bs, after) = FlattenSeq(ts) \o after
  BY Zenon DEF Bare, ts, F
<1> QED
  BY <1>4, <1>5

\* The calls of bs, as they are read.
ReadCalls(bs, registry) == [k \in 1 .. Len(bs) |-> ReadCall(bs[k].call, registry)]

LEMMA OnesFlatten ==
  ASSUME NEW n \in Nat, NEW r
  PROVE  FlattenSeq([k \in 1 .. n |-> <<r[k]>>]) = [k \in 1 .. n |-> r[k]]
<1> DEFINE S == {r[k] : k \in 1 .. n}
           x == [k \in 1 .. n |-> r[k]]
<1>1. x \in Seq(S) /\ Len(x) = n /\ \A k \in 1 .. n : x[k] = r[k]
  OBVIOUS
<1>2. Singles(x) = [k \in 1 .. n |-> <<r[k]>>]
  <2> HIDE DEF x
  <2> QED
    BY <1>1 DEF Singles
<1>3. FlattenSeq(Singles(x)) = x
  <2> HIDE DEF x, S
  <2> QED
    BY <1>1, FlattenSingles
<1> QED
  BY <1>2, <1>3

LEMMA NonesFlatten ==
  ASSUME NEW n \in Nat
  PROVE  FlattenSeq([k \in 1 .. n |-> <<>>]) = <<>>
<1> DEFINE S == 1 .. n
           x == [k \in 1 .. n |-> k]
           f == [y \in S |-> <<>>]
<1>1. x \in Seq(S) /\ Len(x) = n /\ \A k \in 1 .. n : x[k] = k
  OBVIOUS
<1>2. \A y \in S : f[y] = <<>>
  OBVIOUS
<1>3. Mapped(f, x) = [k \in 1 .. n |-> <<>>]
  <2>1. \A k \in 1 .. n : f[x[k]] = <<>>
    OBVIOUS
  <2> HIDE DEF f, x
  <2> QED
    BY <1>1, <2>1 DEF Mapped
<1> HIDE DEF f, S
<1>4. FlattenSeq(Mapped(f, x)) = <<>>
  <2> HIDE DEF x
  <2> QED
    BY <1>1, <1>2, FlattenNothing
<1> QED
  BY <1>3, <1>4

TaggedPart(s, registry) ==
  LET tagged == ExtractBetweenTags("invoke", s)
  IN  FlattenSeq([i \in 1 .. Len(tagged) |-> TryParseTagInvoke(tagged[i], registry)])
NamedPart(s, registry) ==
  LET named == Matches(s, {"attr", "unnamed"}, "invoke", 0)
  IN  FlattenSeq([i \in 1 .. Len(named) |->
                     TryParseAttrInvoke(s[named[i].b].name, Inside(s, named[i]), registry)])

LEMMA ReadCallsAre ==
  ASSUME NEW n \in Nat, NEW bs, Len(bs) = n, NEW registry, NEW g,
         \A k \in 1 .. n : g[k] = <<ReadCall(bs[k].call, registry)>>
  PROVE  /\ FlattenSeq([k \in 1 .. n |-> g[k]]) = ReadCalls(bs, registry)
         /\ ReadCalls(bs, registry) \o <<>> = ReadCalls(bs, registry)
         /\ <<>> \o ReadCalls(bs, registry) = ReadCalls(bs, registry)
<1> DEFINE r == [k \in 1 .. n |-> ReadCall(bs[k].call, registry)]
           S == {ReadCall(bs[k].call, registry) : k \in 1 .. n}
<1>1. \A k \in 1 .. n : r[k] = ReadCall(bs[k].call, registry)
  OBVIOUS
<1>2. r \in Seq(S)
  OBVIOUS
<1>3. ReadCalls(bs, registry) = r
  BY DEF ReadCalls
<1> HIDE DEF r, S
<1>4. [k \in 1 .. n |-> g[k]] = [k \in 1 .. n |-> <<r[k]>>]
  BY <1>1
<1>5. FlattenSeq([k \in 1 .. n |-> <<r[k]>>]) = [k \in 1 .. n |-> r[k]]
  BY OnesFlatten
<1>6. [k \in 1 .. n |-> r[k]] = r
  <2>1. DOMAIN r = 1 .. n
    BY DEF r
  <2>2. r = [k \in DOMAIN r |-> r[k]]
    BY <1>2
  <2> QED
    BY <2>1, <2>2
<1>7. r \o <<>> = r /\ <<>> \o r = r
  BY <1>2
<1> QED
  BY <1>3, <1>4, <1>5, <1>6, <1>7

LEMMA TaggedRead ==
  ASSUME NEW bs, NEW after, WellBare(TRUE, bs, after), NEW registry
  PROVE  LET s == Bare(TRUE, bs, after)
         IN  TaggedPart(s, registry) = ReadCalls(bs, registry) /\ NamedPart(s, registry) = <<>>
<1> DEFINE cs == BareCells(TRUE, bs)
           got == [k \in 1 .. Len(cs) |-> cs[k].body]
           s == Bare(TRUE, bs, after)
<1>1. PICK n \in Nat : n = Len(bs)
  BY BareIs
<1>2. /\ cs \in Seq(Cell) /\ Len(cs) = n /\ after \in Seq(Token)
      /\ \A k \in 1 .. n : cs[k] = BareCell(TRUE, bs[k])
      /\ s = Laid(cs, after, "invoke")
  BY <1>1, BareIs
<1>3. (\A k \in 1 .. n : Found(cs[k], {"open"}, "invoke", 1)) /\ Free(after, {"open"}, "invoke")
  BY <1>1, CallFound
<1>4. \A k \in 1 .. n : cs[k].body = InTagged(bs[k].call) /\ bs[k].call \in CallShape
                        /\ DistinctNames(bs[k].call) /\ WellTagged(bs[k].call)
  <2>1. \A k \in 1 .. n : bs[k] \in BarePart /\ WellCall(TRUE, bs[k].call)
    BY <1>1, LenProperties DEF WellBare
  <2>2. \A k \in 1 .. n : cs[k].body = InTagged(bs[k].call)
    <3>1. \A b : BareCell(TRUE, b).body = InTagged(b.call)
      BY DEF BareCell, InCall
    <3> HIDE DEF cs
    <3> QED
      BY <1>2, <3>1
  <2> QED
    BY <2>1, <2>2 DEF BarePart, WellCall
<1> HIDE DEF cs, s
<1>5. ExtractBetweenTags("invoke", s) = got
  BY <1>2, <1>3, ExtractIs, TagsAreNames
<1>6. Len(got) = n /\ \A k \in 1 .. n : got[k] = cs[k].body
  BY <1>2
<1> HIDE DEF got
<1>7. TaggedPart(s, registry) = ReadCalls(bs, registry)
  <2> DEFINE g == [k \in 1 .. n |-> TryParseTagInvoke(got[k], registry)]
  <2>1. TaggedPart(s, registry) = FlattenSeq(g)
    BY <1>5, <1>6 DEF TaggedPart
  <2>2. \A k \in 1 .. n : g[k] = <<ReadCall(bs[k].call, registry)>>
    BY <1>4, <1>6, TaggedIs
  <2>3. g = [k \in 1 .. n |-> g[k]]
    OBVIOUS
  <2> HIDE DEF g
  <2>4. FlattenSeq([k \in 1 .. n |-> g[k]]) = ReadCalls(bs, registry)
    BY <1>1, <2>2, ReadCallsAre
  <2> QED
    BY <2>1, <2>3, <2>4
<1>8. NamedPart(s, registry) = <<>>
  <2> DEFINE X == {x \in Token : ~IsOpening(x, {"attr", "unnamed"}, "invoke")}
  <2>1. InnerTokens(TRUE) \subseteq X /\ Around(TRUE) \subseteq X /\ X \subseteq Token
        /\ \A x \in X : ~IsOpening(x, {"attr", "unnamed"}, "invoke")
    BY DEF InnerTokens, Around, IsOpening
  <2>2. Close("invoke") \in X /\ Opening("invoke") \in X
    <3>1. Close("invoke") \in Token /\ Opening("invoke") \in Token
      BY TokenIs, TagsAreNames
    <3>2. Close("invoke").t = "close" /\ Opening("invoke").t = "open"
      BY DEF Opening, Close
    <3> QED
      BY <3>1, <3>2 DEF IsOpening
  <2> HIDE DEF X
  <2>3. after \in Seq(X)
    BY <2>1, SeqWidens DEF WellBare
  <2>4. \A k \in 1 .. Len(bs) : bs[k].before \in Seq(X)
                                 /\ OpeningOf(TRUE, bs[k].call) \in X
    BY <2>1, <2>2, SeqWidens DEF WellBare, OpeningOf
  <2>5. s \in Seq(X)
    BY <2>1, <2>2, <2>3, <2>4, BareOver DEF s
  <2>6. s \in Seq(Token) /\ Free(s, {"attr", "unnamed"}, "invoke")
    BY <2>1, <2>5, FreeOf
  <2>7. Matches(s, {"attr", "unnamed"}, "invoke", 0) = <<>>
    BY <2>6, NoOpening, NoMatch
  <2>8. PICK e : e = <<>>
    OBVIOUS
  <2>9. Len(e) = 0 /\ e = Matches(s, {"attr", "unnamed"}, "invoke", 0)
    BY <2>7, <2>8
  <2>10. [i \in 1 .. Len(e) |->
             TryParseAttrInvoke(s[e[i].b].name, Inside(s, e[i]), registry)] = <<>>
    BY <2>9
  <2> QED
    BY <2>9, <2>10, FlattenEmpty DEF NamedPart
<1> QED
  BY <1>7, <1>8 DEF s

LEMMA NamedRead ==
  ASSUME NEW bs, NEW after, WellBare(FALSE, bs, after), NEW registry
  PROVE  LET s == Bare(FALSE, bs, after)
         IN  NamedPart(s, registry) = ReadCalls(bs, registry) /\ TaggedPart(s, registry) = <<>>
<1> DEFINE cs == BareCells(FALSE, bs)
           s == Bare(FALSE, bs, after)
           ms == Matches(s, {"attr", "unnamed"}, "invoke", 0)
<1>1. PICK n \in Nat : n = Len(bs)
  BY BareIs
<1>2. /\ cs \in Seq(Cell) /\ Len(cs) = n /\ after \in Seq(Token)
      /\ \A k \in 1 .. n : cs[k] = BareCell(FALSE, bs[k])
      /\ s = Laid(cs, after, "invoke")
  BY <1>1, BareIs
<1>3. /\ \A k \in 1 .. n : Found(cs[k], {"attr", "unnamed"}, "invoke", 0)
      /\ Free(after, {"attr", "unnamed"}, "invoke")
  <2> DEFINE kinds == {"attr", "unnamed"}
  <2>1. /\ kinds \subseteq {"open", "attr", "unnamed"} /\ {"attr", "unnamed"} \subseteq kinds
        /\ 0 \in {0, 1} /\ ~(0 = 1) /\ FALSE \in BOOLEAN
    OBVIOUS
  <2> HIDE DEF kinds
  <2>2. /\ \A k \in 1 .. n : Found(cs[k], kinds, "invoke", 0)
        /\ Free(after, kinds, "invoke")
    BY <1>1, <2>1, CallFound
  <2> QED
    BY <2>2 DEF kinds
<1>4. \A k \in 1 .. n : /\ cs[k].body = ParametersOf(bs[k].call) /\ bs[k].call \in CallShape
                        /\ cs[k].open.name = bs[k].call.tool
                        /\ DistinctNames(bs[k].call) /\ WellInvoked(bs[k].call)
  <2>1. \A k \in 1 .. n : bs[k] \in BarePart /\ WellCall(FALSE, bs[k].call)
    BY <1>1, LenProperties DEF WellBare
  <2>2. \A k \in 1 .. n : cs[k].body = ParametersOf(bs[k].call)
                          /\ cs[k].open = Attr("invoke", bs[k].call.tool)
    <3>1. \A b : /\ BareCell(FALSE, b).body = ParametersOf(b.call)
                 /\ BareCell(FALSE, b).open = Attr("invoke", b.call.tool)
      BY DEF BareCell, InCall, OpeningOf
    <3> HIDE DEF cs
    <3> QED
      BY <1>2, <3>1
  <2>3. \A x : Attr("invoke", x).name = x
    BY DEF Attr
  <2> QED
    BY <2>1, <2>2, <2>3 DEF BarePart, WellCall
<1> HIDE DEF cs, s
<1>5. Scanned(s, ms, cs, after)
  BY <1>2, <1>3, Scan, TagsAreNames
<1> HIDE DEF ms
<1>6. Len(ms) = n /\ \A k \in 1 .. n : s[ms[k].b] = cs[k].open /\ Inside(s, ms[k]) = cs[k].body
  BY <1>2, <1>5 DEF Scanned
<1>7. NamedPart(s, registry) = ReadCalls(bs, registry)
  <2> DEFINE g == [k \in 1 .. n |->
                      TryParseAttrInvoke(s[ms[k].b].name, Inside(s, ms[k]), registry)]
  <2>1. NamedPart(s, registry) = FlattenSeq(g)
    BY <1>6 DEF NamedPart, ms
  <2>2. \A k \in 1 .. n : g[k] = <<ReadCall(bs[k].call, registry)>>
    BY <1>4, <1>6, NamedIs
  <2>3. g = [k \in 1 .. n |-> g[k]]
    OBVIOUS
  <2> HIDE DEF g
  <2>4. FlattenSeq([k \in 1 .. n |-> g[k]]) = ReadCalls(bs, registry)
    BY <1>1, <2>2, ReadCallsAre
  <2> QED
    BY <2>1, <2>3, <2>4
<1>8. TaggedPart(s, registry) = <<>>
  <2> DEFINE X == Token \ {Opening("tool_name")}
  <2>1. /\ InnerTokens(FALSE) \subseteq X /\ Around(FALSE) \subseteq X /\ X \subseteq Token
    BY DEF InnerTokens, Around
  <2>2. Close("invoke") \in X /\ \A x \in Names : Attr("invoke", x) \in X
    <3>1. Close("invoke") \in Token /\ \A x \in Names : Attr("invoke", x) \in Token
      BY TokenIs, TagsAreNames
    <3>2. Close("invoke") # Opening("tool_name")
          /\ \A x : Attr("invoke", x) # Opening("tool_name")
      BY DEF Opening, Close, Attr
    <3> QED
      BY <3>1, <3>2
  <2> HIDE DEF X
  <2>3. after \in Seq(X)
    BY <2>1, SeqWidens DEF WellBare
  <2>4. \A k \in 1 .. Len(bs) : bs[k].before \in Seq(X)
                                 /\ OpeningOf(FALSE, bs[k].call) \in X
    <3> SUFFICES ASSUME NEW k \in 1 .. Len(bs)
                 PROVE  bs[k].before \in Seq(X) /\ OpeningOf(FALSE, bs[k].call) \in X
      OBVIOUS
    <3>1. bs[k].before \in Seq(X)
      BY <2>1, SeqWidens DEF WellBare
    <3>2. bs[k].call.tool \in Names
      BY <1>1, <1>4, ShapeIs
    <3> QED
      BY <2>2, <3>1, <3>2 DEF OpeningOf
  <2>5. s \in Seq(X)
    BY <2>1, <2>2, <2>3, <2>4, BareOver DEF s
  <2> DEFINE found == Matches(s, {"open"}, "invoke", 1)
             got == Insides(s, found)
             g == [i \in 1 .. Len(got) |-> TryParseTagInvoke(got[i], registry)]
  <2>6. Len(s) \in Nat
    BY <2>5
  <2>7. found \in Seq(MatchOf(s))
    BY <2>6, MatchesTyping
  <2>8. PICK m \in Nat : m = Len(found)
    BY <2>7
  <2>9. \A i \in 1 .. m : Inside(s, found[i]) \in Seq(X)
    <3> HIDE DEF found
    <3> SUFFICES ASSUME NEW i \in 1 .. m
                 PROVE  Inside(s, found[i]) \in Seq(X)
      OBVIOUS
    <3>1. PICK z \in MatchOf(s) : z = found[i]
      BY <2>7, <2>8, LenProperties
    <3>2. z.b \in Nat /\ z.e \in Nat /\ z.b \in 1 .. Len(s) /\ z.e \in z.b + 1 .. Len(s)
      BY <3>1 DEF MatchOf
    <3>3. SubSeq(s, z.b + 1, z.e - 1) \in Seq(X)
      BY <2>5, <2>6, <3>2
    <3> QED
      BY <3>1, <3>3 DEF Inside
  <2>10. Len(got) = m /\ \A i \in 1 .. m : got[i] \in Seq(X)
    <3> HIDE DEF found
    <3> QED
      BY <2>8, <2>9 DEF Insides
  <2> HIDE DEF found, got
  <2>11. \A i \in 1 .. m : TryParseTagInvoke(got[i], registry) = <<>>
    BY <2>10, Untagged DEF X
  <2>12. g = [i \in 1 .. m |-> <<>>]
    BY <2>10, <2>11
  <2> HIDE DEF g
  <2>13. TaggedPart(s, registry) = FlattenSeq(g)
    BY Zenon DEF TaggedPart, ExtractBetweenTags, g, got, found
  <2> QED
    BY <2>12, <2>13, NonesFlatten
<1> QED
  BY <1>7, <1>8 DEF s

\* A text of calls in one form is read as the calls, and what is left of it is
\* what is around them.
LEMMA BareRead ==
  ASSUME NEW tagged \in BOOLEAN, NEW bs, NEW after, WellBare(tagged, bs, after),
         NEW registry
  PROVE  LET s == Bare(tagged, bs, after)
         IN  /\ ParseInvokes(s, registry) = ReadCalls(bs, registry)
             /\ Without(s, Matches(s, {"open", "attr", "unnamed"}, "invoke", 0))
                  = FlattenSeq([k \in 1 .. Len(bs) |-> bs[k].before]) \o after
<1>1. PICK s : s = Bare(tagged, bs, after)
  OBVIOUS
<1>2. PICK n \in Nat : n = Len(bs)
  BY BareIs
<1>3. ParseInvokes(s, registry) = TaggedPart(s, registry) \o NamedPart(s, registry)
  BY Zenon DEF ParseInvokes, TaggedPart, NamedPart
<1>4. ReadCalls(bs, registry) \o <<>> = ReadCalls(bs, registry)
      /\ <<>> \o ReadCalls(bs, registry) = ReadCalls(bs, registry)
  <2> DEFINE g == [k \in 1 .. n |-> <<ReadCall(bs[k].call, registry)>>]
  <2>1. \A k \in 1 .. n : g[k] = <<ReadCall(bs[k].call, registry)>>
    OBVIOUS
  <2> HIDE DEF g
  <2> QED
    BY <1>2, <2>1, ReadCallsAre
<1>5. ParseInvokes(s, registry) = ReadCalls(bs, registry)
  <2>1. CASE tagged = TRUE
    BY <1>1, <1>3, <1>4, <2>1, TaggedRead
  <2>2. CASE tagged = FALSE
    BY <1>1, <1>3, <1>4, <2>2, NamedRead
  <2> QED
    BY <2>1, <2>2
<1>6. Without(s, Matches(s, {"open", "attr", "unnamed"}, "invoke", 0))
        = FlattenSeq([k \in 1 .. Len(bs) |-> bs[k].before]) \o after
  <2> DEFINE kinds == {"open", "attr", "unnamed"}
             cs == BareCells(tagged, bs)
  <2>1. /\ cs \in Seq(Cell) /\ Len(cs) = n /\ after \in Seq(Token)
        /\ \A k \in 1 .. n : cs[k] = BareCell(tagged, bs[k])
        /\ s = Laid(cs, after, "invoke")
    BY <1>1, <1>2, BareIs
  <2>2. (\A k \in 1 .. n : Found(cs[k], kinds, "invoke", 0)) /\ Free(after, kinds, "invoke")
    BY <1>2, CallFound
  <2> HIDE DEF cs, kinds
  <2>3. Scanned(s, Matches(s, kinds, "invoke", 0), cs, after)
    BY <2>1, <2>2, Scan, TagsAreNames
  <2>4. Without(s, Matches(s, kinds, "invoke", 0))
          = FlattenSeq([k \in 1 .. Len(cs) |-> cs[k].before]) \o after
    BY <2>3 DEF Scanned
  <2>5. [k \in 1 .. Len(cs) |-> cs[k].before] = [k \in 1 .. Len(bs) |-> bs[k].before]
    <3>1. \A b : BareCell(tagged, b).before = b.before
      BY DEF BareCell
    <3>2. \A k \in 1 .. n : cs[k].before = bs[k].before
      BY <2>1, <3>1
    <3> QED
      BY <1>2, <2>1, <3>2
  <2> QED
    BY <2>4, <2>5 DEF kinds
<1> QED
  BY <1>1, <1>5, <1>6

-----------------------------------------------------------------------------
(***************************************************************************)
(* What is well written is understood.                                     *)
(***************************************************************************)
\* The calls of w, as they are read.
ReadAll(w, registry) ==
  [i \in 1 .. Len(CallsOf(w)) |-> ReadCall(CallsOf(w)[i], registry)]

\* The parser finds the calls of w and leaves its prose.
Understood(w, registry) ==
  LET s == Written(w)
      found == ParseToolCalls(s, registry)
  IN  /\ found = ReadAll(w, registry)
      /\ (IF found = <<>> THEN s ELSE StripToolCalls(s)) = ProseOf(w)

\* The calls of one element.
Body(tagged, calls) ==
  Bare(tagged, [j \in 1 .. Len(calls) |-> [before |-> <<>>, call |-> calls[j]]], <<>>)

LEMMA BodyIs ==
  ASSUME NEW tagged \in BOOLEAN, NEW calls \in Seq(CallShape),
         \A j \in 1 .. Len(calls) : WellCall(tagged, calls[j]), NEW registry
  PROVE  /\ Body(tagged, calls) = IF tagged THEN FlattenSeq(Each(Tagged, calls))
                                  ELSE FlattenSeq(Each(Invoke, calls))
         /\ Body(tagged, calls) \in Seq(Token)
         /\ Lacks(Body(tagged, calls), {Close("function_calls")})
         /\ calls # <<>> => Len(Body(tagged, calls)) >= 1
         /\ ParseInvokes(Body(tagged, calls), registry)
              = [j \in 1 .. Len(calls) |-> ReadCall(calls[j], registry)]
<1>1. PICK n \in Nat : n = Len(calls)
  BY LenProperties
<1>2. PICK bs : bs = [j \in 1 .. n |-> [before |-> <<>>, call |-> calls[j]]]
  OBVIOUS
<1>3. \A j \in 1 .. n : /\ bs[j].before = <<>> /\ bs[j].call = calls[j]
                        /\ calls[j] \in CallShape /\ WellCall(tagged, calls[j])
  BY <1>1, <1>2, LenProperties
<1>4. bs \in Seq(BarePart) /\ Len(bs) = n
  <2>1. <<>> \in Seq(Token)
    OBVIOUS
  <2>2. \A j \in 1 .. n : [before |-> <<>>, call |-> calls[j]] \in BarePart
    BY <1>3, <2>1 DEF BarePart
  <2> QED
    BY <1>2, <2>2
<1>5. PICK e : e = <<>>
  OBVIOUS
<1>6. Len(e) = 0 /\ \A X : e \in Seq(X)
  BY <1>5
<1>7. WellBare(tagged, bs, e)
  <2>1. \A k \in 1 .. n : bs[k].before \in Seq(Around(tagged)) /\ WellCall(tagged, bs[k].call)
    BY <1>3, <1>5, <1>6
  <2> QED
    BY <1>4, <1>6, <2>1 DEF WellBare
<1>8. PICK s : s = Bare(tagged, bs, e)
  OBVIOUS
<1>9. Body(tagged, calls) = s
  BY <1>1, <1>2, <1>5, <1>8 DEF Body
<1>10. s \in Seq(Token) /\ Lacks(s, {Close("function_calls")})
  <2> DEFINE X == Token \ {Close("function_calls")}
  <2>1. X \subseteq Token /\ InnerTokens(tagged) \subseteq X /\ Close("function_calls") \notin X
    BY DEF InnerTokens
  <2>2. /\ Close("invoke") \in X
        /\ \A c \in CallShape : OpeningOf(tagged, c) \in X
    <3>1. Close("invoke") \in Token /\ Close("invoke") # Close("function_calls")
      BY TokenIs, TagsAreNames DEF Close
    <3>2. \A c \in CallShape : OpeningOf(tagged, c) \in Token
      BY TokenIs, TagsAreNames, ShapeIs DEF OpeningOf
    <3>3. \A c : OpeningOf(tagged, c) # Close("function_calls")
      BY DEF OpeningOf, Opening, Attr, Close
    <3> QED
      BY <3>1, <3>2, <3>3
  <2> HIDE DEF X
  <2>3. \A k \in 1 .. Len(bs) : bs[k].before \in Seq(X) /\ OpeningOf(tagged, bs[k].call) \in X
    BY <1>3, <1>4, <1>5, <1>6, <2>2
  <2>4. e \in Seq(X)
    BY <1>6
  <2>5. s \in Seq(X)
    BY <1>7, <1>8, <2>1, <2>2, <2>3, <2>4, BareOver
  <2> QED
    BY <2>1, <2>5, LacksOf
<1>11. calls # <<>> => Len(s) >= 1
  <2> SUFFICES ASSUME calls # <<>>
               PROVE  Len(s) >= 1
    OBVIOUS
  <2>1. n >= 1
    BY <1>1
  <2>2. PICK cs : cs = BareCells(tagged, bs)
    OBVIOUS
  <2>3. /\ cs \in Seq(Cell) /\ Len(cs) = n /\ e \in Seq(Token)
        /\ s = Laid(cs, e, "invoke")
    BY <1>4, <1>7, <1>8, <2>2, BareIs
  <2>4. PICK o : CellPlaces(s, cs, e, "invoke", o)
    BY <2>3, CellsAre, TagsAreNames
  <2>5. 1 \in 1 .. Len(cs)
    BY <2>1, <2>3
  <2>6. CellAt(s, cs[1], "invoke", o[1 - 1], o[1])
    BY <2>4, <2>5 DEF CellPlaces
  <2>7. Len(s) \in Nat
    BY <1>10, LenProperties
  <2> QED
    BY <2>6, <2>7 DEF CellAt
<1>12. ParseInvokes(s, registry) = [j \in 1 .. Len(calls) |-> ReadCall(calls[j], registry)]
  <2>1. ParseInvokes(s, registry) = ReadCalls(bs, registry)
    BY <1>7, <1>8, BareRead
  <2>2. ReadCalls(bs, registry) = [j \in 1 .. Len(calls) |-> ReadCall(calls[j], registry)]
    BY <1>1, <1>3, <1>4 DEF ReadCalls
  <2> QED
    BY <2>1, <2>2
<1>13. s = IF tagged THEN FlattenSeq(Each(Tagged, calls)) ELSE FlattenSeq(Each(Invoke, calls))
  <2> DEFINE F(j) == OneCall(tagged, calls[j])
             ts == [j \in 1 .. n |-> F(j)]
  <2>1. \A j \in 1 .. n : F(j) \in Seq(Token)
    <3> SUFFICES ASSUME NEW j \in 1 .. n
                 PROVE  F(j) \in Seq(Token)
      OBVIOUS
    <3>1. /\ InCall(tagged, calls[j]) \in Seq(Token) /\ OpeningOf(tagged, calls[j]) \in Token
          /\ F(j) = Framed(OpeningOf(tagged, calls[j]), InCall(tagged, calls[j]),
                           Close("invoke"))
      BY <1>3, CallInner
    <3>2. Close("invoke") \in Token
      BY TokenIs, TagsAreNames
    <3> QED
      BY <3>1, <3>2, FramedIs DEF IsFramed
  <2> HIDE DEF F
  <2>2. ts \in Seq(Seq(Token))
    BY <2>1
  <2>3. \A j \in 1 .. n : bs[j].before \o OneCall(tagged, bs[j].call) = F(j)
    <3> SUFFICES ASSUME NEW j \in 1 .. n
                 PROVE  bs[j].before \o OneCall(tagged, bs[j].call) = F(j)
      OBVIOUS
    <3>1. bs[j].before = <<>> /\ OneCall(tagged, bs[j].call) = F(j)
      BY <1>3 DEF F
    <3>2. <<>> \o F(j) = F(j)
      BY <2>1
    <3> QED
      BY <3>1, <3>2
  <2>4. [k \in 1 .. Len(bs) |-> bs[k].before \o OneCall(tagged, bs[k].call)] = ts
    BY <1>4, <2>3
  <2> HIDE DEF ts
  <2>5. FlattenSeq(ts) \in Seq(Token)
    BY <2>2, FlattenTyping
  <2>6. s = FlattenSeq(ts) \o <<>>
    BY <1>5, <1>8, <2>4 DEF Bare
  <2>7. s = FlattenSeq(ts)
    BY <2>5, <2>6
  <2>8. ts = IF tagged THEN Each(Tagged, calls) ELSE Each(Invoke, calls)
    BY <1>1 DEF ts, F, OneCall, Each
  <2> QED
    BY <2>7, <2>8
<1> QED
  BY <1>9, <1>10, <1>11, <1>12, <1>13

\* The shape of what is written.
LEMMA WrittenIs ==
  ASSUME NEW w, WellWritten(w)
  PROVE  /\ w.tagged \in BOOLEAN /\ w.wrapped \in BOOLEAN
         /\ Len(w.parts) \in Nat
         /\ w.after \in Seq(Token) /\ WellProse(w, w.after)
         /\ \A i \in 1 .. Len(w.parts) :
              /\ w.parts[i].before \in Seq(Token) /\ WellProse(w, w.parts[i].before)
              /\ w.parts[i].calls \in Seq(CallShape)
              /\ IF w.wrapped THEN w.parts[i].calls # <<>> ELSE Len(w.parts[i].calls) = 1
              /\ \A j \in 1 .. Len(w.parts[i].calls) : WellCall(w.tagged, w.parts[i].calls[j])
<1>1. w.parts \in Seq([before : Seq(Token), calls : Seq(CallShape)])
  BY DEF WellWritten
<1>2. \A i \in 1 .. Len(w.parts) :
        w.parts[i].before \in Seq(Token) /\ w.parts[i].calls \in Seq(CallShape)
  <2>1. \A i \in 1 .. Len(w.parts) :
          w.parts[i] \in [before : Seq(Token), calls : Seq(CallShape)]
    BY <1>1, LenProperties
  <2> QED
    BY <2>1
<1>3. w.after \in Seq(Token)
  BY DEF WellWritten, WellProse
<1> QED
  BY <1>1, <1>2, <1>3, LenProperties DEF WellWritten, WellCall

LEMMA ProseAround ==
  ASSUME NEW w, NEW s, WellProse(w, s), NEW tagged \in BOOLEAN, tagged \/ ~w.wrapped
  PROVE  s \in Seq(Around(tagged))
<1>1. s \in Seq(Token)
  BY DEF WellProse
<1>2. \A i \in 1 .. Len(s) : s[i] \in Around(tagged)
  <2> SUFFICES ASSUME NEW i \in 1 .. Len(s)
               PROVE  s[i] \in Around(tagged)
    OBVIOUS
  <2>1. s[i] \in Token
    BY <1>1, LenProperties
  <2>2. ~(s[i].v = "invoke" /\ s[i].t # "close")
    BY DEF WellProse
  <2>3. ~w.wrapped => s[i] # Opening("tool_name")
    BY DEF WellProse, Lacks
  <2> QED
    BY <2>1, <2>2, <2>3 DEF Around
<1> QED
  BY <1>1, <1>2, SeqOver

\* A text of bare calls is read as it was meant.
LEMMA BareWritten ==
  ASSUME NEW w, WellWritten(w), ~w.wrapped, NEW registry
  PROVE  Understood(w, registry)
<1>1. PICK n \in Nat : n = Len(w.parts)
  BY WrittenIs
<1> DEFINE call(k) == w.parts[k].calls[1]
           bs == [k \in 1 .. n |-> [before |-> w.parts[k].before, call |-> call(k)]]
<1>2. /\ w.tagged \in BOOLEAN /\ w.after \in Seq(Token) /\ WellProse(w, w.after)
      /\ \A k \in 1 .. n : /\ w.parts[k].before \in Seq(Token) /\ WellProse(w, w.parts[k].before)
                           /\ w.parts[k].calls \in Seq(CallShape) /\ Len(w.parts[k].calls) = 1
                           /\ WellCall(w.tagged, w.parts[k].calls[1])
  <2>1. /\ w.tagged \in BOOLEAN /\ w.after \in Seq(Token) /\ WellProse(w, w.after)
        /\ \A k \in 1 .. n :
             /\ w.parts[k].before \in Seq(Token) /\ WellProse(w, w.parts[k].before)
             /\ w.parts[k].calls \in Seq(CallShape) /\ Len(w.parts[k].calls) = 1
             /\ \A j \in 1 .. Len(w.parts[k].calls) : WellCall(w.tagged, w.parts[k].calls[j])
    BY <1>1, WrittenIs
  <2>2. 1 \in 1 .. 1
    OBVIOUS
  <2> QED
    BY <2>1, <2>2
<1>3. \A k \in 1 .. n : /\ call(k) \in CallShape /\ w.parts[k].calls = <<call(k)>>
                        /\ WellCall(w.tagged, call(k))
                        /\ w.parts[k].before \in Seq(Around(w.tagged))
                        /\ w.parts[k].before \in Seq(Token)
  <2> SUFFICES ASSUME NEW k \in 1 .. n
               PROVE  /\ call(k) \in CallShape /\ w.parts[k].calls = <<call(k)>>
                      /\ WellCall(w.tagged, call(k))
                      /\ w.parts[k].before \in Seq(Around(w.tagged))
                      /\ w.parts[k].before \in Seq(Token)
    OBVIOUS
  <2>1. PICK cs \in Seq(CallShape) : cs = w.parts[k].calls /\ Len(cs) = 1
    BY <1>2
  <2>2. cs[1] \in CallShape /\ cs = <<cs[1]>>
    BY <2>1
  <2>3. w.parts[k].before \in Seq(Around(w.tagged))
    BY <1>2, ProseAround
  <2> QED
    BY <1>2, <2>1, <2>2, <2>3
<1> HIDE DEF call
<1>4. /\ bs \in Seq(BarePart) /\ Len(bs) = n
      /\ \A k \in 1 .. n : bs[k].before = w.parts[k].before /\ bs[k].call = call(k)
  <2>1. \A k \in 1 .. n : [before |-> w.parts[k].before, call |-> call(k)] \in BarePart
    BY <1>3 DEF BarePart
  <2> QED
    BY <2>1
<1> HIDE DEF bs
<1>5. WellBare(w.tagged, bs, w.after)
  <2>1. w.after \in Seq(Around(w.tagged))
    BY <1>2, ProseAround
  <2>2. \A k \in 1 .. Len(bs) : bs[k].before \in Seq(Around(w.tagged))
                                 /\ WellCall(w.tagged, bs[k].call)
    BY <1>3, <1>4
  <2> QED
    BY <1>4, <2>1, <2>2 DEF WellBare
<1>6. PICK s : s = Written(w)
  OBVIOUS
<1>7. s = Bare(w.tagged, bs, w.after)
  <2>1. ASSUME NEW k \in 1 .. n
        PROVE  WritePart(w, w.parts[k]) = bs[k].before \o OneCall(w.tagged, bs[k].call)
    <3>1. WriteCalls(w, w.parts[k].calls)
            = IF w.tagged THEN FlattenSeq(Each(Tagged, w.parts[k].calls))
              ELSE FlattenSeq(Each(Invoke, w.parts[k].calls))
      BY DEF WriteCalls
    <3>2. PICK one : one = <<call(k)>>
      OBVIOUS
    <3>3. Len(one) = 1 /\ one[1] = call(k) /\ one = w.parts[k].calls
      BY <1>3, <3>2
    <3>4. Each(Tagged, one) = <<Tagged(call(k))>> /\ Each(Invoke, one) = <<Invoke(call(k))>>
      BY <3>3 DEF Each
    <3>5. PICK x : x = OneCall(w.tagged, call(k))
      OBVIOUS
    <3>6. x \in Seq(Token)
      <4>1. /\ InCall(w.tagged, call(k)) \in Seq(Token) /\ OpeningOf(w.tagged, call(k)) \in Token
            /\ x = Framed(OpeningOf(w.tagged, call(k)), InCall(w.tagged, call(k)),
                          Close("invoke"))
        BY <1>2, <1>3, <3>5, CallInner
      <4>2. Close("invoke") \in Token
        BY TokenIs, TagsAreNames
      <4> QED
        BY <4>1, <4>2, FramedIs DEF IsFramed
    <3>7. FlattenSeq(<<x>>) = x
      BY <3>6, FlattenOne
    <3>8. WriteCalls(w, w.parts[k].calls) = x
      BY <3>1, <3>3, <3>4, <3>5, <3>7 DEF OneCall
    <3> QED
      BY <1>4, <3>5, <3>8 DEF WritePart
  <2>2. [k \in 1 .. Len(w.parts) |-> WritePart(w, w.parts[k])]
          = [k \in 1 .. Len(bs) |-> bs[k].before \o OneCall(w.tagged, bs[k].call)]
    BY <1>1, <1>4, <2>1
  <2> QED
    BY <1>6, <2>2 DEF Written, Bare
<1>8. s \in Seq(Token) /\ Lacks(s, {Close("function_calls")})
  <2> DEFINE X == Token \ {Close("function_calls")}
  <2>1. X \subseteq Token /\ InnerTokens(w.tagged) \subseteq X /\ Close("function_calls") \notin X
    BY DEF InnerTokens
  <2>2. /\ Close("invoke") \in X
        /\ \A c \in CallShape : OpeningOf(w.tagged, c) \in X
    <3>1. Close("invoke") \in Token /\ Close("invoke") # Close("function_calls")
      BY TokenIs, TagsAreNames DEF Close
    <3>2. \A c \in CallShape : OpeningOf(w.tagged, c) \in Token
      BY TokenIs, TagsAreNames, ShapeIs DEF OpeningOf
    <3>3. \A c : OpeningOf(w.tagged, c) # Close("function_calls")
      BY DEF OpeningOf, Opening, Attr, Close
    <3> QED
      BY <3>1, <3>2, <3>3
  <2>3. ASSUME NEW p, p \in Seq(Token), WellProse(w, p)
        PROVE  p \in Seq(X)
    <3>1. \A i \in 1 .. Len(p) : p[i] \in Token /\ p[i] # Close("function_calls")
      BY <2>3, LenProperties DEF WellProse, Lacks
    <3>2. \A i \in 1 .. Len(p) : p[i] \in X
      BY <3>1
    <3> QED
      BY <2>3, <3>2, SeqOver
  <2> HIDE DEF X
  <2>4. \A k \in 1 .. Len(bs) : bs[k].before \in Seq(X) /\ OpeningOf(w.tagged, bs[k].call) \in X
    BY <1>2, <1>3, <1>4, <2>2, <2>3
  <2>5. w.after \in Seq(X)
    BY <1>2, <2>3
  <2>6. s \in Seq(X)
    BY <1>2, <1>5, <1>7, <2>1, <2>2, <2>4, <2>5, BareOver
  <2> QED
    BY <2>1, <2>6, LacksOf
<1>9. Begins(s, {"open"}, "function_calls", 0, 1) = {}
      /\ Begins(s, {"open"}, "function_calls", 1, 1) = {}
  BY <1>8, NoClosing
<1>10. ExtractBetweenTags("function_calls", s) = <<>>
  BY <1>8, <1>9, ExtractNothing
<1>11. Without(s, Matches(s, {"open"}, "function_calls", 0)) = s
  BY <1>8, <1>9, NoMatch
<1>12. ParseToolCalls(s, registry) = ParseInvokes(s, registry)
  <2> DEFINE F(i, x) == ParseInvokes(x[i], registry)
  <2>1. PICK e : e = <<>>
    OBVIOUS
  <2>2. Len(e) = 0 /\ e = ExtractBetweenTags("function_calls", s)
    BY <1>10, <2>1
  <2>3. [i \in 1 .. Len(e) |-> ParseInvokes(e[i], registry)] = <<>>
    BY <2>2
  <2>4. ParseToolCalls(s, registry)
          = IF FlattenSeq([i \in 1 .. Len(e) |-> ParseInvokes(e[i], registry)]) # <<>>
            THEN FlattenSeq([i \in 1 .. Len(e) |-> ParseInvokes(e[i], registry)])
            ELSE ParseInvokes(s, registry)
    BY <2>2, Zenon DEF ParseToolCalls
  <2> QED
    BY <2>3, <2>4, FlattenEmpty
<1>13. ParseInvokes(s, registry) = ReadCalls(bs, registry)
  BY <1>2, <1>5, <1>7, BareRead
<1>14. Without(s, Matches(s, {"open", "attr", "unnamed"}, "invoke", 0)) = ProseOf(w)
  <2>1. [k \in 1 .. Len(bs) |-> bs[k].before] = [k \in 1 .. Len(w.parts) |-> w.parts[k].before]
    BY <1>1, <1>4
  <2>2. Without(s, Matches(s, {"open", "attr", "unnamed"}, "invoke", 0))
          = FlattenSeq([k \in 1 .. Len(bs) |-> bs[k].before]) \o w.after
    BY <1>2, <1>5, <1>7, BareRead
  <2> QED
    BY <2>1, <2>2, Zenon DEF ProseOf
<1>15. StripToolCalls(s) = ProseOf(w)
  BY <1>11, <1>14, Zenon DEF StripToolCalls
<1>16. ReadCalls(bs, registry) = ReadAll(w, registry)
  <2> DEFINE r == [k \in 1 .. n |-> call(k)]
  <2>1. [k \in 1 .. Len(w.parts) |-> w.parts[k].calls] = [k \in 1 .. n |-> <<r[k]>>]
    BY <1>1, <1>3
  <2>2. FlattenSeq([k \in 1 .. n |-> <<r[k]>>]) = [k \in 1 .. n |-> r[k]]
    BY OnesFlatten
  <2>3. CallsOf(w) = r
    BY <2>1, <2>2 DEF CallsOf
  <2>4. Len(r) = n /\ \A k \in 1 .. n : r[k] = bs[k].call
    BY <1>4
  <2> HIDE DEF r
  <2> QED
    BY <1>4, <2>3, <2>4 DEF ReadCalls, ReadAll
<1>17. ReadCalls(bs, registry) = <<>> => s = ProseOf(w)
  <2> SUFFICES ASSUME ReadCalls(bs, registry) = <<>>
               PROVE  s = ProseOf(w)
    OBVIOUS
  <2>1. n = 0
    <3>1. ReadCalls(bs, registry) = [k \in 1 .. n |-> ReadCall(bs[k].call, registry)]
      BY <1>4 DEF ReadCalls
    <3>2. PICK e : e = <<>>
      OBVIOUS
    <3>3. DOMAIN e = {}
      BY <3>2
    <3> QED
      BY <3>1, <3>2, <3>3
  <2>2. [k \in 1 .. Len(w.parts) |-> WritePart(w, w.parts[k])]
          = [k \in 1 .. Len(w.parts) |-> w.parts[k].before]
    BY <1>1, <2>1
  <2> QED
    BY <1>6, <2>2 DEF Written, ProseOf
<1> QED
  BY <1>6, <1>12, <1>13, <1>15, <1>16, <1>17 DEF Understood

\* The elements of a text of wrapped calls.
ElementOf(w, part) ==
  [before |-> part.before, open |-> Opening("function_calls"),
   body |-> Body(w.tagged, part.calls)]
ElementsOf(w) == [k \in 1 .. Len(w.parts) |-> ElementOf(w, w.parts[k])]

\* Where they are, and what is read of them.
HasElements(w, cs, registry) ==
  /\ cs \in Seq(Cell) /\ Len(cs) = Len(w.parts)
  /\ Written(w) = Laid(cs, w.after, "function_calls")
  /\ Free(w.after, {"open"}, "function_calls")
  /\ \A k \in 1 .. Len(w.parts) :
       /\ cs[k].before = w.parts[k].before
       /\ Found(cs[k], {"open"}, "function_calls", 1)
       /\ Found(cs[k], {"open"}, "function_calls", 0)
       /\ ParseInvokes(cs[k].body, registry)
            = [j \in 1 .. Len(w.parts[k].calls) |-> ReadCall(w.parts[k].calls[j], registry)]

LEMMA ElementsAre ==
  ASSUME NEW w, WellWritten(w), w.wrapped, NEW registry
  PROVE  HasElements(w, ElementsOf(w), registry)
<1>1. PICK n \in Nat : n = Len(w.parts)
  BY WrittenIs
<1>2. /\ w.tagged \in BOOLEAN /\ w.after \in Seq(Token) /\ WellProse(w, w.after)
      /\ \A k \in 1 .. n : /\ w.parts[k].before \in Seq(Token) /\ WellProse(w, w.parts[k].before)
                           /\ w.parts[k].calls \in Seq(CallShape) /\ w.parts[k].calls # <<>>
                           /\ \A j \in 1 .. Len(w.parts[k].calls) :
                                WellCall(w.tagged, w.parts[k].calls[j])
  BY <1>1, WrittenIs
<1>3. ASSUME NEW p, p \in Seq(Token), WellProse(w, p)
      PROVE  Free(p, {"open"}, "function_calls")
  <2> SUFFICES ASSUME NEW i \in 1 .. Len(p), p[i].t = "open", p[i].v = "function_calls"
               PROVE  FALSE
    BY DEF Free, IsOpening
  <2>1. p[i] \in Token
    BY <1>3, LenProperties
  <2>2. p[i] = Opening("function_calls")
    BY <2>1, TokenOf
  <2> QED
    BY <1>3, <2>2 DEF WellProse, Lacks
<1>4. Opening("function_calls") \in Token /\ IsOpening(Opening("function_calls"), {"open"}, "function_calls")
  BY TokenIs, TagsAreNames DEF IsOpening, Opening
<1>5. ASSUME NEW k \in 1 .. n
      PROVE  LET c == ElementOf(w, w.parts[k])
             IN  /\ c \in Cell /\ c.before = w.parts[k].before
                 /\ Found(c, {"open"}, "function_calls", 1)
                 /\ Found(c, {"open"}, "function_calls", 0)
                 /\ ParseInvokes(c.body, registry)
                      = [j \in 1 .. Len(w.parts[k].calls) |->
                           ReadCall(w.parts[k].calls[j], registry)]
                 /\ CellText(c, "function_calls") = WritePart(w, w.parts[k])
  <2>1. PICK p : p = w.parts[k]
    OBVIOUS
  <2>2. PICK b : b = Body(w.tagged, p.calls)
    OBVIOUS
  <2>3. PICK c : c = ElementOf(w, p)
    OBVIOUS
  <2>4. /\ c = [before |-> p.before, open |-> Opening("function_calls"), body |-> b]
        /\ c.before = p.before /\ c.open = Opening("function_calls") /\ c.body = b
    BY <2>2, <2>3 DEF ElementOf
  <2>5. /\ b = IF w.tagged THEN FlattenSeq(Each(Tagged, p.calls))
               ELSE FlattenSeq(Each(Invoke, p.calls))
        /\ b \in Seq(Token) /\ Lacks(b, {Close("function_calls")}) /\ Len(b) >= 1
        /\ ParseInvokes(b, registry)
             = [j \in 1 .. Len(p.calls) |-> ReadCall(p.calls[j], registry)]
    <3>1. PICK calls \in Seq(CallShape) : calls = p.calls
      BY <1>2, <2>1
    <3>2. calls # <<>> /\ \A j \in 1 .. Len(calls) : WellCall(w.tagged, calls[j])
      BY <1>2, <2>1, <3>1
    <3>3. PICK t \in BOOLEAN : t = w.tagged
      BY <1>2
    <3>4. /\ Body(t, calls) = IF t THEN FlattenSeq(Each(Tagged, calls))
                             ELSE FlattenSeq(Each(Invoke, calls))
          /\ Body(t, calls) \in Seq(Token)
          /\ Lacks(Body(t, calls), {Close("function_calls")})
          /\ calls # <<>> => Len(Body(t, calls)) >= 1
          /\ ParseInvokes(Body(t, calls), registry)
               = [j \in 1 .. Len(calls) |-> ReadCall(calls[j], registry)]
      BY <3>2, <3>3, BodyIs
    <3> QED
      BY <2>2, <3>1, <3>2, <3>3, <3>4
  <2>6. p.before \in Seq(Token) /\ Free(p.before, {"open"}, "function_calls")
    BY <1>2, <1>3, <2>1
  <2>7. c \in Cell
    BY <1>4, <2>4, <2>5, <2>6 DEF Cell
  <2>8. Found(c, {"open"}, "function_calls", 1) /\ Found(c, {"open"}, "function_calls", 0)
    <3>1. Len(b) \in Nat
      BY <2>5, LenProperties
    <3> QED
      BY <1>4, <2>4, <2>5, <2>6, <3>1 DEF Found
  <2>9. CellText(c, "function_calls") = WritePart(w, p)
    BY <2>4, <2>5 DEF CellText, WritePart, WriteCalls
  <2> QED
    BY <2>1, <2>3, <2>4, <2>5, <2>7, <2>8, <2>9
<1>6. PICK cs : cs = ElementsOf(w)
  OBVIOUS
<1>7. /\ cs \in Seq(Cell) /\ Len(cs) = n
      /\ \A k \in 1 .. n : cs[k] = ElementOf(w, w.parts[k])
  <2>1. cs = [k \in 1 .. n |-> ElementOf(w, w.parts[k])]
    BY <1>1, <1>6 DEF ElementsOf
  <2>2. \A k \in 1 .. n : ElementOf(w, w.parts[k]) \in Cell
    BY <1>5
  <2> QED
    BY <2>1, <2>2
<1>8. Written(w) = Laid(cs, w.after, "function_calls")
  <2>1. [k \in 1 .. Len(w.parts) |-> WritePart(w, w.parts[k])]
          = [k \in 1 .. Len(cs) |-> CellText(cs[k], "function_calls")]
    BY <1>1, <1>5, <1>7
  <2> QED
    BY <2>1 DEF Written, Laid
<1>9. Free(w.after, {"open"}, "function_calls")
  BY <1>2, <1>3
<1> QED
  BY <1>1, <1>5, <1>6, <1>7, <1>8, <1>9 DEF HasElements

LEMMA CallsOfTyping ==
  ASSUME NEW w, WellWritten(w)
  PROVE  /\ [k \in 1 .. Len(w.parts) |-> w.parts[k].calls] \in Seq(Seq(CallShape))
         /\ CallsOf(w) \in Seq(CallShape)
         /\ Len(w.parts) # 0 => Len(CallsOf(w)) # 0
<1>1. PICK n \in Nat : n = Len(w.parts)
  BY WrittenIs
<1>2. PICK ss : ss = [k \in 1 .. n |-> w.parts[k].calls]
  OBVIOUS
<1>3. \A k \in 1 .. n : w.parts[k].calls \in Seq(CallShape) /\ Len(w.parts[k].calls) # 0
  <2>1. \A k \in 1 .. n : /\ w.parts[k].calls \in Seq(CallShape)
                          /\ IF w.wrapped THEN w.parts[k].calls # <<>>
                             ELSE Len(w.parts[k].calls) = 1
    BY <1>1, WrittenIs
  <2>2. \A cs \in Seq(CallShape) : cs # <<>> => Len(cs) # 0
    OBVIOUS
  <2> QED
    BY <2>1, <2>2
<1>4. ss \in Seq(Seq(CallShape)) /\ Len(ss) = n /\ \A k \in 1 .. n : ss[k] = w.parts[k].calls
  BY <1>2, <1>3
<1>5. CallsOf(w) = FlattenSeq(ss)
  BY <1>1, <1>2 DEF CallsOf
<1>6. FlattenSeq(ss) \in Seq(CallShape)
  BY <1>4, FlattenTyping
<1>7. n # 0 => Len(FlattenSeq(ss)) # 0
  <2> SUFFICES ASSUME n # 0
               PROVE  Len(FlattenSeq(ss)) # 0
    OBVIOUS
  <2>1. PICK o : Places(ss, o)
    BY <1>4, FlattenPlaces
  <2>2. 1 \in 1 .. Len(ss)
    BY <1>4
  <2>3. o[1] = o[1 - 1] + Len(ss[1]) /\ o[1] <= Len(FlattenSeq(ss)) /\ o \in [0 .. n -> Nat]
    BY <1>4, <2>1, <2>2 DEF Places
  <2>4. Len(ss[1]) \in Nat /\ Len(ss[1]) # 0 /\ Len(FlattenSeq(ss)) \in Nat /\ o[1 - 1] \in Nat
    <3>1. Len(ss[1]) \in Nat /\ Len(ss[1]) # 0
      BY <1>3, <1>4, <2>2, LenProperties
    <3>2. Len(FlattenSeq(ss)) \in Nat
      BY <1>6, LenProperties
    <3>3. 1 - 1 \in 0 .. n
      OBVIOUS
    <3> QED
      BY <2>3, <3>1, <3>2, <3>3
  <2> QED
    BY <2>3, <2>4
<1> QED
  BY <1>1, <1>2, <1>4, <1>5, <1>6, <1>7

\* What the calls of some elements are read as, one after the other.
LEMMA ElementsRead ==
  ASSUME NEW w, WellWritten(w), NEW registry, NEW n \in Nat, n = Len(w.parts),
         NEW r, \A k \in 1 .. n :
                  r[k] = [j \in 1 .. Len(w.parts[k].calls) |->
                            ReadCall(w.parts[k].calls[j], registry)]
  PROVE  FlattenSeq([k \in 1 .. n |-> r[k]]) = ReadAll(w, registry)
<1>1. PICK ss : ss = [k \in 1 .. n |-> w.parts[k].calls]
  OBVIOUS
<1>2. /\ ss \in Seq(Seq(CallShape)) /\ FlattenSeq(ss) = CallsOf(w)
      /\ CallsOf(w) \in Seq(CallShape) /\ Len(ss) = n
      /\ \A k \in 1 .. n : ss[k] = w.parts[k].calls
  BY <1>1, CallsOfTyping DEF CallsOf
<1> DEFINE f == [c \in CallShape |-> ReadCall(c, registry)]
           g == [u \in Seq(CallShape) |-> Mapped(f, u)]
           T == {ReadCall(c, registry) : c \in CallShape}
<1>3. /\ \A c \in CallShape : f[c] = ReadCall(c, registry)
      /\ \A u \in Seq(CallShape) : g[u] = Mapped(f, u)
  OBVIOUS
<1>4. FlattenSeq(Mapped(g, ss)) = Mapped(f, FlattenSeq(ss))
  <2>1. \A c \in CallShape : f[c] \in T
    OBVIOUS
  <2>2. \A u \in Seq(CallShape) : g[u] = Mapped(f, u)
    BY <1>3
  <2>3. ss \in Seq(Seq(CallShape))
    BY <1>2
  <2> HIDE DEF f, g, T
  <2>4. Takes(CallShape, T, f) /\ Maps(CallShape, f, g)
    BY <2>1, <2>2 DEF Takes, Maps
  <2> QED
    BY <2>3, <2>4, FlattenMapped
<1> HIDE DEF f, g, T
<1>5. ASSUME NEW u \in Seq(CallShape)
      PROVE  Mapped(f, u) = [j \in 1 .. Len(u) |-> ReadCall(u[j], registry)]
  <2>1. \A j \in 1 .. Len(u) : f[u[j]] = ReadCall(u[j], registry)
    BY <1>3, LenProperties
  <2> QED
    BY <2>1 DEF Mapped
<1>6. Mapped(f, CallsOf(w)) = ReadAll(w, registry)
  BY <1>2, <1>5 DEF ReadAll
<1>7. ASSUME NEW k \in 1 .. n
      PROVE  g[ss[k]] = r[k]
  <2>1. PICK u \in Seq(CallShape) : u = w.parts[k].calls /\ u = ss[k]
    BY <1>2, LenProperties
  <2>2. g[u] = [j \in 1 .. Len(u) |-> ReadCall(u[j], registry)]
    BY <1>3, <1>5
  <2>3. r[k] = [j \in 1 .. Len(u) |-> ReadCall(u[j], registry)]
    BY <2>1
  <2> QED
    BY <2>1, <2>2, <2>3
<1>8. Mapped(g, ss) = [k \in 1 .. n |-> r[k]]
  BY <1>2, <1>7 DEF Mapped
<1> QED
  BY <1>2, <1>4, <1>6, <1>8

\* What is left without the elements is the prose.
LEMMA ElementsLeave ==
  ASSUME NEW w, WellWritten(w), w.wrapped
  PROVE  StripToolCalls(Written(w)) = ProseOf(w)
<1>1. PICK n \in Nat : n = Len(w.parts)
  BY WrittenIs
<1>2. PICK cs : cs = ElementsOf(w)
  OBVIOUS
<1>3. PICK s : s = Written(w)
  OBVIOUS
<1>4. /\ cs \in Seq(Cell) /\ Len(cs) = n
      /\ s = Laid(cs, w.after, "function_calls")
      /\ Free(w.after, {"open"}, "function_calls")
      /\ \A k \in 1 .. n : /\ cs[k].before = w.parts[k].before
                           /\ Found(cs[k], {"open"}, "function_calls", 0)
  BY <1>1, <1>2, <1>3, ElementsAre DEF HasElements
<1>5. /\ w.after \in Seq(Token) /\ WellProse(w, w.after)
      /\ \A k \in 1 .. n : w.parts[k].before \in Seq(Token) /\ WellProse(w, w.parts[k].before)
  BY <1>1, WrittenIs
<1>6. Without(s, Matches(s, {"open"}, "function_calls", 0)) = ProseOf(w)
  <2>1. Scanned(s, Matches(s, {"open"}, "function_calls", 0), cs, w.after)
    BY <1>4, <1>5, Scan, TagsAreNames
  <2>2. [k \in 1 .. Len(cs) |-> cs[k].before] = [k \in 1 .. Len(w.parts) |-> w.parts[k].before]
    BY <1>1, <1>4
  <2> QED
    BY <2>1, <2>2 DEF Scanned, ProseOf
<1>7. ProseOf(w) \in Seq(Token) /\ Free(ProseOf(w), {"open", "attr", "unnamed"}, "invoke")
  <2> DEFINE Y == {x \in Token : ~(x.v = "invoke" /\ x.t # "close")}
             ps == [k \in 1 .. n |-> w.parts[k].before]
  <2>1. ASSUME NEW p, p \in Seq(Token), WellProse(w, p)
        PROVE  p \in Seq(Y)
    <3>1. \A i \in 1 .. Len(p) : p[i] \in Y
      BY <2>1, LenProperties DEF WellProse
    <3> QED
      BY <2>1, <3>1, SeqOver
  <2>2. Y \subseteq Token /\ \A x \in Y : ~IsOpening(x, {"open", "attr", "unnamed"}, "invoke")
    BY DEF IsOpening
  <2> HIDE DEF Y
  <2>3. w.after \in Seq(Y) /\ \A k \in 1 .. n : w.parts[k].before \in Seq(Y)
    BY <1>5, <2>1
  <2>4. ProseOf(w) = FlattenSeq(ps) \o w.after
    BY <1>1 DEF ProseOf
  <2>5. ProseOf(w) \in Seq(Y)
    <3>0. ps \in Seq(Seq(Y))
      BY <2>3
    <3> HIDE DEF ps
    <3>1. FlattenSeq(ps) \in Seq(Y)
      BY <3>0, FlattenTyping
    <3> QED
      BY <2>3, <2>4, <3>1
  <2> DEFINE kinds == {"open", "attr", "unnamed"}
  <2>6. \A x \in Y : ~IsOpening(x, kinds, "invoke")
    BY <2>2
  <2> HIDE DEF kinds
  <2>7. ProseOf(w) \in Seq(Token) /\ Free(ProseOf(w), kinds, "invoke")
    BY <2>2, <2>5, <2>6, FreeOf
  <2> QED
    BY <2>7 DEF kinds
<1>8. Without(ProseOf(w), Matches(ProseOf(w), {"open", "attr", "unnamed"}, "invoke", 0))
        = ProseOf(w)
  <2> DEFINE kinds == {"open", "attr", "unnamed"}
  <2>1. Free(ProseOf(w), kinds, "invoke")
    BY <1>7
  <2> HIDE DEF kinds
  <2>2. Without(ProseOf(w), Matches(ProseOf(w), kinds, "invoke", 0)) = ProseOf(w)
    BY <1>7, <2>1, NoOpening, NoMatch
  <2> QED
    BY <2>2 DEF kinds
<1> QED
  BY <1>3, <1>6, <1>8, Zenon DEF StripToolCalls

\* A text of elements is read as it was meant.
LEMMA WrappedWritten ==
  ASSUME NEW w, WellWritten(w), w.wrapped, NEW registry
  PROVE  Understood(w, registry)
<1>1. PICK n \in Nat : n = Len(w.parts)
  BY WrittenIs
<1>2. PICK cs : cs = ElementsOf(w)
  OBVIOUS
<1>3. PICK s : s = Written(w)
  OBVIOUS
<1> DEFINE read(k) == [j \in 1 .. Len(w.parts[k].calls) |->
                          ReadCall(w.parts[k].calls[j], registry)]
           r == [k \in 1 .. n |-> read(k)]
<1>4. /\ cs \in Seq(Cell) /\ Len(cs) = n
      /\ s = Laid(cs, w.after, "function_calls")
      /\ Free(w.after, {"open"}, "function_calls")
      /\ \A k \in 1 .. n : /\ Found(cs[k], {"open"}, "function_calls", 1)
                           /\ ParseInvokes(cs[k].body, registry) = read(k)
  <2> HIDE DEF r
  <2>1. HasElements(w, cs, registry)
    BY <1>2, ElementsAre
  <2> QED
    BY <1>1, <1>3, <2>1 DEF HasElements
<1>5. w.after \in Seq(Token) /\ WellProse(w, w.after)
  BY WrittenIs
<1>6. PICK calls : calls = FlattenSeq([k \in 1 .. n |-> ParseInvokes(cs[k].body, registry)])
  OBVIOUS
<1>7. ParseToolCalls(s, registry) = IF calls # <<>> THEN calls ELSE ParseInvokes(s, registry)
  <2>1. ExtractBetweenTags("function_calls", s) = [k \in 1 .. n |-> cs[k].body]
    BY <1>4, <1>5, ExtractIs, TagsAreNames
  <2>2. PICK e : e = ExtractBetweenTags("function_calls", s)
    OBVIOUS
  <2>3. Len(e) = n /\ \A k \in 1 .. n : e[k] = cs[k].body
    BY <2>1, <2>2
  <2>4. [i \in 1 .. Len(e) |-> ParseInvokes(e[i], registry)]
          = [k \in 1 .. n |-> ParseInvokes(cs[k].body, registry)]
    BY <2>3
  <2>5. ParseToolCalls(s, registry)
          = IF FlattenSeq([i \in 1 .. Len(e) |-> ParseInvokes(e[i], registry)]) # <<>>
            THEN FlattenSeq([i \in 1 .. Len(e) |-> ParseInvokes(e[i], registry)])
            ELSE ParseInvokes(s, registry)
    BY <2>2, Zenon DEF ParseToolCalls
  <2> QED
    BY <1>6, <2>4, <2>5
<1>8. calls = ReadAll(w, registry)
  <2>1. \A k \in 1 .. n : r[k] = read(k)
    OBVIOUS
  <2> HIDE DEF r
  <2>2. FlattenSeq([k \in 1 .. n |-> r[k]]) = ReadAll(w, registry)
    BY <1>1, <2>1, ElementsRead
  <2>3. [k \in 1 .. n |-> ParseInvokes(cs[k].body, registry)] = [k \in 1 .. n |-> r[k]]
    BY <1>4, <2>1
  <2> QED
    BY <1>6, <2>2, <2>3
<1>9. StripToolCalls(s) = ProseOf(w)
  BY <1>3, ElementsLeave
<1>10. CASE n # 0
  <2>1. calls # <<>>
    <3>1. Len(CallsOf(w)) # 0 /\ Len(CallsOf(w)) \in Nat
      BY <1>1, <1>10, CallsOfTyping, LenProperties
    <3>2. DOMAIN calls = 1 .. Len(CallsOf(w))
      BY <1>8 DEF ReadAll
    <3>3. PICK e : e = <<>>
      OBVIOUS
    <3>4. DOMAIN e = {}
      BY <3>3
    <3>5. 1 \in 1 .. Len(CallsOf(w))
      BY <3>1
    <3> QED
      BY <3>2, <3>3, <3>4, <3>5
  <2> QED
    BY <1>3, <1>7, <1>8, <1>9, <2>1 DEF Understood
<1>11. CASE n = 0
  <2>1. PICK e : e = <<>>
    OBVIOUS
  <2>2. /\ Len(e) = 0 /\ \A X : e \in Seq(X)
        /\ \A F : [k \in 1 .. n |-> F[k]] = e
    BY <1>11, <2>1
  <2>3. /\ [k \in 1 .. Len(w.parts) |-> WritePart(w, w.parts[k])] = <<>>
        /\ [k \in 1 .. Len(w.parts) |-> w.parts[k].before] = <<>>
        /\ [k \in 1 .. Len(w.parts) |-> w.parts[k].calls] = <<>>
    BY <1>1, <1>11
  <2>4. s = <<>> \o w.after /\ ProseOf(w) = <<>> \o w.after /\ CallsOf(w) = <<>>
    BY <1>3, <2>3, FlattenEmpty DEF Written, ProseOf, CallsOf
  <2>5. <<>> \o w.after = w.after
    BY <1>5
  <2>6. ReadAll(w, registry) = <<>>
    <3>1. Len(CallsOf(w)) = 0
      BY <2>1, <2>2, <2>4
    <3> QED
      BY <3>1 DEF ReadAll
  <2>7. ParseInvokes(s, registry) = <<>>
    <3>1. WellBare(TRUE, e, w.after)
      <4>1. w.after \in Seq(Around(TRUE))
        BY <1>5, ProseAround
      <4>2. e \in Seq(BarePart) /\ 1 .. Len(e) = {}
        BY <2>2
      <4> QED
        BY <4>1, <4>2 DEF WellBare
    <3>2. Bare(TRUE, e, w.after) = s
      <4>1. [k \in 1 .. Len(e) |-> e[k].before \o OneCall(TRUE, e[k].call)] = <<>>
        BY <2>2
      <4> QED
        BY <2>4, <4>1, FlattenEmpty DEF Bare
    <3>3. ParseInvokes(s, registry) = ReadCalls(e, registry)
      BY <3>1, <3>2, BareRead
    <3>4. ReadCalls(e, registry) = <<>>
      BY <2>2 DEF ReadCalls
    <3> QED
      BY <3>3, <3>4
  <2> QED
    BY <1>3, <1>7, <1>8, <2>4, <2>6, <2>7 DEF Understood
<1> QED
  BY <1>10, <1>11

\* Calls that are written in one of the two forms, with any prose around them
\* and any values that do not look like the tags of the form, are read as they
\* were meant: every call with its tool and every parameter with its value, in
\* their order; and what is left of the text is the prose (parse_tool_calls,
\* strip_tool_calls).
THEOREM WrittenIsUnderstood ==
  ASSUME NEW w, WellWritten(w), NEW registry
  PROVE  Understood(w, registry)
BY WrappedWritten, BareWritten

-----------------------------------------------------------------------------
(***************************************************************************)
(* What conversations are made of.                                         *)
(***************************************************************************)
ToolsFound(t, o) == {Parsed[t][o][i].tool : i \in 1 .. Len(Parsed[t][o])}
ParsedTools == UNION {ToolsFound(t, o) : t \in Texts, o \in Offers}
ToolNames == ShortNames \cup LongNames \cup {NoTool} \cup ParsedTools

HistoryBlock ==
  {b \in [k : Kinds, n : Nat, tool : ToolNames] : b.k = "result" => b.tool = NoTool}
SentBlock == [k : Kinds \cup {"tools"}, n : Nat, tool : ToolNames]
AnswerBlock == [k : {"text", "use"}, n : Nat, tool : ToolNames, input : BOOLEAN]
CallSet == [id : Nat, name : ToolNames, whole : BOOLEAN]

\* The results of a message come before its texts.
Reaching(blocks) == Of(blocks, {"result"}) \o Of(blocks, {"text"})
HistoryMessage ==
  {m \in [role : {"user", "assistant"}, blocks : Seq(HistoryBlock)] :
     Of(m.blocks, {"text", "result"}) = Reaching(m.blocks)}
SentRoles == {"system", "user", "assistant", "tool"}
SentOf(B, C) == [role : SentRoles, content : Seq(B), calls : Seq(C), id : Nat]
SentMessage == SentOf(SentBlock, CallSet)
\* A translated message has no tools in its content, and calls only if they
\* are native.
CallsIf(native) == IF native THEN CallSet ELSE {}
PlainMessage(native) == SentOf(HistoryBlock, CallsIf(native))
-----------------------------------------------------------------------------
(***************************************************************************)
(* The translation of one message.                                         *)
(***************************************************************************)
LEMMA BlocksTyping ==
  ASSUME NEW b \in Seq(HistoryBlock)
  PROVE  /\ b \in Seq(SentBlock)
         /\ \A K : Of(b, K) \in Seq(HistoryBlock) /\ Of(b, K) \in Seq(SentBlock)
<1>1. HistoryBlock \subseteq SentBlock
  BY DEF HistoryBlock, SentBlock
<1>2. \A K : Of(b, K) \in Seq(HistoryBlock)
  BY OfTyping
<1> QED
  BY <1>1, <1>2, SeqMonotonic

LEMMA MessageTyping ==
  ASSUME NEW B, NEW C, NEW role \in SentRoles, NEW content \in Seq(B),
         NEW calls \in Seq(C), NEW id \in Nat
  PROVE  /\ Message(role, content, calls, id) \in SentOf(B, C)
         /\ Message(role, content, calls, id).role = role
         /\ Message(role, content, calls, id).content = content
         /\ Message(role, content, calls, id).calls = calls
         /\ Message(role, content, calls, id).id = id
BY DEF Message, SentOf

LEMMA PlainIsSent ==
  \A native \in BOOLEAN :
    /\ PlainMessage(native) \subseteq SentMessage
    /\ PlainMessage(FALSE) \subseteq PlainMessage(native)
<1> SUFFICES ASSUME NEW native \in BOOLEAN
             PROVE  /\ PlainMessage(native) \subseteq SentMessage
                    /\ PlainMessage(FALSE) \subseteq PlainMessage(native)
  OBVIOUS
<1>1. HistoryBlock \subseteq SentBlock /\ CallsIf(native) \subseteq CallSet
      /\ CallsIf(FALSE) \subseteq CallsIf(native)
  BY DEF HistoryBlock, SentBlock, CallsIf
<1>2. /\ Seq(HistoryBlock) \subseteq Seq(SentBlock)
      /\ Seq(CallsIf(native)) \subseteq Seq(CallSet)
      /\ Seq(CallsIf(FALSE)) \subseteq Seq(CallsIf(native))
  BY <1>1, SeqMonotonic
<1> QED
  BY <1>2 DEF PlainMessage, SentMessage, SentOf

LEMMA CallsTyping ==
  ASSUME NEW b \in Seq(HistoryBlock)
  PROVE  ExtractToolCalls(b) \in Seq(CallSet)
<1> DEFINE uses == Of(b, {"use"})
<1>1. uses \in Seq(HistoryBlock)
  BY OfTyping
<1> HIDE DEF uses
<1>2. Len(uses) \in Nat /\ \A i \in 1 .. Len(uses) : uses[i] \in HistoryBlock
  BY <1>1
<1>3. \A i \in 1 .. Len(uses) : Call(uses[i].n, uses[i].tool, TRUE) \in CallSet
  BY <1>2 DEF Call, CallSet, HistoryBlock
<1> DEFINE x == [i \in 1 .. Len(uses) |-> Call(uses[i].n, uses[i].tool, TRUE)]
<1>4. x \in [1 .. Len(uses) -> CallSet]
  BY <1>3
<1>5. ExtractToolCalls(b) = x
  BY DEF ExtractToolCalls, uses
<1> HIDE DEF x
<1>6. x \in Seq(CallSet)
  BY <1>2, <1>4
<1> QED
  BY <1>5, <1>6

LEMMA ResultMessages ==
  ASSUME NEW b \in Seq(HistoryBlock)
  PROVE  LET x == ExtractToolResultMessages(b)
             r == Of(b, {"result"})
         IN  /\ x \in Seq(PlainMessage(FALSE)) /\ x \in Seq(SentMessage)
             /\ Len(x) = Len(r)
             /\ \A i \in 1 .. Len(r) : x[i] = Message("tool", <<>>, <<>>, r[i].n)
<1> DEFINE r == Of(b, {"result"})
<1>1. r \in Seq(HistoryBlock)
  BY OfTyping
<1> HIDE DEF r
<1>2. Len(r) \in Nat /\ \A i \in 1 .. Len(r) : r[i] \in HistoryBlock
  BY <1>1
<1> DEFINE e == <<>>
           x == [i \in 1 .. Len(r) |-> Message("tool", e, e, r[i].n)]
<1>3. e \in Seq(HistoryBlock) /\ e \in Seq(CallsIf(FALSE))
  OBVIOUS
<1>4. \A i \in 1 .. Len(r) : r[i].n \in Nat
  BY <1>2 DEF HistoryBlock
<1>5. ExtractToolResultMessages(b) = x
  BY DEF ExtractToolResultMessages, r
<1> HIDE DEF e
<1>6. \A i \in 1 .. Len(r) : Message("tool", e, e, r[i].n) \in PlainMessage(FALSE)
  <2>1. "tool" \in SentRoles
    BY DEF SentRoles
  <2>2. ASSUME NEW n \in Nat
        PROVE  Message("tool", e, e, n) \in SentOf(HistoryBlock, CallsIf(FALSE))
    BY <1>3, <2>1, MessageTyping
  <2> QED
    BY <1>4, <2>2 DEF PlainMessage
<1> DEFINE P == PlainMessage(FALSE)
<1>7. x \in [1 .. Len(r) -> P]
  BY <1>6
<1>8. Len(x) = Len(r) /\ \A i \in 1 .. Len(r) : x[i] = Message("tool", e, e, r[i].n)
  BY <1>2
<1> HIDE DEF x
<1>9. x \in Seq(PlainMessage(FALSE))
  <2> HIDE DEF P
  <2>1. x \in Seq(P)
    BY <1>2, <1>7
  <2> QED
    BY <2>1 DEF P
<1>10. x \in Seq(SentMessage)
  BY <1>9, PlainIsSent, SeqMonotonic
<1> QED
  BY <1>5, <1>8, <1>9, <1>10 DEF r, e

LEMMA TextMessage ==
  ASSUME NEW B, NEW C, NEW role \in SentRoles, NEW content \in Seq(B)
  PROVE  /\ Message(role, content, <<>>, NoId) \in SentOf(B, C)
         /\ UnlessEmpty(role, content) \in Seq(SentOf(B, C))
<1> DEFINE e == <<>>
           M == SentOf(B, C)
<1>1. e \in Seq(C) /\ NoId \in Nat
  BY DEF NoId
<1> HIDE DEF e
<1> DEFINE m == Message(role, content, e, NoId)
<1>2. m \in M
  BY <1>1, MessageTyping
<1> HIDE DEF m, M
<1>3. <<m>> \in Seq(M) /\ <<>> \in Seq(M)
  BY <1>2
<1> QED
  BY <1>2, <1>3 DEF UnlessEmpty, m, e, M

LEMMA TranslateTyping ==
  ASSUME NEW m \in HistoryMessage, NEW native \in BOOLEAN
  PROVE  /\ TranslateMessage(m, native) \in Seq(PlainMessage(native))
         /\ TranslateMessage(m, native) \in Seq(SentMessage)
<1> DEFINE c == StripThinkingBlocks(m.blocks)
           P == PlainMessage(native)
<1>1. m.blocks \in Seq(HistoryBlock) /\ m.role \in SentRoles
  BY DEF HistoryMessage, SentRoles
<1>2. c \in Seq(HistoryBlock)
  BY <1>1, BlocksTyping DEF StripThinkingBlocks
<1> HIDE DEF c
<1> DEFINE x == ExtractToolResultMessages(c)
<1>3. /\ ExtractText(c) \in Seq(HistoryBlock)
      /\ TranslateContentBlocks(c) \in Seq(HistoryBlock)
      /\ ExtractToolCalls(c) \in Seq(CallSet)
  BY <1>2, BlocksTyping, CallsTyping DEF ExtractText, TranslateContentBlocks
<1>4. x \in Seq(P)
  <2>1. x \in Seq(PlainMessage(FALSE))
    BY <1>2, ResultMessages
  <2> QED
    BY <2>1, PlainIsSent, SeqMonotonic
<1> DEFINE u == UnlessEmpty(m.role, ExtractText(c))
           v == UnlessEmpty(m.role, TranslateContentBlocks(c))
           p == Message(m.role, ExtractText(c), ExtractToolCalls(c), NoId)
           q == Message(m.role, ExtractText(c), <<>>, NoId)
<1>5. u \in Seq(P) /\ v \in Seq(P) /\ q \in P
  BY <1>1, <1>3, TextMessage DEF PlainMessage
<1>6. native => p \in P
  BY <1>1, <1>3, MessageTyping DEF NoId, PlainMessage, CallsIf
<1>7. \/ TranslateMessage(m, native) \in {x \o u, v, <<q>>}
      \/ native /\ TranslateMessage(m, native) = <<p>>
  BY DEF TranslateMessage, c
<1> HIDE DEF u, v, p, q, x, P
<1>8. x \o u \in Seq(P)
  BY <1>4, <1>5, ConcatProperties
<1>9. (native => <<p>> \in Seq(P)) /\ <<q>> \in Seq(P)
  BY <1>5, <1>6
<1>10. TranslateMessage(m, native) \in Seq(P)
  BY <1>5, <1>7, <1>8, <1>9
<1>11. TranslateMessage(m, native) \in Seq(SentMessage)
  BY <1>10, PlainIsSent, SeqMonotonic DEF P
<1> QED
  BY <1>10, <1>11 DEF P
-----------------------------------------------------------------------------
(***************************************************************************)
(* What of the texts and results a translation lets through.               *)
(***************************************************************************)
Told == {"text", "result"}
Piece(m) ==
  (IF m.role = "tool" THEN <<Block("result", m.id, NoTool)>> ELSE <<>>) \o m.content
Pieces(ms) == [i \in 1 .. Len(ms) |-> Piece(ms[i])]
Reach(ms) == Of(FlattenSeq(Pieces(ms)), Told)

LEMMA PieceTyping ==
  ASSUME NEW m \in SentMessage
  PROVE  /\ Piece(m) \in Seq(SentBlock)
         /\ m.role # "tool" => Piece(m) = m.content
<1>1. m.content \in Seq(SentBlock) /\ m.id \in Nat
  BY DEF SentMessage, SentOf
<1> DEFINE b == Block("result", m.id, NoTool)
           e == <<>>
<1>2. b \in SentBlock
  BY <1>1 DEF Block, SentBlock, Kinds, ToolNames
<1> HIDE DEF b
<1>3. <<b>> \in Seq(SentBlock) /\ e \in Seq(SentBlock) /\ e \o m.content = m.content
  BY <1>1, <1>2, ConcatEmptySeq
<1>4. <<b>> \o m.content \in Seq(SentBlock)
  BY <1>1, <1>3, ConcatProperties
<1>5. Piece(m) = (IF m.role = "tool" THEN <<b>> ELSE e) \o m.content
  BY DEF Piece, b
<1> HIDE DEF e
<1> QED
  BY <1>1, <1>3, <1>4, <1>5

LEMMA PiecesTyping ==
  ASSUME NEW ms \in Seq(SentMessage)
  PROVE  Pieces(ms) \in Seq(Seq(SentBlock)) /\ Len(Pieces(ms)) = Len(ms)
<1> DEFINE Q == Seq(SentBlock)
<1>1. Len(ms) \in Nat /\ \A i \in 1 .. Len(ms) : ms[i] \in SentMessage
  OBVIOUS
<1>2. \A i \in 1 .. Len(ms) : Piece(ms[i]) \in Q
  BY <1>1, PieceTyping
<1> HIDE DEF Q
<1>3. Pieces(ms) \in [1 .. Len(ms) -> Q]
  BY <1>2 DEF Pieces
<1>4. Pieces(ms) \in Seq(Q) /\ Len(Pieces(ms)) = Len(ms)
  BY <1>1, <1>3
<1> QED
  BY <1>4 DEF Q

LEMMA ReachConcat ==
  ASSUME NEW ms \in Seq(SentMessage), NEW ns \in Seq(SentMessage)
  PROVE  Reach(ms \o ns) = Reach(ms) \o Reach(ns)
<1> DEFINE p == Pieces(ms)
           q == Pieces(ns)
           r == Pieces(ms \o ns)
<1>1. /\ p \in Seq(Seq(SentBlock)) /\ q \in Seq(Seq(SentBlock)) /\ r \in Seq(Seq(SentBlock))
      /\ Len(p) = Len(ms) /\ Len(q) = Len(ns) /\ Len(r) = Len(ms) + Len(ns)
  BY PiecesTyping, ConcatProperties
<1>2. r = p \o q
  <2> DEFINE Q == Seq(SentBlock)
  <2>1. /\ Len(ms) \in Nat /\ Len(ns) \in Nat
        /\ \A i \in 1 .. Len(ms) : p[i] = Piece(ms[i])
        /\ \A i \in 1 .. Len(ns) : q[i] = Piece(ns[i])
    BY DEF Pieces
  <2>2. \A i \in 1 .. Len(ms) + Len(ns) : r[i] = Piece((ms \o ns)[i])
    BY ConcatProperties DEF Pieces
  <2>3. \A i \in 1 .. Len(ms) + Len(ns) :
          (ms \o ns)[i] = IF i <= Len(ms) THEN ms[i] ELSE ns[i - Len(ms)]
    BY ConcatProperties
  <2> HIDE DEF p, q, r
  <2>4. ASSUME NEW i \in 1 .. Len(p)
        PROVE  r[i] = p[i]
    BY <1>1, <2>1, <2>2, <2>3
  <2>5. ASSUME NEW i \in 1 .. Len(q)
        PROVE  r[Len(p) + i] = q[i]
    <3> DEFINE k == Len(ms) + i
    <3>1. k \in 1 .. Len(ms) + Len(ns) /\ ~(k <= Len(ms)) /\ k - Len(ms) = i
      BY <1>1, <2>1
    <3> HIDE DEF k
    <3>2. r[k] = Piece(ns[i])
      BY <2>2, <2>3, <3>1
    <3> QED
      BY <1>1, <2>1, <3>2 DEF k
  <2>6. p \in Seq(Q) /\ q \in Seq(Q) /\ r \in Seq(Q)
    BY <1>1
  <2> HIDE DEF Q
  <2>7. Len(r) = Len(p) + Len(q)
    BY <1>1
  <2> QED
    BY <2>4, <2>5, <2>6, <2>7, ConcatIs
<1> DEFINE f == FlattenSeq(p)
           g == FlattenSeq(q)
<1> HIDE DEF p, q, r
<1>3. FlattenSeq(r) = f \o g /\ f \in Seq(SentBlock) /\ g \in Seq(SentBlock)
  BY <1>1, <1>2, FlattenConcat, FlattenTyping
<1> HIDE DEF f, g
<1>4. Of(f \o g, Told) = Of(f, Told) \o Of(g, Told)
  BY <1>3, OfConcat
<1> QED
  BY <1>3, <1>4 DEF Reach, p, q, r, f, g

LEMMA ReachOne ==
  /\ Reach(<<>>) = <<>>
  /\ \A m \in SentMessage : Reach(<<m>>) = Of(Piece(m), Told)
<1>1. Reach(<<>>) = <<>>
  <2> DEFINE e == <<>>
  <2>1. Pieces(e) = e
    BY DEF Pieces
  <2>2. FlattenSeq(e) = e /\ Of(e, Told) = e
    BY FlattenEmpty, OfEmpty
  <2> HIDE DEF e
  <2>3. Reach(e) = e
    BY <2>1, <2>2 DEF Reach
  <2> QED
    BY <2>3 DEF e
<1>2. ASSUME NEW m \in SentMessage
      PROVE  Reach(<<m>>) = Of(Piece(m), Told)
  <2> DEFINE x == Piece(m)
  <2>1. Pieces(<<m>>) = <<x>>
    BY DEF Pieces
  <2>2. x \in Seq(SentBlock)
    BY PieceTyping
  <2> HIDE DEF x
  <2>3. FlattenSeq(<<x>>) = x
    BY <2>2, FlattenOne
  <2> QED
    BY <2>1, <2>3 DEF Reach, x
<1> QED
  BY <1>1, <1>2

\* Messages with the same pieces let through the same.
LEMMA ReachSame ==
  ASSUME NEW ms \in Seq(SentMessage), NEW ns \in Seq(SentMessage), Len(ms) = Len(ns),
         \A i \in 1 .. Len(ms) : Of(Piece(ms[i]), Told) = Of(Piece(ns[i]), Told)
  PROVE  Reach(ms) = Reach(ns)
<1> DEFINE p == Pieces(ms)
           q == Pieces(ns)
<1>1. /\ p \in Seq(Seq(SentBlock)) /\ q \in Seq(Seq(SentBlock))
      /\ Len(p) = Len(ms) /\ Len(q) = Len(ms)
  BY PiecesTyping
<1>2. \A i \in 1 .. Len(ms) : p[i] = Piece(ms[i]) /\ q[i] = Piece(ns[i])
  BY DEF Pieces
<1> HIDE DEF p, q
<1>3. MapOf(p, Told) = MapOf(q, Told)
  BY <1>1, <1>2 DEF MapOf
<1>4. /\ Of(FlattenSeq(p), Told) = FlattenSeq(MapOf(p, Told))
      /\ Of(FlattenSeq(q), Told) = FlattenSeq(MapOf(q, Told))
  BY <1>1, OfFlatten
<1> QED
  BY <1>3, <1>4 DEF Reach, p, q

LEMMA ReachText ==
  ASSUME NEW role \in {"system", "user", "assistant"}, NEW content \in Seq(SentBlock)
  PROVE  /\ Reach(<<Message(role, content, <<>>, NoId)>>) = Of(content, Told)
         /\ Reach(UnlessEmpty(role, content)) = Of(content, Told)
<1> DEFINE m == Message(role, content, <<>>, NoId)
<1>1. m \in SentMessage
  BY TextMessage DEF SentRoles, SentMessage
<1>2. m.role = role /\ m.content = content
  BY DEF Message
<1>3. UnlessEmpty(role, content) = IF content = <<>> THEN <<>> ELSE <<m>>
  BY DEF UnlessEmpty
<1> HIDE DEF m
<1>4. Reach(<<m>>) = Of(content, Told)
  <2>1. Piece(m) = content
    BY <1>1, <1>2, PieceTyping
  <2> QED
    BY <1>1, <2>1, ReachOne
<1>5. content = <<>> => Of(content, Told) = <<>>
  BY OfEmpty
<1>6. Reach(UnlessEmpty(role, content)) = Of(content, Told)
  BY <1>3, <1>4, <1>5, ReachOne
<1> QED
  BY <1>4, <1>6 DEF m

LEMMA ReachResults ==
  ASSUME NEW b \in Seq(HistoryBlock)
  PROVE  Reach(ExtractToolResultMessages(b)) = Of(b, {"result"})
<1> DEFINE r == Of(b, {"result"})
           x == ExtractToolResultMessages(b)
<1>1. r \in Seq(Only(HistoryBlock, {"result"}))
  BY OfTyping
<1>2. /\ x \in Seq(SentMessage) /\ Len(x) = Len(r)
      /\ \A i \in 1 .. Len(r) : x[i] = Message("tool", <<>>, <<>>, r[i].n)
  BY ResultMessages
<1> HIDE DEF r, x
<1>3. ASSUME NEW i \in 1 .. Len(r)
      PROVE  Piece(x[i]) = <<r[i]>>
  <2> DEFINE e == <<>>
             m == Message("tool", e, e, r[i].n)
             s == <<r[i]>>
  <2>1. r[i] \in HistoryBlock /\ r[i].k = "result"
    BY <1>1 DEF Only
  <2>2. Block("result", r[i].n, NoTool) = r[i]
    BY <2>1 DEF Block, HistoryBlock
  <2>3. m.role = "tool" /\ m.content = e /\ m.id = r[i].n
    BY DEF Message
  <2>4. x[i] = m
    BY <1>2
  <2>5. s \in Seq(HistoryBlock)
    BY <2>1
  <2>6. s \o e = s
    BY <2>5, ConcatEmptySeq
  <2> HIDE DEF m, e
  <2>7. Piece(m) = s \o e
    BY <2>2, <2>3 DEF Piece
  <2> QED
    BY <2>4, <2>6, <2>7
<1>4. Pieces(x) = Singles(r)
  BY <1>2, <1>3 DEF Pieces, Singles
<1>5. FlattenSeq(Singles(r)) = r
  BY <1>1, FlattenSingles
<1>6. Of(r, Told) = r
  <2>1. \A y \in Only(HistoryBlock, {"result"}) : y.k \in Told
    BY DEF Only, Told
  <2> QED
    BY <1>1, <2>1, OfAll
<1> QED
  BY <1>4, <1>5, <1>6 DEF Reach, r, x

\* One message lets through its results and its texts.
LEMMA ReachMessage ==
  ASSUME NEW m \in HistoryMessage, NEW native \in BOOLEAN
  PROVE  Reach(TranslateMessage(m, native)) = Of(m.blocks, Told)
<1> DEFINE b == m.blocks
           c == StripThinkingBlocks(b)
           r == Of(b, {"result"})
           w == Of(b, {"text"})
<1>1. b \in Seq(HistoryBlock) /\ m.role \in {"user", "assistant"} /\ Of(b, Told) = r \o w
  BY DEF HistoryMessage, Reaching, Told
<1>2. c \in Seq(HistoryBlock) /\ r \in Seq(HistoryBlock) /\ w \in Seq(HistoryBlock)
  BY <1>1, BlocksTyping DEF StripThinkingBlocks
<1>3. \A L : Of(c, L) = Of(b, (Kinds \ {"thinking"}) \cap L)
  BY <1>1, OfOf DEF StripThinkingBlocks
<1>4. Of(c, {"result"}) = r /\ Of(c, {"text"}) = w
  <2>1. /\ (Kinds \ {"thinking"}) \cap {"result"} = {"result"}
        /\ (Kinds \ {"thinking"}) \cap {"text"} = {"text"}
    BY DEF Kinds
  <2> HIDE DEF c
  <2> QED
    BY <1>3, <2>1
<1> DEFINE text == ExtractText(c)
           picture == TranslateContentBlocks(c)
<1>5. /\ text \in Seq(SentBlock) /\ picture \in Seq(SentBlock)
      /\ ExtractToolCalls(c) \in Seq(CallSet)
      /\ ExtractToolResultMessages(c) \in Seq(SentMessage)
  BY <1>2, BlocksTyping, CallsTyping, ResultMessages DEF ExtractText, TranslateContentBlocks
<1>6. Of(text, Told) = w /\ Of(picture, Told) = w
  <2>1. /\ {"text", "image", "document"} \cap Told = {"text"}
        /\ {"text", "image"} \cap Told = {"text"}
    BY DEF Told
  <2>2. /\ Of(text, Told) = Of(c, {"text", "image", "document"} \cap Told)
        /\ Of(picture, Told) = Of(c, {"text", "image"} \cap Told)
    BY <1>2, OfOf DEF ExtractText, TranslateContentBlocks
  <2> QED
    BY <1>4, <2>1, <2>2
<1> DEFINE p == Message(m.role, text, ExtractToolCalls(c), NoId)
           q == Message(m.role, text, <<>>, NoId)
           u == UnlessEmpty(m.role, text)
           v == UnlessEmpty(m.role, picture)
           x == ExtractToolResultMessages(c)
<1>7. u \in Seq(SentMessage) /\ Reach(u) = w /\ Reach(v) = w /\ Reach(<<q>>) = w
  <2>1. m.role \in SentRoles /\ m.role \in {"system", "user", "assistant"}
    BY <1>1 DEF SentRoles
  <2>2. u \in Seq(SentMessage)
    BY <1>5, <2>1, TextMessage DEF SentMessage
  <2> HIDE DEF text, picture
  <2> QED
    BY <1>5, <1>6, <2>1, <2>2, ReachText
<1>8. Reach(<<p>>) = w
  <2>1. p \in SentMessage /\ p.role = m.role /\ p.content = text
    BY <1>1, <1>5, MessageTyping DEF NoId, SentRoles, SentMessage
  <2> HIDE DEF p, text
  <2>2. Piece(p) = text
    BY <1>1, <2>1, PieceTyping
  <2> QED
    BY <1>6, <2>1, <2>2, ReachOne
<1>9. Reach(x) = r
  BY <1>2, <1>4, ReachResults
<1>10. TranslateMessage(m, native) =
         IF r # <<>> THEN x \o u
         ELSE IF Has(c, {"image", "document"}) THEN v
         ELSE IF native /\ m.role = "assistant" /\ Has(c, {"use"}) THEN <<p>> ELSE <<q>>
  <2>1. Has(c, {"result"}) <=> r # <<>>
    BY <1>4 DEF Has
  <2>2. TranslateMessage(m, native) =
          IF Has(c, {"result"}) THEN x \o u
          ELSE IF Has(c, {"image", "document"}) THEN v
          ELSE IF native /\ m.role = "assistant" /\ Has(c, {"use"}) THEN <<p>> ELSE <<q>>
    BY Zenon DEF TranslateMessage
  <2> HIDE DEF x, u, v, p, q, c, r
  <2> QED
    BY <2>1, <2>2
<1>11. Reach(x \o u) = r \o w
  <2> HIDE DEF x, u
  <2> QED
    BY <1>5, <1>7, <1>9, ReachConcat DEF x
<1>12. r = <<>> => r \o w = w
  BY <1>2, ConcatEmptySeq
<1> HIDE DEF x, u, v, p, q, c, r, w, b
<1> QED
  BY <1>1, <1>7, <1>8, <1>10, <1>11, <1>12 DEF b
-----------------------------------------------------------------------------
(***************************************************************************)
(* The translation of a history.                                           *)
(***************************************************************************)
EachTranslated(h, native) == [i \in 1 .. Len(h) |-> TranslateMessage(h[i], native)]
Translated(h, native) == FlattenSeq(EachTranslated(h, native))
EachSaid(h) == [i \in 1 .. Len(h) |-> h[i].blocks]
Said(h) == FlattenSeq(EachSaid(h))

LEMMA TranslatedTyping ==
  ASSUME NEW h \in Seq(HistoryMessage), NEW native \in BOOLEAN
  PROVE  /\ EachTranslated(h, native) \in Seq(Seq(PlainMessage(native)))
         /\ Translated(h, native) \in Seq(PlainMessage(native))
         /\ Translated(h, native) \in Seq(SentMessage)
<1> DEFINE P == PlainMessage(native)
           Q == Seq(P)
<1>1. Len(h) \in Nat /\ \A i \in 1 .. Len(h) : h[i] \in HistoryMessage
  OBVIOUS
<1>2. \A i \in 1 .. Len(h) : TranslateMessage(h[i], native) \in Q
  BY <1>1, TranslateTyping
<1> HIDE DEF Q
<1>3. EachTranslated(h, native) \in [1 .. Len(h) -> Q]
  BY <1>2 DEF EachTranslated
<1>4. EachTranslated(h, native) \in Seq(Q)
  BY <1>1, <1>3
<1> HIDE DEF P
<1>5. Translated(h, native) \in Seq(P)
  BY <1>4, FlattenTyping DEF Translated, Q
<1>6. Translated(h, native) \in Seq(SentMessage)
  BY <1>5, PlainIsSent, SeqMonotonic DEF P
<1> QED
  BY <1>4, <1>5, <1>6 DEF P, Q

\* One message more.
LEMMA TranslatedAppend ==
  ASSUME NEW h \in Seq(HistoryMessage), NEW m \in HistoryMessage, NEW native \in BOOLEAN
  PROVE  Translated(Append(h, m), native) = Translated(h, native) \o TranslateMessage(m, native)
<1> DEFINE P == PlainMessage(native)
           Q == Seq(P)
           a == Append(h, m)
           x == EachTranslated(h, native)
           y == TranslateMessage(m, native)
           z == EachTranslated(a, native)
<1>1. /\ a \in Seq(HistoryMessage) /\ Len(a) = Len(h) + 1 /\ Len(h) \in Nat
      /\ a[Len(h) + 1] = m /\ \A i \in 1 .. Len(h) : a[i] = h[i]
  BY AppendProperties, LenProperties
<1> HIDE DEF a
<1>2. x \in Seq(Q) /\ z \in Seq(Q) /\ y \in Q
  BY <1>1, TranslatedTyping, TranslateTyping
<1>3. Len(x) = Len(h) /\ \A i \in 1 .. Len(h) : x[i] = TranslateMessage(h[i], native)
  BY <1>1 DEF EachTranslated
<1>4. Len(z) = Len(h) + 1 /\ \A i \in 1 .. Len(h) + 1 : z[i] = TranslateMessage(a[i], native)
  BY <1>1 DEF EachTranslated
<1>5. z[Len(h) + 1] = y
  BY <1>1, <1>4
<1>6. \A i \in 1 .. Len(h) : z[i] = x[i]
  BY <1>1, <1>3, <1>4
<1> HIDE DEF x, y, z, Q
<1>7. z = Append(x, y)
  <2>1. /\ Append(x, y) \in Seq(Q) /\ Len(Append(x, y)) = Len(h) + 1
        /\ Append(x, y)[Len(h) + 1] = y /\ \A i \in 1 .. Len(h) : Append(x, y)[i] = x[i]
    BY <1>2, <1>3, AppendProperties
  <2>2. ASSUME NEW i \in 1 .. Len(h) + 1
        PROVE  z[i] = Append(x, y)[i]
    <3>1. i = Len(h) + 1 \/ i \in 1 .. Len(h)
      BY <1>1
    <3> QED
      BY <1>5, <1>6, <2>1, <3>1
  <2> QED
    BY <1>2, <1>4, <2>1, <2>2, SeqEqual
<1>8. FlattenSeq(Append(x, y)) = FlattenSeq(x) \o y
  BY <1>2, FlattenAppend DEF Q
<1> QED
  BY <1>7, <1>8 DEF Translated, a, x, y, z

LEMMA SaidTyping ==
  ASSUME NEW h \in Seq(HistoryMessage)
  PROVE  EachSaid(h) \in Seq(Seq(HistoryBlock)) /\ Said(h) \in Seq(HistoryBlock)
<1> DEFINE Q == Seq(HistoryBlock)
<1>1. Len(h) \in Nat /\ \A i \in 1 .. Len(h) : h[i].blocks \in Q
  BY DEF HistoryMessage
<1> HIDE DEF Q
<1>2. EachSaid(h) \in [1 .. Len(h) -> Q]
  BY <1>1 DEF EachSaid
<1>3. EachSaid(h) \in Seq(Q)
  BY <1>1, <1>2
<1> QED
  BY <1>3, FlattenTyping DEF Said, Q

LEMMA SaidAppend ==
  ASSUME NEW h \in Seq(HistoryMessage), NEW m \in HistoryMessage
  PROVE  Said(Append(h, m)) = Said(h) \o m.blocks
<1> DEFINE Q == Seq(HistoryBlock)
           a == Append(h, m)
           x == EachSaid(h)
           y == m.blocks
           z == EachSaid(a)
<1>1. /\ a \in Seq(HistoryMessage) /\ Len(a) = Len(h) + 1 /\ Len(h) \in Nat
      /\ a[Len(h) + 1] = m /\ \A i \in 1 .. Len(h) : a[i] = h[i]
  BY AppendProperties, LenProperties
<1> HIDE DEF a
<1>2. x \in Seq(Q) /\ z \in Seq(Q) /\ y \in Q
  BY <1>1, SaidTyping DEF HistoryMessage
<1>3. Len(x) = Len(h) /\ \A i \in 1 .. Len(h) : x[i] = h[i].blocks
  BY <1>1 DEF EachSaid
<1>4. Len(z) = Len(h) + 1 /\ \A i \in 1 .. Len(h) + 1 : z[i] = a[i].blocks
  BY <1>1 DEF EachSaid
<1>5. z[Len(h) + 1] = y
  BY <1>1, <1>4
<1>6. \A i \in 1 .. Len(h) : z[i] = x[i]
  BY <1>1, <1>3, <1>4
<1> HIDE DEF x, y, z, Q
<1>7. z = Append(x, y)
  <2>1. /\ Append(x, y) \in Seq(Q) /\ Len(Append(x, y)) = Len(h) + 1
        /\ Append(x, y)[Len(h) + 1] = y /\ \A i \in 1 .. Len(h) : Append(x, y)[i] = x[i]
    BY <1>2, <1>3, AppendProperties
  <2>2. ASSUME NEW i \in 1 .. Len(h) + 1
        PROVE  z[i] = Append(x, y)[i]
    <3>1. i = Len(h) + 1 \/ i \in 1 .. Len(h)
      BY <1>1
    <3> QED
      BY <1>5, <1>6, <2>1, <3>1
  <2> QED
    BY <1>2, <1>4, <2>1, <2>2, SeqEqual
<1>8. FlattenSeq(Append(x, y)) = FlattenSeq(x) \o y
  BY <1>2, FlattenAppend DEF Q
<1> QED
  BY <1>7, <1>8 DEF Said, a, x, y, z

\* What is said reaches the model.
LEMMA ReachTranslated ==
  ASSUME NEW native \in BOOLEAN
  PROVE  \A h \in Seq(HistoryMessage) : Reach(Translated(h, native)) = Of(Said(h), Told)
<1> DEFINE T == {h \in Seq(HistoryMessage) : Reach(Translated(h, native)) = Of(Said(h), Told)}
           e == <<>>
<1>1. e \in T
  <2>1. e \in Seq(HistoryMessage) /\ EachTranslated(e, native) = e /\ EachSaid(e) = e
    BY DEF EachTranslated, EachSaid
  <2>2. FlattenSeq(e) = e /\ Of(e, Told) = e /\ Reach(e) = e
    BY FlattenEmpty, OfEmpty, ReachOne
  <2> HIDE DEF e
  <2>3. Reach(Translated(e, native)) = Of(Said(e), Told)
    BY <2>1, <2>2 DEF Translated, Said
  <2> QED
    BY <2>1, <2>3
<1>2. ASSUME NEW h \in Seq(HistoryMessage), NEW m \in HistoryMessage, h \in T
      PROVE  Append(h, m) \in T
  <2> DEFINE x == Translated(h, native)
             y == TranslateMessage(m, native)
             s == Said(h)
             a == Append(h, m)
  <2>1. x \in Seq(SentMessage) /\ y \in Seq(SentMessage)
    BY TranslatedTyping, TranslateTyping
  <2>2. s \in Seq(HistoryBlock) /\ m.blocks \in Seq(HistoryBlock)
    BY SaidTyping DEF HistoryMessage
  <2>3. Translated(a, native) = x \o y /\ Said(a) = s \o m.blocks
    BY TranslatedAppend, SaidAppend
  <2>4. Reach(x) = Of(s, Told) /\ Reach(y) = Of(m.blocks, Told)
    BY <1>2, ReachMessage
  <2>5. a \in Seq(HistoryMessage)
    BY AppendProperties
  <2> HIDE DEF x, y, s, a
  <2>6. Reach(x \o y) = Reach(x) \o Reach(y)
    BY <2>1, ReachConcat
  <2>7. Of(s \o m.blocks, Told) = Of(s, Told) \o Of(m.blocks, Told)
    BY <2>2, OfConcat
  <2>8. Reach(Translated(a, native)) = Of(Said(a), Told)
    BY <2>3, <2>4, <2>6, <2>7
  <2> QED
    BY <2>5, <2>8 DEF a
<1>3. \A h \in Seq(HistoryMessage) : h \in T
  <2> HIDE DEF T
  <2> QED
    BY <1>1, <1>2, SequenceInduction DEF e
<1> QED
  BY <1>3
-----------------------------------------------------------------------------
(***************************************************************************)
(* The requests to the upstream API.                                       *)
(***************************************************************************)
Prompt(s) == IF s THEN SystemPrompt.content ELSE <<>>

LEMMA RequestTyping ==
  ASSUME NEW s \in BOOLEAN, NEW h \in Seq(HistoryMessage), NEW native \in BOOLEAN
  PROVE  LET ms == ToChatCompletionRequest(s, h, native)
         IN  /\ ms \in Seq(PlainMessage(native)) /\ ms \in Seq(SentMessage)
             /\ Reach(ms) = Prompt(s) \o Of(Said(h), Told)
<1> DEFINE b == Block("text", 0, NoTool)
           one == <<b>>
           m == Message("system", one, <<>>, NoId)
           p == IF s THEN <<m>> ELSE <<>>
           t == Translated(h, native)
<1>1. b \in HistoryBlock /\ b.k = "text"
  BY DEF Block, HistoryBlock, Kinds, ToolNames
<1>2. one \in Seq(HistoryBlock) /\ one \in Seq(SentBlock)
  <2> HIDE DEF b
  <2>1. one \in Seq(HistoryBlock)
    BY <1>1
  <2> QED
    BY <2>1, BlocksTyping
<1>3. m \in PlainMessage(native) /\ m.content = one /\ m.role = "system"
  <2>1. "system" \in SentRoles
    BY DEF SentRoles
  <2>2. m \in SentOf(HistoryBlock, CallsIf(native))
    BY <1>2, <2>1, TextMessage
  <2>3. m.content = one /\ m.role = "system"
    BY DEF Message
  <2> QED
    BY <2>2, <2>3 DEF PlainMessage
<1>4. SystemPrompt = m
  BY DEF SystemPrompt
<1>5. Of(one, Told) = one
  <2> DEFINE B == {x \in HistoryBlock : x.k = "text"}
  <2>1. one \in Seq(B) /\ \A x \in B : x.k \in Told
    BY <1>1 DEF Told
  <2> HIDE DEF B, one
  <2> QED
    BY <2>1, OfAll
<1>6. Reach(<<m>>) = one
  <2>1. m \in SentMessage
    BY <1>3, PlainIsSent
  <2> HIDE DEF m
  <2>2. Piece(m) = one
    BY <1>3, <2>1, PieceTyping
  <2> QED
    BY <1>5, <2>1, <2>2, ReachOne
<1> HIDE DEF b, one, m
<1>7. p \in Seq(PlainMessage(native)) /\ p \in Seq(SentMessage)
  <2>1. <<m>> \in Seq(PlainMessage(native)) /\ <<>> \in Seq(PlainMessage(native))
    BY <1>3
  <2>2. p \in Seq(PlainMessage(native))
    BY <2>1
  <2> QED
    BY <2>2, PlainIsSent, SeqMonotonic
<1>8. Reach(p) = Prompt(s)
  BY <1>3, <1>4, <1>6, ReachOne DEF Prompt
<1>9. /\ t \in Seq(PlainMessage(native)) /\ t \in Seq(SentMessage)
      /\ Reach(t) = Of(Said(h), Told)
  BY TranslatedTyping, ReachTranslated
<1>10. ToChatCompletionRequest(s, h, native) = p \o t
  BY <1>4 DEF ToChatCompletionRequest, Translated, EachTranslated
<1> HIDE DEF p, t
<1>11. p \o t \in Seq(PlainMessage(native)) /\ p \o t \in Seq(SentMessage)
  BY <1>7, <1>9, ConcatProperties
<1>12. Reach(p \o t) = Reach(p) \o Reach(t)
  BY <1>7, <1>9, ReachConcat
<1> QED
  BY <1>8, <1>9, <1>10, <1>11, <1>12

HasTools(ms) == \E i \in 1 .. Len(ms) : Has(ms[i].content, {"tools"})

\* Nobody but the handler puts tools into a message.
LEMMA NoToolsInPlain ==
  ASSUME NEW native \in BOOLEAN, NEW ms \in Seq(PlainMessage(native))
  PROVE  ~HasTools(ms)
<1> SUFFICES ASSUME NEW i \in 1 .. Len(ms)
             PROVE  ~Has(ms[i].content, {"tools"})
  BY DEF HasTools
<1>1. ms[i].content \in Seq(HistoryBlock)
  <2>1. ms[i] \in PlainMessage(native)
    OBVIOUS
  <2> QED
    BY <2>1 DEF PlainMessage, SentOf
<1>2. \A x \in HistoryBlock : x.k \notin {"tools"}
  BY DEF HistoryBlock, Kinds
<1>3. Of(ms[i].content, {"tools"}) = <<>>
  BY <1>1, <1>2, OfNone
<1> QED
  BY <1>3 DEF Has

\* Something before the content of a message.
LEMMA PrependContent ==
  ASSUME NEW b \in SentBlock, NEW content \in Seq(SentBlock)
  PROVE  /\ <<b>> \o content \in Seq(SentBlock)
         /\ b.k \notin Told => Of(<<b>> \o content, Told) = Of(content, Told)
         /\ b.k = "tools" => Has(<<b>> \o content, {"tools"})
         /\ b.k # "tools" => (Has(<<b>> \o content, {"tools"}) <=> Has(content, {"tools"}))
<1> DEFINE one == <<b>>
           e == <<>>
           r == {"tools"}
<1>1. one \in Seq({b}) /\ one \in Seq(SentBlock) /\ one # <<>>
  OBVIOUS
<1>2. \A K : Of(content, K) \in Seq(SentBlock)
  BY OfTyping
<1>3. \A K : b.k \in K => Of(one, K) = one
  BY <1>1, OfAll
<1>4. \A K : b.k \notin K => Of(one, K) = <<>>
  BY <1>1, OfNone
<1> HIDE DEF one
<1>5. \A K : Of(one \o content, K) = Of(one, K) \o Of(content, K)
  BY <1>1, OfConcat
<1>6. \A K : <<>> \o Of(content, K) = Of(content, K)
  BY <1>2, ConcatEmptySeq
<1>7. \A K : b.k \notin K => Of(one \o content, K) = Of(content, K)
  BY <1>4, <1>5, <1>6
<1>8. ASSUME b.k = "tools"
      PROVE  Of(one \o content, r) # <<>>
  <2>1. Of(one \o content, r) = one \o Of(content, r)
    BY <1>3, <1>5, <1>8
  <2> HIDE DEF r
  <2>2. one \o Of(content, r) # <<>>
    BY <1>1, <1>2, ConcatEqualIffEmpty
  <2> QED
    BY <2>1, <2>2
<1>9. one \o content \in Seq(SentBlock)
  BY <1>1, ConcatProperties
<1>10. b.k # "tools" => Of(one \o content, r) = Of(content, r)
  BY <1>7
<1> QED
  BY <1>7, <1>8, <1>9, <1>10 DEF Has, one

LEMMA InjectTyping ==
  ASSUME NEW ms \in Seq(SentOf(SentBlock, {}))
  PROVE  /\ InjectTools(ms) \in Seq(SentOf(SentBlock, {}))
         /\ HasTools(InjectTools(ms))
         /\ Reach(InjectTools(ms)) = Reach(ms)
<1> DEFINE M == SentOf(SentBlock, {})
           systems == {i \in 1 .. Len(ms) : ms[i].role = "system"}
           first == CHOOSE i \in systems : \A j \in systems : i <= j
           m == Message("system", <<ToolPrompt>>, <<>>, NoId)
           c == <<ToolPrompt>> \o ms[first].content
           x == [ms EXCEPT ![first].content = c]
<1>0. M \subseteq SentMessage /\ ms \in Seq(SentMessage)
  <2>1. Seq({}) \subseteq Seq(CallSet)
    BY SeqMonotonic
  <2>2. M \subseteq SentMessage
    BY <2>1 DEF SentOf, SentMessage
  <2> QED
    BY <2>2, SeqMonotonic
<1>1. ToolPrompt \in SentBlock /\ ToolPrompt.k = "tools" /\ ToolPrompt.k \notin Told
  BY DEF ToolPrompt, Block, SentBlock, Told, ToolNames
<1>2. CASE systems = {}
  <2> DEFINE one == <<m>>
             e == <<>>
             p == <<ToolPrompt>>
  <2>1. InjectTools(ms) = one \o ms
    BY <1>2 DEF InjectTools
  <2>2. p \in Seq(SentBlock) /\ e \in Seq(SentBlock) /\ p \o e = p
    BY <1>1, ConcatEmptySeq
  <2>3. Has(p, {"tools"}) /\ Of(p, Told) = <<>>
    <3>1. Has(p \o e, {"tools"}) /\ Of(p \o e, Told) = Of(e, Told)
      BY <1>1, <2>2, PrependContent
    <3>2. Of(e, Told) = <<>>
      BY OfEmpty
    <3> HIDE DEF p, e
    <3> QED
      BY <2>2, <3>1, <3>2
  <2>4. m \in M /\ m.content = p /\ m.role = "system"
    <3>1. "system" \in SentRoles
      BY DEF SentRoles
    <3>2. m \in M
      BY <2>2, <3>1, TextMessage
    <3> QED
      BY <3>2 DEF Message
  <2>5. Reach(one) = <<>>
    <3> HIDE DEF m
    <3>1. Piece(m) = p
      BY <1>0, <2>4, PieceTyping
    <3> QED
      BY <1>0, <2>3, <2>4, <3>1, ReachOne
  <2> HIDE DEF m, M
  <2>6. one \in Seq(M) /\ one \in Seq(SentMessage) /\ one[1] = m /\ Len(one) = 1
    BY <1>0, <2>4
  <2> HIDE DEF one
  <2>7. /\ one \o ms \in Seq(M) /\ Len(one \o ms) = 1 + Len(ms)
        /\ \A i \in 1 .. 1 + Len(ms) : (one \o ms)[i] = IF i <= 1 THEN one[i] ELSE ms[i - 1]
    <3>1. ms \in Seq(M)
      BY DEF M
    <3>2. /\ one \o ms \in Seq(M) /\ Len(one \o ms) = Len(one) + Len(ms)
          /\ \A i \in 1 .. Len(one) + Len(ms) :
               (one \o ms)[i] = IF i <= Len(one) THEN one[i] ELSE ms[i - Len(one)]
      BY <2>6, <3>1, ConcatProperties
    <3> QED
      BY <2>6, <3>2
  <2>8. HasTools(one \o ms)
    <3>1. 1 \in 1 .. Len(one \o ms) /\ (one \o ms)[1] = m
      BY <2>6, <2>7, LenProperties
    <3> QED
      BY <2>3, <2>4, <3>1 DEF HasTools
  <2>9. Reach(one \o ms) = Reach(ms)
    <3>1. Reach(one \o ms) = Reach(one) \o Reach(ms)
      BY <1>0, <2>6, ReachConcat
    <3>2. Reach(ms) \in Seq(SentBlock)
      BY <1>0, PiecesTyping, FlattenTyping, OfTyping DEF Reach
    <3> QED
      BY <2>5, <3>1, <3>2, ConcatEmptySeq
  <2> QED
    BY <2>1, <2>7, <2>8, <2>9 DEF M
<1>3. CASE systems # {}
  <2>1. first \in 1 .. Len(ms) /\ ms[first].role = "system"
    <3>1. systems \in SUBSET Nat
      OBVIOUS
    <3>2. first = Least(systems)
      BY DEF Least
    <3>3. first \in systems
      <4> HIDE DEF systems, first
      <4> QED
        BY <1>3, <3>1, <3>2, LeastIs
    <3> QED
      BY <3>3
  <2>2. InjectTools(ms) = x
    BY <1>3 DEF InjectTools
  <2> HIDE DEF first
  <2>3. Len(ms) \in Nat /\ \A i \in 1 .. Len(ms) : ms[i] \in M
    OBVIOUS
  <2>4. ms[first].content \in Seq(SentBlock)
    BY <2>1, <2>3 DEF SentOf
  <2>5. /\ c \in Seq(SentBlock) /\ Has(c, {"tools"})
        /\ Of(c, Told) = Of(ms[first].content, Told)
    BY <1>1, <2>4, PrependContent
  <2> HIDE DEF c
  <2>6. [ms[first] EXCEPT !.content = c] \in M
    BY <2>1, <2>3, <2>5 DEF SentOf
  <2>7. /\ Len(x) = Len(ms) /\ x[first] = [ms[first] EXCEPT !.content = c]
        /\ \A i \in 1 .. Len(ms) : i # first => x[i] = ms[i]
    BY <2>1, <2>3
  <2>8. x \in Seq(M)
    <3> HIDE DEF M
    <3> QED
      BY <2>1, <2>3, <2>6 DEF M
  <2>9. x[first].content = c /\ x[first].role = "system"
    <3>1. /\ [ms[first] EXCEPT !.content = c].content = c
          /\ [ms[first] EXCEPT !.content = c].role = ms[first].role
      BY <2>1, <2>3 DEF SentOf
    <3> HIDE DEF x
    <3> QED
      BY <2>1, <2>7, <3>1
  <2> HIDE DEF x
  <2>10. HasTools(x)
    BY <2>1, <2>5, <2>7, <2>9 DEF HasTools
  <2>11. x \in Seq(SentMessage)
    BY <1>0, <2>8, SeqMonotonic
  <2>12. ASSUME NEW i \in 1 .. Len(ms)
         PROVE  Of(Piece(x[i]), Told) = Of(Piece(ms[i]), Told)
    <3>1. CASE i = first
      <4>1. x[first] \in SentMessage /\ ms[first] \in SentMessage
        BY <1>0, <2>1, <2>7, <2>11
      <4>2. Piece(x[first]) = c /\ Piece(ms[first]) = ms[first].content
        BY <2>1, <2>9, <4>1, PieceTyping
      <4> QED
        BY <2>5, <3>1, <4>2
    <3>2. CASE i # first
      BY <2>7, <3>2
    <3> QED
      BY <3>1, <3>2
  <2>13. Reach(x) = Reach(ms)
    BY <1>0, <2>7, <2>11, <2>12, ReachSame
  <2> QED
    BY <2>2, <2>8, <2>10, <2>13
<1> QED
  BY <1>2, <1>3

\* A message that the upstream API understands without native tools.
Simple == SentOf(SentBlock, {})

LEMMA SimpleIsSent ==
  /\ Simple \subseteq SentMessage
  /\ PlainMessage(FALSE) \subseteq Simple
  /\ \A m \in Simple : m.calls = <<>>
<1>1. HistoryBlock \subseteq SentBlock
  BY DEF HistoryBlock, SentBlock
<1>2. Seq({}) \subseteq Seq(CallSet) /\ Seq(HistoryBlock) \subseteq Seq(SentBlock)
  BY <1>1, SeqMonotonic
<1>3. Simple \subseteq SentMessage /\ PlainMessage(FALSE) \subseteq Simple
  BY <1>2 DEF Simple, SentOf, SentMessage, PlainMessage, CallsIf
<1>4. \A x \in Seq({}) : x = <<>>
  <2>1. ASSUME NEW x \in Seq({})
        PROVE  Len(x) = 0
    <3>1. Len(x) \in Nat /\ \A i \in 1 .. Len(x) : x[i] \in {}
      BY <2>1
    <3>2. ~ 1 \in 1 .. Len(x)
      BY <3>1
    <3> QED
      BY <3>1, <3>2
  <2> QED
    BY <2>1, EmptySeq
<1>5. ASSUME NEW m \in Simple
      PROVE  m.calls = <<>>
  <2>1. m.calls \in Seq({})
    BY DEF Simple, SentOf
  <2> QED
    BY <1>4, <2>1
<1> QED
  BY <1>3, <1>5

\* A result becomes a text of the user which still says whose result it is.
LEMMA ToolMessageTyping ==
  ASSUME NEW m \in Simple, m.role = "tool"
  PROVE  LET x == Message("user", <<Block("result", m.id, NoTool)>> \o m.content,
                          m.calls, NoId)
         IN  /\ x \in Simple /\ x.role = "user"
             /\ Piece(x) = Piece(m)
             /\ Has(x.content, {"tools"}) <=> Has(m.content, {"tools"})
<1> DEFINE b == Block("result", m.id, NoTool)
           c == <<b>> \o m.content
           x == Message("user", c, m.calls, NoId)
<1>1. m.content \in Seq(SentBlock) /\ m.calls \in Seq({}) /\ m.id \in Nat
  BY DEF Simple, SentOf
<1>2. b \in SentBlock /\ b.k # "tools"
  BY <1>1 DEF Block, SentBlock, Kinds, ToolNames
<1>3. Piece(m) = c
  BY DEF Piece
<1> HIDE DEF b
<1>4. c \in Seq(SentBlock) /\ (Has(c, {"tools"}) <=> Has(m.content, {"tools"}))
  BY <1>1, <1>2, PrependContent
<1> HIDE DEF c
<1>5. x \in Simple /\ x.content = c /\ x.role = "user"
  <2>1. "user" \in SentRoles /\ NoId \in Nat
    BY DEF SentRoles, NoId
  <2> QED
    BY <1>1, <1>4, <2>1, MessageTyping DEF Simple
<1> HIDE DEF x
<1>6. Piece(x) = c
  <2>1. x \in SentMessage
    BY <1>5, SimpleIsSent
  <2> QED
    BY <1>5, <2>1, PieceTyping
<1> QED
  BY <1>3, <1>4, <1>5, <1>6 DEF x, c, b

LEMMA ToolMessagesTyping ==
  ASSUME NEW ms \in Seq(Simple)
  PROVE  LET x == TranslateToolMessages(ms)
         IN  /\ x \in Seq(Simple) /\ x \in Seq(SentMessage)
             /\ \A i \in 1 .. Len(x) : x[i].role # "tool" /\ x[i].calls = <<>>
             /\ Reach(x) = Reach(ms)
             /\ HasTools(x) <=> HasTools(ms)
<1> DEFINE x == TranslateToolMessages(ms)
           new(m) == IF m.role = "tool"
                     THEN Message("user", <<Block("result", m.id, NoTool)>> \o m.content,
                                  m.calls, NoId)
                     ELSE m
<1>1. x = [i \in 1 .. Len(ms) |-> new(ms[i])]
  BY DEF TranslateToolMessages
<1>2. ASSUME NEW m \in Simple
      PROVE  /\ new(m) \in Simple /\ new(m).role # "tool" /\ Piece(new(m)) = Piece(m)
             /\ Has(new(m).content, {"tools"}) <=> Has(m.content, {"tools"})
  <2>1. CASE m.role = "tool"
    <3> DEFINE y == Message("user", <<Block("result", m.id, NoTool)>> \o m.content,
                            m.calls, NoId)
    <3>1. /\ y \in Simple /\ y.role = "user" /\ Piece(y) = Piece(m)
          /\ Has(y.content, {"tools"}) <=> Has(m.content, {"tools"})
      BY <2>1, ToolMessageTyping
    <3>2. new(m) = y
      BY <2>1
    <3> HIDE DEF y, new
    <3> QED
      BY <3>1, <3>2
  <2>2. CASE m.role # "tool"
    BY <2>2
  <2> QED
    BY <2>1, <2>2
<1>3. Len(ms) \in Nat /\ \A i \in 1 .. Len(ms) : ms[i] \in Simple
  OBVIOUS
<1> HIDE DEF x, new
<1>4. x \in [1 .. Len(ms) -> Simple]
  BY <1>1, <1>2, <1>3
<1>5. x \in Seq(Simple) /\ Len(x) = Len(ms)
  BY <1>3, <1>4
<1>6. \A i \in 1 .. Len(ms) : x[i] = new(ms[i])
  BY <1>1
<1>7. x \in Seq(SentMessage) /\ ms \in Seq(SentMessage)
  BY <1>5, SimpleIsSent, SeqMonotonic
<1>8. \A i \in 1 .. Len(ms) : x[i].role # "tool" /\ x[i].calls = <<>>
  BY <1>2, <1>3, <1>4, <1>6, SimpleIsSent
<1>9. \A i \in 1 .. Len(ms) : Piece(ms[i]) = Piece(x[i])
  BY <1>2, <1>3, <1>6
<1>10. Reach(x) = Reach(ms)
  BY <1>5, <1>7, <1>9, ReachSame
<1>11. \A i \in 1 .. Len(ms) : Has(x[i].content, {"tools"}) <=> Has(ms[i].content, {"tools"})
  BY <1>2, <1>3, <1>6
<1>12. HasTools(x) <=> HasTools(ms)
  BY <1>5, <1>11 DEF HasTools
<1> QED
  BY <1>5, <1>7, <1>8, <1>10, <1>12 DEF x

\* The request of XML injection.
Injected(s, h, offered) ==
  TranslateToolMessages(IF offered = <<>> THEN ToChatCompletionRequest(s, h, FALSE)
                        ELSE InjectTools(ToChatCompletionRequest(s, h, FALSE)))

LEMMA InjectedTyping ==
  ASSUME NEW s \in BOOLEAN, NEW h \in Seq(HistoryMessage), NEW offered
  PROVE  LET x == Injected(s, h, offered)
         IN  /\ x \in Seq(SentMessage)
             /\ \A i \in 1 .. Len(x) : x[i].role # "tool" /\ x[i].calls = <<>>
             /\ Reach(x) = Prompt(s) \o Of(Said(h), Told)
             /\ HasTools(x) <=> offered # <<>>
<1> DEFINE ms == ToChatCompletionRequest(s, h, FALSE)
           ns == InjectTools(ms)
           ys == IF offered = <<>> THEN ms ELSE ns
           x == TranslateToolMessages(ys)
<1>1. /\ ms \in Seq(PlainMessage(FALSE))
      /\ Reach(ms) = Prompt(s) \o Of(Said(h), Told)
  BY RequestTyping
<1>2. ~HasTools(ms) /\ ms \in Seq(Simple)
  BY <1>1, NoToolsInPlain, SimpleIsSent, SeqMonotonic
<1> HIDE DEF ms
<1>3. ns \in Seq(Simple) /\ HasTools(ns) /\ Reach(ns) = Reach(ms)
  BY <1>2, InjectTyping DEF Simple
<1> HIDE DEF ns
<1>4. ys \in Seq(Simple) /\ Reach(ys) = Reach(ms) /\ (HasTools(ys) <=> offered # <<>>)
  BY <1>2, <1>3
<1> HIDE DEF ys
<1>5. /\ x \in Seq(SentMessage)
      /\ \A i \in 1 .. Len(x) : x[i].role # "tool" /\ x[i].calls = <<>>
      /\ Reach(x) = Reach(ys)
      /\ HasTools(x) <=> HasTools(ys)
  BY <1>4, ToolMessagesTyping
<1>6. Injected(s, h, offered) = x
  BY DEF Injected, ms, ns, ys
<1> HIDE DEF x
<1> QED
  BY <1>1, <1>4, <1>5, <1>6
-----------------------------------------------------------------------------
(***************************************************************************)
(* The answers.                                                            *)
(***************************************************************************)
\* A name that was cut off comes back as the client knows it.
LEMMA NamesComeBack ==
  ASSUME NEW ts \in Seq(ShortNames \cup LongNames), NEW i \in 1 .. Len(ts)
  PROVE  RestoreToolName(TranslateTools(ts).names[i], TranslateTools(ts).mapping) = ts[i]
<1> DEFINE cut == {Cut[n] : n \in ToSet(ts) \cap LongNames}
           back == [c \in cut |-> CHOOSE n \in LongNames : Cut[n] = c]
           name == TruncateToolName(ts[i])
<1>1. ts[i] \in ShortNames \cup LongNames /\ ts[i] \in ToSet(ts)
  BY DEF ToSet
<1>2. TranslateTools(ts).names[i] = name /\ TranslateTools(ts).mapping = back
  BY DEF TranslateTools
<1>3. CASE ts[i] \in LongNames
  <2>1. name = Cut[ts[i]] /\ name \in cut
    BY <1>1, <1>3 DEF TruncateToolName
  <2>2. (CHOOSE n \in LongNames : Cut[n] = name) = ts[i]
    BY <1>3, <2>1, NamesAssumption
  <2>3. DOMAIN back = cut /\ back[name] = ts[i]
    BY <2>1, <2>2
  <2> QED
    BY <1>2, <2>1, <2>3 DEF RestoreToolName
<1>4. CASE ts[i] \notin LongNames
  <2>1. name = ts[i] /\ name \in ShortNames
    BY <1>1, <1>4 DEF TruncateToolName
  <2>2. name \notin cut
    BY <2>1, NamesAssumption
  <2>3. DOMAIN back = cut
    OBVIOUS
  <2> QED
    BY <1>2, <2>1, <2>2, <2>3 DEF RestoreToolName
<1> QED
  BY <1>3, <1>4

UsesOf(calls) == [i \in 1 .. Len(calls) |-> ToolUse(calls[i])]
Stops == {"tool_use", "end_turn", "max_tokens"}

\* The answer to a first choice with these calls.
AnswerTo(answered, calls) ==
  /\ answered \in [blocks : Seq(AnswerBlock), stop : Stops]
  /\ Uses(answered.blocks) = UsesOf(calls)
  /\ answered.stop = "tool_use" <=> calls # <<>>

LEMMA UsesTyping ==
  ASSUME NEW calls \in Seq(CallSet)
  PROVE  /\ UsesOf(calls) \in Seq(Only(AnswerBlock, {"use"}))
         /\ UsesOf(calls) \in Seq(AnswerBlock)
         /\ Len(UsesOf(calls)) = Len(calls)
<1> DEFINE O == Only(AnswerBlock, {"use"})
<1>1. Len(calls) \in Nat /\ \A i \in 1 .. Len(calls) : calls[i] \in CallSet
  OBVIOUS
<1>2. \A c \in CallSet : ToolUse(c) \in O
  BY DEF ToolUse, CallSet, AnswerBlock, Only
<1>3. O \subseteq AnswerBlock
  BY DEF Only
<1> HIDE DEF O
<1>4. UsesOf(calls) \in [1 .. Len(calls) -> O]
  BY <1>1, <1>2 DEF UsesOf
<1>5. UsesOf(calls) \in Seq(O) /\ Len(UsesOf(calls)) = Len(calls)
  BY <1>1, <1>4
<1>6. UsesOf(calls) \in Seq(AnswerBlock)
  BY <1>3, <1>5, SeqMonotonic
<1> QED
  BY <1>5, <1>6 DEF O

LEMMA AnswerTyping ==
  ASSUME NEW choices, choices # <<>>, Head(choices).text \in Nat,
         Head(choices).calls \in Seq(CallSet),
         Head(choices).calls = <<>> => Head(choices).finish \in {"stop", "length"}
  PROVE  AnswerTo(ToAnthropicResponse(choices), Head(choices).calls)
<1> DEFINE first == Head(choices)
           texts == IF first.text = 0 THEN <<>> ELSE <<TextBlock(first.text)>>
           uses == UsesOf(first.calls)
           none == <<TextBlock(0)>>
           blocks == IF texts \o uses = <<>> THEN none ELSE texts \o uses
           a == ToAnthropicResponse(choices)
           T == Only(AnswerBlock, {"text"})
           K == {"use"}
<1>1. first.calls \in Seq(CallSet) /\ first.text \in Nat
  OBVIOUS
<1>2. a = [blocks |-> blocks,
           stop |-> IF uses # <<>> THEN "tool_use" ELSE MapFinish(first.finish)]
  BY DEF ToAnthropicResponse, UsesOf
<1>3. \A n \in Nat : TextBlock(n) \in T
  BY DEF TextBlock, AnswerBlock, Only, ToolNames
<1>4. (first.calls = <<>>) => first.finish \in {"stop", "length"}
  OBVIOUS
<1> HIDE DEF first, T
<1>5. texts \in Seq(T) /\ none \in Seq(T)
  BY <1>1, <1>3
<1>6. T \subseteq AnswerBlock /\ \A x \in T : x.k \notin K
  BY DEF T, Only
<1>7. /\ uses \in Seq(Only(AnswerBlock, K)) /\ uses \in Seq(AnswerBlock)
      /\ Len(uses) = Len(first.calls)
  BY <1>1, UsesTyping
<1>8. uses = <<>> <=> first.calls = <<>>
  <2>1. Len(uses) = 0 <=> uses = <<>>
    BY <1>7, EmptySeq
  <2>2. Len(first.calls) = 0 <=> first.calls = <<>>
    BY <1>1, EmptySeq
  <2> QED
    BY <1>7, <2>1, <2>2
<1> HIDE DEF texts, uses, none
<1>9. texts \in Seq(AnswerBlock) /\ none \in Seq(AnswerBlock)
  BY <1>5, <1>6, SeqMonotonic
<1>10. Of(texts, K) = <<>> /\ Of(none, K) = <<>>
  BY <1>5, <1>6, OfNone
<1>11. Of(uses, K) = uses
  <2>1. \A x \in Only(AnswerBlock, K) : x.k \in K
    BY DEF Only
  <2> QED
    BY <1>7, <2>1, OfAll
<1>12. texts \o uses \in Seq(AnswerBlock)
  BY <1>7, <1>9, ConcatProperties
<1>13. Of(texts \o uses, K) = uses
  <2>1. Of(texts \o uses, K) = Of(texts, K) \o Of(uses, K)
    BY <1>7, <1>9, OfConcat
  <2>2. <<>> \o uses = uses
    BY <1>7, ConcatEmptySeq
  <2> QED
    BY <1>10, <1>11, <2>1, <2>2
<1>14. texts \o uses = <<>> => uses = <<>>
  <2>1. ASSUME texts \o uses = <<>>
        PROVE  Of(texts \o uses, K) = <<>>
    BY <2>1, OfEmpty
  <2> QED
    BY <1>13, <2>1
<1>15. blocks \in Seq(AnswerBlock) /\ Of(blocks, K) = uses
  BY <1>9, <1>10, <1>12, <1>13, <1>14
<1>16. uses = <<>> => MapFinish(first.finish) \in {"end_turn", "max_tokens"}
  BY <1>4, <1>8 DEF MapFinish
<1> HIDE DEF blocks
<1>17. a.blocks = blocks /\ a \in [blocks : Seq(AnswerBlock), stop : Stops]
       /\ (a.stop = "tool_use" <=> uses # <<>>)
  BY <1>2, <1>15, <1>16 DEF Stops
<1> QED
  BY <1>8, <1>15, <1>17 DEF AnswerTo, Uses, uses, first
-----------------------------------------------------------------------------
(***************************************************************************)
(* Calls and their results, with native tools.                             *)
(***************************************************************************)
\* The results of the calls of the i-th message come right after it.
ResultsAt(ms, i) ==
  LET n == Len(ms[i].calls)
  IN  ms[i].calls # <<>> =>
        /\ i + n <= Len(ms)
        /\ \A j \in 1 .. n : ms[i + j].role = "tool"
        /\ {ms[i + j].id : j \in 1 .. n} = {ms[i].calls[j].id : j \in 1 .. n}
\* The i-th message, if it is a result, is the result of a call.
CallAt(ms, i) ==
  ms[i].role = "tool" => \E j \in 1 .. i - 1 : i <= j + Len(ms[j].calls)
Closed(ms) == \A i \in 1 .. Len(ms) : ResultsAt(ms, i) /\ CallAt(ms, i)

LEMMA SentCalls ==
  ASSUME NEW m \in SentMessage
  PROVE  Len(m.calls) \in Nat /\ (m.calls = <<>> <=> Len(m.calls) = 0)
<1>1. m.calls \in Seq(CallSet)
  BY DEF SentMessage, SentOf
<1> QED
  BY <1>1, EmptySeq, LenProperties

LEMMA ClosedPlain ==
  ASSUME NEW ms \in Seq(SentMessage),
         \A i \in 1 .. Len(ms) : ms[i].role # "tool" /\ ms[i].calls = <<>>
  PROVE  Closed(ms)
BY DEF Closed, ResultsAt, CallAt

LEMMA ClosedConcat ==
  ASSUME NEW a \in Seq(SentMessage), NEW b \in Seq(SentMessage), Closed(a), Closed(b)
  PROVE  Closed(a \o b)
<1> DEFINE c == a \o b
           k == Len(a)
           n(m) == Len(m.calls)
<1>1. /\ k \in Nat /\ Len(b) \in Nat /\ Len(c) = k + Len(b)
      /\ \A i \in 1 .. k : a[i] \in SentMessage
      /\ \A i \in 1 .. Len(b) : b[i] \in SentMessage
  BY ConcatProperties, LenProperties
<1>2. \A i \in 1 .. k + Len(b) : c[i] = IF i <= k THEN a[i] ELSE b[i - k]
  BY ConcatProperties
<1> HIDE DEF c, k
<1>3. \A i \in 1 .. k : c[i] = a[i]
  BY <1>1, <1>2
<1>4. \A i \in 1 .. Len(b) : c[k + i] = b[i]
  <2>1. ASSUME NEW i \in 1 .. Len(b)
        PROVE  c[k + i] = b[i]
    <3>1. k + i \in 1 .. k + Len(b) /\ ~(k + i <= k) /\ (k + i) - k = i
      BY <1>1
    <3> HIDE DEF c
    <3> QED
      BY <1>2, <3>1
  <2> QED
    BY <2>1
<1>5. \A i \in 1 .. k : n(a[i]) \in Nat
  BY <1>1, SentCalls
<1>6. \A i \in 1 .. Len(b) : n(b[i]) \in Nat
  BY <1>1, SentCalls
<1>7. ASSUME NEW i \in 1 .. k
      PROVE  ResultsAt(c, i) /\ CallAt(c, i)
  <2>1. ResultsAt(a, i) /\ CallAt(a, i) /\ c[i] = a[i] /\ i \in Nat /\ 1 <= i /\ i <= k
    BY <1>1, <1>3 DEF Closed, k
  <2>2. ResultsAt(c, i)
    <3> SUFFICES ASSUME a[i].calls # <<>>
                 PROVE  /\ i + n(a[i]) <= Len(c)
                        /\ \A j \in 1 .. n(a[i]) : c[i + j].role = "tool"
                        /\ {c[i + j].id : j \in 1 .. n(a[i])}
                             = {a[i].calls[j].id : j \in 1 .. n(a[i])}
      BY <2>1 DEF ResultsAt
    <3>1. /\ i + n(a[i]) <= k
          /\ \A j \in 1 .. n(a[i]) : a[i + j].role = "tool"
          /\ {a[i + j].id : j \in 1 .. n(a[i])} = {a[i].calls[j].id : j \in 1 .. n(a[i])}
      BY <2>1 DEF ResultsAt, k
    <3>2. n(a[i]) \in Nat
      BY <1>5
    <3> HIDE DEF n
    <3>3. \A j \in 1 .. n(a[i]) : i + j \in 1 .. k
      BY <1>1, <2>1, <3>1, <3>2
    <3>4. \A j \in 1 .. n(a[i]) : c[i + j] = a[i + j]
      BY <1>3, <3>3
    <3>5. {c[i + j].id : j \in 1 .. n(a[i])} = {a[i + j].id : j \in 1 .. n(a[i])}
      BY <3>4
    <3>6. i + n(a[i]) <= Len(c)
      BY <1>1, <2>1, <3>1, <3>2
    <3> QED
      BY <3>1, <3>4, <3>5, <3>6
  <2>3. CallAt(c, i)
    <3> SUFFICES ASSUME a[i].role = "tool"
                 PROVE  \E j \in 1 .. i - 1 : i <= j + Len(c[j].calls)
      BY <2>1 DEF CallAt
    <3>1. PICK j \in 1 .. i - 1 : i <= j + Len(a[j].calls)
      BY <2>1 DEF CallAt
    <3>2. j \in 1 .. k
      BY <1>1, <2>1, <3>1
    <3> QED
      BY <1>3, <3>1, <3>2
  <2> QED
    BY <2>2, <2>3
<1>8. ASSUME NEW i \in 1 .. Len(b)
      PROVE  ResultsAt(c, k + i) /\ CallAt(c, k + i)
  <2>1. ResultsAt(b, i) /\ CallAt(b, i) /\ c[k + i] = b[i] /\ i \in Nat /\ 1 <= i /\ i <= Len(b)
    BY <1>1, <1>4 DEF Closed
  <2>2. ResultsAt(c, k + i)
    <3> SUFFICES ASSUME b[i].calls # <<>>
                 PROVE  /\ (k + i) + n(b[i]) <= Len(c)
                        /\ \A j \in 1 .. n(b[i]) : c[(k + i) + j].role = "tool"
                        /\ {c[(k + i) + j].id : j \in 1 .. n(b[i])}
                             = {b[i].calls[j].id : j \in 1 .. n(b[i])}
      BY <2>1 DEF ResultsAt
    <3>1. /\ i + n(b[i]) <= Len(b)
          /\ \A j \in 1 .. n(b[i]) : b[i + j].role = "tool"
          /\ {b[i + j].id : j \in 1 .. n(b[i])} = {b[i].calls[j].id : j \in 1 .. n(b[i])}
      BY <2>1 DEF ResultsAt
    <3>2. n(b[i]) \in Nat
      BY <1>6
    <3> HIDE DEF n
    <3>3. \A j \in 1 .. n(b[i]) : i + j \in 1 .. Len(b) /\ (k + i) + j = k + (i + j)
      BY <1>1, <2>1, <3>1, <3>2
    <3>4. \A j \in 1 .. n(b[i]) : c[(k + i) + j] = b[i + j]
      <4>1. ASSUME NEW j \in 1 .. n(b[i])
            PROVE  c[(k + i) + j] = b[i + j]
        <5> DEFINE x == (k + i) + j
                   y == i + j
        <5>1. x = k + y /\ y \in 1 .. Len(b)
          BY <3>3
        <5> HIDE DEF x, y
        <5>2. c[x] = b[y]
          BY <1>4, <5>1
        <5> QED
          BY <5>2 DEF x, y
      <4> QED
        BY <4>1
    <3>5. {c[(k + i) + j].id : j \in 1 .. n(b[i])} = {b[i + j].id : j \in 1 .. n(b[i])}
      BY <3>4
    <3>6. (k + i) + n(b[i]) <= Len(c)
      BY <1>1, <2>1, <3>1, <3>2
    <3> QED
      BY <3>1, <3>4, <3>5, <3>6
  <2>3. CallAt(c, k + i)
    <3> SUFFICES ASSUME b[i].role = "tool"
                 PROVE  \E j \in 1 .. (k + i) - 1 : k + i <= j + Len(c[j].calls)
      BY <2>1 DEF CallAt
    <3>1. PICK j \in 1 .. i - 1 : i <= j + Len(b[j].calls)
      BY <2>1 DEF CallAt
    <3>2. j \in 1 .. Len(b) /\ k + j \in 1 .. (k + i) - 1
      BY <1>1, <2>1, <3>1
    <3>3. n(b[j]) \in Nat /\ c[k + j] = b[j]
      BY <1>4, <1>6, <3>2
    <3>4. k + i <= (k + j) + n(b[j])
      <4>1. i <= j + n(b[j])
        BY <3>1
      <4> HIDE DEF n
      <4> QED
        BY <1>1, <2>1, <3>2, <3>3, <4>1
    <3> QED
      BY <3>2, <3>3, <3>4
  <2> QED
    BY <2>2, <2>3
<1>9. ASSUME NEW i \in 1 .. Len(c)
      PROVE  ResultsAt(c, i) /\ CallAt(c, i)
  <2>1. CASE i <= k
    <3>1. i \in 1 .. k
      BY <1>1, <2>1
    <3> QED
      BY <1>7, <3>1
  <2>2. CASE ~(i <= k)
    <3>1. PICK y \in 1 .. Len(b) : i = k + y
      <4>1. i - k \in 1 .. Len(b) /\ i = k + (i - k)
        BY <1>1, <2>2
      <4> QED
        BY <4>1
    <3> QED
      BY <1>8, <3>1
  <2> QED
    BY <2>1, <2>2
<1> QED
  BY <1>9 DEF Closed, c

LEMMA ConsProperties ==
  ASSUME NEW S, NEW m \in S, NEW s \in Seq(S)
  PROVE  /\ <<m>> \o s \in Seq(S)
         /\ Len(<<m>> \o s) = 1 + Len(s)
         /\ (<<m>> \o s)[1] = m
         /\ \A i \in 1 .. Len(s) : (<<m>> \o s)[1 + i] = s[i]
<1> DEFINE one == <<m>>
<1>1. one \in Seq(S) /\ Len(one) = 1 /\ one[1] = m /\ Len(s) \in Nat
  BY LenProperties
<1> HIDE DEF one
<1> DEFINE c == one \o s
<1>2. /\ c \in Seq(S) /\ Len(c) = Len(one) + Len(s)
      /\ \A i \in 1 .. Len(one) + Len(s) :
           c[i] = IF i <= Len(one) THEN one[i] ELSE s[i - Len(one)]
  BY <1>1, ConcatProperties
<1> HIDE DEF c
<1>3. \A i \in 1 .. 1 + Len(s) : c[i] = IF i <= 1 THEN one[i] ELSE s[i - 1]
  BY <1>1, <1>2
<1>4. c[1] = m
  BY <1>1, <1>3
<1>5. ASSUME NEW i \in 1 .. Len(s)
      PROVE  c[1 + i] = s[i]
  <2>1. 1 + i \in 1 .. 1 + Len(s) /\ ~(1 + i <= 1) /\ (1 + i) - 1 = i
    BY <1>1
  <2> QED
    BY <1>3, <2>1
<1> QED
  BY <1>1, <1>2, <1>4, <1>5 DEF c, one

\* A message with calls and then their results.
LEMMA ClosedExchange ==
  ASSUME NEW m \in SentMessage, m.role # "tool",
         NEW rs \in Seq(SentMessage), Len(rs) = Len(m.calls),
         \A i \in 1 .. Len(rs) : rs[i].role = "tool" /\ rs[i].calls = <<>>,
         {rs[i].id : i \in 1 .. Len(rs)} = {m.calls[i].id : i \in 1 .. Len(m.calls)}
  PROVE  Closed(<<m>> \o rs)
<1> DEFINE c == <<m>> \o rs
           n == Len(rs)
<1>1. /\ Len(c) = 1 + n /\ c[1] = m /\ n \in Nat
      /\ \A i \in 1 .. n : c[1 + i] = rs[i]
  BY ConsProperties, LenProperties
<1>2. Len(m.calls) = n
  OBVIOUS
<1> HIDE DEF c
<1>3. \A i \in 1 .. n : rs[i].role = "tool" /\ rs[i].calls = <<>>
  OBVIOUS
<1>4. {rs[i].id : i \in 1 .. n} = {m.calls[i].id : i \in 1 .. n}
  OBVIOUS
<1> HIDE DEF n
<1>5. ResultsAt(c, 1) /\ CallAt(c, 1)
  <2>1. {c[1 + i].id : i \in 1 .. n} = {rs[i].id : i \in 1 .. n}
    <3>1. \A i \in 1 .. n : c[1 + i].id = rs[i].id
      BY <1>1
    <3> QED
      BY <3>1, Zenon
  <2>2. \A i \in 1 .. n : c[1 + i].role = "tool"
    BY <1>1, <1>3
  <2>3. Len(c[1].calls) = n /\ c[1].role # "tool" /\ 1 + n <= Len(c)
    BY <1>1, <1>2
  <2>4. {c[1].calls[i].id : i \in 1 .. n} = {m.calls[i].id : i \in 1 .. n}
    BY <1>1
  <2>5. {c[1 + i].id : i \in 1 .. n} = {c[1].calls[i].id : i \in 1 .. n}
    BY <1>4, <2>1, <2>4
  <2>6. ResultsAt(c, 1)
    BY <2>2, <2>3, <2>5 DEF ResultsAt
  <2> QED
    BY <2>3, <2>6 DEF CallAt
<1>6. ASSUME NEW i \in 1 .. n
      PROVE  ResultsAt(c, 1 + i) /\ CallAt(c, 1 + i)
  <2>1. c[1 + i].calls = <<>>
    BY <1>1, <1>3
  <2>2. 1 \in 1 .. (1 + i) - 1 /\ 1 + i <= 1 + Len(c[1].calls)
    BY <1>1, <1>2
  <2> QED
    BY <2>1, <2>2 DEF ResultsAt, CallAt
<1>7. ASSUME NEW i \in 1 .. Len(c)
       PROVE  ResultsAt(c, i) /\ CallAt(c, i)
  <2>1. CASE i = 1
    BY <1>5, <2>1
  <2>2. CASE i # 1
    <3>1. PICK y \in 1 .. n : i = 1 + y
      <4>1. i - 1 \in 1 .. n /\ i = 1 + (i - 1)
        BY <1>1, <2>2
      <4> QED
        BY <4>1
    <3> QED
      BY <1>6, <3>1
  <2> QED
    BY <2>1, <2>2
<1> QED
  BY <1>7 DEF Closed, c
-----------------------------------------------------------------------------
(***************************************************************************)
(* What the client sends.                                                  *)
(***************************************************************************)
AskedBlock == {b \in HistoryBlock : b.k \in {"text", "image", "document"}}
ResultBlock == Only(HistoryBlock, {"result"})
SaidBlock == Only(HistoryBlock, {"text", "use"})

LEMMA NumberedTyping ==
  ASSUME NEW kinds \in Seq({"text", "image", "document"}), NEW first \in Nat
  PROVE  Numbered(kinds, first) \in Seq(AskedBlock)
<1>1. Len(kinds) \in Nat /\ \A i \in 1 .. Len(kinds) : kinds[i] \in {"text", "image", "document"}
  BY ElementOfSeq, LenProperties
<1>2. \A i \in 1 .. Len(kinds) : first + i - 1 \in Nat
  BY <1>1
<1>3. \A k \in {"text", "image", "document"}, n \in Nat : Block(k, n, NoTool) \in AskedBlock
  BY DEF Block, AskedBlock, HistoryBlock, Kinds, ToolNames
<1>4. \A i \in 1 .. Len(kinds) : Block(kinds[i], first + i - 1, NoTool) \in AskedBlock
  BY <1>1, <1>2, <1>3
<1>5. Numbered(kinds, first) \in [1 .. Len(kinds) -> AskedBlock]
  BY <1>4 DEF Numbered
<1> QED
  BY <1>1, <1>5

LEMMA ClosedText ==
  ASSUME NEW role \in {"system", "user", "assistant"}, NEW content \in Seq(SentBlock)
  PROVE  /\ Closed(<<Message(role, content, <<>>, NoId)>>)
         /\ Closed(UnlessEmpty(role, content))
<1> DEFINE m == Message(role, content, <<>>, NoId)
           one == <<m>>
           e == <<>>
<1>1. m \in SentMessage /\ m.role = role /\ m.calls = <<>>
  <2>1. m.role = role /\ m.calls = <<>>
    BY DEF Message
  <2> QED
    BY <2>1, TextMessage DEF SentRoles, SentMessage
<1>2. UnlessEmpty(role, content) = IF content = <<>> THEN e ELSE one
  BY DEF UnlessEmpty
<1> HIDE DEF m
<1>3. one \in Seq(SentMessage) /\ Len(one) = 1 /\ one[1] = m
  BY <1>1
<1>4. e \in Seq(SentMessage) /\ Len(e) = 0
  OBVIOUS
<1> HIDE DEF one, e
<1>5. Closed(one)
  <2>1. \A i \in 1 .. Len(one) : i = 1
    BY <1>3
  <2> QED
    BY <1>1, <1>3, <2>1, ClosedPlain
<1>6. Closed(e)
  <2>1. ~ \E i \in 1 .. Len(e) : TRUE
    BY <1>4
  <2> QED
    BY <1>4, <2>1, ClosedPlain
<1> QED
  BY <1>2, <1>5, <1>6 DEF one, m

\* Results and then a question.
LEMMA UserMessage ==
  ASSUME NEW r \in Seq(ResultBlock), NEW q \in Seq(AskedBlock)
  PROVE  LET u == [role |-> "user", blocks |-> r \o q]
             x == ExtractToolResultMessages(r \o q)
         IN  /\ u \in HistoryMessage
             /\ \A i \in 1 .. Len(u.blocks) : u.blocks[i].k # "use"
             /\ Of(r \o q, {"result"}) = r
             /\ r = <<>> => Closed(TranslateMessage(u, TRUE))
             /\ r # <<>> => \E rest \in Seq(SentMessage) :
                               Closed(rest) /\ TranslateMessage(u, TRUE) = x \o rest
<1> DEFINE B == {b \in HistoryBlock : b.k \in {"result", "text", "image", "document"}}
           c == r \o q
           u == [role |-> "user", blocks |-> c]
<1>1. ResultBlock \subseteq B /\ AskedBlock \subseteq B /\ B \subseteq HistoryBlock
  BY DEF ResultBlock, AskedBlock, Only
<1>2. \A b \in B : b.k # "use" /\ b.k \in Kinds \ {"thinking"}
  BY DEF Kinds
<1>3. /\ \A b \in ResultBlock : b.k = "result"
      /\ \A b \in AskedBlock : b.k # "result"
  BY DEF ResultBlock, AskedBlock, Only
<1> HIDE DEF B
<1>4. r \in Seq(B) /\ q \in Seq(B)
  BY <1>1, SeqMonotonic
<1>5. r \in Seq(HistoryBlock) /\ q \in Seq(HistoryBlock)
  BY <1>1, <1>4, SeqMonotonic
<1>6. c \in Seq(B) /\ c \in Seq(HistoryBlock)
  BY <1>4, <1>5, ConcatProperties
<1>7. \A K : Of(c, K) = Of(r, K) \o Of(q, K)
  BY <1>5, OfConcat
<1>8. /\ Of(r, {"result"}) = r /\ Of(r, {"text"}) = <<>> /\ Of(r, {"text", "result"}) = r
      /\ Of(q, {"result"}) = <<>>
  BY <1>3, OfAll, OfNone
<1>9. \A K : Of(q, K) \in Seq(HistoryBlock)
  BY <1>5, OfTyping
<1>10. Of(q, {"text", "result"}) = Of(q, {"text"})
  <2>1. Of(q, {"text", "image", "document"}) = q
    <3>1. \A b \in AskedBlock : b.k \in {"text", "image", "document"}
      BY DEF AskedBlock
    <3> QED
      BY <3>1, OfAll
  <2>2. /\ Of(Of(q, {"text", "image", "document"}), {"text", "result"})
            = Of(q, {"text", "image", "document"} \cap {"text", "result"})
        /\ {"text", "image", "document"} \cap {"text", "result"} = {"text"}
    BY OfOf
  <2> QED
    BY <2>1, <2>2
<1> HIDE DEF c
<1>11. Of(c, {"result"}) = r
  BY <1>5, <1>7, <1>8, ConcatEmptySeq
<1>12. Of(c, {"text", "result"}) = Reaching(c)
  <2>1. Of(c, {"text"}) = Of(q, {"text"})
    BY <1>7, <1>8, <1>9, ConcatEmptySeq
  <2>2. Of(c, {"text", "result"}) = r \o Of(q, {"text"})
    BY <1>7, <1>8, <1>10
  <2> QED
    BY <1>11, <2>1, <2>2 DEF Reaching
<1>13. u \in HistoryMessage
  BY <1>6, <1>12 DEF HistoryMessage
<1>14. \A i \in 1 .. Len(c) : c[i].k # "use"
  <2>1. \A i \in 1 .. Len(c) : c[i] \in B
    BY <1>6, ElementOfSeq
  <2> QED
    BY <1>2, <2>1
<1>15. StripThinkingBlocks(c) = c
  BY <1>2, <1>6, OfAll DEF StripThinkingBlocks
<1> DEFINE text == ExtractText(c)
           picture == TranslateContentBlocks(c)
           x == ExtractToolResultMessages(c)
           rest == UnlessEmpty("user", text)
           p == UnlessEmpty("user", picture)
           m == <<Message("user", text, <<>>, NoId)>>
<1>16. text \in Seq(SentBlock) /\ picture \in Seq(SentBlock)
  BY <1>6, BlocksTyping DEF ExtractText, TranslateContentBlocks
<1>17. TranslateMessage(u, TRUE) =
         IF r # <<>> THEN x \o rest ELSE IF Has(c, {"image", "document"}) THEN p ELSE m
  <2>1. u.role = "user" /\ u.blocks = c
    OBVIOUS
  <2> HIDE DEF u
  <2>2. TranslateMessage(u, TRUE) =
          IF Has(c, {"result"}) THEN x \o rest
          ELSE IF Has(c, {"image", "document"}) THEN p ELSE m
    BY <1>15, <2>1 DEF TranslateMessage
  <2>3. Has(c, {"result"}) <=> r # <<>>
    BY <1>11 DEF Has
  <2> QED
    BY <2>2, <2>3
<1> HIDE DEF text, picture, u, x
<1>18. Closed(rest) /\ Closed(p) /\ Closed(m)
  BY <1>16, ClosedText
<1>19. rest \in Seq(SentMessage)
  <2>1. "user" \in SentRoles
    BY DEF SentRoles
  <2> QED
    BY <1>16, <2>1, TextMessage DEF SentMessage
<1> HIDE DEF rest, p, m
<1>20. u.blocks = c
  BY DEF u
<1>21. r = <<>> => Closed(TranslateMessage(u, TRUE))
  BY <1>17, <1>18
<1>22. r # <<>> => \E y \in Seq(SentMessage) : Closed(y) /\ TranslateMessage(u, TRUE) = x \o y
  BY <1>17, <1>18, <1>19
<1> QED
  BY <1>11, <1>13, <1>14, <1>20, <1>21, <1>22 DEF u, c, x

\* What is remembered of the blocks of an answer.
Remember(b) == Block(b.k, b.n, b.tool)
RememberEach(s) == [i \in 1 .. Len(s) |-> Remember(s[i])]

LEMMA RememberTyping ==
  ASSUME NEW s \in Seq(AnswerBlock)
  PROVE  RememberEach(s) \in Seq(SaidBlock) /\ Len(RememberEach(s)) = Len(s)
<1>1. Len(s) \in Nat /\ \A i \in 1 .. Len(s) : s[i] \in AnswerBlock
  BY ElementOfSeq, LenProperties
<1>2. \A b \in AnswerBlock : Remember(b) \in SaidBlock
  BY DEF Remember, Block, AnswerBlock, SaidBlock, Only, HistoryBlock, Kinds
<1>3. RememberEach(s) \in [1 .. Len(s) -> SaidBlock]
  BY <1>1, <1>2 DEF RememberEach
<1> QED
  BY <1>1, <1>3

LEMMA RememberAppend ==
  ASSUME NEW s \in Seq(AnswerBlock), NEW b \in AnswerBlock
  PROVE  RememberEach(Append(s, b)) = Append(RememberEach(s), Remember(b))
<1> DEFINE a == Append(s, b)
           x == RememberEach(s)
           z == RememberEach(a)
           w == Append(x, Remember(b))
           n == Len(s)
<1>1. /\ a \in Seq(AnswerBlock) /\ Len(a) = n + 1 /\ n \in Nat /\ a[n + 1] = b
      /\ \A i \in 1 .. n : a[i] = s[i]
  BY AppendProperties, LenProperties
<1>2. x \in Seq(SaidBlock) /\ Len(x) = n /\ \A i \in 1 .. n : x[i] = Remember(s[i])
  BY RememberTyping DEF RememberEach
<1>3. Remember(b) \in SaidBlock
  BY DEF Remember, Block, AnswerBlock, SaidBlock, Only, HistoryBlock, Kinds
<1> HIDE DEF a, x, n
<1>4. z \in Seq(SaidBlock) /\ Len(z) = n + 1 /\ \A i \in 1 .. n + 1 : z[i] = Remember(a[i])
  BY <1>1, RememberTyping DEF RememberEach
<1>5. /\ w \in Seq(SaidBlock) /\ Len(w) = n + 1 /\ w[n + 1] = Remember(b)
      /\ \A i \in 1 .. n : w[i] = x[i]
  BY <1>2, <1>3, AppendProperties
<1> HIDE DEF z, w
<1>6. ASSUME NEW i \in 1 .. n + 1
      PROVE  z[i] = w[i]
  <2>1. i = n + 1 \/ i \in 1 .. n
    BY <1>1
  <2> QED
    BY <1>1, <1>2, <1>4, <1>5, <2>1
<1> QED
  BY <1>4, <1>5, <1>6, SeqEqual DEF z, w, x, a

\* Remembering changes no kind.
LEMMA RememberOf ==
  ASSUME NEW K
  PROVE  \A s \in Seq(AnswerBlock) : Of(RememberEach(s), K) = RememberEach(Of(s, K))
<1> DEFINE T == {s \in Seq(AnswerBlock) : Of(RememberEach(s), K) = RememberEach(Of(s, K))}
           e == <<>>
<1>1. e \in T
  <2>1. e \in Seq(AnswerBlock) /\ RememberEach(e) = e
    BY DEF RememberEach
  <2>2. Of(e, K) = e
    BY OfEmpty
  <2> HIDE DEF e
  <2> QED
    BY <2>1, <2>2
<1>2. ASSUME NEW s \in Seq(AnswerBlock), NEW b \in AnswerBlock, s \in T
      PROVE  Append(s, b) \in T
  <2> DEFINE a == Append(s, b)
             m == RememberEach(s)
             o == Of(s, K)
             c == Remember(b)
  <2>1. a \in Seq(AnswerBlock) /\ o \in Seq(AnswerBlock) /\ m \in Seq(SaidBlock)
    BY AppendProperties, OfTyping, RememberTyping
  <2>2. c.k = b.k /\ c \in SaidBlock
    BY DEF Remember, Block, AnswerBlock, SaidBlock, Only, HistoryBlock, Kinds
  <2>3. RememberEach(a) = Append(m, c)
    BY RememberAppend
  <2>4. Of(a, K) = IF b.k \in K THEN Append(o, b) ELSE o
    BY OfAppend
  <2>5. Of(m, K) = RememberEach(o)
    BY <1>2
  <2> HIDE DEF a, m, o, c
  <2>6. Of(Append(m, c), K) = IF c.k \in K THEN Append(Of(m, K), c) ELSE Of(m, K)
    BY <2>1, <2>2, OfAppend
  <2>7. RememberEach(Append(o, b)) = Append(RememberEach(o), c)
    BY <2>1, RememberAppend DEF c
  <2>8. Of(RememberEach(a), K) = RememberEach(Of(a, K))
    BY <2>2, <2>3, <2>4, <2>5, <2>6, <2>7
  <2> QED
    BY <2>1, <2>8 DEF a
<1>3. \A s \in Seq(AnswerBlock) : s \in T
  <2> HIDE DEF T
  <2> QED
    BY <1>1, <1>2, SequenceInduction DEF e
<1> QED
  BY <1>3

\* What is remembered of an answer: its calls with their results, when they
\* follow, are closed.
MessagesOf(blocks) ==
  {[role |-> "assistant", blocks |-> RememberEach(blocks)],
   [role |-> "assistant",
    blocks |-> <<Block("thinking", 0, NoTool)>> \o RememberEach(blocks)]}
TellsAnswer(a, blocks, u) ==
  /\ a \in HistoryMessage
  /\ \A i \in 1 .. Len(a.blocks) : a.blocks[i].k = "use" =>
        \E j \in 1 .. Len(blocks) : blocks[j].k = "use" /\ blocks[j].n = a.blocks[i].n
  /\ u = <<>> => Closed(TranslateMessage(a, TRUE))
  /\ u # <<>> => \E m \in SentMessage :
                    /\ TranslateMessage(a, TRUE) = <<m>> /\ m.role = "assistant"
                    /\ m.calls = [i \in 1 .. Len(u) |-> Call(u[i].n, u[i].tool, TRUE)]

LEMMA AssistantMessage ==
  ASSUME NEW blocks \in Seq(AnswerBlock), NEW a \in MessagesOf(blocks)
  PROVE  TellsAnswer(a, blocks, Of(blocks, {"use"}))
<1> DEFINE said == RememberEach(blocks)
           t == Block("thinking", 0, NoTool)
           one == <<t>>
           both == one \o said
           u == Of(blocks, {"use"})
<1>1. said \in Seq(SaidBlock) /\ Len(said) = Len(blocks)
  BY RememberTyping
<1>2. /\ SaidBlock \subseteq HistoryBlock /\ t \in HistoryBlock /\ t.k = "thinking"
      /\ \A b \in SaidBlock : b.k \in {"text", "use"}
      /\ \A b \in SaidBlock : b.k \in Kinds \ {"thinking"}
  BY DEF SaidBlock, Only, HistoryBlock, Block, ToolNames, Kinds
<1>3. /\ u \in Seq(AnswerBlock) /\ Len(u) \in Nat
      /\ \A i \in 1 .. Len(u) : u[i] \in AnswerBlock
  BY OfTyping, LenProperties, ElementOfSeq
<1>4. Of(said, {"use"}) = RememberEach(u)
  BY RememberOf
<1>5. Len(blocks) \in Nat /\ \A i \in 1 .. Len(blocks) : said[i] = Remember(blocks[i])
  BY LenProperties DEF RememberEach
<1> HIDE DEF said, t, u
<1>6. one \in Seq({t}) /\ one \in Seq(HistoryBlock) /\ Len(one) = 1 /\ one[1] = t
  BY <1>2
<1> HIDE DEF one
<1>7. said \in Seq(HistoryBlock)
  BY <1>1, <1>2, SeqMonotonic
<1>8. both \in Seq(HistoryBlock) /\ \A K : Of(both, K) = Of(one, K) \o Of(said, K)
  BY <1>6, <1>7, ConcatProperties, OfConcat
<1>9. \A K : "thinking" \notin K => Of(one, K) = <<>>
  BY <1>2, <1>6, OfNone
<1>10. \A K : Of(said, K) \in Seq(HistoryBlock)
  BY <1>7, OfTyping
<1> HIDE DEF both
<1>11. \A K : "thinking" \notin K => Of(both, K) = Of(said, K)
  BY <1>8, <1>9, <1>10, ConcatEmptySeq
<1>12. /\ a.role = "assistant" /\ a.blocks \in {said, both} /\ a.blocks \in Seq(HistoryBlock)
       /\ a = [role |-> "assistant", blocks |-> a.blocks]
  BY <1>7, <1>8 DEF MessagesOf, said, both, one, t
<1>13. \A K : "thinking" \notin K => Of(a.blocks, K) = Of(said, K)
  BY <1>11, <1>12
<1>14. /\ Of(said, {"result"}) = <<>> /\ Of(said, {"image", "document"}) = <<>>
       /\ Of(said, Kinds \ {"thinking"}) = said
  BY <1>1, <1>2, OfNone, OfAll
<1>15. Of(said, {"text", "result"}) = Of(said, {"text"})
  <2>1. Of(said, {"text", "use"}) = said
    BY <1>1, <1>2, OfAll
  <2>2. /\ Of(Of(said, {"text", "use"}), {"text", "result"})
            = Of(said, {"text", "use"} \cap {"text", "result"})
        /\ {"text", "use"} \cap {"text", "result"} = {"text"}
    BY <1>7, OfOf
  <2> QED
    BY <2>1, <2>2
<1>16. a \in HistoryMessage
  <2>1. /\ Of(a.blocks, {"text", "result"}) = Of(said, {"text"})
        /\ Of(a.blocks, {"result"}) = <<>> /\ Of(a.blocks, {"text"}) = Of(said, {"text"})
    BY <1>13, <1>14, <1>15
  <2>2. Of(a.blocks, {"text", "result"}) = Reaching(a.blocks)
    BY <1>10, <2>1, ConcatEmptySeq DEF Reaching
  <2> QED
    BY <1>12, <2>2 DEF HistoryMessage
<1>17. ASSUME NEW i \in 1 .. Len(a.blocks), a.blocks[i].k = "use"
       PROVE  \E j \in 1 .. Len(blocks) : blocks[j].k = "use" /\ blocks[j].n = a.blocks[i].n
  <2>1. \A b \in AnswerBlock : Remember(b).k = b.k /\ Remember(b).n = b.n
    BY DEF Remember, Block
  <2>2. \A j \in 1 .. Len(blocks) : said[j].k = blocks[j].k /\ said[j].n = blocks[j].n
    BY <1>5, <2>1, ElementOfSeq
  <2>3. CASE a.blocks = said
    BY <1>1, <1>17, <2>2, <2>3
  <2>4. CASE a.blocks = both
    <3>1. Len(both) = 1 + Len(said) /\ both[1] = t /\ \A j \in 1 .. Len(said) : both[1 + j] = said[j]
      BY <1>2, <1>7, ConsProperties DEF both, one
    <3>2. i # 1
      BY <1>2, <1>17, <2>4, <3>1
    <3>3. PICK j \in 1 .. Len(said) : i = 1 + j
      <4>1. i - 1 \in 1 .. Len(said) /\ i = 1 + (i - 1)
        BY <1>1, <1>5, <2>4, <3>1, <3>2
      <4> QED
        BY <4>1
    <3> QED
      BY <1>1, <1>17, <2>2, <2>4, <3>1, <3>3
  <2> QED
    BY <1>12, <2>3, <2>4
<1>18. StripThinkingBlocks(a.blocks) = said
  <2>1. "thinking" \notin Kinds \ {"thinking"}
    OBVIOUS
  <2> QED
    BY <1>13, <1>14, <2>1 DEF StripThinkingBlocks
<1> DEFINE text == ExtractText(said)
           calls == ExtractToolCalls(said)
           m == Message("assistant", text, calls, NoId)
           p == <<Message("assistant", text, <<>>, NoId)>>
           c == [i \in 1 .. Len(u) |-> Call(u[i].n, u[i].tool, TRUE)]
<1>19. text \in Seq(SentBlock) /\ calls \in Seq(CallSet)
  BY <1>7, BlocksTyping, CallsTyping DEF ExtractText
<1>20. calls = c
  <2> DEFINE v == RememberEach(u)
  <2>1. Len(v) = Len(u) /\ \A i \in 1 .. Len(u) : v[i] = Remember(u[i])
    BY <1>3 DEF RememberEach
  <2>2. \A b \in AnswerBlock : Remember(b).n = b.n /\ Remember(b).tool = b.tool
    BY DEF Remember, Block
  <2>3. calls = [i \in 1 .. Len(v) |-> Call(v[i].n, v[i].tool, TRUE)]
    BY <1>4 DEF ExtractToolCalls
  <2> HIDE DEF v
  <2>4. \A i \in 1 .. Len(u) : v[i].n = u[i].n /\ v[i].tool = u[i].tool
    BY <1>3, <2>1, <2>2
  <2> QED
    BY <2>1, <2>3, <2>4
<1>21. TranslateMessage(a, TRUE) = IF Has(said, {"use"}) THEN <<m>> ELSE p
  BY <1>12, <1>14, <1>18 DEF TranslateMessage, Has
<1>22. Has(said, {"use"}) <=> u # <<>>
  <2>1. Len(RememberEach(u)) = Len(u) /\ RememberEach(u) \in Seq(SaidBlock)
    BY <1>3, RememberTyping
  <2>2. RememberEach(u) = <<>> <=> u = <<>>
    BY <1>3, <2>1, EmptySeq
  <2> QED
    BY <1>4, <2>2 DEF Has
<1>23. Closed(p)
  BY <1>19, ClosedText
<1>24. m \in SentMessage /\ m.role = "assistant" /\ m.calls = calls
  BY <1>19, MessageTyping DEF SentRoles, SentMessage, NoId
<1> HIDE DEF m, p, c, calls
<1>25. u = <<>> => Closed(TranslateMessage(a, TRUE))
  BY <1>21, <1>22, <1>23
<1>26. u # <<>> => \E x \in SentMessage :
                      TranslateMessage(a, TRUE) = <<x>> /\ x.role = "assistant" /\ x.calls = c
  BY <1>20, <1>21, <1>22, <1>24
<1> QED
  BY <1>16, <1>17, <1>25, <1>26 DEF TellsAnswer, u, c

\* The results of the calls of an answer, in either order.
LEMMA ResultsTyping ==
  ASSUME answer.blocks \in Seq(AnswerBlock), NEW r \in Results
  PROVE  LET u == Of(answer.blocks, {"use"})
         IN  /\ r \in Seq(ResultBlock) /\ Len(r) = Len(u)
             /\ {r[i].n : i \in 1 .. Len(r)} = {u[i].n : i \in 1 .. Len(u)}
<1> DEFINE u == Of(answer.blocks, {"use"})
           n == Len(u)
           x == [i \in 1 .. n |-> Block("result", u[i].n, NoTool)]
<1>1. n \in Nat /\ \A i \in 1 .. n : u[i] \in AnswerBlock
  BY OfTyping, LenProperties, ElementOfSeq
<1>2. r \in {x, Reverse(x)}
  BY DEF Results
<1> HIDE DEF u
<1>3. \A i \in 1 .. n : u[i].n \in Nat
  BY <1>1 DEF AnswerBlock
<1> HIDE DEF n
<1>4. \A m \in Nat : Block("result", m, NoTool) \in ResultBlock /\ Block("result", m, NoTool).n = m
  BY DEF Block, ResultBlock, Only, HistoryBlock, Kinds, ToolNames
<1>5. \A i \in 1 .. n : x[i] \in ResultBlock /\ x[i].n = u[i].n
  BY <1>3, <1>4
<1>6. x \in Seq(ResultBlock) /\ Len(x) = n
  <2>1. x \in [1 .. n -> ResultBlock]
    BY <1>3, <1>4
  <2> HIDE DEF x
  <2> QED
    BY <1>1, <2>1
<1> HIDE DEF x
<1>7. \A i \in 1 .. n : n - i + 1 \in 1 .. n /\ n - (n - i + 1) + 1 = i
  BY <1>1
<1>8. Reverse(x) = [i \in 1 .. n |-> x[n - i + 1]]
  BY <1>6 DEF Reverse
<1> DEFINE y == Reverse(x)
<1>9. \A i \in 1 .. n : y[i] = x[n - i + 1] /\ x[n - i + 1] \in ResultBlock
  BY <1>5, <1>7, <1>8
<1>10. y \in Seq(ResultBlock) /\ Len(y) = n
  <2>1. y \in [1 .. n -> ResultBlock]
    BY <1>8, <1>9
  <2> HIDE DEF y
  <2> QED
    BY <1>1, <2>1
<1> HIDE DEF y
<1>11. {x[i].n : i \in 1 .. n} = {u[i].n : i \in 1 .. n}
  BY <1>5, Zenon
<1>12. {y[i].n : i \in 1 .. n} = {u[i].n : i \in 1 .. n}
  <2>1. \A i \in 1 .. n : y[i].n = u[n - i + 1].n
    BY <1>5, <1>7, <1>9
  <2>2. ASSUME NEW i \in 1 .. n
        PROVE  u[i].n \in {y[j].n : j \in 1 .. n}
    <3> DEFINE j == n - i + 1
    <3>1. j \in 1 .. n /\ n - j + 1 = i
      BY <1>7
    <3>2. y[j].n = u[n - j + 1].n
      BY <2>1, <3>1
    <3> HIDE DEF j
    <3>3. y[j].n = u[i].n
      BY <3>1, <3>2
    <3> QED
      BY <3>1, <3>3
  <2>3. ASSUME NEW i \in 1 .. n
        PROVE  y[i].n \in {u[j].n : j \in 1 .. n}
    BY <1>7, <2>1
  <2> QED
    BY <2>2, <2>3
<1>13. CASE r = x
  BY <1>6, <1>11, <1>13 DEF u, n
<1>14. CASE r = Reverse(x)
  <2>1. r = y
    BY <1>14 DEF y
  <2> QED
    BY <1>10, <1>12, <2>1 DEF u, n
<1> QED
  BY <1>2, <1>13, <1>14

\* An answer and what the client says to it.
LEMMA ExchangeClosed ==
  ASSUME answer.blocks \in Seq(AnswerBlock), NEW a \in Remembered, NEW r \in Results,
         NEW q \in Seq(AskedBlock)
  PROVE  LET u == [role |-> "user", blocks |-> r \o q]
         IN  /\ a \in HistoryMessage /\ u \in HistoryMessage
             /\ \A i \in 1 .. Len(a.blocks) : a.blocks[i].k = "use" =>
                   \E j \in 1 .. Len(answer.blocks) :
                      answer.blocks[j].k = "use" /\ answer.blocks[j].n = a.blocks[i].n
             /\ \A i \in 1 .. Len(u.blocks) : u.blocks[i].k # "use"
             /\ Closed(TranslateMessage(a, TRUE) \o TranslateMessage(u, TRUE))
<1> DEFINE blocks == answer.blocks
           uses == Of(blocks, {"use"})
           c == [i \in 1 .. Len(uses) |-> Call(uses[i].n, uses[i].tool, TRUE)]
           u == [role |-> "user", blocks |-> r \o q]
           x == ExtractToolResultMessages(r \o q)
           ta == TranslateMessage(a, TRUE)
           tu == TranslateMessage(u, TRUE)
<1>1. TellsAnswer(a, blocks, uses)
  <2>1. a \in MessagesOf(blocks)
    BY DEF Remembered, MessagesOf, RememberEach, Remember
  <2> QED
    BY <2>1, AssistantMessage
<1>2. /\ a \in HistoryMessage
      /\ \A i \in 1 .. Len(a.blocks) : a.blocks[i].k = "use" =>
            \E j \in 1 .. Len(blocks) : blocks[j].k = "use" /\ blocks[j].n = a.blocks[i].n
      /\ uses = <<>> => Closed(ta)
      /\ uses # <<>> => \E m \in SentMessage :
                           ta = <<m>> /\ m.role = "assistant" /\ m.calls = c
  BY <1>1 DEF TellsAnswer
<1>3. /\ r \in Seq(ResultBlock) /\ Len(r) = Len(uses)
      /\ {r[i].n : i \in 1 .. Len(r)} = {uses[i].n : i \in 1 .. Len(uses)}
  BY ResultsTyping
<1>4. /\ u \in HistoryMessage
      /\ \A i \in 1 .. Len(u.blocks) : u.blocks[i].k # "use"
      /\ Of(r \o q, {"result"}) = r
      /\ r = <<>> => Closed(tu)
      /\ r # <<>> => \E rest \in Seq(SentMessage) : Closed(rest) /\ tu = x \o rest
  BY <1>3, UserMessage
<1>5. ta \in Seq(SentMessage) /\ tu \in Seq(SentMessage)
  BY <1>2, <1>4, TranslateTyping
<1>6. Len(uses) \in Nat /\ (uses = <<>> <=> r = <<>>)
  <2>1. uses \in Seq(AnswerBlock)
    BY OfTyping
  <2> HIDE DEF uses
  <2> QED
    BY <1>3, <2>1, EmptySeq, LenProperties
<1>7. r \o q \in Seq(HistoryBlock)
  BY <1>4 DEF HistoryMessage
<1>8. /\ x \in Seq(SentMessage) /\ Len(x) = Len(r)
      /\ \A i \in 1 .. Len(r) : x[i] = Message("tool", <<>>, <<>>, r[i].n)
  BY <1>4, <1>7, ResultMessages
<1>9. \A i \in 1 .. Len(r) : x[i].role = "tool" /\ x[i].calls = <<>> /\ x[i].id = r[i].n
  <2> DEFINE e == <<>>
             m(n) == Message("tool", e, e, n)
  <2>1. \A n : m(n).role = "tool" /\ m(n).calls = e /\ m(n).id = n
    BY DEF Message
  <2>2. \A i \in 1 .. Len(r) : x[i] = m(r[i].n)
    BY <1>8
  <2> HIDE DEF e, m, x
  <2>3. \A i \in 1 .. Len(r) : x[i].role = "tool" /\ x[i].calls = e /\ x[i].id = r[i].n
    BY <2>1, <2>2
  <2> QED
    BY <2>3 DEF e
<1>10. Len(c) = Len(uses) /\ \A i \in 1 .. Len(uses) : c[i].id = uses[i].n
  BY <1>6 DEF Call
<1> HIDE DEF ta, tu, x, c, uses, u
<1>11. ASSUME uses = <<>>
       PROVE  Closed(ta \o tu)
  BY <1>2, <1>4, <1>5, <1>6, <1>11, ClosedConcat
<1>12. ASSUME uses # <<>>
       PROVE  Closed(ta \o tu)
  <2>1. PICK m \in SentMessage : ta = <<m>> /\ m.role = "assistant" /\ m.calls = c
    BY <1>2, <1>12
  <2>2. PICK rest \in Seq(SentMessage) : Closed(rest) /\ tu = x \o rest
    BY <1>4, <1>6, <1>12
  <2>3. {x[i].id : i \in 1 .. Len(x)} = {m.calls[i].id : i \in 1 .. Len(m.calls)}
    <3>1. {x[i].id : i \in 1 .. Len(r)} = {r[i].n : i \in 1 .. Len(r)}
      BY <1>9, Zenon
    <3>2. {c[i].id : i \in 1 .. Len(uses)} = {uses[i].n : i \in 1 .. Len(uses)}
      BY <1>10, Zenon
    <3>3. Len(x) = Len(r) /\ m.calls = c /\ Len(c) = Len(uses)
      BY <1>8, <1>10, <2>1
    <3>4. {r[i].n : i \in 1 .. Len(r)} = {uses[i].n : i \in 1 .. Len(uses)}
      BY <1>3
    <3> QED
      BY <3>1, <3>2, <3>3, <3>4
  <2>4. Closed(<<m>> \o x)
    <3>1. m.role # "tool" /\ Len(x) = Len(m.calls)
      BY <1>3, <1>8, <1>10, <2>1
    <3>2. \A i \in 1 .. Len(x) : x[i].role = "tool" /\ x[i].calls = <<>>
      BY <1>8, <1>9
    <3> QED
      BY <1>8, <2>3, <3>1, <3>2, ClosedExchange, Zenon
  <2>5. <<m>> \o x \in Seq(SentMessage) /\ <<m>> \in Seq(SentMessage)
    BY <1>5, <1>8, <2>1, ConcatProperties
  <2>6. Closed((<<m>> \o x) \o rest)
    BY <2>2, <2>4, <2>5, ClosedConcat
  <2>7. (<<m>> \o x) \o rest = <<m>> \o (x \o rest)
    BY <1>8, <2>5, ConcatAssociative
  <2> QED
    BY <2>1, <2>2, <2>6, <2>7
<1>13. Closed(ta \o tu)
  BY <1>11, <1>12
<1> QED
  BY <1>2, <1>4, <1>13 DEF ta, tu, u

\* The ids of the calls in a history, and in an answer.
UseIn(h, id) ==
  \E m \in 1 .. Len(h) : \E b \in 1 .. Len(h[m].blocks) :
     h[m].blocks[b].k = "use" /\ h[m].blocks[b].n = id
UseAmong(blocks, id) ==
  \E b \in 1 .. Len(blocks) : blocks[b].k = "use" /\ blocks[b].n = id

LEMMA HistoryAppend ==
  ASSUME NEW h \in Seq(HistoryMessage), NEW m \in HistoryMessage
  PROVE  /\ Append(h, m) \in Seq(HistoryMessage)
         /\ \A id : UseIn(Append(h, m), id) => UseIn(h, id) \/ UseAmong(m.blocks, id)
<1> DEFINE a == Append(h, m)
<1>1. /\ a \in Seq(HistoryMessage) /\ Len(a) = Len(h) + 1 /\ a[Len(h) + 1] = m
      /\ \A i \in 1 .. Len(h) : a[i] = h[i]
  BY AppendProperties
<1>2. Len(h) \in Nat
  BY LenProperties
<1> HIDE DEF a
<1>3. ASSUME NEW id, UseIn(a, id)
      PROVE  UseIn(h, id) \/ UseAmong(m.blocks, id)
  <2>1. PICK i \in 1 .. Len(a) : UseAmong(a[i].blocks, id)
    BY <1>3 DEF UseIn, UseAmong
  <2>2. i = Len(h) + 1 \/ i \in 1 .. Len(h)
    BY <1>1, <1>2
  <2>3. CASE i = Len(h) + 1
    BY <1>1, <2>1, <2>3
  <2>4. CASE i \in 1 .. Len(h)
    <3>1. UseAmong(h[i].blocks, id)
      BY <1>1, <2>1, <2>4
    <3> QED
      BY <2>4, <3>1 DEF UseIn, UseAmong
  <2> QED
    BY <2>2, <2>3, <2>4
<1> QED
  BY <1>1, <1>3 DEF a

\* A history that can go on.
Sound(h) == h \in Seq(HistoryMessage) /\ Closed(Translated(h, TRUE))
\* The calls of one history are calls of another or of an answer.
NoNewUses(h, old, blocks) ==
  \A id : UseIn(h, id) => UseIn(old, id) \/ UseAmong(blocks, id)

LEMMA QuestionAsked ==
  ASSUME Sound(history), NEW q \in Seq(AskedBlock), NEW blocks
  PROVE  LET h == history \o <<[role |-> "user", blocks |-> q]>>
         IN  Sound(h) /\ NoNewUses(h, history, blocks)
<1> DEFINE e == <<>>
           u == [role |-> "user", blocks |-> e \o q]
           h == Append(history, u)
<1>1. e \in Seq(ResultBlock) /\ e \o q = q
  BY ConcatEmptySeq
<1>2. /\ u \in HistoryMessage /\ Closed(TranslateMessage(u, TRUE))
      /\ \A i \in 1 .. Len(u.blocks) : u.blocks[i].k # "use"
  BY <1>1, UserMessage
<1> HIDE DEF e
<1>3. history \o <<[role |-> "user", blocks |-> q]>> = h
  BY <1>1, <1>2, AppendIsConcat DEF Sound
<1> HIDE DEF u
<1>4. /\ h \in Seq(HistoryMessage)
      /\ \A id : UseIn(h, id) => UseIn(history, id) \/ UseAmong(u.blocks, id)
  BY <1>2, HistoryAppend DEF Sound
<1>5. \A id : ~UseAmong(u.blocks, id)
  BY <1>2 DEF UseAmong
<1>6. Closed(Translated(h, TRUE))
  <2>1. Translated(h, TRUE) = Translated(history, TRUE) \o TranslateMessage(u, TRUE)
    BY <1>2, TranslatedAppend DEF Sound
  <2>2. /\ Translated(history, TRUE) \in Seq(SentMessage)
        /\ TranslateMessage(u, TRUE) \in Seq(SentMessage)
    BY <1>2, TranslatedTyping, TranslateTyping DEF Sound
  <2> QED
    BY <1>2, <2>1, <2>2, ClosedConcat DEF Sound
<1> HIDE DEF h
<1> QED
  BY <1>3, <1>4, <1>5, <1>6 DEF Sound, NoNewUses

LEMMA AnswerReturned ==
  ASSUME Sound(history), answer.blocks \in Seq(AnswerBlock), NEW a \in Remembered,
         NEW r \in Results, NEW q \in Seq(AskedBlock)
  PROVE  LET h == history \o <<a, [role |-> "user", blocks |-> r \o q]>>
         IN  Sound(h) /\ NoNewUses(h, history, answer.blocks)
<1> DEFINE u == [role |-> "user", blocks |-> r \o q]
           g == Append(history, a)
           h == Append(g, u)
           ta == TranslateMessage(a, TRUE)
           tu == TranslateMessage(u, TRUE)
           t == Translated(history, TRUE)
<1>1. /\ a \in HistoryMessage /\ u \in HistoryMessage
      /\ \A i \in 1 .. Len(a.blocks) : a.blocks[i].k = "use" =>
            \E j \in 1 .. Len(answer.blocks) :
               answer.blocks[j].k = "use" /\ answer.blocks[j].n = a.blocks[i].n
      /\ \A i \in 1 .. Len(u.blocks) : u.blocks[i].k # "use"
      /\ Closed(ta \o tu)
  BY ExchangeClosed
<1> HIDE DEF u
<1>2. history \o <<a, u>> = h
  <2> DEFINE one == <<a>>
  <2>1. one \in Seq(HistoryMessage) /\ <<a, u>> = Append(one, u)
    BY <1>1
  <2> HIDE DEF one
  <2>2. history \o Append(one, u) = Append(history \o one, u)
    BY <1>1, <2>1, ConcatAppend DEF Sound
  <2>3. history \o one = g
    BY <1>1, AppendIsConcat DEF Sound, one
  <2> QED
    BY <2>1, <2>2, <2>3
<1>3. /\ g \in Seq(HistoryMessage)
      /\ \A id : UseIn(g, id) => UseIn(history, id) \/ UseAmong(a.blocks, id)
  BY <1>1, HistoryAppend DEF Sound
<1>4. Translated(g, TRUE) = t \o ta
  BY <1>1, TranslatedAppend DEF Sound
<1> HIDE DEF g
<1>5. /\ h \in Seq(HistoryMessage)
      /\ \A id : UseIn(h, id) => UseIn(g, id) \/ UseAmong(u.blocks, id)
  BY <1>1, <1>3, HistoryAppend
<1>6. Translated(h, TRUE) = Translated(g, TRUE) \o tu
  BY <1>1, <1>3, TranslatedAppend
<1> HIDE DEF h
<1>7. t \in Seq(SentMessage) /\ ta \in Seq(SentMessage) /\ tu \in Seq(SentMessage)
  BY <1>1, TranslatedTyping, TranslateTyping DEF Sound
<1>8. Closed(t)
  BY DEF Sound
<1> HIDE DEF t, ta, tu
<1>9. Closed(t \o (ta \o tu)) /\ (t \o ta) \o tu = t \o (ta \o tu)
  <2>1. ta \o tu \in Seq(SentMessage)
    BY <1>7, ConcatProperties
  <2>2. Closed(t \o (ta \o tu))
    BY <1>1, <1>7, <1>8, <2>1, ClosedConcat
  <2> QED
    BY <1>7, <2>2, ConcatAssociative
<1>10. \A id : ~UseAmong(u.blocks, id)
  BY <1>1 DEF UseAmong
<1>11. \A id : UseAmong(a.blocks, id) => UseAmong(answer.blocks, id)
  BY <1>1 DEF UseAmong
<1>12. Sound(h)
  BY <1>4, <1>5, <1>6, <1>9 DEF Sound
<1>13. NoNewUses(h, history, answer.blocks)
  BY <1>3, <1>5, <1>10, <1>11 DEF NoNewUses
<1> QED
  BY <1>2, <1>12, <1>13 DEF u

LEMMA NextHistory ==
  ASSUME Sound(history), answer.blocks \in Seq(AnswerBlock), nextId \in Nat,
         NEW h \in NextMessages
  PROVE  Sound(h) /\ NoNewUses(h, history, answer.blocks)
<1>1. \A q \in NewQuestions : q \in Seq(AskedBlock)
  BY ConversationAssumption, NumberedTyping DEF NewQuestions
<1>2. <<>> \in Seq(AskedBlock)
  OBVIOUS
<1>3. \A q \in Added : q \in NewQuestions \/ q = <<>>
  BY Zenon DEF Added
<1>4. CASE answer = Nothing
  <2>1. PICK q \in NewQuestions : h = history \o <<Says(q)>>
    BY <1>4 DEF NextMessages
  <2> QED
    BY <1>1, <2>1, QuestionAsked DEF Says
<1>5. CASE answer # Nothing
  <2>1. PICK a \in Remembered, r \in Results, q \in Added : h = history \o <<a, Says(r \o q)>>
    BY <1>5 DEF NextMessages
  <2>2. q \in Seq(AskedBlock)
    BY <1>1, <1>2, <1>3
  <2> QED
    BY <2>1, <2>2, AnswerReturned DEF Says
<1> QED
  BY <1>4, <1>5
-----------------------------------------------------------------------------
(***************************************************************************)
(* Answers.                                                                *)
(***************************************************************************)
Within(x, s) == \E i \in 1 .. Len(s) : s[i] = x

\* What is selected is all there is of the kind.
LEMMA OfWithin ==
  ASSUME NEW S, NEW K
  PROVE  \A s \in Seq(S) : \A x : Within(x, s) /\ x.k \in K => Within(x, Of(s, K))
<1> DEFINE T == {s \in Seq(S) : \A x : Within(x, s) /\ x.k \in K => Within(x, Of(s, K))}
           e == <<>>
<1>1. e \in T
  <2>1. e \in Seq(S) /\ \A x : ~Within(x, e)
    BY DEF Within
  <2> HIDE DEF e
  <2> QED
    BY <2>1
<1>2. ASSUME NEW s \in Seq(S), NEW y \in S, s \in T
      PROVE  Append(s, y) \in T
  <2> DEFINE a == Append(s, y)
             o == Of(s, K)
  <2>1. /\ a \in Seq(S) /\ Len(a) = Len(s) + 1 /\ a[Len(s) + 1] = y
        /\ Len(s) \in Nat /\ \A i \in 1 .. Len(s) : a[i] = s[i]
    BY AppendProperties, LenProperties
  <2>2. o \in Seq(S) /\ Len(o) \in Nat
    BY OfTyping, LenProperties
  <2>3. Of(a, K) = IF y.k \in K THEN Append(o, y) ELSE o
    BY OfAppend
  <2>4. \A x : Within(x, s) /\ x.k \in K => Within(x, o)
    BY <1>2
  <2> HIDE DEF a, o
  <2>5. /\ Len(Append(o, y)) = Len(o) + 1 /\ Append(o, y)[Len(o) + 1] = y
        /\ \A i \in 1 .. Len(o) : Append(o, y)[i] = o[i]
    BY <2>2, AppendProperties
  <2>6. Within(y, Append(o, y)) /\ \A x : Within(x, o) => Within(x, Append(o, y))
    <3>1. Len(o) + 1 \in 1 .. Len(o) + 1 /\ \A i \in 1 .. Len(o) : i \in 1 .. Len(o) + 1
      BY <2>2
    <3> QED
      BY <2>5, <3>1 DEF Within
  <2>7. ASSUME NEW x, Within(x, a), x.k \in K
        PROVE  Within(x, Of(a, K))
    <3>1. PICK i \in 1 .. Len(a) : a[i] = x
      BY <2>7 DEF Within
    <3>2. i = Len(s) + 1 \/ i \in 1 .. Len(s)
      BY <2>1
    <3>3. x = y \/ Within(x, s)
      BY <2>1, <3>1, <3>2 DEF Within
    <3> QED
      BY <2>3, <2>4, <2>6, <2>7, <3>3
  <2> QED
    BY <2>1, <2>7 DEF a
<1>3. \A s \in Seq(S) : s \in T
  <2> HIDE DEF T
  <2> QED
    BY <1>1, <1>2, SequenceInduction DEF e
<1> QED
  BY <1>3

\* Calls that are numbered on from a number.
NumberedFrom(calls, n) == \A i \in 1 .. Len(calls) : calls[i].id = n + i

HasIds(a, calls, n) ==
  LET uses == Uses(a.blocks)
  IN  /\ Len(uses) = Len(calls) /\ (uses = <<>> <=> calls = <<>>)
      /\ \A i \in 1 .. Len(calls) : uses[i].n = n + i /\ uses[i].tool = calls[i].name
      /\ \A id : UseAmong(a.blocks, id) => \E i \in 1 .. Len(calls) : id = n + i

LEMMA AnswerIds ==
  ASSUME NEW calls \in Seq(CallSet), NEW a, AnswerTo(a, calls), NEW n \in Nat,
         NumberedFrom(calls, n)
  PROVE  HasIds(a, calls, n)
<1> DEFINE uses == UsesOf(calls)
<1>1. /\ a.blocks \in Seq(AnswerBlock) /\ Of(a.blocks, {"use"}) = uses
      /\ Uses(a.blocks) = uses
  BY DEF AnswerTo, Uses
<1>2. Len(uses) = Len(calls) /\ uses \in Seq(AnswerBlock) /\ Len(calls) \in Nat
  BY UsesTyping, LenProperties
<1>3. uses = <<>> <=> calls = <<>>
  <2> HIDE DEF uses
  <2> QED
    BY <1>2, EmptySeq
<1>4. \A i \in 1 .. Len(calls) : uses[i].n = n + i /\ uses[i].tool = calls[i].name
  <2>1. \A i \in 1 .. Len(calls) : uses[i] = ToolUse(calls[i])
    BY DEF UsesOf
  <2>2. \A c : ToolUse(c).n = c.id /\ ToolUse(c).tool = c.name
    BY DEF ToolUse
  <2> HIDE DEF uses
  <2> QED
    BY <2>1, <2>2 DEF NumberedFrom
<1> HIDE DEF uses
<1>5. ASSUME NEW id, UseAmong(a.blocks, id)
      PROVE  \E i \in 1 .. Len(calls) : id = n + i
  <2>1. PICK b \in 1 .. Len(a.blocks) : a.blocks[b].k = "use" /\ a.blocks[b].n = id
    BY <1>5 DEF UseAmong
  <2>2. Within(a.blocks[b], uses)
    <3>1. Within(a.blocks[b], a.blocks) /\ a.blocks[b].k \in {"use"}
      BY <2>1 DEF Within
    <3> QED
      BY <1>1, <3>1, OfWithin
  <2>3. PICK i \in 1 .. Len(uses) : uses[i] = a.blocks[b]
    BY <2>2 DEF Within
  <2> QED
    BY <1>2, <1>4, <2>1, <2>3
<1> QED
  BY <1>1, <1>2, <1>3, <1>4, <1>5 DEF HasIds
-----------------------------------------------------------------------------
(***************************************************************************)
(* The log.                                                                *)
(***************************************************************************)
Cycle(b) ==
  b = [incoming |-> b.incoming, offered |-> b.offered, model |-> b.model,
       count |-> b.count, injected |-> b.injected, hasCalls |-> b.hasCalls,
       stop |-> b.stop, blocks |-> b.blocks, calls |-> b.calls]

LEMMA IncomingLogged ==
  ASSUME NEW ms, NEW offered, Len(ms) \in Nat
  PROVE  LET b == SetIncoming(NewCycle, ms, offered)
         IN  Cycle(b) /\ Len(b.incoming) = Len(ms)
<1> DEFINE x == [i \in 1 .. Len(ms) |->
                   [role |-> ms[i].role, use |-> Has(ms[i].blocks, {"use"}),
                    result |-> Has(ms[i].blocks, {"result"})]]
           b == SetIncoming(NewCycle, ms, offered)
<1>1. b = [NewCycle EXCEPT !.incoming = x, !.offered = offered]
  BY DEF SetIncoming
<1>2. Len(x) = Len(ms)
  OBVIOUS
<1> HIDE DEF x
<1>3. Cycle(b) /\ b.incoming = x
  <2> HIDE DEF b
  <2> QED
    BY <1>1 DEF Cycle, NewCycle
<1> QED
  BY <1>2, <1>3

LEMMA OutgoingLogged ==
  ASSUME NEW b, Cycle(b), NEW o, NEW injected
  PROVE  LET c == SetOutgoing(b, o, injected)
         IN  /\ Cycle(c) /\ c.incoming = b.incoming /\ c.model = o.model
             /\ c.count = Len(o.messages) /\ c.injected = injected
<1> DEFINE c == SetOutgoing(b, o, injected)
<1>1. c = [b EXCEPT !.model = o.model, !.count = Len(o.messages), !.injected = injected]
  BY DEF SetOutgoing
<1> HIDE DEF c
<1>2. c = [incoming |-> b.incoming, offered |-> b.offered, model |-> o.model,
           count |-> Len(o.messages), injected |-> injected, hasCalls |-> b.hasCalls,
           stop |-> b.stop, blocks |-> b.blocks, calls |-> b.calls]
  BY <1>1 DEF Cycle
<1>3. /\ c.incoming = b.incoming /\ c.model = o.model
      /\ c.count = Len(o.messages) /\ c.injected = injected
  BY <1>2, Zenon
<1>4. Cycle(c)
  BY <1>2, Zenon DEF Cycle
<1> QED
  BY <1>3, <1>4 DEF c

LEMMA AnswerLogged ==
  ASSUME NEW b, Cycle(b), NEW choices, NEW response, NEW calls
  PROVE  LET c == SetFinal(SetCopilotResponse(b, choices), response, calls)
         IN  /\ c.incoming = b.incoming /\ c.model = b.model /\ c.count = b.count
             /\ c.injected = b.injected /\ c.stop = response.stop
             /\ c.blocks = response.blocks /\ c.calls = calls
             /\ c.hasCalls = (choices[1].calls # <<>>)
BY DEF Cycle, SetFinal, SetCopilotResponse
-----------------------------------------------------------------------------
(***************************************************************************)
(* The invariant.                                                          *)
(***************************************************************************)
ChatTyping ==
  /\ nativeTools \in BOOLEAN /\ system \in BOOLEAN
  /\ exchange \in 0 .. MaxExchanges
  /\ Sound(history)
  /\ tools \in Seq(ShortNames \cup LongNames)
  /\ pc \in {"client", "native", "inject", "nativeAnswer", "xmlAnswer"}
  /\ failure \in {"no", "tools", "parameter", "other"}
  /\ out.messages \in Seq(SentMessage)
  /\ answer \in [blocks : Seq(AnswerBlock), stop : Stops \cup {"none"}]
  /\ Cycle(builder)
  /\ nextId \in Nat

AskedAt(stage) ==
  CASE stage = "native"       -> {<<>>}
    [] stage = "inject"       -> {<<>>, <<"native">>}
    [] stage = "nativeAnswer" -> {<<"native">>}
    [] stage = "xmlAnswer"    -> {<<"xml">>, <<"native", "xml">>}
    [] OTHER                  -> {<<>>, <<"native">>, <<"xml">>, <<"native", "xml">>}

\* What the handler has done so far.
Stages ==
  /\ asked \in AskedAt(pc)
  /\ pc = "client" => failure # "tools"
  /\ pc # "client" => answer = Nothing /\ tools \in Offers
  /\ pc \in {"native", "nativeAnswer"} => tools # <<>>
  /\ pc = "nativeAnswer" =>
        /\ out.messages = ToChatCompletionRequest(system, history, TRUE)
        /\ out.tools = TranslateTools(tools).names
  /\ pc = "xmlAnswer" =>
        out.messages = Injected(system, history, tools) /\ out.tools = <<>>

\* The log record follows.
LogFollows ==
  /\ pc # "client" => Len(builder.incoming) = Len(history)
  /\ Asking =>
       /\ builder.model = out.model /\ builder.count = Len(out.messages)
       /\ builder.injected = HasTools(out.messages)

\* Ids are taken from below the next one.
IdsBelow ==
  /\ \A id : UseIn(history, id) => id \in Nat /\ id < nextId
  /\ \A id : UseAmong(answer.blocks, id) => id \in Nat /\ id < nextId

\* An answer says whether it has calls, and each has an id of its own.
CallsTold ==
  Answered =>
    LET uses == Uses(answer.blocks)
    IN  /\ answer.stop = "tool_use" <=> uses # <<>>
        /\ \A i, j \in 1 .. Len(uses) : uses[i].n = uses[j].n => i = j
        /\ \A i \in 1 .. Len(uses) : ~UseIn(history, uses[i].n)

ChatInv ==
  ChatTyping /\ Stages /\ LogFollows /\ IdsBelow /\ CallsTold /\ LogTellsWhatHappened

\* An answer that is sent keeps the invariant.
LEMMA RespondKeeps ==
  ASSUME ChatInv, Asking, NEW choices, choices # <<>>, choices[1] = Head(choices),
         Head(choices).text \in Nat, Head(choices).calls \in Seq(CallSet),
         Head(choices).calls = <<>> => Head(choices).finish \in {"stop", "length"},
         NumberedFrom(Head(choices).calls, nextId),
         NEW calls, Len(calls) \in Nat, Len(calls) >= Len(Head(choices).calls),
         Respond(choices, calls), nextId' \in Nat,
         nextId' > nextId + Len(Head(choices).calls),
         UNCHANGED <<request, out, asked, builder>>
  PROVE  /\ ChatInv'
         /\ Answered' /\ AnswerTo(answer', Head(choices).calls)
<1> DEFINE c == Head(choices).calls
           uses == Uses(answer'.blocks)
           n == Len(c)
<1>1. c \in Seq(CallSet) /\ n \in Nat /\ NumberedFrom(c, nextId) /\ nextId \in Nat
      /\ nextId' \in Nat /\ nextId' > nextId + n /\ Len(calls) \in Nat /\ Len(calls) >= n
  BY LenProperties DEF ChatInv, ChatTyping
<1>2. /\ answer' = ToAnthropicResponse(choices) /\ failure' = "no" /\ pc' = "client"
      /\ logged' = SetFinal(SetCopilotResponse(builder, choices), answer', calls)
  BY DEF Respond
<1>3. AnswerTo(answer', c)
  BY <1>2, AnswerTyping
<1>4. choices[1].calls = c
  OBVIOUS
<1> HIDE DEF c
<1>5. /\ Len(uses) = n /\ (uses = <<>> <=> c = <<>>)
      /\ \A i \in 1 .. n : uses[i].n = nextId + i /\ uses[i].tool = c[i].name
      /\ \A id : UseAmong(answer'.blocks, id) => \E i \in 1 .. n : id = nextId + i
  <2>1. HasIds(answer', c, nextId)
    BY <1>1, <1>3, AnswerIds
  <2> QED
    BY <2>1 DEF HasIds
<1>6. /\ answer' \in [blocks : Seq(AnswerBlock), stop : Stops]
      /\ answer'.stop = "tool_use" <=> c # <<>>
  BY <1>3 DEF AnswerTo
<1> HIDE DEF n, uses
<1>7. answer'.stop # "none" /\ answer' # Nothing
  BY <1>6 DEF Stops, Nothing
<1>8. /\ UNCHANGED <<nativeTools, system, exchange, history, tools, model>>
      /\ UNCHANGED <<out, asked, builder>>
  BY DEF request
<1>9. ChatTyping'
  BY <1>1, <1>2, <1>6, <1>8 DEF ChatInv, ChatTyping, Sound, Cycle
<1>10. Stages'
  <2>1. asked \in AskedAt("client")
    BY DEF ChatInv, Stages, Asking, AskedAt
  <2> QED
    BY <1>2, <1>8, <2>1 DEF Stages
<1>11. LogFollows'
  BY <1>2 DEF LogFollows, Asking
<1>12. IdsBelow'
  <2>1. \A id : UseIn(history, id) => id \in Nat /\ id < nextId
    BY DEF ChatInv, IdsBelow
  <2>2. \A i \in 1 .. n : nextId + i \in Nat /\ nextId + i < nextId'
    BY <1>1
  <2>3. nextId < nextId'
    BY <1>1
  <2>4. \A id : UseIn(history, id) => id \in Nat /\ id < nextId'
    BY <1>1, <2>1, <2>3
  <2>5. \A id : UseAmong(answer'.blocks, id) => id \in Nat /\ id < nextId'
    BY <1>5, <2>2
  <2> QED
    BY <1>8, <2>4, <2>5 DEF IdsBelow
<1>13. CallsTold'
  <2>1. \A i, j \in 1 .. n : uses[i].n = uses[j].n => i = j
    BY <1>1, <1>5
  <2>2. ASSUME NEW i \in 1 .. n
        PROVE  ~UseIn(history, uses[i].n)
    <3>1. uses[i].n = nextId + i /\ ~(nextId + i < nextId)
      BY <1>1, <1>5
    <3> QED
      BY <3>1 DEF ChatInv, IdsBelow
  <2> QED
    BY <1>5, <1>6, <1>8, <2>1, <2>2 DEF CallsTold, uses
<1>14. LogTellsWhatHappened'
  <2>1. /\ logged'.incoming = builder.incoming /\ logged'.model = builder.model
        /\ logged'.count = builder.count /\ logged'.injected = builder.injected
        /\ logged'.stop = answer'.stop /\ logged'.blocks = answer'.blocks
        /\ logged'.calls = calls /\ logged'.hasCalls = (c # <<>>)
    <3>1. Cycle(builder)
      BY DEF ChatInv, ChatTyping
    <3> QED
      BY <1>2, <1>4, <3>1, AnswerLogged
  <2>2. /\ Len(builder.incoming) = Len(history) /\ builder.model = out.model
        /\ builder.count = Len(out.messages)
        /\ builder.injected = HasTools(out.messages)
    BY DEF ChatInv, LogFollows, Asking
  <2>3. Len(logged'.calls) >= Len(uses) /\ logged'.hasCalls = (uses # <<>>)
    BY <1>1, <1>5, <2>1
  <2> QED
    BY <1>8, <2>1, <2>2, <2>3 DEF LogTellsWhatHappened, HasTools, uses
<1> QED
  BY <1>2, <1>3, <1>7, <1>9, <1>10, <1>11, <1>12, <1>13, <1>14 DEF ChatInv, Answered, c
-----------------------------------------------------------------------------
(***************************************************************************)
(* The steps.                                                              *)
(***************************************************************************)
LEMMA NothingTyping ==
  /\ Nothing \in [blocks : Seq(AnswerBlock), stop : Stops \cup {"none"}]
  /\ \A id : ~UseAmong(Nothing.blocks, id)
<1> DEFINE e == <<>>
<1>1. e \in Seq(AnswerBlock) /\ Len(e) = 0
  OBVIOUS
<1>2. Nothing = [blocks |-> e, stop |-> "none"]
  BY DEF Nothing
<1> HIDE DEF e
<1>3. Nothing.blocks = e
  BY <1>2
<1> QED
  BY <1>1, <1>2, <1>3 DEF UseAmong

LEMMA ChatStarts == ChatInit => ChatInv
<1> SUFFICES ASSUME ChatInit
             PROVE  ChatInv
  OBVIOUS
<1> DEFINE e == <<>>
<1>1. /\ nativeTools \in BOOLEAN /\ system \in BOOLEAN /\ exchange = 0
      /\ history = e /\ tools = e /\ pc = "client" /\ out = NoRequest
      /\ asked = e /\ failure = "no" /\ answer = Nothing /\ builder = NewCycle
      /\ nextId = 1
  BY DEF ChatInit
<1>2. e \in Seq(HistoryMessage) /\ e \in Seq(SentMessage) /\ Len(e) = 0
      /\ e \in Seq(ShortNames \cup LongNames) /\ NoRequest.messages = e
  BY DEF NoRequest
<1>3. Translated(e, TRUE) = e
  <2>1. EachTranslated(e, TRUE) = e /\ FlattenSeq(e) = e
    BY FlattenEmpty DEF EachTranslated
  <2> HIDE DEF e
  <2> QED
    BY <2>1 DEF Translated
<1>4. Cycle(NewCycle)
  BY DEF Cycle, NewCycle
<1>5. asked \in AskedAt("client")
  BY <1>1 DEF AskedAt
<1> HIDE DEF e
<1>6. Sound(e)
  <2>1. ~ \E i \in 1 .. Len(e) : TRUE
    BY <1>2
  <2> QED
    BY <1>2, <1>3, <2>1, ClosedPlain DEF Sound
<1>7. ChatTyping
  BY <1>1, <1>2, <1>4, <1>6, NothingTyping, ConversationAssumption DEF ChatTyping
<1>8. \A id : ~UseIn(e, id)
  BY <1>2 DEF UseIn
<1>9. Stages /\ LogFollows /\ IdsBelow /\ CallsTold /\ LogTellsWhatHappened
  BY <1>1, <1>5, <1>8, NothingTyping
     DEF Stages, LogFollows, Asking, IdsBelow, CallsTold, Answered, LogTellsWhatHappened
<1> QED
  BY <1>7, <1>9 DEF ChatInv

LEMMA ReceiveKeeps == ChatInv /\ Receive => ChatInv'
<1> SUFFICES ASSUME ChatInv, Receive
             PROVE  ChatInv'
  OBVIOUS
<1> DEFINE e == <<>>
<1>1. /\ exchange' = exchange + 1 /\ exchange < MaxExchanges /\ history' \in NextMessages
      /\ tools' \in Offers /\ nextId' = nextId + 3
      /\ builder' = SetIncoming(NewCycle, history', tools')
      /\ asked' = e /\ failure' = "no" /\ answer' = Nothing /\ out' = NoRequest
      /\ pc' = (IF tools' # e /\ nativeTools THEN "native" ELSE "inject")
      /\ nativeTools' = nativeTools /\ system' = system
  BY DEF Receive
<1>2. Sound(history') /\ NoNewUses(history', history, answer.blocks)
  BY <1>1, NextHistory DEF ChatInv, ChatTyping
<1>3. Len(history') \in Nat
  BY <1>2, LenProperties DEF Sound
<1>4. Cycle(builder') /\ Len(builder'.incoming) = Len(history')
  BY <1>1, <1>3, IncomingLogged
<1>5. e \in Seq(SentMessage) /\ NoRequest.messages = e /\ e \in AskedAt("native")
      /\ e \in AskedAt("inject")
  BY DEF NoRequest, AskedAt
<1> HIDE DEF e
<1>6. exchange' \in 0 .. MaxExchanges /\ nextId' \in Nat
  BY <1>1, ConversationAssumption DEF ChatInv, ChatTyping
<1>7. tools' \in Seq(ShortNames \cup LongNames)
  BY <1>1, ConversationAssumption
<1>8. ChatTyping'
  BY <1>1, <1>2, <1>4, <1>5, <1>6, <1>7, NothingTyping DEF ChatInv, ChatTyping
<1>9. Stages'
  BY <1>1, <1>5 DEF Stages, e
<1>10. LogFollows'
  BY <1>1, <1>4 DEF LogFollows, Asking
<1>11. IdsBelow'
  <2>1. \A id : UseIn(history', id) => id \in Nat /\ id < nextId
    BY <1>2 DEF NoNewUses, ChatInv, IdsBelow
  <2>2. nextId \in Nat
    BY DEF ChatInv, ChatTyping
  <2>3. \A id : UseIn(history', id) => id \in Nat /\ id < nextId'
    BY <1>1, <2>1, <2>2
  <2> QED
    BY <1>1, <2>3, NothingTyping DEF IdsBelow
<1>12. CallsTold' /\ LogTellsWhatHappened'
  BY <1>1 DEF CallsTold, Answered, LogTellsWhatHappened
<1> QED
  BY <1>8, <1>9, <1>10, <1>11, <1>12 DEF ChatInv

LEMMA OfferNativelyKeeps == ChatInv /\ OfferNatively => ChatInv'
<1> SUFFICES ASSUME ChatInv, OfferNatively
             PROVE  ChatInv'
  OBVIOUS
<1> DEFINE ms == ToChatCompletionRequest(system, history, TRUE)
           names == TranslateTools(tools).names
<1>1. /\ pc = "native" /\ pc' = "nativeAnswer"
      /\ out'.messages = ms /\ out'.tools = names
      /\ builder' = SetOutgoing(builder, out', FALSE)
      /\ asked' = Append(asked, "native")
      /\ UNCHANGED <<nativeTools, system, exchange, history, tools, failure, answer, nextId>>
  BY DEF OfferNatively, request
<1>2. asked = <<>> /\ answer = Nothing /\ tools \in Offers /\ tools # <<>>
  BY <1>1 DEF ChatInv, Stages, AskedAt
<1>3. asked' \in AskedAt("nativeAnswer")
  BY <1>1, <1>2 DEF AskedAt
<1>4. ms \in Seq(SentMessage) /\ ~HasTools(ms)
  BY RequestTyping, NoToolsInPlain DEF ChatInv, ChatTyping, Sound
<1> HIDE DEF ms, names
<1>5. /\ Cycle(builder') /\ builder'.incoming = builder.incoming
      /\ builder'.model = out'.model /\ builder'.count = Len(out'.messages)
      /\ builder'.injected = FALSE
  <2> DEFINE no == FALSE
  <2>1. Cycle(builder)
    BY DEF ChatInv, ChatTyping
  <2>2. builder' = SetOutgoing(builder, out', no)
    BY <1>1
  <2> HIDE DEF no
  <2>3. /\ Cycle(builder') /\ builder'.incoming = builder.incoming
        /\ builder'.model = out'.model /\ builder'.count = Len(out'.messages)
        /\ builder'.injected = no
    BY <2>1, <2>2, OutgoingLogged
  <2> QED
    BY <2>3 DEF no
<1>6. ChatTyping'
  BY <1>1, <1>4, <1>5 DEF ChatInv, ChatTyping, Sound
<1>7. Stages'
  BY <1>1, <1>2, <1>3 DEF Stages, ms, names
<1>8. LogFollows'
  <2>1. Len(builder.incoming) = Len(history)
    BY <1>1 DEF ChatInv, LogFollows
  <2>2. ~HasTools(out'.messages)
    BY <1>1, <1>4
  <2>3. builder'.injected = HasTools(out'.messages)
    BY <1>5, <2>2 DEF HasTools
  <2> QED
    BY <1>1, <1>5, <2>1, <2>3 DEF LogFollows, HasTools
<1>9. IdsBelow'
  BY <1>1 DEF ChatInv, IdsBelow
<1>10. CallsTold' /\ LogTellsWhatHappened'
  BY <1>1 DEF CallsTold, Answered, LogTellsWhatHappened
<1> QED
  BY <1>6, <1>7, <1>8, <1>9, <1>10 DEF ChatInv

LEMMA TwoInARow ==
  ASSUME NEW a, NEW b
  PROVE  Append(<<a>>, b) = <<a, b>>
<1> DEFINE S == {a, b}
           one == <<a>>
           two == <<a, b>>
           both == Append(one, b)
<1>1. one \in Seq(S) /\ Len(one) = 1 /\ one[1] = a /\ b \in S
  OBVIOUS
<1>2. two \in Seq(S) /\ Len(two) = 2 /\ two[1] = a /\ two[2] = b
  OBVIOUS
<1> HIDE DEF one, two, S
<1>3. /\ both \in Seq(S) /\ Len(both) = Len(one) + 1 /\ both[Len(one) + 1] = b
      /\ \A i \in 1 .. Len(one) : both[i] = one[i]
  <2>1. ASSUME NEW s \in Seq(S), NEW x \in S
        PROVE  /\ Append(s, x) \in Seq(S) /\ Len(Append(s, x)) = Len(s) + 1
               /\ Append(s, x)[Len(s) + 1] = x
               /\ \A i \in 1 .. Len(s) : Append(s, x)[i] = s[i]
    BY AppendProperties
  <2> QED
    BY <1>1, <2>1
<1> HIDE DEF both
<1>4. Len(both) = 2 /\ both[1] = a /\ both[2] = b
  BY <1>1, <1>3
<1>5. \A i \in 1 .. 2 : i = 1 \/ i = 2
  OBVIOUS
<1>6. both = two
  BY <1>2, <1>3, <1>4, <1>5, SeqEqual
<1> QED
  BY <1>6 DEF both, one, two

LEMMA InjectKeeps == ChatInv /\ Inject => ChatInv'
<1> SUFFICES ASSUME ChatInv, Inject
             PROVE  ChatInv'
  OBVIOUS
<1> DEFINE ms == Injected(system, history, tools)
<1>1. /\ pc = "inject" /\ pc' = "xmlAnswer"
      /\ out'.messages = ms /\ out'.tools = <<>>
      /\ builder' = SetOutgoing(builder, out', tools # <<>>)
      /\ asked' = Append(asked, "xml")
      /\ UNCHANGED <<nativeTools, system, exchange, history, tools, failure, answer, nextId>>
  BY DEF Inject, Injected, request
<1>2. asked \in {<<>>, <<"native">>} /\ answer = Nothing /\ tools \in Offers
  BY <1>1 DEF ChatInv, Stages, AskedAt
<1>3. asked' \in AskedAt("xmlAnswer")
  <2>1. asked' \in {<<"xml">>, <<"native", "xml">>}
    <3>1. CASE asked = <<>>
      BY <1>1, <3>1
    <3>2. CASE asked = <<"native">>
      BY <1>1, <3>2, TwoInARow
    <3> QED
      BY <1>2, <3>1, <3>2
  <2> QED
    BY <2>1 DEF AskedAt
<1>4. ms \in Seq(SentMessage) /\ (HasTools(ms) <=> tools # <<>>)
  BY InjectedTyping DEF ChatInv, ChatTyping, Sound
<1> HIDE DEF ms
<1>5. /\ Cycle(builder') /\ builder'.incoming = builder.incoming
      /\ builder'.model = out'.model /\ builder'.count = Len(out'.messages)
      /\ builder'.injected = (tools # <<>>)
  <2>1. Cycle(builder)
    BY DEF ChatInv, ChatTyping
  <2> QED
    BY <1>1, <2>1, OutgoingLogged
<1>6. ChatTyping'
  BY <1>1, <1>4, <1>5 DEF ChatInv, ChatTyping, Sound
<1>7. Stages'
  BY <1>1, <1>2, <1>3 DEF Stages, ms
<1>8. LogFollows'
  <2>1. Len(builder.incoming) = Len(history)
    BY <1>1 DEF ChatInv, LogFollows
  <2>2. builder'.injected = HasTools(out'.messages)
    BY <1>1, <1>4, <1>5 DEF HasTools
  <2> QED
    BY <1>1, <1>5, <2>1, <2>2 DEF LogFollows, HasTools
<1>9. IdsBelow'
  BY <1>1 DEF ChatInv, IdsBelow
<1>10. CallsTold' /\ LogTellsWhatHappened'
  BY <1>1 DEF CallsTold, Answered, LogTellsWhatHappened
<1> QED
  BY <1>6, <1>7, <1>8, <1>9, <1>10 DEF ChatInv

\* The second attempt has nothing of native tools.
LEMMA NoToolsToRefuse ==
  ASSUME ChatInv, pc = "xmlAnswer"
  PROVE  ~UsesTools(out)
<1>1. out.messages = Injected(system, history, tools) /\ out.tools = <<>>
  BY DEF ChatInv, Stages
<1>2. \A i \in 1 .. Len(out.messages) :
         out.messages[i].role # "tool" /\ out.messages[i].calls = <<>>
  BY <1>1, InjectedTyping DEF ChatInv, ChatTyping, Sound
<1> QED
  BY <1>1, <1>2 DEF UsesTools

\* Nothing has been answered when an attempt fails.
LEMMA FailKeeps ==
  ASSUME ChatInv, pc # "client", pc' \in {"client", "inject"},
         pc' = "inject" => pc = "nativeAnswer",
         failure' \in {"tools", "parameter", "other"},
         pc' = "client" => failure' # "tools",
         UNCHANGED <<request, out, asked, meant, builder, nextId, answer, logged>>
  PROVE  ChatInv'
<1>1. UNCHANGED <<nativeTools, system, exchange, history, tools, out, asked, builder,
                  nextId, answer, logged>>
  BY DEF request
<1>2. answer = Nothing /\ tools \in Offers /\ Len(builder.incoming) = Len(history)
  BY DEF ChatInv, Stages, LogFollows
<1>3. ChatTyping'
  BY <1>1 DEF ChatInv, ChatTyping, Sound, Cycle
<1>4. Stages'
  <2>1. asked \in AskedAt("client")
    BY DEF ChatInv, Stages, ChatTyping, AskedAt
  <2>2. pc = "nativeAnswer" => asked \in AskedAt("inject")
    BY DEF ChatInv, Stages, AskedAt
  <2> QED
    BY <1>1, <1>2, <2>1, <2>2 DEF Stages
<1>5. LogFollows' /\ CallsTold' /\ LogTellsWhatHappened'
  BY <1>1, <1>2 DEF LogFollows, Asking, CallsTold, Answered, LogTellsWhatHappened
<1>6. IdsBelow'
  BY <1>1 DEF ChatInv, IdsBelow
<1> QED
  BY <1>3, <1>4, <1>5, <1>6 DEF ChatInv

LEMMA ErrorKeeps == ChatInv /\ Error => ChatInv'
<1> SUFFICES ASSUME ChatInv, Error
             PROVE  ChatInv'
  OBVIOUS
<1>1. /\ pc # "client" /\ pc' = "client" /\ failure' = "other"
      /\ UNCHANGED <<request, out, asked, meant, builder, nextId, answer, logged>>
  BY DEF Error, Fail
<1> QED
  BY <1>1, FailKeeps

LEMMA RefuseKeeps == ChatInv /\ Refuse => ChatInv'
<1> SUFFICES ASSUME ChatInv, Refuse
             PROVE  ChatInv'
  OBVIOUS
<1>1. PICK why \in {"tools", "parameter"} :
         /\ why = "tools" => UsesTools(out)
         /\ failure' = why
         /\ IF pc = "nativeAnswer" /\ IsToolsNotSupportedError(why)
            THEN pc' = "inject" /\ UNCHANGED <<answer, logged>>
            ELSE Fail
  BY DEF Refuse
<1>2. /\ pc \in {"nativeAnswer", "xmlAnswer"}
      /\ UNCHANGED <<request, out, asked, meant, builder, nextId>>
  BY DEF Refuse
<1>3. CASE pc = "nativeAnswer"
  <2>1. pc' = "inject" /\ UNCHANGED <<answer, logged>>
    BY <1>1, <1>3 DEF IsToolsNotSupportedError
  <2> QED
    BY <1>1, <1>2, <1>3, <2>1, FailKeeps
<1>4. CASE pc = "xmlAnswer"
  <2>1. pc' = "client" /\ UNCHANGED <<answer, logged>>
    BY <1>1, <1>4 DEF Fail
  <2>2. why # "tools"
    BY <1>1, <1>4, NoToolsToRefuse
  <2> QED
    BY <1>1, <1>2, <1>4, <2>1, <2>2, FailKeeps
<1> QED
  BY <1>2, <1>3, <1>4

LEMMA FirstOf ==
  ASSUME NEW a, NEW b
  PROVE  /\ <<a>> # <<>> /\ <<a>>[1] = a /\ Head(<<a>>) = a
         /\ <<a, b>> # <<>> /\ <<a, b>>[1] = a /\ Head(<<a, b>>) = a
OBVIOUS

\* The answer has the calls that the model made, or those that were found in
\* its text.
SameTools ==
  LET told == ToolsOf(Uses(answer.blocks))
  IN  \/ asked = <<"native">> /\ told = ToolsOf(meant.calls)
      \/ Last(asked) = "xml" /\ told = ToolsOf(meant.parsed)

LEMMA NativeAnswerKeeps == ChatInv /\ NativeAnswer => ChatInv' /\ SameTools'
<1> SUFFICES ASSUME ChatInv, NativeAnswer
             PROVE  ChatInv' /\ SameTools'
  OBVIOUS
<1> DEFINE name(i) == RestoreToolName(out.tools[i], TranslateTools(tools).mapping)
           callsOf(r) == [i \in 1 .. Len(r.calls) |-> Call(nextId + i, name(r.calls[i]), r.whole)]
           finishOf(r) == IF ~r.whole THEN "length"
                          ELSE IF callsOf(r) = <<>> THEN "stop" ELSE "tool_calls"
           other == Call(nextId, name(1), TRUE)
           firstOf(r) == [text |-> r.text, calls |-> callsOf(r), finish |-> finishOf(r)]
           secondOf(r) == [text |-> 0, calls |-> <<other>>, finish |-> finishOf(r)]
           meantBy(r) == [i \in 1 .. Len(callsOf(r)) |-> [tool |-> tools[r.calls[i]], params |-> <<>>]]
<1>1. PICK r \in NativeReplies :
         /\ meant' = [NothingMeant EXCEPT !.calls = meantBy(r), !.whole = r.whole]
         /\ IF r.second THEN Respond(<<firstOf(r), secondOf(r)>>, callsOf(r) \o <<other>>)
            ELSE Respond(<<firstOf(r)>>, callsOf(r))
  BY Zenon DEF NativeAnswer
<1>2. /\ pc = "nativeAnswer" /\ nextId' = nextId + 3
      /\ UNCHANGED <<request, out, asked, builder>>
  BY DEF NativeAnswer
<1>3. /\ tools \in Seq(ShortNames \cup LongNames) /\ tools # <<>> /\ nextId \in Nat
      /\ out.tools = TranslateTools(tools).names
  BY <1>2 DEF ChatInv, ChatTyping, Stages
<1>4. Len(tools) \in Nat /\ Len(tools) >= 1
  BY <1>3, EmptySeq, LenProperties
<1>5. \A i \in 1 .. Len(tools) : name(i) = tools[i] /\ tools[i] \in ToolNames
  <2>1. \A i \in 1 .. Len(tools) : tools[i] \in ShortNames \cup LongNames
    BY <1>3, ElementOfSeq
  <2>2. \A i \in 1 .. Len(tools) : name(i) = tools[i]
    BY <1>3, NamesComeBack
  <2> QED
    BY <2>1, <2>2 DEF ToolNames
<1>6. /\ r.text \in Nat /\ r.whole \in BOOLEAN /\ r.second \in BOOLEAN
      /\ Len(r.calls) \in 0 .. 2
      /\ \A i \in 1 .. Len(r.calls) : r.calls[i] \in 1 .. Len(tools)
  <2>1. /\ r.text \in {0, nextId} /\ r.whole \in BOOLEAN /\ r.second \in BOOLEAN
        /\ r.calls \in {<<>>, <<1>>, <<Len(tools), 1>>}
    BY DEF NativeReplies
  <2>2. CASE r.calls = <<>>
    BY <1>3, <2>1, <2>2
  <2>3. CASE r.calls = <<1>>
    BY <1>3, <1>4, <2>1, <2>3
  <2>4. CASE r.calls = <<Len(tools), 1>>
    BY <1>3, <1>4, <2>1, <2>4
  <2> QED
    BY <2>1, <2>2, <2>3, <2>4
<1> DEFINE calls == callsOf(r)
<1> HIDE DEF name
<1>7. Len(calls) = Len(r.calls) /\ Len(calls) \in Nat
  BY <1>6
<1>8. ASSUME NEW i \in 1 .. Len(r.calls)
      PROVE  /\ calls[i] \in CallSet /\ calls[i].id = nextId + i
             /\ calls[i].name = tools[r.calls[i]]
  <2>1. calls[i] = Call(nextId + i, name(r.calls[i]), r.whole)
    OBVIOUS
  <2>2. nextId + i \in Nat /\ name(r.calls[i]) = tools[r.calls[i]]
        /\ name(r.calls[i]) \in ToolNames
    BY <1>3, <1>5, <1>6
  <2> QED
    BY <1>6, <2>1, <2>2 DEF Call, CallSet
<1>9. calls \in Seq(CallSet)
  <2>1. calls \in [1 .. Len(r.calls) -> CallSet]
    BY <1>8
  <2> HIDE DEF calls
  <2> QED
    BY <1>6, <2>1
<1>10. other \in CallSet
  BY <1>3, <1>4, <1>5 DEF Call, CallSet
<1>11. NumberedFrom(calls, nextId)
  BY <1>7, <1>8 DEF NumberedFrom
<1> DEFINE first == firstOf(r)
           second == secondOf(r)
           m == meantBy(r)
<1>12. first.text \in Nat /\ first.calls = calls
       /\ (calls = <<>> => first.finish \in {"stop", "length"})
  BY <1>6
<1>13. meant'.calls = m
  BY <1>1 DEF NothingMeant
<1>14. Len(m) = Len(calls) /\ \A i \in 1 .. Len(calls) : m[i].tool = tools[r.calls[i]]
  BY <1>7
<1> HIDE DEF calls, first, second, m, other
<1>15. nextId' \in Nat /\ nextId' > nextId + Len(calls)
  <2> DEFINE k == Len(calls)
  <2>1. k = 0 \/ k = 1 \/ k = 2
    BY <1>6, <1>7
  <2>2. nextId' = nextId + 3 /\ nextId \in Nat
    BY <1>2, <1>3
  <2> HIDE DEF k
  <2>3. nextId + 3 \in Nat /\ nextId + 3 > nextId + k
    BY <2>1, <2>2
  <2> QED
    BY <2>2, <2>3 DEF k
<1>16. ChatInv' /\ AnswerTo(answer', calls)
  <2>1. CASE r.second
    <3> DEFINE choices == <<first, second>>
               all == calls \o <<other>>
    <3>1. Respond(choices, all)
      BY <1>1, <2>1 DEF first, second, calls, m
    <3>2. choices # <<>> /\ choices[1] = first /\ Head(choices) = first
      BY FirstOf
    <3>3. <<other>> \in Seq(CallSet) /\ Len(<<other>>) = 1
      BY <1>10
    <3>4. Len(all) \in Nat /\ Len(all) >= Len(calls)
      BY <1>7, <1>9, <3>3, ConcatProperties
    <3> HIDE DEF choices, all
    <3> QED
      BY <1>2, <1>9, <1>11, <1>12, <1>15, <3>1, <3>2, <3>4, RespondKeeps DEF Asking
  <2>2. CASE ~r.second
    <3> DEFINE choices == <<first>>
    <3>1. Respond(choices, calls)
      BY <1>1, <2>2 DEF first, second, calls, m
    <3>2. choices # <<>> /\ choices[1] = first /\ Head(choices) = first
      BY FirstOf
    <3> HIDE DEF choices
    <3> QED
      BY <1>2, <1>7, <1>9, <1>11, <1>12, <1>15, <3>1, <3>2, RespondKeeps DEF Asking
  <2> QED
    BY <2>1, <2>2
<1>17. SameTools'
  <2> DEFINE uses == Uses(answer'.blocks)
  <2>1. HasIds(answer', calls, nextId)
    BY <1>3, <1>9, <1>11, <1>16, AnswerIds
  <2>2. Len(uses) = Len(calls) /\ \A i \in 1 .. Len(calls) : uses[i].tool = calls[i].name
    BY <2>1 DEF HasIds
  <2> HIDE DEF uses
  <2>3. \A i \in 1 .. Len(calls) : uses[i].tool = m[i].tool
    BY <1>7, <1>8, <1>14, <2>2
  <2>4. ToolsOf(uses) = ToolsOf(m)
    BY <1>14, <2>2, <2>3 DEF ToolsOf
  <2>5. asked' = <<"native">>
    BY <1>2 DEF ChatInv, Stages, AskedAt
  <2> QED
    BY <1>13, <2>4, <2>5 DEF SameTools, uses
<1> QED
  BY <1>16, <1>17

\* What the parser finds is a sequence of calls of known tools.
LEMMA ParsedTyping ==
  ASSUME NEW t \in Texts, NEW o \in Offers
  PROVE  /\ IsSequence(Parsed[t][o]) /\ (o = <<>> => Parsed[t][o] = <<>>)
         /\ \A i \in 1 .. Len(Parsed[t][o]) : Parsed[t][o][i].tool \in ToolNames
<1>1. Parsed[t][o] = IF o = <<>> THEN <<>> ELSE ParseToolCalls(t.tokens, Registry(o))
  BY DEF Parsed
<1>2. IsSequence(t.tokens)
  <2>1. t.tokens \in Seq(ToSet(t.tokens))
    BY ConversationAssumption
  <2> DEFINE S == ToSet(t.tokens)
  <2>2. t.tokens \in Seq(S)
    BY <2>1
  <2> HIDE DEF S
  <2> QED
    BY <2>2, SequenceIs
<1>3. IsSequence(ParseToolCalls(t.tokens, Registry(o)))
  BY <1>2, ParsedSequence
<1>4. IsSequence(<<>>)
  BY DEF IsSequence
<1>5. IsSequence(Parsed[t][o]) /\ (o = <<>> => Parsed[t][o] = <<>>)
  BY <1>1, <1>3, <1>4
<1>6. ASSUME NEW i \in 1 .. Len(Parsed[t][o])
      PROVE  Parsed[t][o][i].tool \in ToolNames
  <2>1. Parsed[t][o][i].tool \in ToolsFound(t, o)
    BY DEF ToolsFound
  <2>2. ToolsFound(t, o) \subseteq ParsedTools
    BY DEF ParsedTools
  <2> QED
    BY <2>1, <2>2 DEF ToolNames
<1> QED
  BY <1>5, <1>6

LEMMA LastAsked == Last(<<"xml">>) = "xml" /\ Last(<<"native", "xml">>) = "xml"
BY DEF Last

LEMMA XmlAnswerKeeps ==
  ChatInv /\ XmlAnswer => ChatInv' /\ SameTools'
<1> SUFFICES ASSUME ChatInv, XmlAnswer
             PROVE  ChatInv' /\ SameTools'
  OBVIOUS
<1> DEFINE parsedIn(t) == Parsed[t][tools]
           restOf(t) == Rest[t][tools]
           callsOf(t) == [i \in 1 .. Len(parsedIn(t)) |->
                            Call(nextId + i, parsedIn(t)[i].tool, TRUE)]
           meantBy(t) == [calls |-> IF tools = <<>> THEN <<>> ELSE t.calls,
                          prose |-> IF tools = <<>> THEN t.tokens ELSE t.prose,
                          parsed |-> parsedIn(t), rest |-> restOf(t), whole |-> TRUE]
           firstOf(t, f) == [text |-> IF restOf(t) = <<>> THEN 0 ELSE nextId,
                             calls |-> callsOf(t),
                             finish |-> IF callsOf(t) = <<>> THEN f ELSE "tool_calls"]
<1>1. PICK t \in Texts, finish \in {"stop", "length"} :
         /\ meant' = meantBy(t)
         /\ Respond(<<firstOf(t, finish)>>, callsOf(t))
         /\ nextId' = nextId + Len(parsedIn(t)) + 1
  BY Zenon DEF XmlAnswer
<1>2. /\ pc = "xmlAnswer" /\ UNCHANGED <<request, out, asked, builder>>
  BY DEF XmlAnswer
<1>3. tools \in Offers /\ nextId \in Nat /\ UNCHANGED tools
  BY <1>2 DEF ChatInv, ChatTyping, Stages, request
<1> DEFINE parsed == parsedIn(t)
           calls == callsOf(t)
           first == firstOf(t, finish)
           choices == <<first>>
           e == <<>>
<1>4. /\ IsSequence(parsed) /\ (tools = e => parsed = e)
      /\ \A i \in 1 .. Len(parsed) : parsed[i].tool \in ToolNames
  BY <1>3, ParsedTyping
<1>5. Len(parsed) \in Nat
  BY <1>4, LenProperties DEF IsSequence
<1>6. first.text \in Nat /\ first.calls = calls
      /\ (calls = <<>> => first.finish \in {"stop", "length"})
  BY <1>3
<1>7. choices # <<>> /\ choices[1] = first /\ Head(choices) = first
  BY FirstOf
<1>8. meant'.parsed = parsed
  BY <1>1
<1> HIDE DEF parsedIn, first
<1>9. Len(calls) = Len(parsed)
  BY <1>5
<1>10. ASSUME NEW i \in 1 .. Len(parsed)
       PROVE  /\ calls[i] \in CallSet /\ calls[i].id = nextId + i
              /\ calls[i].name = parsed[i].tool
  <2>1. calls[i] = Call(nextId + i, parsed[i].tool, TRUE)
    OBVIOUS
  <2>2. nextId + i \in Nat /\ parsed[i].tool \in ToolNames
    BY <1>3, <1>4, <1>5
  <2> QED
    BY <2>1, <2>2 DEF Call, CallSet
<1>11. calls \in Seq(CallSet)
  <2>1. calls \in [1 .. Len(parsed) -> CallSet]
    BY <1>10
  <2> HIDE DEF calls, parsed
  <2> QED
    BY <1>5, <2>1
<1>12. NumberedFrom(calls, nextId)
  BY <1>9, <1>10 DEF NumberedFrom
<1>13. Respond(choices, calls) /\ nextId' = nextId + Len(parsed) + 1
  BY <1>1 DEF first
<1> HIDE DEF calls, choices, parsed
<1>14. nextId' \in Nat /\ nextId' > nextId + Len(calls) /\ Len(calls) \in Nat
  BY <1>3, <1>5, <1>9, <1>13
<1>15. ChatInv' /\ AnswerTo(answer', calls)
  BY <1>2, <1>6, <1>7, <1>11, <1>12, <1>13, <1>14, RespondKeeps DEF Asking
<1>16. SameTools'
  <2> DEFINE uses == Uses(answer'.blocks)
  <2>1. HasIds(answer', calls, nextId)
    BY <1>3, <1>11, <1>12, <1>15, AnswerIds
  <2>2. Len(uses) = Len(calls) /\ \A i \in 1 .. Len(calls) : uses[i].tool = calls[i].name
    BY <2>1 DEF HasIds
  <2> HIDE DEF uses
  <2>3. \A i \in 1 .. Len(parsed) : uses[i].tool = parsed[i].tool
    BY <1>9, <1>10, <2>2
  <2>4. ToolsOf(uses) = ToolsOf(parsed)
    BY <1>9, <2>2, <2>3 DEF ToolsOf
  <2>5. Last(asked') = "xml"
    BY <1>2, LastAsked DEF ChatInv, Stages, AskedAt
  <2> QED
    BY <1>8, <2>4, <2>5 DEF SameTools, uses
<1> QED
  BY <1>15, <1>16

\* What the invariant says of the answer once it is there.
ChatInvAndTools == ChatInv /\ (Answered => SameTools)

LEMMA ChatStep == ChatInvAndTools /\ [ChatNext]_chatVars => ChatInvAndTools'
<1> SUFFICES ASSUME ChatInvAndTools, [ChatNext]_chatVars
             PROVE  ChatInvAndTools'
  OBVIOUS
<1>1. ChatInv /\ (Answered => SameTools)
  BY DEF ChatInvAndTools
<1>2. ASSUME Receive \/ OfferNatively \/ Inject
      PROVE  ChatInvAndTools'
  <2>1. ChatInv'
    BY <1>1, <1>2, ReceiveKeeps, OfferNativelyKeeps, InjectKeeps
  <2>2. pc' # "client"
    BY <1>2 DEF Receive, OfferNatively, Inject
  <2> QED
    BY <2>1, <2>2 DEF ChatInvAndTools, Answered
<1>3. ASSUME Error \/ Refuse
      PROVE  ChatInvAndTools'
  <2>1. ChatInv'
    BY <1>1, <1>3, ErrorKeeps, RefuseKeeps
  <2>2. pc # "client" /\ UNCHANGED answer
    BY <1>3 DEF Error, Refuse, Fail
  <2>3. answer' = Nothing
    BY <1>1, <2>2 DEF ChatInv, Stages
  <2>4. ~Answered'
    BY <2>3 DEF Answered, Nothing
  <2> QED
    BY <2>1, <2>4 DEF ChatInvAndTools
<1>4. ASSUME NativeAnswer \/ XmlAnswer
      PROVE  ChatInvAndTools'
  BY <1>1, <1>4, NativeAnswerKeeps, XmlAnswerKeeps DEF ChatInvAndTools
<1>5. ASSUME UNCHANGED chatVars
      PROVE  ChatInvAndTools'
  <2>1. UNCHANGED <<nativeTools, system, exchange, history, tools, pc, out, asked, failure,
                    meant, answer, builder, logged, nextId>>
    BY <1>5 DEF chatVars
  <2>2. ChatTyping' /\ Stages' /\ LogFollows' /\ IdsBelow'
    <3>1. ChatTyping' /\ IdsBelow'
      BY <1>1, <2>1 DEF ChatInv, ChatTyping, Sound, Cycle, IdsBelow
    <3>2. Stages' /\ LogFollows'
      BY <1>1, <2>1 DEF ChatInv, Cycle, Stages, LogFollows, Asking
    <3> QED
      BY <3>1, <3>2
  <2>3. CallsTold' /\ LogTellsWhatHappened'
    BY <1>1, <2>1 DEF ChatInv, CallsTold, Answered, LogTellsWhatHappened
  <2>4. Answered' => SameTools'
    BY <1>1, <2>1 DEF Answered, SameTools
  <2> QED
    BY <2>2, <2>3, <2>4 DEF ChatInvAndTools, ChatInv
<1> QED
  BY <1>2, <1>3, <1>4, <1>5 DEF ChatNext, Over

LEMMA ChatInvariant == ChatSpec => []ChatInvAndTools
<1>1. ChatInit => ChatInvAndTools
  <2>1. ChatInit => ChatInv
    BY ChatStarts
  <2>2. ChatInit => ~Answered
    BY DEF ChatInit, Answered
  <2> QED
    BY <2>1, <2>2 DEF ChatInvAndTools
<1>2. ChatInvAndTools /\ [ChatNext]_chatVars => ChatInvAndTools'
  BY ChatStep
<1> QED
  BY <1>1, <1>2, PTL DEF ChatSpec
-----------------------------------------------------------------------------
(***************************************************************************)
(* What follows from it.                                                   *)
(***************************************************************************)
LEMMA InvariantTypes == ChatInv => ChatTypeOK
<1> SUFFICES ASSUME ChatInv
             PROVE  ChatTypeOK
  OBVIOUS
<1>1. ChatTyping /\ Stages
  BY DEF ChatInv
<1>2. asked \in {<<>>, <<"native">>, <<"xml">>, <<"native", "xml">>}
  BY <1>1 DEF Stages, ChatTyping, AskedAt
<1>3. answer.stop \in {"none", "tool_use", "end_turn", "max_tokens"}
  BY <1>1 DEF ChatTyping, Stops
<1>4. ASSUME NEW i \in 1 .. Len(history)
      PROVE  /\ history[i].role \in {"user", "assistant"}
             /\ \A j \in 1 .. Len(history[i].blocks) : history[i].blocks[j].k \in Kinds
  <2>1. history[i] \in HistoryMessage
    BY <1>1 DEF ChatTyping, Sound
  <2>2. history[i].role \in {"user", "assistant"} /\ history[i].blocks \in Seq(HistoryBlock)
    BY <2>1 DEF HistoryMessage
  <2>3. \A b \in HistoryBlock : b.k \in Kinds
    BY DEF HistoryBlock
  <2> QED
    BY <2>2, <2>3, ElementOfSeq
<1>5. ASSUME NEW i \in 1 .. Len(out.messages)
      PROVE  out.messages[i].role \in {"system", "user", "assistant", "tool"}
  <2>1. out.messages[i] \in SentMessage
    BY <1>1 DEF ChatTyping
  <2> QED
    BY <2>1 DEF SentMessage, SentOf, SentRoles
<1> QED
  BY <1>1, <1>2, <1>3, <1>4, <1>5 DEF ChatTyping, ChatTypeOK

\* Either request has what was said.
LEMMA RequestTells == ChatInv /\ Asking => Reach(out.messages) = Prompt(system) \o Of(Said(history), Told)
<1> SUFFICES ASSUME ChatInv, Asking
             PROVE  Reach(out.messages) = Prompt(system) \o Of(Said(history), Told)
  OBVIOUS
<1>1. system \in BOOLEAN /\ history \in Seq(HistoryMessage)
  BY DEF ChatInv, ChatTyping, Sound
<1>2. CASE pc = "nativeAnswer"
  <2>1. out.messages = ToChatCompletionRequest(system, history, TRUE)
    BY <1>2 DEF ChatInv, Stages
  <2>2. Reach(ToChatCompletionRequest(system, history, TRUE))
          = Prompt(system) \o Of(Said(history), Told)
    BY <1>1, RequestTyping
  <2> QED
    BY <2>1, <2>2
<1>3. CASE pc = "xmlAnswer"
  <2>1. out.messages = Injected(system, history, tools)
    BY <1>3 DEF ChatInv, Stages
  <2>2. Reach(Injected(system, history, tools)) = Prompt(system) \o Of(Said(history), Told)
    BY <1>1, InjectedTyping
  <2> QED
    BY <2>1, <2>2
<1> QED
  BY <1>2, <1>3 DEF Asking

LEMMA NothingIsLost == ChatInv => NothingLost
<1> SUFFICES ASSUME ChatInv, Asking
             PROVE  NothingLost
  BY DEF NothingLost
<1>1. Of(FlattenSeq(Pieces(out.messages)), Told)
        = Prompt(system) \o Of(FlattenSeq(EachSaid(history)), Told)
  BY RequestTells DEF Reach, Said
<1> QED
  BY <1>1 DEF NothingLost, Pieces, Piece, Prompt, EachSaid, Told

\* The native request has the calls with their results after them.
LEMMA NativeRequestClosed == ChatInv /\ pc = "nativeAnswer" => Closed(out.messages)
<1> SUFFICES ASSUME ChatInv, pc = "nativeAnswer"
             PROVE  Closed(out.messages)
  OBVIOUS
<1> DEFINE t == Translated(history, TRUE)
           p == IF system THEN <<SystemPrompt>> ELSE <<>>
           b == Block("text", 0, NoTool)
           one == <<b>>
           e == <<>>
<1>1. t \in Seq(SentMessage) /\ Closed(t)
  BY TranslatedTyping DEF ChatInv, ChatTyping, Sound
<1>2. b \in SentBlock /\ "system" \in SentRoles
  BY DEF Block, SentBlock, Kinds, ToolNames, SentRoles
<1>3. SystemPrompt = Message("system", one, <<>>, NoId)
  BY DEF SystemPrompt
<1>4. one \in Seq(SentBlock)
  <2> HIDE DEF b
  <2> QED
    BY <1>2
<1> HIDE DEF one
<1>5. /\ SystemPrompt \in SentMessage /\ SystemPrompt.role = "system"
      /\ SystemPrompt.calls = e
  <2>1. SystemPrompt \in SentMessage
    BY <1>2, <1>3, <1>4, TextMessage DEF SentMessage
  <2> QED
    BY <1>3, <2>1 DEF Message
<1>6. p \in Seq(SentMessage) /\ Closed(p)
  <2>1. <<SystemPrompt>> \in Seq(SentMessage) /\ <<>> \in Seq(SentMessage)
    BY <1>5
  <2>2. p \in Seq(SentMessage)
    BY <2>1
  <2>3. \A i \in 1 .. Len(p) : p[i] = SystemPrompt
    OBVIOUS
  <2>4. \A i \in 1 .. Len(p) : p[i].role # "tool" /\ p[i].calls = e
    BY <1>5, <2>3
  <2> HIDE DEF p
  <2> QED
    BY <2>2, <2>4, ClosedPlain
<1>7. out.messages = p \o t
  BY DEF ChatInv, Stages, ToChatCompletionRequest, Translated, EachTranslated
<1> HIDE DEF p, t
<1> QED
  BY <1>1, <1>6, <1>7, ClosedConcat

LEMMA ResultsAreThere == ChatInv => ResultsFollowCalls
<1> SUFFICES ASSUME ChatInv, pc = "nativeAnswer"
             PROVE  ResultsFollowCalls
  BY DEF ResultsFollowCalls
<1> DEFINE ms == out.messages
           results(i) == SubSeq(ms, i + 1, i + Len(ms[i].calls))
           ids(s) == {s[j].id : j \in 1 .. Len(s)}
<1>1. ms \in Seq(SentMessage) /\ Len(ms) \in Nat /\ Closed(ms)
  BY NativeRequestClosed, LenProperties DEF ChatInv, ChatTyping
<1> HIDE DEF ms
<1>2. ASSUME NEW i \in 1 .. Len(ms), ms[i].calls # <<>>
      PROVE  /\ i + Len(ms[i].calls) <= Len(ms)
             /\ \A j \in 1 .. Len(ms[i].calls) : results(i)[j].role = "tool"
             /\ ids(results(i)) = ids(ms[i].calls)
  <2> DEFINE n == Len(ms[i].calls)
             r == results(i)
  <2>1. /\ i + n <= Len(ms)
        /\ \A j \in 1 .. n : ms[i + j].role = "tool"
        /\ {ms[i + j].id : j \in 1 .. n} = {ms[i].calls[j].id : j \in 1 .. n}
    BY <1>1, <1>2 DEF Closed, ResultsAt
  <2>2. n \in Nat
    <3>1. ms[i] \in SentMessage
      BY <1>1
    <3> QED
      BY <3>1, SentCalls
  <2> HIDE DEF n
  <2>3. r = SubSeq(ms, i + 1, i + n)
    BY DEF n
  <2> HIDE DEF r
  <2>4. Len(r) = n /\ \A j \in 1 .. n : r[j] = ms[i + j]
    <3> DEFINE f == i + 1
               l == i + n
    <3>1. /\ f \in 1 .. Len(ms) + 1 /\ l \in f - 1 .. Len(ms)
          /\ l - f + 1 = n /\ \A j \in 1 .. n : f + j - 1 = i + j
      <4>1. i \in Nat /\ i >= 1 /\ i + n <= Len(ms) /\ n \in Nat
        BY <1>1, <2>1, <2>2
      <4>2. \A j \in 1 .. n : i + 1 + j - 1 = i + j
        BY <4>1
      <4>3. i + n - (i + 1) + 1 = n
        BY <4>1
      <4> QED
        BY <1>1, <4>1, <4>2, <4>3
    <3>2. r = SubSeq(ms, f, l)
      BY <2>3
    <3> HIDE DEF f, l
    <3>3. Len(r) = IF f <= l THEN l - f + 1 ELSE 0
      BY <1>1, <3>1, <3>2, SubSeqProperties
    <3>4. \A j \in 1 .. l - f + 1 : r[j] = ms[f + j - 1]
      BY <1>1, <3>1, <3>2, SubSeqProperties
    <3> QED
      BY <2>2, <3>1, <3>3, <3>4 DEF f, l
  <2>5. ids(r) = {ms[i + j].id : j \in 1 .. n}
    BY <2>4
  <2> QED
    BY <2>1, <2>4, <2>5 DEF n, r
<1>3. \A i \in 1 .. Len(ms) : ms[i].role = "tool" => \E j \in 1 .. i - 1 : i <= j + Len(ms[j].calls)
  BY <1>1 DEF Closed, CallAt
<1> QED
  BY <1>2, <1>3 DEF ResultsFollowCalls, ms

\* Where the parser read what was meant, what it read is what is told.
LEMMA CallsAreTold == ChatInvAndTools /\ TextUnderstood => CallsReachClient
<1> SUFFICES ASSUME ChatInvAndTools, TextUnderstood, Answered
             PROVE  CallsReachClient
  BY DEF CallsReachClient
<1> DEFINE uses == Uses(answer.blocks)
<1>1. ToolsOf(uses) = ToolsOf(meant.calls)
  <2>1. CASE asked = <<"native">> /\ ToolsOf(uses) = ToolsOf(meant.calls)
    BY <2>1
  <2>2. CASE Last(asked) = "xml" /\ ToolsOf(uses) = ToolsOf(meant.parsed)
    <3>1. /\ Len(meant.parsed) = Len(meant.calls)
          /\ \A i \in 1 .. Len(meant.calls) : meant.parsed[i].tool = meant.calls[i].tool
      BY <2>2 DEF TextUnderstood
    <3>2. ToolsOf(meant.parsed) = ToolsOf(meant.calls)
      BY <3>1 DEF ToolsOf
    <3> QED
      BY <2>2, <3>2
  <2> QED
    BY <2>1, <2>2 DEF ChatInvAndTools, SameTools
<1>2. /\ answer.stop = "tool_use" <=> uses # <<>>
      /\ \A i, j \in 1 .. Len(uses) : uses[i].n = uses[j].n => i = j
      /\ \A i \in 1 .. Len(uses) : ~UseIn(history, uses[i].n)
  BY DEF ChatInvAndTools, ChatInv, CallsTold
<1>3. \A i \in 1 .. Len(uses), m \in 1 .. Len(history) :
        \A b \in 1 .. Len(history[m].blocks) :
           history[m].blocks[b].k = "use" => history[m].blocks[b].n # uses[i].n
  BY <1>2 DEF UseIn
<1> HIDE DEF uses
<1> QED
  BY <1>1, <1>2, <1>3 DEF CallsReachClient, uses
-----------------------------------------------------------------------------
(***************************************************************************)
(* What is read of an answer, and the model that is asked for.             *)
(***************************************************************************)
\* What is meant by an answer and what is read of it, by the tools offered.
Reading(t, o) ==
  [calls |-> IF o = <<>> THEN <<>> ELSE t.calls,
   prose |-> IF o = <<>> THEN t.tokens ELSE t.prose,
   parsed |-> Parsed[t][o], rest |-> Rest[t][o], whole |-> TRUE]

ReadInv ==
  Answered /\ Last(asked) = "xml" =>
    tools \in Offers /\ \E t \in Texts : meant = Reading(t, tools)

LEMMA ReadStep == ChatInvAndTools /\ ReadInv /\ [ChatNext]_chatVars => ReadInv'
<1> SUFFICES ASSUME ChatInvAndTools, ReadInv, [ChatNext]_chatVars
             PROVE  ReadInv'
  OBVIOUS
<1>1. Stages
  BY DEF ChatInvAndTools, ChatInv
<1>2. ASSUME Receive \/ OfferNatively \/ Inject
      PROVE  ReadInv'
  <2>1. pc' # "client"
    BY <1>2 DEF Receive, OfferNatively, Inject
  <2> QED
    BY <2>1 DEF ReadInv, Answered
<1>3. ASSUME Error \/ Refuse
      PROVE  ReadInv'
  <2>1. answer' = Nothing
    BY <1>1, <1>3 DEF Error, Refuse, Fail, Stages
  <2> QED
    BY <2>1 DEF ReadInv, Answered, Nothing
<1>4. ASSUME NativeAnswer
      PROVE  ReadInv'
  <2>1. asked' = <<"native">>
    BY <1>1, <1>4 DEF NativeAnswer, Stages, AskedAt
  <2>2. Last(<<"native">>) # "xml"
    BY DEF Last
  <2> QED
    BY <2>1, <2>2 DEF ReadInv
<1>5. ASSUME XmlAnswer
      PROVE  ReadInv'
  <2>1. \E t \in Texts : meant' = Reading(t, tools)
    BY <1>5, Zenon DEF XmlAnswer, Reading
  <2>2. tools \in Offers /\ UNCHANGED tools
    BY <1>1, <1>5 DEF XmlAnswer, Stages, request
  <2>3. \A t : Reading(t, tools)' = Reading(t, tools)
    BY <2>2 DEF Reading
  <2> QED
    BY <2>1, <2>2 DEF ReadInv, Reading
<1>6. ASSUME UNCHANGED chatVars
      PROVE  ReadInv'
  BY <1>6 DEF chatVars, ReadInv, Answered, Reading
<1> QED
  BY <1>2, <1>3, <1>4, <1>5, <1>6 DEF ChatNext, Over

\* A value is read as what it is, of its type or as a string, unless it is a
\* number that is not finite.
LEMMA ValueRead ==
  ASSUME NEW v \in Seq(Token), NEW type
  PROVE  LET x == ParseValueWithType(v, type)
         IN  (x.of = v /\ x.as \in {"string", type}) \/ v = <<Run("inf")>>
<1>1. CASE Len(v) # 1 \/ v[1].t # "text" \/ v[1].v \notin Reads(type)
  BY <1>1 DEF ParseValueWithType
<1>2. CASE ~(Len(v) # 1 \/ v[1].t # "text" \/ v[1].v \notin Reads(type)) /\ v[1].v # "inf"
  BY <1>2 DEF ParseValueWithType
<1>3. CASE Len(v) = 1 /\ v[1].t = "text" /\ v[1].v = "inf"
  <2>1. v[1] \in Token
    BY <1>3, LenProperties
  <2>2. v[1] = Run("inf")
    BY <1>3, <2>1, TokenOf DEF Run
  <2>3. v = <<v[1]>>
    BY <1>3
  <2> QED
    BY <2>2, <2>3
<1> QED
  BY <1>1, <1>2, <1>3

\* Every answer is one that the parser is meant to understand.
TextsWritten == \A t \in Texts : \E w : WellWritten(w) /\ t = Answer(w)

LEMMA CallRead ==
  ASSUME NEW call \in CallShape, NEW o
  PROVE  LET was == Meant(call)
             is == ReadCall(call, Registry(o))
         IN  /\ is.tool = was.tool /\ DOMAIN is.params = DOMAIN was.params
             /\ \A p \in DOMAIN was.params :
                   \/ /\ is.params[p].of = was.params[p]
                      /\ is.params[p].as \in
                            {"string", GetParamType(Registry(o), was.tool, p)}
                   \/ was.params[p] = <<Run("inf")>>
<1> DEFINE was == Meant(call)
           is == ReadCall(call, Registry(o))
           type(p) == GetParamType(Registry(o), call.tool, p)
<1>1. /\ was.tool = call.tool /\ is.tool = call.tool
      /\ was.params = [p \in ParamNames(call) |-> ValueOf(call, p)]
      /\ is.params = [p \in ParamNames(call) |->
                        ParseValueWithType(ValueOf(call, p), type(p))]
  BY DEF Meant, ReadCall, ReadParams, ToolCall
<1>2. ASSUME NEW p \in ParamNames(call)
      PROVE  ValueOf(call, p) \in Seq(Token)
  <2>1. \E i \in 1 .. Len(call.params) : call.params[i].name = p
    BY DEF ParamNames
  <2>2. PICK i \in 1 .. Len(call.params) : ValueOf(call, p) = call.params[i].value
    BY <2>1, Zenon DEF ValueOf
  <2> QED
    BY <2>2, ShapeIs
<1>3. ASSUME NEW p \in ParamNames(call)
      PROVE  \/ /\ is.params[p].of = was.params[p]
                /\ is.params[p].as \in {"string", type(p)}
             \/ was.params[p] = <<Run("inf")>>
  <2>1. was.params[p] = ValueOf(call, p)
    BY <1>1
  <2>2. is.params[p] = ParseValueWithType(ValueOf(call, p), type(p))
    BY <1>1
  <2> HIDE DEF was, is, type
  <2> QED
    BY <1>2, <2>1, <2>2, ValueRead
<1> HIDE DEF was, is
<1>4. /\ is.tool = was.tool /\ DOMAIN is.params = ParamNames(call)
      /\ DOMAIN was.params = ParamNames(call)
  BY <1>1
<1>5. type(1) = type(1) /\ \A p : type(p) = GetParamType(Registry(o), was.tool, p)
  BY <1>1
<1> QED
  BY <1>3, <1>4, <1>5 DEF was, is

LEMMA TextIsUnderstood == TextsWritten /\ ReadInv => TextUnderstood
<1> SUFFICES ASSUME TextsWritten, ReadInv, Answered, Last(asked) = "xml"
             PROVE  TextUnderstood
  BY DEF TextUnderstood
<1>1. PICK t \in Texts : meant = Reading(t, tools)
  BY DEF ReadInv
<1>2. tools \in Offers
  BY DEF ReadInv
<1>3. /\ meant.calls = IF tools = <<>> THEN <<>> ELSE t.calls
      /\ meant.prose = IF tools = <<>> THEN t.tokens ELSE t.prose
      /\ meant.parsed = Parsed[t][tools] /\ meant.rest = Rest[t][tools]
  BY <1>1 DEF Reading
<1>4. Parsed[t][tools] = IF tools = <<>> THEN <<>>
                         ELSE ParseToolCalls(t.tokens, Registry(tools))
  BY <1>2 DEF Parsed
<1>5. Rest[t][tools] = IF Parsed[t][tools] = <<>> THEN t.tokens
                       ELSE StripToolCalls(t.tokens)
  BY <1>2 DEF Rest
<1>6. CASE tools = <<>>
  <2>1. meant.parsed = <<>> /\ meant.calls = <<>> /\ meant.rest = meant.prose
    BY <1>3, <1>4, <1>5, <1>6
  <2> QED
    BY <2>1 DEF TextUnderstood
<1>7. CASE tools # <<>>
  <2>1. PICK w : WellWritten(w) /\ t = Answer(w)
    BY DEF TextsWritten
  <2>2. PICK calls : calls = CallsOf(w)
    OBVIOUS
  <2>3. PICK n \in Nat : n = Len(calls)
    BY <2>1, <2>2, CallsOfTyping, LenProperties
  <2>4. calls \in Seq(CallShape) /\ \A i \in 1 .. n : calls[i] \in CallShape
    BY <2>1, <2>2, <2>3, CallsOfTyping, LenProperties
  <2>5. /\ t.tokens = Written(w) /\ t.calls = [i \in 1 .. n |-> Meant(calls[i])]
        /\ t.prose = ProseOf(w)
    BY <2>1, <2>2, <2>3 DEF Answer, Each
  <2>6. Understood(w, Registry(tools))
    BY <2>1, WrittenIsUnderstood
  <2>7. /\ ParseToolCalls(Written(w), Registry(tools)) = ReadAll(w, Registry(tools))
        /\ (IF ParseToolCalls(Written(w), Registry(tools)) = <<>> THEN Written(w)
            ELSE StripToolCalls(Written(w))) = ProseOf(w)
    BY <2>6, Zenon DEF Understood
  <2>8. meant.parsed = [i \in 1 .. n |-> ReadCall(calls[i], Registry(tools))]
    BY <1>3, <1>4, <1>7, <2>2, <2>3, <2>5, <2>7 DEF ReadAll
  <2>9. meant.rest = meant.prose
    BY <1>3, <1>4, <1>5, <1>7, <2>5, <2>7
  <2>10. meant.calls = [i \in 1 .. n |-> Meant(calls[i])]
    BY <1>3, <1>7, <2>5
  <2>11. Len(meant.parsed) = n /\ Len(meant.calls) = n
    BY <2>8, <2>10
  <2>12. ASSUME NEW i \in 1 .. n
         PROVE  meant.parsed[i] = ReadCall(calls[i], Registry(tools))
                /\ meant.calls[i] = Meant(calls[i]) /\ calls[i] \in CallShape
    BY <2>4, <2>8, <2>10
  <2> QED
    BY <2>9, <2>11, <2>12, CallRead DEF TextUnderstood
<1> QED
  BY <1>6, <1>7

LEMMA NameKnown ==
  ASSUME NEW S, NEW m \in Seq(S), NEW l, KnownAs(m, l)
  PROVE  NormalizeModelName(m) = l
<1>1. CASE m = l /\ (m[1] # Claude \/ HasDot(m) \/ Len(m) < 4)
  BY <1>1, Zenon DEF NormalizeModelName
<1>2. CASE m[1] = Claude /\ ~HasDot(m) /\ Len(m) >= 4 /\ m[4] \notin Dates
           /\ \E marker \in {<<>>} \cup {<<x>> : x \in Markers},
                 date \in {<<>>} \cup {<<d>> : d \in Dates} :
                 /\ SubSeq(m, 5, Len(m)) = marker \o date
                 /\ l = <<Claude, m[2], m[3] \o m[4]>> \o marker
  <2> DEFINE markers == {i \in 5 .. Len(m) : m[i] \in Markers}
             first == CHOOSE i \in markers : \A j \in markers : i <= j
             start == <<Claude, m[2], m[3] \o m[4]>>
  <2>1. PICK marker \in {<<>>} \cup {<<x>> : x \in Markers},
             date \in {<<>>} \cup {<<d>> : d \in Dates} :
               /\ SubSeq(m, 5, Len(m)) = marker \o date
               /\ l = start \o marker
    BY <1>2
  <2>2. PICK n \in Nat : n = Len(m)
    BY LenProperties
  <2>3. n >= 4 /\ ~(Len(m) < 4)
    BY <1>2, <2>2
  <2>4. NormalizeModelName(m) =
          start \o (IF markers = {} THEN <<>> ELSE <<m[first]>>)
    BY <1>2, <2>3, Zenon DEF NormalizeModelName
  <2>5. PICK rest : rest = SubSeq(m, 5, n)
    OBVIOUS
  <2>6. Len(rest) = n - 4 /\ \A i \in 1 .. n - 4 : rest[i] = m[i + 4]
    BY <2>2, <2>3, <2>5
  <2>7. rest = marker \o date
    BY <2>1, <2>2, <2>5
  <2>8. CASE marker = <<>>
    <3>1. rest = date /\ (rest = <<>> \/ \E d \in Dates : rest = <<d>>)
      BY <2>1, <2>7, <2>8
    <3>2. \A i \in 1 .. n - 4 : rest[i] \in Dates
      BY <2>3, <2>6, <3>1
    <3>3. markers = {}
      <4> SUFFICES ASSUME NEW i \in 5 .. n, m[i] \in Markers
                   PROVE  FALSE
        BY <2>2
      <4>1. i - 4 \in 1 .. n - 4 /\ rest[i - 4] = m[i]
        BY <2>3, <2>6
      <4> QED
        BY <3>2, <4>1, PartsAssumption
    <3> QED
      BY <2>1, <2>4, <2>8, <3>3
  <2>9. CASE marker # <<>>
    <3>1. PICK x \in Markers : marker = <<x>>
      BY <2>1, <2>9
    <3>2. rest[1] = x /\ Len(rest) \in {1, 2}
          /\ (Len(rest) = 2 => rest[2] \in Dates)
      <4>1. CASE date = <<>>
        BY <2>7, <3>1, <4>1
      <4>2. CASE date # <<>>
        <5>1. PICK d \in Dates : date = <<d>>
          BY <2>1, <4>2
        <5>2. /\ marker \in Seq({x, d}) /\ Len(marker) = 1 /\ marker[1] = x
              /\ date \in Seq({x, d}) /\ Len(date) = 1 /\ date[1] = d
          BY <3>1, <5>1
        <5>3. Len(marker \o date) = 2 /\ (marker \o date)[1] = x /\ (marker \o date)[2] = d
          <6> DEFINE T == {x, d}
          <6>1. /\ marker \in Seq(T) /\ Len(marker) = 1 /\ marker[1] = x
                /\ date \in Seq(T) /\ Len(date) = 1 /\ date[1] = d
            BY <5>2
          <6> HIDE DEF T
          <6>2. /\ Len(marker \o date) = Len(marker) + Len(date)
                /\ \A i \in 1 .. Len(marker) + Len(date) :
                     (marker \o date)[i] =
                       IF i <= Len(marker) THEN marker[i] ELSE date[i - Len(marker)]
            BY <6>1, ConcatProperties
          <6>3. Len(marker) + Len(date) = 2 /\ 1 \in 1 .. 2 /\ 2 \in 1 .. 2
                /\ 1 <= Len(marker) /\ ~(2 <= Len(marker)) /\ 2 - Len(marker) = 1
            BY <6>1
          <6> QED
            BY <6>1, <6>2, <6>3
        <5> QED
          BY <2>7, <5>1, <5>3
      <4> QED
        BY <4>1, <4>2
    <3>3. m[5] = x /\ n \in {5, 6} /\ (n = 6 => m[6] \in Dates)
      BY <2>3, <2>6, <3>2
    <3>4. markers = {5}
      BY <2>2, <3>3, PartsAssumption
    <3>5. first = 5
      BY <3>4
    <3> HIDE DEF markers, first
    <3> QED
      BY <2>1, <2>4, <3>1, <3>3, <3>4, <3>5
  <2> QED
    BY <2>8, <2>9
<1> QED
  BY <1>1, <1>2 DEF KnownAs

\* The model that is asked for is that of the client, by its other name.
NameInv == model \in Models /\ (Asking => out.model = NormalizeModelName(model))

LEMMA NameStep == NameInv /\ [ChatNext]_chatVars => NameInv'
<1> SUFFICES ASSUME NameInv, [ChatNext]_chatVars
             PROVE  NameInv'
  OBVIOUS
<1>1. UNCHANGED model
  <2>1. NativeAnswer \/ XmlAnswer => UNCHANGED model
    BY Zenon DEF NativeAnswer, XmlAnswer, request
  <2> QED
    BY <2>1 DEF ChatNext, Receive, OfferNatively, Inject, Error, Refuse, Over,
       chatVars, request
<1>2. ASSUME OfferNatively \/ Inject
      PROVE  out'.model = NormalizeModelName(model)
  <2>1. OfferNatively => out'.model = NormalizeModelName(model)
    BY DEF OfferNatively
  <2>2. Inject => out'.model = NormalizeModelName(model)
    BY DEF Inject
  <2> QED
    BY <1>2, <2>1, <2>2
<1>3. ASSUME Receive \/ Error \/ NativeAnswer \/ XmlAnswer
      PROVE  ~Asking'
  <2>1. Receive => pc' \in {"native", "inject"}
    BY DEF Receive
  <2>2. Error \/ NativeAnswer \/ XmlAnswer => pc' = "client"
    <3>1. Error => pc' = "client"
      BY DEF Error, Fail
    <3>2. NativeAnswer => pc' = "client"
      BY Zenon DEF NativeAnswer, Respond
    <3>3. XmlAnswer => pc' = "client"
      BY Zenon DEF XmlAnswer, Respond
    <3> QED
      BY <3>1, <3>2, <3>3
  <2> QED
    BY <1>3, <2>1, <2>2 DEF Asking
<1>4. ASSUME Refuse
      PROVE  ~Asking'
  BY <1>4 DEF Refuse, Fail, Asking
<1>5. ASSUME UNCHANGED chatVars
      PROVE  UNCHANGED <<pc, out>>
  BY <1>5 DEF chatVars
<1>6. NormalizeModelName(model)' = NormalizeModelName(model)
  BY <1>1 DEF NormalizeModelName, HasDot
<1> QED
  BY <1>1, <1>2, <1>3, <1>4, <1>5, <1>6 DEF NameInv, ChatNext, Over, Asking
-----------------------------------------------------------------------------
(***************************************************************************)
(* The theorems.                                                           *)
(***************************************************************************)
\* The state of a conversation keeps its types, whatever the client asks and
\* the model answers (handlers/messages.rs).
THEOREM ChatTypes == ChatSpec => []ChatTypeOK
BY ChatInvariant, InvariantTypes, PTL DEF ChatInvAndTools

\* A request with native tools is one the upstream API understands: every call
\* of the history has its results right after it, and there is no other result
\* (to_chat_completion_request).
THEOREM ResultsFollow == ChatSpec => []ResultsFollowCalls
BY ChatInvariant, ResultsAreThere, PTL DEF ChatInvAndTools

\* Whichever way the tools are offered, the model gets the system prompt and
\* every text and result of the client, in their order, and each result names
\* its call (to_chat_completion_request, inject_tools_into_messages,
\* translate_tool_messages).
THEOREM NothingIsLostOnTheWay == ChatSpec => []NothingLost
BY ChatInvariant, NothingIsLost, PTL DEF ChatInvAndTools

\* If the texts that the model answers are written in one of the two forms, the
\* parser reads every call in them as it was meant, with all parameters, and
\* leaves the prose (parse_tool_calls, parse_value_with_type,
\* strip_tool_calls).
THEOREM TextAlwaysUnderstood == ASSUME TextsWritten PROVE ChatSpec => []TextUnderstood
<1>1. ChatInit => ReadInv
  BY DEF ChatInit, ReadInv, Answered
<1>2. ReadInv => TextUnderstood
  BY TextIsUnderstood
<1> QED
  BY <1>1, <1>2, ReadStep, ChatInvariant, PTL DEF ChatSpec

\* As long as the parser reads what the model wrote as it meant it, the client
\* gets every call, if none is cut off, in order, by the name it knows, with an
\* id of its own
\* (restore_tool_name, parse_tool_calls, to_anthropic_response).
THEOREM CallsReach == ChatSpec /\ []TextUnderstood => []CallsReachClient
BY ChatInvariant, CallsAreTold, PTL

\* So the client gets every call of such an answer, too (parse_tool_calls,
\* to_anthropic_response).
THEOREM WrittenCallsReach == ASSUME TextsWritten PROVE ChatSpec => []CallsReachClient
BY TextAlwaysUnderstood, ChatInvariant, CallsAreTold, PTL

\* The upstream API is asked for a model it has, if the client's name is that of
\* the list or stands for one of the list (normalize_model_name).
THEOREM ModelIsListed == ASSUME ModelsKnown PROVE ChatSpec => []ModelListed
<1>1. ChatInit => NameInv
  BY DEF ChatInit, NameInv, Asking
<1>2. NameInv => ModelListed
  <2> SUFFICES ASSUME NameInv, Asking
               PROVE  out.model \in Listed
    BY DEF ModelListed
  <2>1. PICK l \in Listed : KnownAs(model, l)
    BY DEF NameInv, ModelsKnown
  <2>2. NormalizeModelName(model) = l
    BY <2>1, NameKnown, ConversationAssumption DEF NameInv
  <2> QED
    BY <2>1, <2>2 DEF NameInv
<1> QED
  BY <1>1, <1>2, NameStep, PTL DEF ChatSpec

\* The client never hears that tools are not supported: the second attempt has
\* none that could be refused (is_tools_not_supported_error).
THEOREM FallbackAlwaysHelps == ChatSpec => []FallbackHelps
<1>1. ChatInvAndTools => FallbackHelps
  BY DEF ChatInvAndTools, ChatInv, Stages, FallbackHelps
<1> QED
  BY <1>1, ChatInvariant, PTL

\* The record of an exchange is of its last attempt and of the answer that was
\* sent, after a fallback too (ConversationCycleBuilder).
THEOREM LogTells == ChatSpec => []LogTellsWhatHappened
<1>1. ChatInvAndTools => LogTellsWhatHappened
  BY DEF ChatInvAndTools, ChatInv
<1> QED
  BY <1>1, ChatInvariant, PTL
=============================================================================
