------------------------ MODULE TokenManager_proofs ------------------------
(***************************************************************************)
(* Proofs about TokenManager, for any sets of requests and tasks and any   *)
(* durations.  The inductive invariant is built in layers: types, the      *)
(* queue of the lock, mutual exclusion, and what the holder of the lock    *)
(* may rely on while it refreshes.  The last part is about the server that *)
(* keeps its token: when its task sleeps, and until when the token lasts.  *)
(***************************************************************************)
EXTENDS TokenManager, SequenceTheorems, TLAPS

USE DEF Procs

\* The steps of a single process, to split Next.
LEMMA NextCases ==
    ASSUME Next
    PROVE  \/ \E c \in Callers : FastPath(c) \/ DropCall(c)
           \/ \E p \in Procs : \/ Lock(p) \/ Recheck(p) \/ StartExchange(p)
                               \/ Issue(p) \/ ExchangeFails(p) \/ StoreToken(p)
           \/ \E t \in Tasks : \/ StartAuto(t) \/ PlanSleep(t)
                               \/ Wake(t) \/ Cancelled(t)
           \/ StopAuto \/ StoreGithub \/ RememberGithub \/ BeginClear
           \/ ClearTokens \/ Tick
<1>1. CASE \E c \in Callers : FastPath(c) \/ Refresh(c) \/ DropCall(c)
  <2>1. PICK c \in Callers : FastPath(c) \/ Refresh(c) \/ DropCall(c)
    BY <1>1
  <2>2. c \in Procs
    OBVIOUS
  <2> QED  BY <2>1, <2>2 DEF Refresh
<1>2. CASE \E t \in Tasks : StartAuto(t) \/ TaskStep(t)
  <2>1. PICK t \in Tasks : StartAuto(t) \/ TaskStep(t)
    BY <1>2
  <2>2. t \in Procs
    OBVIOUS
  <2> QED  BY <2>1, <2>2 DEF TaskStep, Refresh
<1> QED  BY <1>1, <1>2 DEF Next

-----------------------------------------------------------------------------
(***************************************************************************)
(* Types.                                                                  *)
(***************************************************************************)
\* Passing the lock on keeps its types.
LEMMA ReleaseTypes ==
    ASSUME TypeOK, Release
    PROVE  holder' \in Procs \cup {Nobody} /\ waiters' \in Seq(Procs)
<1>1. CASE waiters = <<>>
  <2>1. holder' = Nobody /\ waiters' = waiters
    BY <1>1 DEF Release
  <2> QED  BY <2>1 DEF TypeOK
<1>2. CASE waiters # <<>>
  <2>1. holder' = Head(waiters) /\ waiters' = Tail(waiters)
    BY <1>2 DEF Release
  <2>2. waiters \in Seq(Procs)
    BY DEF TypeOK
  <2>3. Head(waiters) \in Procs /\ Tail(waiters) \in Seq(Procs)
    BY <1>2, <2>2, HeadTailProperties
  <2> QED  BY <2>1, <2>3
<1> QED  BY <1>1, <1>2

\* Leaving the queue keeps its type.
LEMMA LeaveTypes ==
    ASSUME TypeOK, NEW p \in Procs, LeaveQueue(p)
    PROVE  holder' \in Procs \cup {Nobody} /\ waiters' \in Seq(Procs)
<1>1. PICK i \in 1 .. Len(waiters) :
        waiters' = SubSeq(waiters, 1, i - 1) \o SubSeq(waiters, i + 1, Len(waiters))
  BY DEF LeaveQueue
<1>2. waiters \in Seq(Procs) /\ Len(waiters) \in Nat
  BY LenProperties DEF TypeOK
<1>3. /\ SubSeq(waiters, 1, i - 1) \in Seq(Procs)
      /\ SubSeq(waiters, i + 1, Len(waiters)) \in Seq(Procs)
  BY <1>2, SubSeqProperties
<1> QED  BY <1>1, <1>3, ConcatProperties DEF TypeOK, LeaveQueue

LEMMA InitTypes == ASSUME Init PROVE TypeOK
<1>1. /\ github \in BOOLEAN /\ stored \in BOOLEAN /\ failures = 0
      /\ copilot = NoToken /\ holder = Nobody /\ current = {}
      /\ admin = "idle" /\ now = 0
  BY DEF Init
<1>2. waiters \in Seq(Procs)
  BY EmptySeq DEF Init
<1>3. DOMAIN pc = Procs /\ \A p \in Procs : pc[p] \in Labels(p)
  BY DEF Init, Labels
<1>4. response \in [Procs -> Nat \cup {NoToken}] /\ wake \in [Tasks -> Nat]
  BY DEF Init
<1> QED  BY <1>1, <1>2, <1>3, <1>4 DEF TypeOK

LEMMA NextTypes == ASSUME TypeOK, [Next]_vars PROVE TypeOK'
<1> USE DEF Labels, InExchange, tokens, lock, env, Goto
<1>1. CASE UNCHANGED vars
  BY <1>1 DEF TypeOK, vars
<1>2. ASSUME NEW c \in Callers, FastPath(c) PROVE TypeOK'
  BY <1>2 DEF TypeOK, FastPath
<1>3. ASSUME NEW c \in Callers, DropCall(c) PROVE TypeOK'
  <2>1. holder' \in Procs \cup {Nobody} /\ waiters' \in Seq(Procs)
    BY <1>3, ReleaseTypes, LeaveTypes DEF DropCall, TypeOK
  <2> QED  BY <1>3, <2>1, TokenAssumption DEF TypeOK, DropCall
<1>4. ASSUME NEW p \in Procs, Lock(p) PROVE TypeOK'
  <2>1. holder' \in Procs \cup {Nobody} /\ waiters' \in Seq(Procs)
    <3>1. Append(waiters, p) \in Seq(Procs)
      BY AppendProperties DEF TypeOK
    <3> QED  BY <1>4, <3>1 DEF TypeOK, Lock
  <2> QED  BY <1>4, <2>1 DEF TypeOK, Lock
<1>5. ASSUME NEW p \in Procs, Recheck(p) PROVE TypeOK'
  <2>1. holder' \in Procs \cup {Nobody} /\ waiters' \in Seq(Procs)
    BY <1>5, ReleaseTypes DEF TypeOK, Recheck
  <2> QED  BY <1>5, <2>1 DEF TypeOK, Recheck
<1>6. ASSUME NEW p \in Procs, StartExchange(p) PROVE TypeOK'
  <2>1. holder' \in Procs \cup {Nobody} /\ waiters' \in Seq(Procs)
    BY <1>6, ReleaseTypes DEF TypeOK, StartExchange
  <2> QED  BY <1>6, <2>1 DEF TypeOK, StartExchange, Resume
<1>7. ASSUME NEW p \in Procs, Issue(p) PROVE TypeOK'
  BY <1>7, TokenAssumption DEF TypeOK, Issue
<1>8. ASSUME NEW p \in Procs, ExchangeFails(p) PROVE TypeOK'
  <2>1. holder' \in Procs \cup {Nobody} /\ waiters' \in Seq(Procs)
    BY <1>8, ReleaseTypes DEF TypeOK, ExchangeFails
  <2> QED  BY <1>8, <2>1 DEF TypeOK, ExchangeFails, Resume
<1>9. ASSUME NEW p \in Procs, StoreToken(p) PROVE TypeOK'
  <2>1. holder' \in Procs \cup {Nobody} /\ waiters' \in Seq(Procs)
    BY <1>9, ReleaseTypes DEF TypeOK, StoreToken
  <2> QED  BY <1>9, <2>1 DEF TypeOK, StoreToken, Resume
<1>10. ASSUME NEW t \in Tasks, StartAuto(t) PROVE TypeOK'
  BY <1>10, TokenAssumption DEF TypeOK, StartAuto
<1>11. ASSUME NEW t \in Tasks, PlanSleep(t) PROVE TypeOK'
  <2>1. now + SleepTime \in Nat
    BY TokenAssumption DEF TypeOK, SleepTime
  <2> QED  BY <1>11, <2>1, TokenAssumption DEF TypeOK, PlanSleep
<1>12. ASSUME NEW t \in Tasks, Wake(t) PROVE TypeOK'
  BY <1>12 DEF TypeOK, Wake
<1>13. ASSUME NEW t \in Tasks, Cancelled(t) PROVE TypeOK'
  BY <1>13, TokenAssumption DEF TypeOK, Cancelled
<1>14. CASE StopAuto
  BY <1>14 DEF TypeOK, StopAuto
<1>15. CASE StoreGithub
  BY <1>15 DEF TypeOK, StoreGithub
<1>16. CASE RememberGithub
  BY <1>16 DEF TypeOK, RememberGithub
<1>17. CASE BeginClear
  BY <1>17 DEF TypeOK, BeginClear
<1>18. CASE ClearTokens
  BY <1>18 DEF TypeOK, ClearTokens
<1>19. CASE Tick
  BY <1>19 DEF TypeOK, Tick
<1> QED
  BY NextCases, <1>1, <1>2, <1>3, <1>4, <1>5, <1>6, <1>7, <1>8, <1>9, <1>10,
     <1>11, <1>12, <1>13, <1>14, <1>15, <1>16, <1>17, <1>18, <1>19

\* Every variable keeps its type (all operations of TokenManager).
THEOREM TypeCorrect == Spec => []TypeOK
<1>1. Init => TypeOK
  BY InitTypes
<1>2. TypeOK /\ [Next]_vars => TypeOK'
  BY NextTypes
<1> QED  BY <1>1, <1>2, PTL DEF Spec

-----------------------------------------------------------------------------
(***************************************************************************)
(* Mutual exclusion.                                                       *)
(***************************************************************************)
\* Only the holder of refresh_lock refreshes.
HolderOnly == \A p \in Procs : pc[p] \in InExchange => p = holder

\* Once the holder has left the exchange, any successor may be chosen.
LEMMA LeaveExchange ==
    ASSUME TypeOK, HolderOnly, NEW p \in Procs, NEW label,
           label \notin InExchange, holder = p, Goto(p, label)
    PROVE  HolderOnly'
  BY DEF TypeOK, HolderOnly, Goto

LEMMA NextHolderOnly ==
    ASSUME TypeOK, HolderOnly, [Next]_vars
    PROVE  HolderOnly'
<1> USE DEF InExchange, Goto, lock, tokens, env
<1>1. CASE UNCHANGED vars
  BY <1>1 DEF HolderOnly, vars
<1>2. ASSUME NEW c \in Callers, FastPath(c) PROVE HolderOnly'
  BY <1>2 DEF TypeOK, HolderOnly, FastPath
<1>3. ASSUME NEW c \in Callers, DropCall(c) PROVE HolderOnly'
  <2>1. CASE holder = c
    BY <1>3, <2>1, LeaveExchange DEF DropCall
  <2>2. CASE holder # c
    <3>1. UNCHANGED holder /\ pc' = [pc EXCEPT ![c] = "idle"]
      BY <1>3, <2>2 DEF DropCall, LeaveQueue
    <3> QED  BY <3>1 DEF TypeOK, HolderOnly
  <2> QED  BY <2>1, <2>2
<1>4. ASSUME NEW p \in Procs, Lock(p) PROVE HolderOnly'
  <2>1. ASSUME NEW q \in Procs, pc'[q] \in InExchange PROVE q = holder'
    <3>1. pc[q] \in InExchange
      BY <1>4, <2>1 DEF TypeOK, Lock
    <3>2. q = holder /\ holder # Nobody
      BY <3>1, TokenAssumption DEF HolderOnly
    <3> QED  BY <1>4, <3>2 DEF Lock
  <2> QED  BY <2>1 DEF HolderOnly
<1>5. ASSUME NEW p \in Procs, Recheck(p) PROVE HolderOnly'
  <2>1. CASE p \in Callers /\ Valid(copilot)
    BY <1>5, <2>1, LeaveExchange DEF Recheck
  <2>2. CASE ~(p \in Callers /\ Valid(copilot))
    BY <1>5, <2>2 DEF TypeOK, HolderOnly, Recheck
  <2> QED  BY <2>1, <2>2
<1>6. ASSUME NEW p \in Procs, StartExchange(p) PROVE HolderOnly'
  <2>1. holder = p
    BY <1>6 DEF HolderOnly, StartExchange
  <2>2. CASE github
    BY <1>6, <2>1, <2>2 DEF TypeOK, HolderOnly, StartExchange
  <2>3. CASE ~github
    BY <1>6, <2>1, <2>3, LeaveExchange DEF StartExchange, Resume
  <2> QED  BY <2>2, <2>3
<1>7. ASSUME NEW p \in Procs, Issue(p) PROVE HolderOnly'
  BY <1>7 DEF TypeOK, HolderOnly, Issue
<1>8. ASSUME NEW p \in Procs, ExchangeFails(p) \/ StoreToken(p) PROVE HolderOnly'
  <2>1. holder = p
    BY <1>8 DEF HolderOnly, ExchangeFails, StoreToken
  <2> QED  BY <1>8, <2>1, LeaveExchange DEF ExchangeFails, StoreToken, Resume
<1>9. ASSUME NEW t \in Tasks, StartAuto(t) \/ PlanSleep(t) \/ Wake(t) \/ Cancelled(t)
      PROVE  HolderOnly'
  BY <1>9 DEF TypeOK, HolderOnly, StartAuto, PlanSleep, Wake, Cancelled
<1>10. ASSUME StopAuto \/ StoreGithub \/ RememberGithub \/ BeginClear
                \/ ClearTokens \/ Tick
       PROVE  HolderOnly'
  BY <1>10 DEF HolderOnly, StopAuto, StoreGithub, RememberGithub, BeginClear,
               ClearTokens, Tick
<1> QED
  BY NextCases, <1>1, <1>2, <1>3, <1>4, <1>5, <1>6, <1>7, <1>8, <1>9, <1>10

LEMMA MutualExclusion == Spec => []HolderOnly
<1>1. Init => HolderOnly
  BY DEF Init, HolderOnly, InExchange
<1>2. TypeOK /\ HolderOnly /\ [Next]_vars => HolderOnly'
  BY NextHolderOnly
<1> QED  BY <1>1, <1>2, TypeCorrect, PTL DEF Spec

\* At most one exchange is in progress, for any number of requests and tasks
\* (refresh_lock around do_refresh).
THEOREM ExchangesExclusive == Spec => []OneExchange
<1>1. HolderOnly => OneExchange
  BY DEF HolderOnly, OneExchange
<1> QED  BY <1>1, MutualExclusion, PTL

-----------------------------------------------------------------------------
(***************************************************************************)
(* What the holder of the lock relies on: nobody else writes the token     *)
(* while it refreshes, so the token it saw expired stays so and the answer *)
(* it gets is the youngest there is.                                       *)
(***************************************************************************)
TokenBound == copilot # NoToken => copilot <= now + Life
RefreshNeeded ==
    \A c \in Callers : pc[c] = "refreshing" => ~Valid(copilot)
AnswerYounger ==
    \A p \in Procs : pc[p] = "answered" =>
      /\ response[p] \in Nat /\ response[p] <= now + Life
      /\ copilot # NoToken => copilot <= response[p]
RefreshInv == TokenBound /\ RefreshNeeded /\ AnswerYounger

LEMMA NextRefreshInv ==
    ASSUME TypeOK, HolderOnly, RefreshInv, [Next]_vars
    PROVE  RefreshInv'
<1> USE DEF Goto, lock, tokens, env, Valid, TypeOK, RefreshInv, TokenBound,
            RefreshNeeded, AnswerYounger
<1> Life \in Nat
  BY TokenAssumption
<1>1. CASE UNCHANGED vars
  BY <1>1 DEF vars
<1>2. ASSUME NEW c \in Callers, FastPath(c) \/ DropCall(c) PROVE RefreshInv'
  BY <1>2 DEF FastPath, DropCall
<1>3. ASSUME NEW p \in Procs, Lock(p) PROVE RefreshInv'
  BY <1>3 DEF Lock
<1>4. ASSUME NEW p \in Procs, Recheck(p) PROVE RefreshInv'
  <2>1. ASSUME NEW c \in Callers, pc'[c] = "refreshing" PROVE ~Valid(copilot)
    BY <1>4, <2>1 DEF Recheck
  <2>2. UNCHANGED <<copilot, now, response>> /\
        \A q \in Procs : pc'[q] = "answered" => pc[q] = "answered"
    BY <1>4 DEF Recheck
  <2> QED  BY <2>1, <2>2
<1>5. ASSUME NEW p \in Procs, StartExchange(p) PROVE RefreshInv'
  BY <1>5 DEF StartExchange, Resume
<1>6. ASSUME NEW p \in Procs, Issue(p) PROVE RefreshInv'
  <2>1. response'[p] = now + Life
    BY <1>6 DEF Issue
  <2>2. \A q \in Procs : pc'[q] = "answered" /\ q # p =>
           pc[q] = "answered" /\ response'[q] = response[q]
    BY <1>6 DEF Issue
  <2>3. UNCHANGED <<copilot, now>> /\
        \A c \in Callers : pc'[c] = "refreshing" => pc[c] = "refreshing"
    BY <1>6 DEF Issue
  <2>4. AnswerYounger'
    BY <2>1, <2>2, <2>3
  <2> QED  BY <2>3, <2>4
<1>7. ASSUME NEW p \in Procs, ExchangeFails(p) PROVE RefreshInv'
  BY <1>7 DEF ExchangeFails, Resume
<1>8. ASSUME NEW p \in Procs, StoreToken(p) PROVE RefreshInv'
  <2>1. \A q \in Procs : pc'[q] \notin {"refreshing", "answered"}
    BY <1>8 DEF StoreToken, Resume, HolderOnly, InExchange
  <2>2. copilot' = response[p] /\ now' = now
    BY <1>8 DEF StoreToken
  <2>3. copilot' <= now' + Life
    BY <1>8, <2>2 DEF StoreToken
  <2> QED  BY <2>1, <2>3
<1>9. ASSUME NEW t \in Tasks, StartAuto(t) \/ PlanSleep(t) \/ Wake(t) \/ Cancelled(t)
      PROVE  RefreshInv'
  BY <1>9 DEF StartAuto, PlanSleep, Wake, Cancelled
<1>10. ASSUME StopAuto \/ StoreGithub \/ RememberGithub \/ BeginClear
              \/ ClearTokens
       PROVE  RefreshInv'
  BY <1>10 DEF StopAuto, StoreGithub, RememberGithub, BeginClear, ClearTokens
<1>11. CASE Tick
  <2>1. now' = now + 1 /\ UNCHANGED <<copilot, pc, response>>
    BY <1>11 DEF Tick
  <2>2. TokenBound' /\ AnswerYounger'
    BY <2>1
  <2>3. RefreshNeeded'
    BY <2>1
  <2> QED  BY <2>2, <2>3
<1> QED
  BY NextCases, <1>1, <1>2, <1>3, <1>4, <1>5, <1>6, <1>7, <1>8, <1>9, <1>10, <1>11

LEMMA RefreshInvariant == Spec => []RefreshInv
<1>1. Init => RefreshInv
  BY DEF Init, RefreshInv, TokenBound, RefreshNeeded, AnswerYounger
<1>2. TypeOK /\ HolderOnly /\ RefreshInv /\ [Next]_vars => RefreshInv'
  BY NextRefreshInv
<1> QED  BY <1>1, <1>2, TypeCorrect, MutualExclusion, PTL DEF Spec

\* No request sends an exchange while the token in memory is valid, however
\* many requests found it expired (the re-check of get_valid_token).
THEOREM ExchangeOnlyWhenNeeded == Spec => NoRedundantExchange
<1>1. RefreshInv =>
        \A c \in Callers :
          pc[c] = "refreshing" /\ pc'[c] = "exchanging" => ~Valid(copilot)
  BY DEF RefreshInv, RefreshNeeded
<1> QED  BY <1>1, RefreshInvariant, PTL DEF NoRedundantExchange

\* Only StoreToken and ClearTokens write the token.
LEMMA TokenWriters ==
    ASSUME [Next]_vars, copilot' # copilot
    PROVE  (\E p \in Procs : StoreToken(p)) \/ ClearTokens
<1> USE DEF lock, tokens, env
<1>1. CASE UNCHANGED vars
  BY <1>1 DEF vars
<1>2. ASSUME NEW c \in Callers, FastPath(c) \/ DropCall(c) PROVE FALSE
  BY <1>2 DEF FastPath, DropCall
<1>3. ASSUME NEW p \in Procs,
             Lock(p) \/ Recheck(p) \/ StartExchange(p) \/ Issue(p) \/ ExchangeFails(p)
      PROVE  FALSE
  BY <1>3 DEF Lock, Recheck, StartExchange, Issue, ExchangeFails
<1>4. ASSUME NEW t \in Tasks, StartAuto(t) \/ PlanSleep(t) \/ Wake(t) \/ Cancelled(t)
      PROVE  FALSE
  BY <1>4 DEF StartAuto, PlanSleep, Wake, Cancelled
<1>5. ASSUME StopAuto \/ StoreGithub \/ RememberGithub \/ BeginClear \/ Tick
      PROVE  FALSE
  BY <1>5 DEF StopAuto, StoreGithub, RememberGithub, BeginClear, Tick
<1>6. CASE ClearTokens
  BY <1>6
<1> QED  BY NextCases, <1>1, <1>2, <1>3, <1>4, <1>5, <1>6

\* The token in memory is never replaced by one that expires earlier
\* (do_refresh under refresh_lock).
THEOREM TokenOnlyYounger == Spec => NeverOlder
<1>1. ASSUME TypeOK, RefreshInv, [Next]_vars, copilot # NoToken, copilot' # NoToken
      PROVE  copilot' >= copilot
  <2>1. CASE copilot' = copilot
    BY <1>1, <2>1 DEF TypeOK
  <2>2. CASE copilot' # copilot
    <3>1. PICK p \in Procs : StoreToken(p)
      BY <1>1, <2>2, TokenWriters DEF ClearTokens
    <3>2. copilot' = response[p] /\ pc[p] = "answered"
      BY <3>1 DEF StoreToken
    <3> QED  BY <1>1, <3>2 DEF TypeOK, RefreshInv, AnswerYounger
  <2> QED  BY <2>1, <2>2
<1>2. TypeOK /\ RefreshInv /\ [Next]_vars =>
        [copilot # NoToken /\ copilot' # NoToken => copilot' >= copilot]_vars
  BY <1>1
<1> QED  BY <1>2, TypeCorrect, RefreshInvariant, PTL DEF Spec, NeverOlder

-----------------------------------------------------------------------------
(***************************************************************************)
(* The login survives a crash.                                             *)
(***************************************************************************)
LoginInv == LoginIsDurable /\ (admin = "setting" => stored)

\* A GitHub token in memory is in the storage, so that a crash between any
\* two steps of a login or logout loses no login in use.
THEOREM LoginDurable == Spec => []LoginIsDurable
<1> USE DEF LoginInv, LoginIsDurable, lock, tokens, env
<1>1. Init => LoginInv
  BY DEF Init
<1>2. LoginInv /\ [Next]_vars => LoginInv'
  <2> SUFFICES ASSUME LoginInv, [Next]_vars PROVE LoginInv'
    OBVIOUS
  <2>1. CASE UNCHANGED vars
    BY <2>1 DEF vars
  <2>2. ASSUME NEW c \in Callers, FastPath(c) \/ DropCall(c) PROVE LoginInv'
    BY <2>2 DEF FastPath, DropCall
  <2>3. ASSUME NEW p \in Procs,
               \/ Lock(p) \/ Recheck(p) \/ StartExchange(p)
               \/ Issue(p) \/ ExchangeFails(p) \/ StoreToken(p)
        PROVE  LoginInv'
    BY <2>3 DEF Lock, Recheck, StartExchange, Issue, ExchangeFails, StoreToken
  <2>4. ASSUME NEW t \in Tasks, StartAuto(t) \/ PlanSleep(t) \/ Wake(t) \/ Cancelled(t)
        PROVE  LoginInv'
    BY <2>4 DEF StartAuto, PlanSleep, Wake, Cancelled
  <2>5. CASE StopAuto \/ Tick
    BY <2>5 DEF StopAuto, Tick
  <2>6. CASE StoreGithub \/ RememberGithub
    <3>1. CASE StoreGithub
      <4>1. stored' = TRUE /\ github' = github
        BY <3>1 DEF StoreGithub
      <4> QED  BY <4>1
    <3>2. CASE RememberGithub
      BY <3>2 DEF RememberGithub
    <3> QED  BY <2>6, <3>1, <3>2
  <2>7. CASE BeginClear \/ ClearTokens
    <3>1. CASE BeginClear
      BY <3>1 DEF BeginClear
    <3>2. CASE ClearTokens
      BY <3>2 DEF ClearTokens
    <3> QED  BY <2>7, <3>1, <3>2
  <2> QED  BY NextCases, <2>1, <2>2, <2>3, <2>4, <2>5, <2>6, <2>7
<1>3. LoginInv => LoginIsDurable
  OBVIOUS
<1> QED  BY <1>1, <1>2, <1>3, PTL DEF Spec

-----------------------------------------------------------------------------
(***************************************************************************)
(* The lock is never lost.  Who queues waits for the lock and queues once. *)
(***************************************************************************)
QueueInv ==
    /\ LockNotLost
    /\ \A i \in 1 .. Len(waiters) :
         waiters[i] \in Procs /\ waiters[i] # holder /\ pc[waiters[i]] = "queued"
    /\ \A i, j \in 1 .. Len(waiters) : waiters[i] = waiters[j] => i = j

\* The holder may leave for good once it has passed the lock on.
LEMMA ReleaseQueue ==
    ASSUME TypeOK, QueueInv, Release, NEW label, Goto(holder, label)
    PROVE  QueueInv'
<1>1. waiters \in Seq(Procs) /\ Len(waiters) \in Nat
  BY LenProperties DEF TypeOK
<1>2. CASE waiters = <<>>
  <2>1. holder' = Nobody /\ waiters' = <<>>
    BY <1>2 DEF Release
  <2>2. Len(waiters') = 0
    BY <2>1
  <2> QED  BY <2>1, <2>2 DEF QueueInv, LockNotLost
<1>3. CASE waiters # <<>>
  <2>1. holder' = Head(waiters) /\ waiters' = Tail(waiters)
    BY <1>3 DEF Release
  <2>2. /\ Len(waiters') = Len(waiters) - 1
        /\ \A i \in 1 .. Len(waiters') : waiters'[i] = waiters[i+1]
    BY <1>1, <1>3, <2>1, HeadTailProperties
  <2>3. Len(waiters) # 0 /\ Head(waiters) = waiters[1]
    BY <1>1, <1>3, EmptySeq, HeadTailProperties
  <2>4. \A i \in 1 .. Len(waiters) : pc'[waiters[i]] = "queued"
    BY DEF TypeOK, QueueInv, Goto
  <2>5. holder' = waiters[1] /\ pc'[holder'] = "queued"
    BY <1>1, <2>1, <2>3, <2>4
  <2>6. LockNotLost'
    BY <1>1, <2>3, <2>5, TokenAssumption DEF LockNotLost, QueueInv
  <2>7. \A i \in 1 .. Len(waiters') : i + 1 \in 1 .. Len(waiters) /\ i + 1 # 1
    BY <1>1, <2>2
  <2>8. \A i \in 1 .. Len(waiters') :
          waiters'[i] \in Procs /\ waiters'[i] # holder' /\ pc'[waiters'[i]] = "queued"
    BY <1>1, <2>2, <2>3, <2>4, <2>5, <2>7 DEF QueueInv
  <2>9. \A i, j \in 1 .. Len(waiters') : waiters'[i] = waiters'[j] => i = j
    <3> SUFFICES ASSUME NEW i \in 1 .. Len(waiters'), NEW j \in 1 .. Len(waiters'),
                        waiters'[i] = waiters'[j]
                 PROVE  i = j
      OBVIOUS
    <3>1. waiters[i+1] = waiters[j+1]
      BY <2>2
    <3>2. i + 1 = j + 1
      BY <2>7, <3>1 DEF QueueInv
    <3> QED  BY <1>1, <2>2, <3>2
  <2> QED  BY <2>6, <2>8, <2>9 DEF QueueInv
<1> QED  BY <1>2, <1>3

\* Who leaves the queue leaves the order of the others as it is.
LEMMA LeaveQueueInv ==
    ASSUME TypeOK, QueueInv, NEW c \in Procs, LeaveQueue(c), c # holder,
           Goto(c, "idle")
    PROVE  QueueInv'
<1>1. waiters \in Seq(Procs) /\ Len(waiters) \in Nat
  BY LenProperties DEF TypeOK
<1>2. PICK k \in 1 .. Len(waiters) :
        /\ waiters[k] = c
        /\ waiters' = SubSeq(waiters, 1, k - 1) \o SubSeq(waiters, k + 1, Len(waiters))
  BY DEF LeaveQueue
<1>3. holder' = holder /\ holder # Nobody
  <2>1. Len(waiters) # 0
    BY <1>1, <1>2
  <2>2. waiters # <<>>
    BY <2>1
  <2> QED  BY <2>2 DEF LeaveQueue, QueueInv, LockNotLost
<1>4. DEFINE left == SubSeq(waiters, 1, k - 1)
             right == SubSeq(waiters, k + 1, Len(waiters))
<1>5. /\ left \in Seq(Procs) /\ Len(left) = k - 1
      /\ \A i \in 1 .. k - 1 : left[i] = waiters[i]
  BY <1>1, SubSeqProperties
<1>6. /\ right \in Seq(Procs) /\ Len(right) = Len(waiters) - k
      /\ \A i \in 1 .. Len(waiters) - k : right[i] = waiters[k + i]
  BY <1>1, SubSeqProperties
<1>7. /\ Len(waiters') = Len(waiters) - 1
      /\ \A i \in 1 .. Len(waiters') :
           waiters'[i] = IF i < k THEN waiters[i] ELSE waiters[i + 1]
  <2> HIDE DEF left, right
  <2>1. waiters' = left \o right
    BY <1>2 DEF left, right
  <2>2. /\ Len(waiters') = Len(left) + Len(right)
        /\ \A i \in 1 .. Len(left) + Len(right) :
             waiters'[i] = IF i <= Len(left) THEN left[i] ELSE right[i - Len(left)]
    BY <1>5, <1>6, <2>1, ConcatProperties
  <2>3. Len(left) = k - 1 /\ Len(left) + Len(right) = Len(waiters) - 1
    BY <1>1, <1>5, <1>6
  <2>4. ASSUME NEW i \in 1 .. Len(waiters) - 1
        PROVE  waiters'[i] = IF i < k THEN waiters[i] ELSE waiters[i + 1]
    <3>1. waiters'[i] = IF i <= k - 1 THEN left[i] ELSE right[i - (k - 1)]
      BY <2>2, <2>3
    <3>2. CASE i < k
      BY <1>1, <1>5, <3>1, <3>2
    <3>3. CASE ~(i < k)
      <4>1. i - (k - 1) \in 1 .. Len(waiters) - k /\ k + (i - (k - 1)) = i + 1
        BY <1>1, <3>3
      <4>2. right[i - (k - 1)] = waiters[i + 1]
        BY <1>6, <4>1
      <4> QED  BY <1>1, <3>1, <3>3, <4>2
    <3> QED  BY <3>2, <3>3
  <2> QED  BY <2>2, <2>3, <2>4
<1>8. DEFINE at(i) == IF i < k THEN i ELSE i + 1
<1>9. \A i \in 1 .. Len(waiters') :
        at(i) \in 1 .. Len(waiters) /\ at(i) # k /\ waiters'[i] = waiters[at(i)]
  BY <1>1, <1>7
<1>10. \A i \in 1 .. Len(waiters) :
         i # k => waiters[i] # c /\ pc'[waiters[i]] = "queued"
  BY <1>2 DEF QueueInv, TypeOK, Goto
<1>11. LockNotLost'
  BY <1>3 DEF QueueInv, LockNotLost, TypeOK, Goto
<1>12. \A i \in 1 .. Len(waiters') :
         waiters'[i] \in Procs /\ waiters'[i] # holder' /\ pc'[waiters'[i]] = "queued"
  BY <1>3, <1>9, <1>10 DEF QueueInv
<1>13. \A i, j \in 1 .. Len(waiters') : waiters'[i] = waiters'[j] => i = j
  <2> SUFFICES ASSUME NEW i \in 1 .. Len(waiters'), NEW j \in 1 .. Len(waiters'),
                      waiters'[i] = waiters'[j]
               PROVE  i = j
    OBVIOUS
  <2>1. at(i) = at(j)
    BY <1>9 DEF QueueInv
  <2>2. i \in Int /\ j \in Int
    BY <1>1, <1>7
  <2>3. k \in Int
    BY <1>1
  <2> QED  BY <2>1, <2>2, <2>3
<1> QED  BY <1>11, <1>12, <1>13 DEF QueueInv

\* A step of a process that does not wait leaves the queue as it is, and so
\* does a step of the holder that keeps the lock.
LEMMA QueueKept ==
    ASSUME TypeOK, QueueInv, UNCHANGED lock, NEW p \in Procs, NEW label,
           Goto(p, label),
           IF holder = p THEN label \in InExchange ELSE pc[p] # "queued"
    PROVE  QueueInv'
<1>1. UNCHANGED <<holder, waiters>>
  BY DEF lock
<1>2. \A i \in 1 .. Len(waiters) : pc'[waiters[i]] = "queued"
  BY DEF TypeOK, QueueInv, Goto
<1>3. LockNotLost'
  BY <1>1, TokenAssumption DEF TypeOK, QueueInv, LockNotLost, Goto
<1> QED  BY <1>1, <1>2, <1>3 DEF QueueInv

LEMMA LockQueue ==
    ASSUME TypeOK, QueueInv, NEW p \in Procs, Lock(p)
    PROVE  QueueInv'
<1>1. waiters \in Seq(Procs) /\ Len(waiters) \in Nat
  BY LenProperties DEF TypeOK
<1>2. pc[p] = "locking" /\ pc' = [pc EXCEPT ![p] = "queued"]
  BY DEF Lock, Goto
<1>3. p # holder /\ \A i \in 1 .. Len(waiters) : waiters[i] # p
  BY <1>2, TokenAssumption DEF QueueInv, LockNotLost, InExchange
<1>4. CASE holder = Nobody
  <2>1. holder' = p /\ waiters' = waiters
    BY <1>4 DEF Lock
  <2>2. pc'[p] = "queued" /\ \A i \in 1 .. Len(waiters) : pc'[waiters[i]] = "queued"
    BY <1>2 DEF TypeOK, QueueInv
  <2>3. LockNotLost'
    BY <2>1, <2>2, TokenAssumption DEF LockNotLost
  <2> QED  BY <1>3, <2>1, <2>2, <2>3 DEF QueueInv
<1>5. CASE holder # Nobody
  <2>1. holder' = holder /\ waiters' = Append(waiters, p)
    BY <1>5 DEF Lock
  <2>2. /\ Len(waiters') = Len(waiters) + 1
        /\ \A i \in 1 .. Len(waiters) : waiters'[i] = waiters[i]
        /\ waiters'[Len(waiters) + 1] = p
    BY <1>1, <2>1, AppendProperties
  <2>3. pc'[p] = "queued" /\ \A i \in 1 .. Len(waiters) : pc'[waiters[i]] = "queued"
    BY <1>2 DEF TypeOK, QueueInv
  <2>4. LockNotLost'
    BY <1>2, <1>5, <2>1 DEF LockNotLost, QueueInv, TypeOK
  <2>5. \A i \in 1 .. Len(waiters') :
          i \in 1 .. Len(waiters) \/ i = Len(waiters) + 1
    BY <1>1, <2>2
  <2>6. \A i \in 1 .. Len(waiters') :
          waiters'[i] \in Procs /\ waiters'[i] # holder' /\ pc'[waiters'[i]] = "queued"
    BY <1>3, <2>1, <2>2, <2>3, <2>5 DEF QueueInv
  <2>7. \A i, j \in 1 .. Len(waiters') : waiters'[i] = waiters'[j] => i = j
    BY <1>1, <1>3, <2>2, <2>5 DEF QueueInv
  <2> QED  BY <2>4, <2>6, <2>7 DEF QueueInv
<1> QED  BY <1>4, <1>5

LEMMA NextQueueInv ==
    ASSUME TypeOK, HolderOnly, QueueInv, [Next]_vars
    PROVE  QueueInv'
<1> USE DEF InExchange
<1>1. CASE UNCHANGED vars
  BY <1>1 DEF QueueInv, LockNotLost, vars
<1>2. ASSUME NEW p \in Procs, pc[p] \in {"idle", "locking", "stopped", "planning", "sleeping"}
      PROVE  p # holder
  BY <1>2, TokenAssumption DEF QueueInv, LockNotLost
<1>3. ASSUME NEW c \in Callers, FastPath(c) PROVE QueueInv'
  BY <1>2, <1>3, QueueKept DEF FastPath
<1>4. ASSUME NEW c \in Callers, DropCall(c) PROVE QueueInv'
  <2>1. CASE holder = c
    <3>1. Release \/ (pc[c] = "locking" /\ UNCHANGED lock)
      BY <1>4, <2>1 DEF DropCall
    <3>2. Release
      BY <1>2, <2>1, <3>1
    <3> QED  BY <1>4, <2>1, <3>2, ReleaseQueue DEF DropCall
  <2>2. CASE holder # c /\ pc[c] = "queued"
    BY <1>4, <2>2, LeaveQueueInv DEF DropCall
  <2>3. CASE holder # c /\ pc[c] # "queued"
    BY <1>4, <2>3, QueueKept DEF DropCall
  <2> QED  BY <2>1, <2>2, <2>3
<1>5. ASSUME NEW p \in Procs, Lock(p) PROVE QueueInv'
  BY <1>5, LockQueue
<1>6. ASSUME NEW p \in Procs, Recheck(p) PROVE QueueInv'
  <2>1. CASE p \in Callers /\ Valid(copilot)
    BY <1>6, <2>1, ReleaseQueue DEF Recheck
  <2>2. CASE ~(p \in Callers /\ Valid(copilot))
    BY <1>6, <2>2, QueueKept DEF Recheck
  <2> QED  BY <2>1, <2>2
<1>7. ASSUME NEW p \in Procs, StartExchange(p) PROVE QueueInv'
  <2>1. holder = p
    BY <1>7 DEF HolderOnly, StartExchange
  <2>2. CASE github
    BY <1>7, <2>1, <2>2, QueueKept DEF StartExchange
  <2>3. CASE ~github
    BY <1>7, <2>1, <2>3, ReleaseQueue DEF StartExchange
  <2> QED  BY <2>2, <2>3
<1>8. ASSUME NEW p \in Procs, Issue(p) PROVE QueueInv'
  BY <1>8, QueueKept DEF HolderOnly, Issue
<1>9. ASSUME NEW p \in Procs, ExchangeFails(p) \/ StoreToken(p) PROVE QueueInv'
  BY <1>9, ReleaseQueue DEF HolderOnly, ExchangeFails, StoreToken
<1>10. ASSUME NEW t \in Tasks, StartAuto(t) \/ PlanSleep(t) \/ Wake(t) \/ Cancelled(t)
       PROVE  QueueInv'
  <2>1. pc[t] \in {"stopped", "planning", "sleeping"} /\ UNCHANGED lock
        /\ \E label : Goto(t, label)
    BY <1>10 DEF StartAuto, PlanSleep, Wake, Cancelled, lock
  <2> QED  BY <1>2, <2>1, QueueKept
<1>11. ASSUME StopAuto \/ StoreGithub \/ RememberGithub \/ BeginClear
              \/ ClearTokens \/ Tick
       PROVE  QueueInv'
  <2>1. UNCHANGED <<holder, waiters, pc>>
    BY <1>11 DEF StopAuto, StoreGithub, RememberGithub, BeginClear, ClearTokens,
                 Tick, lock
  <2> QED  BY <2>1 DEF QueueInv, LockNotLost
<1> QED
  BY NextCases, <1>1, <1>3, <1>4, <1>5, <1>6, <1>7, <1>8, <1>9, <1>10, <1>11

\* The lock is free only when nobody waits for it, and its holder goes on:
\* no dropped request and no error path keeps it (refresh_lock).
THEOREM LockPassedOn == Spec => []LockNotLost
<1>1. Init => QueueInv
  <2> SUFFICES ASSUME Init PROVE QueueInv
    OBVIOUS
  <2>1. holder = Nobody /\ waiters = <<>> /\ Len(waiters) = 0
    BY DEF Init
  <2> QED  BY <2>1 DEF QueueInv, LockNotLost
<1>2. TypeOK /\ HolderOnly /\ QueueInv /\ [Next]_vars => QueueInv'
  BY NextQueueInv
<1>3. QueueInv => LockNotLost
  BY DEF QueueInv
<1> QED  BY <1>1, <1>2, <1>3, TypeCorrect, MutualExclusion, PTL DEF Spec

-----------------------------------------------------------------------------
(***************************************************************************)
(* The token of a running server does not expire.  Time passes only while  *)
(* every task sleeps, so it is enough that each of them wakes up before    *)
(* the expiry, and, as long as no refresh has failed, early enough for a   *)
(* second attempt.                                                         *)
(***************************************************************************)
Asleep(t) == pc[t] = "sleeping"
Planning(t) == pc[t] \in {"stopped", "planning"}

\* When the tasks sleep, and how much time there is for each.
SleepInv ==
    \A t \in Tasks : Asleep(t) =>
      now <= wake[t] /\ wake[t] + SoonDelay < now + Life
InTime ==
    copilot # NoToken =>
      /\ now < copilot
      /\ \A t \in Tasks : Planning(t) =>
           /\ now + SoonDelay < copilot
           /\ failures = 0 => copilot = now + Life
      /\ \A t \in Tasks : Asleep(t) =>
           /\ wake[t] < copilot
           /\ failures = 0 => wake[t] + SoonDelay < copilot
      /\ \A t \in Tasks : ~Planning(t) /\ ~Asleep(t) =>
           (failures = 0 => now + SoonDelay < copilot)
ServerInv ==
    /\ github = TRUE /\ admin = "idle" /\ failures \in {0, 1}
    /\ \A t \in Tasks : pc[t] # "stopped" => t \in current
    /\ \A p \in Procs : pc[p] = "answered" => response[p] = now + Life
    /\ SleepInv /\ InTime

LEMMA ServerStarts == ASSUME Init, github = TRUE PROVE ServerInv
<1>1. \A t \in Tasks : pc[t] = "stopped"
  BY TokenAssumption DEF Init
<1>2. \A p \in Procs : pc[p] # "answered"
  BY DEF Init
<1>3. copilot = NoToken /\ failures = 0 /\ admin = "idle"
  BY DEF Init
<1> QED
  BY <1>1, <1>2, <1>3 DEF ServerInv, SleepInv, InTime, Asleep

\* A step that changes neither the token nor the clock, and of the tasks only
\* where they are in their refresh.
LEMMA ServerQuietly ==
  ASSUME TypeOK, ServerInv, UNCHANGED <<github, copilot, now, wake, failures>>,
         admin' = "idle", current \subseteq current',
         \A t \in Tasks : \/ pc'[t] = pc[t]
                          \/ /\ ~Planning(t) /\ ~Asleep(t)
                             /\ ~Planning(t)' /\ ~Asleep(t)',
         \A p \in Procs : pc'[p] = "answered" => response'[p] = now + Life
  PROVE  ServerInv'
<1>1. \A t \in Tasks : /\ Planning(t)' => Planning(t)
                       /\ Asleep(t)' => Asleep(t)
                       /\ Planning(t) => Planning(t)'
                       /\ Asleep(t) => Asleep(t)'
                       /\ pc'[t] = "stopped" <=> pc[t] = "stopped"
  BY DEF Planning, Asleep
<1>2. SleepInv'
  BY <1>1 DEF ServerInv, SleepInv
<1>3. InTime'
  BY <1>1 DEF ServerInv, InTime
<1>4. \A t \in Tasks : pc'[t] # "stopped" => t \in current'
  BY <1>1 DEF ServerInv
<1> QED
  BY <1>2, <1>3, <1>4 DEF ServerInv

LEMMA ServerPlanned ==
  ASSUME TypeOK, TokenBound, Timely, ServerInv, NEW t \in Tasks, PlanSleep(t), ServerNext
  PROVE  ServerInv'
<1>1. /\ {Life, RefreshAhead, SoonDelay, IdleDelay} \subseteq Nat /\ now \in Nat
      /\ copilot # NoToken => copilot \in Nat
  BY TokenAssumption DEF TypeOK
<1>2. /\ UNCHANGED <<github, copilot, now, failures, current, admin, response>>
      /\ wake' = [wake EXCEPT ![t] = now + SleepTime]
      /\ pc' = [pc EXCEPT ![t] = "sleeping"] /\ pc[t] = "planning"
  BY DEF PlanSleep, Goto, tokens, env
<1>3. /\ pc'[t] = "sleeping" /\ wake'[t] = now + SleepTime
      /\ \A q \in Procs : q # t => pc'[q] = pc[q]
      /\ \A u \in Tasks : u # t => wake'[u] = wake[u]
  BY <1>2 DEF TypeOK
<1>4. /\ SleepTime \in Nat
      /\ SleepTime + SoonDelay < Life
      /\ copilot # NoToken => /\ now + SleepTime < copilot
                              /\ failures = 0 => now + SleepTime + SoonDelay < copilot
  <2>1. CASE copilot = NoToken
    BY <1>1, <2>1 DEF SleepTime, Timely
  <2>2. CASE copilot # NoToken /\ copilot - now > RefreshAhead
    <3>1. SleepTime = copilot - now - RefreshAhead /\ copilot <= now + Life
      BY <2>2 DEF SleepTime, TokenBound
    <3> QED
      BY <1>1, <2>2, <3>1 DEF Timely
  <2>3. CASE copilot # NoToken /\ ~(copilot - now > RefreshAhead)
    <3>1. SleepTime = SoonDelay
      BY <2>3 DEF SleepTime
    <3>2. now + SoonDelay < copilot /\ (failures = 0 => copilot = now + Life)
      BY <1>2, <2>3 DEF ServerInv, InTime, Planning
    <3> QED
      BY <1>1, <3>1, <3>2 DEF Timely
  <2> QED
    BY <2>1, <2>2, <2>3
<1>5. SleepInv'
  <2> SUFFICES ASSUME NEW u \in Tasks, pc'[u] = "sleeping"
               PROVE  now' <= wake'[u] /\ wake'[u] + SoonDelay < now' + Life
    BY DEF SleepInv, Asleep
  <2>1. CASE u = t
    BY <1>1, <1>2, <1>3, <1>4, <2>1
  <2>2. CASE u # t
    BY <1>2, <1>3, <2>2 DEF ServerInv, SleepInv, Asleep
  <2> QED
    BY <2>1, <2>2
<1>6. InTime'
  <2> SUFFICES ASSUME copilot # NoToken PROVE InTime'
    BY <1>2 DEF InTime
  <2>1. InTime /\ now < copilot
    BY DEF ServerInv, InTime
  <2>2. ASSUME NEW u \in Tasks, Planning(u)'
        PROVE  now + SoonDelay < copilot /\ (failures = 0 => copilot = now + Life)
    <3>1. u # t /\ Planning(u)
      BY <1>3, <2>2 DEF Planning
    <3> QED
      BY <2>1, <3>1 DEF InTime
  <2>3. ASSUME NEW u \in Tasks, Asleep(u)'
        PROVE  wake'[u] < copilot /\ (failures = 0 => wake'[u] + SoonDelay < copilot)
    <3>1. CASE u = t
      BY <1>3, <1>4, <3>1
    <3>2. CASE u # t
      BY <1>3, <2>1, <2>3, <3>2 DEF InTime, Asleep
    <3> QED
      BY <3>1, <3>2
  <2>4. ASSUME NEW u \in Tasks, ~Planning(u)', ~Asleep(u)', failures = 0
        PROVE  now + SoonDelay < copilot
    <3>1. u # t /\ ~Planning(u) /\ ~Asleep(u)
      BY <1>3, <2>4 DEF Planning, Asleep
    <3> QED
      BY <2>1, <2>4, <3>1 DEF InTime
  <2> QED
    BY <1>2, <2>1, <2>2, <2>3, <2>4 DEF InTime
<1> QED
  BY <1>2, <1>3, <1>5, <1>6 DEF ServerInv

\* A refresh that succeeds gives every task a whole lifetime.
LEMMA ServerRefreshed ==
  ASSUME TypeOK, Timely, ServerInv, NEW p \in Procs, StoreToken(p), ServerNext
  PROVE  ServerInv'
<1>1. /\ {Life, SoonDelay} \subseteq Nat /\ now \in Nat
  BY TokenAssumption DEF TypeOK
<1>2. /\ UNCHANGED <<github, now, wake, current, admin, response>>
      /\ copilot' = now + Life /\ failures' = 0
      /\ pc' = [pc EXCEPT ![p] = Resume(p)] /\ pc[p] = "answered"
  BY DEF StoreToken, Goto, env, ServerInv
<1>3. Resume(p) \in {"idle", "planning"}
  BY DEF Resume
<1>4. \A q \in Procs : pc'[q] = pc[q] \/ (q = p /\ pc'[q] = Resume(p))
  BY <1>2 DEF TypeOK
<1>5. \A t \in Tasks : Asleep(t)' => Asleep(t)
  BY <1>3, <1>4 DEF Asleep
<1>6. SleepInv'
  BY <1>2, <1>5 DEF ServerInv, SleepInv
<1>7. now + SoonDelay < now + Life /\ now < now + Life
  BY <1>1 DEF Timely
<1>8. \A t \in Tasks : Asleep(t)' =>
        wake'[t] < now + Life /\ wake'[t] + SoonDelay < now + Life
  <2> SUFFICES ASSUME NEW t \in Tasks, Asleep(t)'
               PROVE  wake'[t] < now + Life /\ wake'[t] + SoonDelay < now + Life
    OBVIOUS
  <2>1. wake[t] + SoonDelay < now + Life /\ wake'[t] = wake[t] /\ wake[t] \in Nat
    BY <1>2, <1>5 DEF ServerInv, SleepInv, TypeOK
  <2> QED
    BY <1>1, <2>1
<1>9. InTime'
  BY <1>2, <1>7, <1>8 DEF InTime
<1>10. \A t \in Tasks : pc'[t] # "stopped" => t \in current'
  BY <1>2, <1>4 DEF ServerInv
<1>11. \A q \in Procs : pc'[q] = "answered" => response'[q] = now' + Life
  BY <1>2, <1>3, <1>4 DEF ServerInv
<1> QED
  BY <1>2, <1>6, <1>9, <1>10, <1>11 DEF ServerInv

\* A refresh that fails is the first one, so there is time for another.
LEMMA ServerFailed ==
  ASSUME TypeOK, Timely, ServerInv, NEW p \in Procs, ExchangeFails(p), ServerNext
  PROVE  ServerInv'
<1>1. /\ UNCHANGED <<github, copilot, now, wake, current, admin, response>>
      /\ pc' = [pc EXCEPT ![p] = Resume(p)] /\ pc[p] = "exchanging"
      /\ failures' = IF failures = 0 THEN 1 ELSE 2
  BY DEF ExchangeFails, Goto, tokens, env
<1>2. failures = 0 /\ failures' = 1
  BY <1>1 DEF ServerNext, ServerInv
<1>3. \A q \in Procs : pc'[q] = pc[q] \/ (q = p /\ pc'[q] = Resume(p))
  BY <1>1 DEF TypeOK
<1>4. Resume(p) \in {"idle", "planning"}
  BY DEF Resume
<1>5. \A t \in Tasks : Asleep(t)' => Asleep(t)
  BY <1>3, <1>4 DEF Asleep
<1>6. SleepInv'
  BY <1>1, <1>5 DEF ServerInv, SleepInv
<1>7. InTime'
  <2> SUFFICES ASSUME copilot # NoToken PROVE InTime'
    BY <1>1 DEF InTime
  <2>1. InTime /\ now < copilot
    BY DEF ServerInv, InTime
  <2>2. ASSUME NEW t \in Tasks, Planning(t)' PROVE now + SoonDelay < copilot
    <3>1. Planning(t) \/ (~Planning(t) /\ ~Asleep(t))
      BY <1>1, <1>3, <2>2 DEF Planning, Asleep
    <3> QED
      BY <1>2, <2>1, <3>1 DEF InTime
  <2>3. ASSUME NEW t \in Tasks, Asleep(t)' PROVE wake'[t] < copilot
    BY <1>1, <1>5, <2>1, <2>3 DEF InTime
  <2> QED
    BY <1>1, <1>2, <2>1, <2>2, <2>3 DEF InTime
<1>8. \A t \in Tasks : pc'[t] # "stopped" => t \in current'
  BY <1>1, <1>3 DEF ServerInv
<1>9. \A q \in Procs : pc'[q] = "answered" => response'[q] = now' + Life
  BY <1>1, <1>3, <1>4 DEF ServerInv
<1> QED
  BY <1>1, <1>2, <1>6, <1>7, <1>8, <1>9 DEF ServerInv

LEMMA ServerStarted ==
  ASSUME TypeOK, ServerInv, NEW t \in Tasks, StartAuto(t), ServerNext
  PROVE  ServerInv'
<1>1. /\ UNCHANGED <<github, copilot, now, wake, admin, response, failures>>
      /\ pc' = [pc EXCEPT ![t] = "planning"] /\ pc[t] = "stopped"
      /\ current' = current \cup {t}
  BY DEF StartAuto, Goto, tokens
<1>2. \A q \in Procs : pc'[q] = pc[q] \/ (q = t /\ pc'[q] = "planning")
  BY <1>1 DEF TypeOK
<1>3. \A u \in Tasks : (Planning(u)' <=> Planning(u)) /\ (Asleep(u)' <=> Asleep(u))
  BY <1>1, <1>2 DEF Planning, Asleep
<1>4. SleepInv'
  BY <1>1, <1>3 DEF ServerInv, SleepInv
<1>5. InTime'
  BY <1>1, <1>3 DEF ServerInv, InTime
<1>6. \A u \in Tasks : pc'[u] # "stopped" => u \in current'
  BY <1>1, <1>2 DEF ServerInv
<1>7. \A q \in Procs : pc'[q] = "answered" => response'[q] = now' + Life
  BY <1>1, <1>2 DEF ServerInv
<1> QED
  BY <1>1, <1>4, <1>5, <1>6, <1>7 DEF ServerInv

\* A task wakes up at the very moment it wanted to.
LEMMA ServerWakes ==
  ASSUME TypeOK, ServerInv, NEW t \in Tasks, Wake(t), ServerNext
  PROVE  ServerInv'
<1>1. /\ UNCHANGED <<github, copilot, now, wake, current, admin, response, failures>>
      /\ pc' = [pc EXCEPT ![t] = "locking"] /\ Asleep(t) /\ now >= wake[t]
  BY DEF Wake, Goto, tokens, env, Asleep
<1>2. \A q \in Procs : pc'[q] = pc[q] \/ (q = t /\ pc'[q] = "locking")
  BY <1>1 DEF TypeOK
<1>3. pc'[t] = "locking"
  BY <1>1 DEF TypeOK
<1>4. now = wake[t]
  BY <1>1 DEF ServerInv, SleepInv, TypeOK
<1>5. \A u \in Tasks : (Planning(u)' => Planning(u)) /\ (Asleep(u)' => Asleep(u))
  BY <1>2 DEF Planning, Asleep
<1>6. SleepInv'
  BY <1>1, <1>5 DEF ServerInv, SleepInv
<1>7. InTime'
  <2> SUFFICES ASSUME copilot # NoToken PROVE InTime'
    BY <1>1 DEF InTime
  <2>1. InTime /\ now < copilot
    BY DEF ServerInv, InTime
  <2>2. ASSUME NEW u \in Tasks, ~Planning(u)', ~Asleep(u)', failures = 0
        PROVE  now + SoonDelay < copilot
    <3>1. CASE u = t
      BY <1>1, <1>4, <2>1, <2>2, <3>1 DEF InTime
    <3>2. CASE u # t
      BY <1>2, <2>1, <2>2, <3>2 DEF InTime, Planning, Asleep
    <3> QED
      BY <3>1, <3>2
  <2> QED
    BY <1>1, <1>5, <2>1, <2>2 DEF InTime
<1>8. \A u \in Tasks : pc'[u] # "stopped" => u \in current'
  BY <1>1, <1>2 DEF ServerInv, Asleep
<1>9. \A q \in Procs : pc'[q] = "answered" => response'[q] = now' + Life
  BY <1>1, <1>2 DEF ServerInv
<1> QED
  BY <1>1, <1>6, <1>7, <1>8, <1>9 DEF ServerInv

LEMMA ServerTicks ==
  ASSUME TypeOK, ServerInv, Tasks # {}, Tick, ServerNext
  PROVE  ServerInv'
<1>1. /\ UNCHANGED <<github, copilot, pc, wake, current, admin, response, failures>>
      /\ now' = now + 1 /\ now \in Nat /\ Life \in Nat /\ SoonDelay \in Nat
  BY TokenAssumption DEF Tick, tokens, TypeOK
<1>2. \A t \in Tasks : Asleep(t) /\ now < wake[t] /\ wake[t] \in Nat
  BY <1>1 DEF ServerNext, Quiet, Asleep, TypeOK
<1>3. \A p \in Procs : pc'[p] # "answered"
  BY <1>1, <1>2 DEF ServerNext, Quiet, Asleep
<1>4. \A t \in Tasks : Asleep(t)' /\ ~Planning(t)'
  BY <1>1, <1>2 DEF Asleep, Planning
<1>5. SleepInv'
  <2> SUFFICES ASSUME NEW t \in Tasks
               PROVE  now' <= wake'[t] /\ wake'[t] + SoonDelay < now' + Life
    BY DEF SleepInv
  <2>1. wake[t] + SoonDelay < now + Life
    BY <1>2 DEF ServerInv, SleepInv
  <2> QED
    BY <1>1, <1>2, <2>1
<1>6. InTime'
  <2> SUFFICES ASSUME copilot # NoToken PROVE InTime'
    BY <1>1 DEF InTime
  <2>1. \A t \in Tasks : /\ wake[t] < copilot
                         /\ failures = 0 => wake[t] + SoonDelay < copilot
    BY <1>2 DEF ServerInv, InTime
  <2>2. now' < copilot
    <3>1. PICK t \in Tasks : TRUE
      OBVIOUS
    <3>2. wake[t] < copilot /\ now < wake[t] /\ wake[t] \in Nat /\ copilot \in Nat
      BY <1>2, <2>1 DEF TypeOK
    <3> QED
      BY <1>1, <3>2
  <2> QED
    BY <1>1, <1>4, <2>1, <2>2 DEF InTime
<1> QED
  BY <1>1, <1>3, <1>5, <1>6 DEF ServerInv

LEMMA ServerNextKeeps ==
  ASSUME Timely, Tasks # {}, TypeOK, TokenBound, ServerInv, [ServerNext]_vars
  PROVE  ServerInv'
<1> USE DEF lock, tokens, env
<1>1. CASE UNCHANGED vars
  <2>1. UNCHANGED <<github, copilot, now, wake, failures, admin, current, pc, response>>
    BY <1>1 DEF vars
  <2> QED
    BY <2>1, ServerQuietly DEF ServerInv
<1>2. CASE ServerNext
  <2>1. admin' = "idle" /\ current \subseteq current' /\ Next
    BY <1>2 DEF ServerNext
  <2>2. ASSUME NEW c \in Callers, FastPath(c) \/ DropCall(c) PROVE ServerInv'
    <3>1. /\ UNCHANGED <<github, copilot, now, wake, failures, response>>
          /\ \A q \in Procs : q # c => pc'[q] = pc[q]
          /\ pc'[c] \in {"locking", "idle"}
      BY <2>2 DEF FastPath, DropCall, Goto, TypeOK
    <3>2. \A t \in Tasks : t # c
      BY TokenAssumption
    <3> QED
      BY <2>1, <3>1, <3>2, ServerQuietly DEF ServerInv
  <2>3. ASSUME NEW p \in Procs, Lock(p) \/ Recheck(p) \/ StartExchange(p)
        PROVE  ServerInv'
    <3>1. /\ UNCHANGED <<github, copilot, now, wake, failures, response>>
          /\ \A q \in Procs : q # p => pc'[q] = pc[q]
          /\ pc[p] \in {"locking", "queued", "refreshing"}
          /\ \/ pc'[p] \in {"queued", "refreshing", "exchanging"}
             \/ p \in Callers /\ pc'[p] = "idle"
      BY <2>3 DEF Lock, Recheck, StartExchange, Goto, TypeOK, ServerInv
    <3>2. \A t \in Tasks : t \notin Callers
      BY TokenAssumption
    <3>3. \A t \in Tasks : \/ pc'[t] = pc[t]
                           \/ /\ ~Planning(t) /\ ~Asleep(t)
                              /\ ~Planning(t)' /\ ~Asleep(t)'
      BY <3>1, <3>2 DEF Planning, Asleep
    <3>4. \A q \in Procs : pc'[q] = "answered" => response'[q] = now + Life
      BY <3>1 DEF ServerInv
    <3> QED
      BY <2>1, <3>1, <3>3, <3>4, ServerQuietly
  <2>4. ASSUME NEW p \in Procs, Issue(p) PROVE ServerInv'
    <3>1. /\ UNCHANGED <<github, copilot, now, wake, failures>>
          /\ \A q \in Procs : q # p => pc'[q] = pc[q] /\ response'[q] = response[q]
          /\ pc[p] = "exchanging" /\ pc'[p] = "answered"
          /\ response'[p] = now + Life
      BY <2>4 DEF Issue, Goto, TypeOK
    <3>2. \A t \in Tasks : \/ pc'[t] = pc[t]
                           \/ /\ ~Planning(t) /\ ~Asleep(t)
                              /\ ~Planning(t)' /\ ~Asleep(t)'
      BY <3>1 DEF Planning, Asleep
    <3>3. \A q \in Procs : pc'[q] = "answered" => response'[q] = now + Life
      BY <3>1 DEF ServerInv
    <3> QED
      BY <2>1, <3>1, <3>2, <3>3, ServerQuietly
  <2>5. ASSUME NEW p \in Procs, ExchangeFails(p) PROVE ServerInv'
    BY <1>2, <2>5, ServerFailed
  <2>6. ASSUME NEW p \in Procs, StoreToken(p) PROVE ServerInv'
    BY <1>2, <2>6, ServerRefreshed
  <2>7. ASSUME NEW t \in Tasks, StartAuto(t) PROVE ServerInv'
    BY <1>2, <2>7, ServerStarted
  <2>8. ASSUME NEW t \in Tasks, PlanSleep(t) PROVE ServerInv'
    BY <1>2, <2>8, ServerPlanned
  <2>9. ASSUME NEW t \in Tasks, Wake(t) PROVE ServerInv'
    BY <1>2, <2>9, ServerWakes
  <2>10. ASSUME NEW t \in Tasks, Cancelled(t) PROVE FALSE
    BY <2>10 DEF Cancelled, ServerInv
  <2>11. ASSUME StopAuto \/ StoreGithub \/ RememberGithub \/ BeginClear \/ ClearTokens
         PROVE  FALSE
    BY <2>1, <2>11 DEF StopAuto, StoreGithub, RememberGithub, BeginClear, ClearTokens,
                       ServerInv
  <2>12. CASE Tick
    BY <1>2, <2>12, ServerTicks
  <2> QED
    BY <2>1, NextCases, <2>2, <2>3, <2>4, <2>5, <2>6, <2>7, <2>8, <2>9, <2>10,
       <2>11, <2>12
<1> QED
  BY <1>1, <1>2

\* The token of a running server is replaced before it expires, however many
\* requests come, are dropped or refresh themselves, even when an exchange
\* fails: for all delays that leave time for a second one (start_auto_refresh,
\* do_refresh).
THEOREM TokenNeverLapses ==
  ASSUME Timely, Tasks # {}
  PROVE  ServerSpec => NeverLapses
<1>1. ServerInit => ServerInv
  BY ServerStarts DEF ServerInit
<1>2. TypeOK /\ TokenBound /\ ServerInv /\ [ServerNext]_vars => ServerInv'
  BY ServerNextKeeps
<1>3. ServerSpec => Spec
  <2>1. [ServerNext]_vars => [Next]_vars
    BY DEF ServerNext
  <2> QED
    BY <2>1, PTL DEF ServerSpec, ServerInit, Spec
<1>4. RefreshInv => TokenBound
  BY DEF RefreshInv
<1>5. ServerSpec => []TypeOK /\ []TokenBound
  BY <1>3, <1>4, TypeCorrect, RefreshInvariant, PTL
<1>6. ServerSpec => []ServerInv
  BY <1>1, <1>2, <1>5, PTL DEF ServerSpec
<1>7. ASSUME TypeOK, ServerInv, ServerInv', [ServerNext]_vars, Valid(copilot)
      PROVE  Valid(copilot)'
  <2>1. copilot # NoToken
    BY <1>7 DEF Valid
  <2>2. copilot' # NoToken
    <3>1. [Next]_vars /\ admin' = admin
      BY <1>7 DEF ServerNext, ServerInv, vars
    <3>2. CASE copilot' = copilot
      BY <2>1, <3>2
    <3>3. CASE \E p \in Procs : StoreToken(p)
      <4>1. PICK p \in Procs : StoreToken(p)
        BY <3>3
      <4>2. copilot' = now + Life
        BY <1>7, <4>1 DEF StoreToken, ServerInv
      <4> QED
        BY <4>2, TokenAssumption, <1>7 DEF TypeOK
    <3>4. CASE ClearTokens
      BY <1>7, <3>1, <3>4 DEF ClearTokens, ServerInv
    <3> QED
      BY <3>1, <3>2, <3>3, <3>4, TokenWriters
  <2> QED
    BY <1>7, <2>2 DEF ServerInv, InTime, Valid
<1>8. ServerInv /\ ServerInv' /\ TypeOK /\ [ServerNext]_vars
        => [Valid(copilot) => Valid(copilot)']_vars
  BY <1>7
<1> QED
  BY <1>5, <1>6, <1>8, PTL DEF ServerSpec, NeverLapses
=============================================================================
