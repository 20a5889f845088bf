---------------------------- MODULE Login_proofs ----------------------------
(***************************************************************************)
(* Proofs about Login: its types, how often GitHub is asked                *)
(* (PollsPolitely), and that neither crashes between the steps of          *)
(* commands nor refused accesses break ServesLatest, LogoutErases,         *)
(* LoginKept and InstanceFindable, for any number of commands, any         *)
(* intervals and any delay of a sleep or an answer.                        *)
(***************************************************************************)
EXTENDS Login, TLAPS

\* The places of a command whose storage is open.
Opened ==
    {"opened", "erase", "removeSentinel", "check", "look", "load", "initiate",
     "offer", "poll", "verify", "exit"}
Storing == {"setKeyring", "writeSentinel"}

\* A command that goes on after ProfileManager::get has profiles/.
MigrationInv ==
    /\ pc = "mkdir" => ~profiles
    /\ profiles \/ pc \in {"idle", "migrate", "mkdir", "get", "exit"}
    /\ ~profiles => old = "none" /\ status = "none"
    /\ pc \in {"moveStatus", "moveCredentials"} => old = "none"

PoliteInv == interval = required /\ PollsPolitely

\* A status that a migration finds or makes is not a torn one, and what names
\* the instance has been moved or is going to be.
FindableInv ==
    /\ pc \in Moving => status \in {"none", "live"}
    /\ instance => "live" \in {flatStatus, legacyPid, status}
    /\ instance /\ Undisturbed /\ profiles =>
          \/ status = "live"
          \/ pc \in Moving /\ legacyPid = "live"
          \/ pc = "moveStatus" /\ flatStatus = "live"
    /\ pc = "get" /\ Undisturbed /\ ~profiles => ~instance

\* No login older than floor is left where a command would find it, and once
\* there is a floor there is none left to migrate.
LatestInv ==
    ~refused =>
      /\ Readable => keyring >= floor
      /\ pc \in Storing => held >= floor
      /\ pc \in Storing /\ after = "removeOld" => floor = 0
      /\ pc \in Storing /\ after = "verify" => held = rank /\ old = "none"
      /\ pc = "writeSentinel" => keyring = held
      /\ floor > 0 => old = "none" /\ (profiles \/ flat = "none")
      /\ floor > 0 /\ pc \in Moving => flat = "none"
      /\ pc \in Opened => old = "none"
      /\ pc = "tidy" => old = "none" \/ sentinel # "none"
      /\ pc \notin {"idle", "migrate", "mkdir"} => profiles \/ flat = "none"

\* Without crash or refusal the keyring has an entry only under a sentinel.
ErasedInv ==
    Undisturbed =>
      /\ sentinel # "torn"
      /\ sentinel = "none" /\ pc # "writeSentinel" => keyring = None
      /\ pc = "removeSentinel" => keyring = None
      /\ floor > rank => sentinel = "none"

\* The login is in a place from which it can go on to the next one.
HereInv ==
    ~refused /\ login =>
      /\ sentinel # "torn" => flat = "login" \/ old = "login" \/ Readable
      /\ sentinel = "ok" => Readable
HandedOverInv == ~refused /\ pc = "removeOld" => sentinel = "ok" \/ old # "login"
MovedInv ==
    Undisturbed /\ login /\ profiles /\ pc \notin {"moveStatus", "moveCredentials"} =>
        old = "login" \/ Readable
KeptInv ==
    /\ pc = "removeSentinel" => ~login
    /\ HereInv /\ HandedOverInv /\ MovedInv

Inv ==
    /\ TypeOK /\ MigrationInv /\ PoliteInv /\ FindableInv
    /\ LatestInv /\ ErasedInv /\ KeptInv
-----------------------------------------------------------------------------
(***************************************************************************)
(* The steps that leave the storage alone.                                 *)
(***************************************************************************)
\* A command that goes on without an access to the storage.
Onward ==
    /\ UNCHANGED <<files, traces, told, faults>>
    /\ \/ UNCHANGED <<pc, after, held>>
       \/ pc = "idle" /\ pc' = "migrate" /\ UNCHANGED <<after, held>>
       \/ /\ pc \in Opened
          /\ pc = "exit" => pc' = "idle"
          /\ pc' \in (Opened \ {"removeSentinel"}) \cup {"open", "idle"}
          /\ after' \in {after, "none"} /\ held' \in {held, None}

LoginSteps ==
    \/ Run \/ Dispatch \/ Check \/ Look \/ Initiate \/ Offer \/ Poll
    \/ NotAuthorized
    \/ Verify \/ Load \/ Exit \/ UNCHANGED vars

LEMMA OnwardOnly == TypeOK /\ LoginSteps => Onward
<1> SUFFICES ASSUME TypeOK, LoginSteps PROVE Onward
  OBVIOUS
<1> USE DEF Onward, Opened, Goto, Still, Become, storeVars, progress
<1>1. CASE Run
  BY <1>1 DEF Run
<1>2. CASE Dispatch
  BY <1>2 DEF Dispatch, TypeOK, Jobs, Places
<1>3. CASE Check
  BY <1>3 DEF Check, Continue
<1>4. CASE Look
  BY <1>4 DEF Look
<1>5. CASE Initiate
  BY <1>5 DEF Initiate
<1>6. CASE Poll
  BY <1>6 DEF Poll
<1>12. CASE Offer
  BY <1>12 DEF Offer
<1>7. CASE NotAuthorized
  BY <1>7 DEF NotAuthorized
<1>8. CASE Verify
  BY <1>8 DEF Verify, Continue
<1>9. CASE Load
  BY <1>9 DEF Load
<1>10. CASE Exit
  BY <1>10 DEF Exit, Forget
<1>11. CASE UNCHANGED vars
  BY <1>11 DEF vars
<1> QED
  BY <1>1, <1>2, <1>3, <1>4, <1>5, <1>6,
     <1>7, <1>8, <1>9, <1>10, <1>11, <1>12 DEF LoginSteps

\* What these steps change for the types: the loop, the job, the commands.
LEMMA OnwardTypes == TypeOK /\ LoginSteps => TypeOK'
<1> SUFFICES ASSUME TypeOK, LoginSteps PROVE TypeOK'
  OBVIOUS
<1> USE FlowAssumption, LoginAssumption
<1>1. FlowTypeOK'
  <2>1. CASE PollStep
    BY <2>1 DEF TypeOK, FlowTypeOK, PollStep, Wake, Later, Pending, Answered
  <2>2. CASE Begin \/ End
    BY <2>2 DEF FlowTypeOK, Begin, End
  <2>3. CASE UNCHANGED flowVars
    BY <2>3 DEF TypeOK, FlowTypeOK, flowVars
  <2> QED
    BY <2>1, <2>2, <2>3 DEF LoginSteps, Run, Dispatch, Check, Look, Initiate, Offer, Poll,
       NotAuthorized, Verify, Load, Exit, vars
<1>2. job' \in Jobs \cup {"none", "startAuth", "startForce"}
  BY DEF TypeOK, LoginSteps, Run, Dispatch, Check, Look, Initiate, Offer, Poll, Still,
     NotAuthorized, Verify, Load, Exit, Forget, Become, Continue, vars, storeVars,
        progress,
     Jobs
<1>3. given' \in 0 .. MaxCommands
  BY DEF TypeOK, LoginSteps, Run, Dispatch, Check, Look, Initiate, Offer, Poll, Still,
     NotAuthorized, Verify, Load, Exit, Forget, vars, storeVars
<1>4. Onward
  BY OnwardOnly
<1>5. /\ pc' \in Places /\ after' \in {"none", "removeOld", "verify"}
      /\ held' \in 0 .. rank \cup {None}
      /\ pc' \in Storing => held' # None /\ after' # "none"
  BY <1>4 DEF TypeOK, Onward, Opened, Places, Storing
<1>6. pc' # "idle" => job' # "none"
  BY DEF TypeOK, LoginSteps, Run, Dispatch, Check, Look, Initiate, Offer, Poll, Still,
     NotAuthorized, Verify, Load, Exit, Forget, Become, Continue, Goto, vars, storeVars,
     progress, Jobs
<1> QED
  BY <1>1, <1>2, <1>3, <1>4, <1>5, <1>6
  DEF TypeOK, Onward, files, traces, told, faults, Storing

LEMMA OnwardKeeps ==
  TypeOK /\ MigrationInv /\ FindableInv /\ LatestInv /\ ErasedInv /\ KeptInv /\ Onward
    => MigrationInv' /\ FindableInv' /\ LatestInv' /\ ErasedInv' /\ KeptInv'
<1> SUFFICES ASSUME TypeOK, MigrationInv, FindableInv, LatestInv, ErasedInv, KeptInv,
   Onward
             PROVE  MigrationInv' /\ FindableInv' /\ LatestInv' /\ ErasedInv' /\ KeptInv'
  OBVIOUS
<1> USE DEF Onward, files, traces, told, faults, Opened, Moving, Readable
<1>1. MigrationInv'
  BY DEF MigrationInv
<1>2. FindableInv'
  BY DEF FindableInv, Undisturbed
<1>3. LatestInv'
  BY DEF LatestInv, Storing
<1>4. ErasedInv'
  BY DEF ErasedInv, Undisturbed
<1>5. KeptInv'
  BY DEF KeptInv, HereInv, HandedOverInv, MovedInv, Undisturbed
<1> QED
  BY <1>1, <1>2, <1>3, <1>4, <1>5

-----------------------------------------------------------------------------
(***************************************************************************)
(* The accesses to the storage.                                            *)
(***************************************************************************)
LEMMA MigrateKeeps ==
  ASSUME TypeOK, MigrationInv, FindableInv, LatestInv, ErasedInv, KeptInv,
         Migrate, UNCHANGED <<flowVars, given>>
  PROVE  /\ TypeOK' /\ MigrationInv' /\ FindableInv'
         /\ LatestInv' /\ ErasedInv' /\ KeptInv'
<1> USE StoreAssumption, FlowAssumption, LoginAssumption
    DEF Migrate, Goto, files, traces, told, faults, Moving, Opened, Readable
<1>1. TypeOK'
  <2>1. FlowTypeOK' /\ given' \in 0 .. MaxCommands
    BY DEF TypeOK, FlowTypeOK, flowVars
  <2>2. /\ profiles' \in BOOLEAN
        /\ flat' \in {"none", "login"} /\ old' \in {"none", "login", "torn"}
        /\ sentinel' \in {"none", "ok", "torn"} /\ keyring' \in 0 .. rank' \cup {None}
    BY DEF TypeOK
  <2>3. /\ instance' \in BOOLEAN
        /\ flatStatus' \in {"none", "live"} /\ status' \in {"none", "live", "torn"}
        /\ legacyPid' \in {"none", "live", "stale"}
    BY DEF TypeOK
  <2>4. /\ job' \in Jobs \cup {"none", "startAuth", "startForce"}
        /\ pc' # "idle" => job' # "none"
    BY DEF TypeOK
  <2>5. pc' \in Places /\ after' \in {"none", "removeOld", "verify"}
    BY DEF TypeOK, Places
  <2>6. /\ held' \in 0 .. rank' \cup {None}
        /\ pc' \in {"setKeyring", "writeSentinel"} => held' # None /\ after' # "none"
    BY DEF TypeOK
  <2>7. rank' \in Nat /\ floor' \in 0 .. rank' + 1
    BY DEF TypeOK
  <2>8. /\ login' \in BOOLEAN /\ refused' \in BOOLEAN /\ interrupted' \in BOOLEAN
    BY DEF TypeOK
  <2> QED
    BY <2>1, <2>2, <2>3, <2>4, <2>5, <2>6, <2>7, <2>8 DEF TypeOK
<1>2. MigrationInv'
  BY DEF MigrationInv, TypeOK
<1>3. FindableInv'
  BY DEF FindableInv, MigrationInv, Undisturbed, TypeOK
<1>4. LatestInv'
  BY DEF LatestInv, Storing, TypeOK
<1>5. ErasedInv'
  BY DEF ErasedInv, Undisturbed, TypeOK
<1>6. KeptInv'
  <2>1. (pc = "removeSentinel" => ~login)'
    BY DEF KeptInv, TypeOK
  <2>2. HereInv'
    BY DEF KeptInv, HereInv, HandedOverInv, MigrationInv, LatestInv, Storing, TypeOK
  <2>3. HandedOverInv'
    BY DEF KeptInv, HandedOverInv, TypeOK
  <2>4. MovedInv'
    BY DEF KeptInv, HereInv, HandedOverInv, MovedInv, MigrationInv, ErasedInv,
       LatestInv, Storing, Undisturbed, TypeOK
  <2> QED
    BY <2>1, <2>2, <2>3, <2>4 DEF KeptInv
<1> QED
  BY <1>1, <1>2, <1>3, <1>4, <1>5, <1>6

LEMMA MkdirKeeps ==
  ASSUME TypeOK, MigrationInv, FindableInv, LatestInv, ErasedInv, KeptInv,
         Mkdir, UNCHANGED <<flowVars, given>>
  PROVE  /\ TypeOK' /\ MigrationInv' /\ FindableInv'
         /\ LatestInv' /\ ErasedInv' /\ KeptInv'
<1> USE StoreAssumption, FlowAssumption, LoginAssumption
    DEF Mkdir, Goto, files, traces, told, faults, Moving, Opened, Readable, Refuse
<1>1. TypeOK'
  <2>1. FlowTypeOK' /\ given' \in 0 .. MaxCommands
    BY DEF TypeOK, FlowTypeOK, flowVars
  <2>2. /\ profiles' \in BOOLEAN
        /\ flat' \in {"none", "login"} /\ old' \in {"none", "login", "torn"}
        /\ sentinel' \in {"none", "ok", "torn"} /\ keyring' \in 0 .. rank' \cup {None}
    BY DEF TypeOK
  <2>3. /\ instance' \in BOOLEAN
        /\ flatStatus' \in {"none", "live"} /\ status' \in {"none", "live", "torn"}
        /\ legacyPid' \in {"none", "live", "stale"}
    BY DEF TypeOK
  <2>4. /\ job' \in Jobs \cup {"none", "startAuth", "startForce"}
        /\ pc' # "idle" => job' # "none"
    BY DEF TypeOK
  <2>5. pc' \in Places /\ after' \in {"none", "removeOld", "verify"}
    BY DEF TypeOK, Places
  <2>6. /\ held' \in 0 .. rank' \cup {None}
        /\ pc' \in {"setKeyring", "writeSentinel"} => held' # None /\ after' # "none"
    BY DEF TypeOK
  <2>7. rank' \in Nat /\ floor' \in 0 .. rank' + 1
    BY DEF TypeOK
  <2>8. /\ login' \in BOOLEAN /\ refused' \in BOOLEAN /\ interrupted' \in BOOLEAN
    BY DEF TypeOK
  <2> QED
    BY <2>1, <2>2, <2>3, <2>4, <2>5, <2>6, <2>7, <2>8 DEF TypeOK
<1>2. MigrationInv'
  BY DEF MigrationInv, TypeOK
<1>3. FindableInv'
  BY DEF FindableInv, MigrationInv, Undisturbed, TypeOK
<1>4. LatestInv'
  BY DEF LatestInv, Storing, MigrationInv, TypeOK
<1>5. ErasedInv'
  BY DEF ErasedInv, Undisturbed, TypeOK
<1>6. KeptInv'
  <2>1. (pc = "removeSentinel" => ~login)'
    BY DEF KeptInv, TypeOK
  <2>2. HereInv'
    BY DEF KeptInv, HereInv, HandedOverInv, MigrationInv, LatestInv, Storing, TypeOK
  <2>3. HandedOverInv'
    BY DEF KeptInv, HandedOverInv, TypeOK
  <2>4. MovedInv'
    BY DEF KeptInv, HereInv, HandedOverInv, MovedInv, MigrationInv, ErasedInv,
       LatestInv, Storing, Undisturbed, TypeOK
  <2> QED
    BY <2>1, <2>2, <2>3, <2>4 DEF KeptInv
<1> QED
  BY <1>1, <1>2, <1>3, <1>4, <1>5, <1>6

LEMMA MoveStatusKeeps ==
  ASSUME TypeOK, MigrationInv, FindableInv, LatestInv, ErasedInv, KeptInv,
         MoveStatus, UNCHANGED <<flowVars, given>>
  PROVE  /\ TypeOK' /\ MigrationInv' /\ FindableInv'
         /\ LatestInv' /\ ErasedInv' /\ KeptInv'
<1> USE StoreAssumption, FlowAssumption, LoginAssumption
    DEF MoveStatus, Goto, files, traces, told, faults, Moving, Opened, Readable,
       Moves, Refuse
<1>1. TypeOK'
  <2>1. FlowTypeOK' /\ given' \in 0 .. MaxCommands
    BY DEF TypeOK, FlowTypeOK, flowVars
  <2>2. /\ profiles' \in BOOLEAN
        /\ flat' \in {"none", "login"} /\ old' \in {"none", "login", "torn"}
        /\ sentinel' \in {"none", "ok", "torn"} /\ keyring' \in 0 .. rank' \cup {None}
    BY DEF TypeOK
  <2>3. /\ instance' \in BOOLEAN
        /\ flatStatus' \in {"none", "live"} /\ status' \in {"none", "live", "torn"}
        /\ legacyPid' \in {"none", "live", "stale"}
    BY DEF TypeOK
  <2>4. /\ job' \in Jobs \cup {"none", "startAuth", "startForce"}
        /\ pc' # "idle" => job' # "none"
    BY DEF TypeOK
  <2>5. pc' \in Places /\ after' \in {"none", "removeOld", "verify"}
    BY DEF TypeOK, Places
  <2>6. /\ held' \in 0 .. rank' \cup {None}
        /\ pc' \in {"setKeyring", "writeSentinel"} => held' # None /\ after' # "none"
    BY DEF TypeOK
  <2>7. rank' \in Nat /\ floor' \in 0 .. rank' + 1
    BY DEF TypeOK
  <2>8. /\ login' \in BOOLEAN /\ refused' \in BOOLEAN /\ interrupted' \in BOOLEAN
    BY DEF TypeOK
  <2> QED
    BY <2>1, <2>2, <2>3, <2>4, <2>5, <2>6, <2>7, <2>8 DEF TypeOK
<1>2. MigrationInv'
  BY DEF MigrationInv, TypeOK
<1>3. FindableInv'
  BY DEF FindableInv, MigrationInv, Undisturbed, TypeOK
<1>4. LatestInv'
  BY DEF LatestInv, Storing, TypeOK
<1>5. ErasedInv'
  BY DEF ErasedInv, Undisturbed, TypeOK
<1>6. KeptInv'
  <2>1. (pc = "removeSentinel" => ~login)'
    BY DEF KeptInv, TypeOK
  <2>2. HereInv'
    BY DEF KeptInv, HereInv, HandedOverInv, MigrationInv, LatestInv, Storing, TypeOK
  <2>3. HandedOverInv'
    BY DEF KeptInv, HandedOverInv, TypeOK
  <2>4. MovedInv'
    BY DEF KeptInv, HereInv, HandedOverInv, MovedInv, MigrationInv, ErasedInv,
       LatestInv, Storing, Undisturbed, TypeOK
  <2> QED
    BY <2>1, <2>2, <2>3, <2>4 DEF KeptInv
<1> QED
  BY <1>1, <1>2, <1>3, <1>4, <1>5, <1>6

LEMMA MoveCredentialsKeeps ==
  ASSUME TypeOK, MigrationInv, FindableInv, LatestInv, ErasedInv, KeptInv,
         MoveCredentials, UNCHANGED <<flowVars, given>>
  PROVE  /\ TypeOK' /\ MigrationInv' /\ FindableInv'
         /\ LatestInv' /\ ErasedInv' /\ KeptInv'
<1> USE StoreAssumption, FlowAssumption, LoginAssumption
    DEF MoveCredentials, Goto, files, traces, told, faults, Moving, Opened, Readable,
       Moves, Refuse
<1>1. TypeOK'
  <2>1. FlowTypeOK' /\ given' \in 0 .. MaxCommands
    BY DEF TypeOK, FlowTypeOK, flowVars
  <2>2. /\ profiles' \in BOOLEAN
        /\ flat' \in {"none", "login"} /\ old' \in {"none", "login", "torn"}
        /\ sentinel' \in {"none", "ok", "torn"} /\ keyring' \in 0 .. rank' \cup {None}
    BY DEF TypeOK
  <2>3. /\ instance' \in BOOLEAN
        /\ flatStatus' \in {"none", "live"} /\ status' \in {"none", "live", "torn"}
        /\ legacyPid' \in {"none", "live", "stale"}
    BY DEF TypeOK
  <2>4. /\ job' \in Jobs \cup {"none", "startAuth", "startForce"}
        /\ pc' # "idle" => job' # "none"
    BY DEF TypeOK
  <2>5. pc' \in Places /\ after' \in {"none", "removeOld", "verify"}
    BY DEF TypeOK, Places
  <2>6. /\ held' \in 0 .. rank' \cup {None}
        /\ pc' \in {"setKeyring", "writeSentinel"} => held' # None /\ after' # "none"
    BY DEF TypeOK
  <2>7. rank' \in Nat /\ floor' \in 0 .. rank' + 1
    BY DEF TypeOK
  <2>8. /\ login' \in BOOLEAN /\ refused' \in BOOLEAN /\ interrupted' \in BOOLEAN
    BY DEF TypeOK
  <2> QED
    BY <2>1, <2>2, <2>3, <2>4, <2>5, <2>6, <2>7, <2>8 DEF TypeOK
<1>2. MigrationInv'
  BY DEF MigrationInv, TypeOK
<1>3. FindableInv'
  BY DEF FindableInv, MigrationInv, Undisturbed, TypeOK
<1>4. LatestInv'
  BY DEF LatestInv, Storing, TypeOK
<1>5. ErasedInv'
  BY DEF ErasedInv, Undisturbed, TypeOK
<1>6. KeptInv'
  <2>1. (pc = "removeSentinel" => ~login)'
    BY DEF KeptInv, TypeOK
  <2>2. HereInv'
    BY DEF KeptInv, HereInv, HandedOverInv, MigrationInv, LatestInv, Storing, TypeOK
  <2>3. HandedOverInv'
    BY DEF KeptInv, HandedOverInv, TypeOK
  <2>4. MovedInv'
    BY DEF KeptInv, HereInv, HandedOverInv, MovedInv, MigrationInv, ErasedInv,
       LatestInv, Storing, Undisturbed, TypeOK
  <2> QED
    BY <2>1, <2>2, <2>3, <2>4 DEF KeptInv
<1> QED
  BY <1>1, <1>2, <1>3, <1>4, <1>5, <1>6

LEMMA MovePidKeeps ==
  ASSUME TypeOK, MigrationInv, FindableInv, LatestInv, ErasedInv, KeptInv,
         MovePid, UNCHANGED <<flowVars, given>>
  PROVE  /\ TypeOK' /\ MigrationInv' /\ FindableInv'
         /\ LatestInv' /\ ErasedInv' /\ KeptInv'
<1> USE StoreAssumption, FlowAssumption, LoginAssumption
    DEF MovePid, Goto, files, traces, told, faults, Moving, Opened, Readable, Refuse
<1>1. TypeOK'
  <2>1. FlowTypeOK' /\ given' \in 0 .. MaxCommands
    BY DEF TypeOK, FlowTypeOK, flowVars
  <2>2. /\ profiles' \in BOOLEAN
        /\ flat' \in {"none", "login"} /\ old' \in {"none", "login", "torn"}
        /\ sentinel' \in {"none", "ok", "torn"} /\ keyring' \in 0 .. rank' \cup {None}
    BY DEF TypeOK
  <2>3. /\ instance' \in BOOLEAN
        /\ flatStatus' \in {"none", "live"} /\ status' \in {"none", "live", "torn"}
        /\ legacyPid' \in {"none", "live", "stale"}
    BY DEF TypeOK
  <2>4. /\ job' \in Jobs \cup {"none", "startAuth", "startForce"}
        /\ pc' # "idle" => job' # "none"
    BY DEF TypeOK
  <2>5. pc' \in Places /\ after' \in {"none", "removeOld", "verify"}
    BY DEF TypeOK, Places
  <2>6. /\ held' \in 0 .. rank' \cup {None}
        /\ pc' \in {"setKeyring", "writeSentinel"} => held' # None /\ after' # "none"
    BY DEF TypeOK
  <2>7. rank' \in Nat /\ floor' \in 0 .. rank' + 1
    BY DEF TypeOK
  <2>8. /\ login' \in BOOLEAN /\ refused' \in BOOLEAN /\ interrupted' \in BOOLEAN
    BY DEF TypeOK
  <2> QED
    BY <2>1, <2>2, <2>3, <2>4, <2>5, <2>6, <2>7, <2>8 DEF TypeOK
<1>2. MigrationInv'
  BY DEF MigrationInv, TypeOK
<1>3. FindableInv'
  BY DEF FindableInv, MigrationInv, Undisturbed, TypeOK
<1>4. LatestInv'
  BY DEF LatestInv, Storing, TypeOK
<1>5. ErasedInv'
  BY DEF ErasedInv, Undisturbed, TypeOK
<1>6. KeptInv'
  <2>1. (pc = "removeSentinel" => ~login)'
    BY DEF KeptInv, TypeOK
  <2>2. HereInv'
    BY DEF KeptInv, HereInv, HandedOverInv, MigrationInv, LatestInv, Storing, TypeOK
  <2>3. HandedOverInv'
    BY DEF KeptInv, HandedOverInv, TypeOK
  <2>4. MovedInv'
    BY DEF KeptInv, HereInv, HandedOverInv, MovedInv, MigrationInv, ErasedInv,
       LatestInv, Storing, Undisturbed, TypeOK
  <2> QED
    BY <2>1, <2>2, <2>3, <2>4 DEF KeptInv
<1> QED
  BY <1>1, <1>2, <1>3, <1>4, <1>5, <1>6

LEMMA GetProfileKeeps ==
  ASSUME TypeOK, MigrationInv, FindableInv, LatestInv, ErasedInv, KeptInv,
         GetProfile, UNCHANGED <<flowVars, given>>
  PROVE  /\ TypeOK' /\ MigrationInv' /\ FindableInv'
         /\ LatestInv' /\ ErasedInv' /\ KeptInv'
<1> USE StoreAssumption, FlowAssumption, LoginAssumption
    DEF GetProfile, Goto, files, traces, told, faults, Moving, Opened, Readable, Refuse
<1>1. TypeOK'
  <2>1. FlowTypeOK' /\ given' \in 0 .. MaxCommands
    BY DEF TypeOK, FlowTypeOK, flowVars
  <2>2. /\ profiles' \in BOOLEAN
        /\ flat' \in {"none", "login"} /\ old' \in {"none", "login", "torn"}
        /\ sentinel' \in {"none", "ok", "torn"} /\ keyring' \in 0 .. rank' \cup {None}
    BY DEF TypeOK
  <2>3. /\ instance' \in BOOLEAN
        /\ flatStatus' \in {"none", "live"} /\ status' \in {"none", "live", "torn"}
        /\ legacyPid' \in {"none", "live", "stale"}
    BY DEF TypeOK
  <2>4. /\ job' \in Jobs \cup {"none", "startAuth", "startForce"}
        /\ pc' # "idle" => job' # "none"
    BY DEF TypeOK
  <2>5. pc' \in Places /\ after' \in {"none", "removeOld", "verify"}
    BY DEF TypeOK, Places
  <2>6. /\ held' \in 0 .. rank' \cup {None}
        /\ pc' \in {"setKeyring", "writeSentinel"} => held' # None /\ after' # "none"
    BY DEF TypeOK
  <2>7. rank' \in Nat /\ floor' \in 0 .. rank' + 1
    BY DEF TypeOK
  <2>8. /\ login' \in BOOLEAN /\ refused' \in BOOLEAN /\ interrupted' \in BOOLEAN
    BY DEF TypeOK
  <2> QED
    BY <2>1, <2>2, <2>3, <2>4, <2>5, <2>6, <2>7, <2>8 DEF TypeOK
<1>2. MigrationInv'
  BY DEF MigrationInv, TypeOK
<1>3. FindableInv'
  BY DEF FindableInv, MigrationInv, Undisturbed, TypeOK
<1>4. LatestInv'
  BY DEF LatestInv, Storing, TypeOK
<1>5. ErasedInv'
  BY DEF ErasedInv, Undisturbed, TypeOK
<1>6. KeptInv'
  <2>1. (pc = "removeSentinel" => ~login)'
    BY DEF KeptInv, TypeOK
  <2>2. HereInv'
    BY DEF KeptInv, HereInv, HandedOverInv, MigrationInv, LatestInv, Storing, TypeOK
  <2>3. HandedOverInv'
    BY DEF KeptInv, HandedOverInv, TypeOK
  <2>4. MovedInv'
    BY DEF KeptInv, HereInv, HandedOverInv, MovedInv, MigrationInv, ErasedInv,
       LatestInv, Storing, Undisturbed, TypeOK
  <2> QED
    BY <2>1, <2>2, <2>3, <2>4 DEF KeptInv
<1> QED
  BY <1>1, <1>2, <1>3, <1>4, <1>5, <1>6

LEMMA OpenStorageKeeps ==
  ASSUME TypeOK, MigrationInv, FindableInv, LatestInv, ErasedInv, KeptInv,
         OpenStorage, UNCHANGED <<flowVars, given>>
  PROVE  /\ TypeOK' /\ MigrationInv' /\ FindableInv'
         /\ LatestInv' /\ ErasedInv' /\ KeptInv'
<1> USE StoreAssumption, FlowAssumption, LoginAssumption
    DEF OpenStorage, Goto, files, traces, told, faults, Moving, Opened, Readable
<1>1. TypeOK'
  <2>1. FlowTypeOK' /\ given' \in 0 .. MaxCommands
    BY DEF TypeOK, FlowTypeOK, flowVars
  <2>2. /\ profiles' \in BOOLEAN
        /\ flat' \in {"none", "login"} /\ old' \in {"none", "login", "torn"}
        /\ sentinel' \in {"none", "ok", "torn"} /\ keyring' \in 0 .. rank' \cup {None}
    BY DEF TypeOK
  <2>3. /\ instance' \in BOOLEAN
        /\ flatStatus' \in {"none", "live"} /\ status' \in {"none", "live", "torn"}
        /\ legacyPid' \in {"none", "live", "stale"}
    BY DEF TypeOK
  <2>4. /\ job' \in Jobs \cup {"none", "startAuth", "startForce"}
        /\ pc' # "idle" => job' # "none"
    BY DEF TypeOK
  <2>5. pc' \in Places /\ after' \in {"none", "removeOld", "verify"}
    BY DEF TypeOK, Places
  <2>6. /\ held' \in 0 .. rank' \cup {None}
        /\ pc' \in {"setKeyring", "writeSentinel"} => held' # None /\ after' # "none"
    BY DEF TypeOK
  <2>7. rank' \in Nat /\ floor' \in 0 .. rank' + 1
    BY DEF TypeOK
  <2>8. /\ login' \in BOOLEAN /\ refused' \in BOOLEAN /\ interrupted' \in BOOLEAN
    BY DEF TypeOK
  <2> QED
    BY <2>1, <2>2, <2>3, <2>4, <2>5, <2>6, <2>7, <2>8 DEF TypeOK
<1>2. MigrationInv'
  BY DEF MigrationInv, TypeOK
<1>3. FindableInv'
  BY DEF FindableInv, MigrationInv, Undisturbed, TypeOK
<1>4. LatestInv'
  BY DEF LatestInv, Storing, TypeOK
<1>5. ErasedInv'
  BY DEF ErasedInv, Undisturbed, TypeOK
<1>6. KeptInv'
  <2>1. (pc = "removeSentinel" => ~login)'
    BY DEF KeptInv, TypeOK
  <2>2. HereInv'
    BY DEF KeptInv, HereInv, HandedOverInv, MigrationInv, LatestInv, Storing, TypeOK
  <2>3. HandedOverInv'
    BY DEF KeptInv, HandedOverInv, TypeOK
  <2>4. MovedInv'
    BY DEF KeptInv, HereInv, HandedOverInv, MovedInv, MigrationInv, ErasedInv,
       LatestInv, Storing, Undisturbed, TypeOK
  <2> QED
    BY <2>1, <2>2, <2>3, <2>4 DEF KeptInv
<1> QED
  BY <1>1, <1>2, <1>3, <1>4, <1>5, <1>6

LEMMA RemoveOldKeeps ==
  ASSUME TypeOK, MigrationInv, FindableInv, LatestInv, ErasedInv, KeptInv,
         RemoveOld, UNCHANGED <<flowVars, given>>
  PROVE  /\ TypeOK' /\ MigrationInv' /\ FindableInv'
         /\ LatestInv' /\ ErasedInv' /\ KeptInv'
<1> USE StoreAssumption, FlowAssumption, LoginAssumption
    DEF RemoveOld, Goto, files, traces, told, faults, Moving, Opened, Readable, Refuse
<1>1. TypeOK'
  <2>1. FlowTypeOK' /\ given' \in 0 .. MaxCommands
    BY DEF TypeOK, FlowTypeOK, flowVars
  <2>2. /\ profiles' \in BOOLEAN
        /\ flat' \in {"none", "login"} /\ old' \in {"none", "login", "torn"}
        /\ sentinel' \in {"none", "ok", "torn"} /\ keyring' \in 0 .. rank' \cup {None}
    BY DEF TypeOK
  <2>3. /\ instance' \in BOOLEAN
        /\ flatStatus' \in {"none", "live"} /\ status' \in {"none", "live", "torn"}
        /\ legacyPid' \in {"none", "live", "stale"}
    BY DEF TypeOK
  <2>4. /\ job' \in Jobs \cup {"none", "startAuth", "startForce"}
        /\ pc' # "idle" => job' # "none"
    BY DEF TypeOK
  <2>5. pc' \in Places /\ after' \in {"none", "removeOld", "verify"}
    BY DEF TypeOK, Places
  <2>6. /\ held' \in 0 .. rank' \cup {None}
        /\ pc' \in {"setKeyring", "writeSentinel"} => held' # None /\ after' # "none"
    BY DEF TypeOK
  <2>7. rank' \in Nat /\ floor' \in 0 .. rank' + 1
    BY DEF TypeOK
  <2>8. /\ login' \in BOOLEAN /\ refused' \in BOOLEAN /\ interrupted' \in BOOLEAN
    BY DEF TypeOK
  <2> QED
    BY <2>1, <2>2, <2>3, <2>4, <2>5, <2>6, <2>7, <2>8 DEF TypeOK
<1>2. MigrationInv'
  BY DEF MigrationInv, TypeOK
<1>3. FindableInv'
  BY DEF FindableInv, MigrationInv, Undisturbed, TypeOK
<1>4. LatestInv'
  BY DEF LatestInv, Storing, TypeOK
<1>5. ErasedInv'
  BY DEF ErasedInv, Undisturbed, TypeOK
<1>6. KeptInv'
  <2>1. (pc = "removeSentinel" => ~login)'
    BY DEF KeptInv, TypeOK
  <2>2. HereInv'
    BY DEF KeptInv, HereInv, HandedOverInv, MigrationInv, LatestInv, Storing, TypeOK
  <2>3. HandedOverInv'
    BY DEF KeptInv, HandedOverInv, TypeOK
  <2>4. MovedInv'
    BY DEF KeptInv, HereInv, HandedOverInv, MovedInv, MigrationInv, ErasedInv,
       LatestInv, Storing, Undisturbed, TypeOK
  <2> QED
    BY <2>1, <2>2, <2>3, <2>4 DEF KeptInv
<1> QED
  BY <1>1, <1>2, <1>3, <1>4, <1>5, <1>6

LEMMA SetKeyringKeeps ==
  ASSUME TypeOK, MigrationInv, FindableInv, LatestInv, ErasedInv, KeptInv,
         SetKeyring, UNCHANGED <<flowVars, given>>
  PROVE  /\ TypeOK' /\ MigrationInv' /\ FindableInv'
         /\ LatestInv' /\ ErasedInv' /\ KeptInv'
<1> USE StoreAssumption, FlowAssumption, LoginAssumption
    DEF SetKeyring, Goto, files, traces, told, faults, Moving, Opened, Readable,
       StoreFails, Refuse
<1>1. TypeOK'
  <2>1. FlowTypeOK' /\ given' \in 0 .. MaxCommands
    BY DEF TypeOK, FlowTypeOK, flowVars
  <2>2. /\ profiles' \in BOOLEAN
        /\ flat' \in {"none", "login"} /\ old' \in {"none", "login", "torn"}
        /\ sentinel' \in {"none", "ok", "torn"} /\ keyring' \in 0 .. rank' \cup {None}
    BY DEF TypeOK
  <2>3. /\ instance' \in BOOLEAN
        /\ flatStatus' \in {"none", "live"} /\ status' \in {"none", "live", "torn"}
        /\ legacyPid' \in {"none", "live", "stale"}
    BY DEF TypeOK
  <2>4. /\ job' \in Jobs \cup {"none", "startAuth", "startForce"}
        /\ pc' # "idle" => job' # "none"
    BY DEF TypeOK
  <2>5. pc' \in Places /\ after' \in {"none", "removeOld", "verify"}
    BY DEF TypeOK, Places
  <2>6. /\ held' \in 0 .. rank' \cup {None}
        /\ pc' \in {"setKeyring", "writeSentinel"} => held' # None /\ after' # "none"
    BY DEF TypeOK
  <2>7. rank' \in Nat /\ floor' \in 0 .. rank' + 1
    BY DEF TypeOK
  <2>8. /\ login' \in BOOLEAN /\ refused' \in BOOLEAN /\ interrupted' \in BOOLEAN
    BY DEF TypeOK
  <2> QED
    BY <2>1, <2>2, <2>3, <2>4, <2>5, <2>6, <2>7, <2>8 DEF TypeOK
<1>2. MigrationInv'
  BY DEF MigrationInv, TypeOK
<1>3. FindableInv'
  BY DEF FindableInv, MigrationInv, Undisturbed, TypeOK
<1>4. LatestInv'
  BY DEF LatestInv, Storing, TypeOK
<1>5. ErasedInv'
  BY DEF ErasedInv, Undisturbed, TypeOK
<1>6. KeptInv'
  <2>1. (pc = "removeSentinel" => ~login)'
    BY DEF KeptInv, TypeOK
  <2>2. HereInv'
    BY DEF KeptInv, HereInv, HandedOverInv, MigrationInv, LatestInv, Storing, TypeOK
  <2>3. HandedOverInv'
    BY DEF KeptInv, HandedOverInv, TypeOK
  <2>4. MovedInv'
    BY DEF KeptInv, HereInv, HandedOverInv, MovedInv, MigrationInv, ErasedInv,
       LatestInv, Storing, Undisturbed, TypeOK
  <2> QED
    BY <2>1, <2>2, <2>3, <2>4 DEF KeptInv
<1> QED
  BY <1>1, <1>2, <1>3, <1>4, <1>5, <1>6

LEMMA WriteSentinelKeeps ==
  ASSUME TypeOK, MigrationInv, FindableInv, LatestInv, ErasedInv, KeptInv,
         WriteSentinel, UNCHANGED <<flowVars, given>>
  PROVE  /\ TypeOK' /\ MigrationInv' /\ FindableInv'
         /\ LatestInv' /\ ErasedInv' /\ KeptInv'
<1> USE StoreAssumption, FlowAssumption, LoginAssumption
    DEF WriteSentinel, Goto, files, traces, told, faults, Moving, Opened, Readable,
       StoreFails, Refuse
<1>1. TypeOK'
  <2>1. FlowTypeOK' /\ given' \in 0 .. MaxCommands
    BY DEF TypeOK, FlowTypeOK, flowVars
  <2>2. /\ profiles' \in BOOLEAN
        /\ flat' \in {"none", "login"} /\ old' \in {"none", "login", "torn"}
        /\ sentinel' \in {"none", "ok", "torn"} /\ keyring' \in 0 .. rank' \cup {None}
    BY DEF TypeOK
  <2>3. /\ instance' \in BOOLEAN
        /\ flatStatus' \in {"none", "live"} /\ status' \in {"none", "live", "torn"}
        /\ legacyPid' \in {"none", "live", "stale"}
    BY DEF TypeOK
  <2>4. /\ job' \in Jobs \cup {"none", "startAuth", "startForce"}
        /\ pc' # "idle" => job' # "none"
    BY DEF TypeOK
  <2>5. pc' \in Places /\ after' \in {"none", "removeOld", "verify"}
    BY DEF TypeOK, Places
  <2>6. /\ held' \in 0 .. rank' \cup {None}
        /\ pc' \in {"setKeyring", "writeSentinel"} => held' # None /\ after' # "none"
    BY DEF TypeOK
  <2>7. rank' \in Nat /\ floor' \in 0 .. rank' + 1
    BY DEF TypeOK
  <2>8. /\ login' \in BOOLEAN /\ refused' \in BOOLEAN /\ interrupted' \in BOOLEAN
    BY DEF TypeOK
  <2> QED
    BY <2>1, <2>2, <2>3, <2>4, <2>5, <2>6, <2>7, <2>8 DEF TypeOK
<1>2. MigrationInv'
  BY DEF MigrationInv, TypeOK
<1>3. FindableInv'
  BY DEF FindableInv, MigrationInv, Undisturbed, TypeOK
<1>4. LatestInv'
  BY DEF LatestInv, Storing, TypeOK
<1>5. ErasedInv'
  BY DEF ErasedInv, Undisturbed, LatestInv, Storing, TypeOK
<1>6. KeptInv'
  <2>1. (pc = "removeSentinel" => ~login)'
    BY DEF KeptInv, TypeOK
  <2>2. HereInv'
    BY DEF KeptInv, HereInv, HandedOverInv, MigrationInv, LatestInv, Storing, TypeOK
  <2>3. HandedOverInv'
    BY DEF KeptInv, HandedOverInv, TypeOK
  <2>4. MovedInv'
    BY DEF KeptInv, HereInv, HandedOverInv, MovedInv, MigrationInv, ErasedInv,
       LatestInv, Storing, Undisturbed, TypeOK
  <2> QED
    BY <2>1, <2>2, <2>3, <2>4 DEF KeptInv
<1> QED
  BY <1>1, <1>2, <1>3, <1>4, <1>5, <1>6

LEMMA EraseKeeps ==
  ASSUME TypeOK, MigrationInv, FindableInv, LatestInv, ErasedInv, KeptInv,
         Erase, UNCHANGED <<flowVars, given>>
  PROVE  /\ TypeOK' /\ MigrationInv' /\ FindableInv'
         /\ LatestInv' /\ ErasedInv' /\ KeptInv'
<1> USE StoreAssumption, FlowAssumption, LoginAssumption
    DEF Erase, Goto, files, traces, told, faults, Moving, Opened, Readable, Refuse
<1>1. TypeOK'
  <2>1. FlowTypeOK' /\ given' \in 0 .. MaxCommands
    BY DEF TypeOK, FlowTypeOK, flowVars
  <2>2. /\ profiles' \in BOOLEAN
        /\ flat' \in {"none", "login"} /\ old' \in {"none", "login", "torn"}
        /\ sentinel' \in {"none", "ok", "torn"} /\ keyring' \in 0 .. rank' \cup {None}
    BY DEF TypeOK
  <2>3. /\ instance' \in BOOLEAN
        /\ flatStatus' \in {"none", "live"} /\ status' \in {"none", "live", "torn"}
        /\ legacyPid' \in {"none", "live", "stale"}
    BY DEF TypeOK
  <2>4. /\ job' \in Jobs \cup {"none", "startAuth", "startForce"}
        /\ pc' # "idle" => job' # "none"
    BY DEF TypeOK
  <2>5. pc' \in Places /\ after' \in {"none", "removeOld", "verify"}
    BY DEF TypeOK, Places
  <2>6. /\ held' \in 0 .. rank' \cup {None}
        /\ pc' \in {"setKeyring", "writeSentinel"} => held' # None /\ after' # "none"
    BY DEF TypeOK
  <2>7. rank' \in Nat /\ floor' \in 0 .. rank' + 1
    BY DEF TypeOK
  <2>8. /\ login' \in BOOLEAN /\ refused' \in BOOLEAN /\ interrupted' \in BOOLEAN
    BY DEF TypeOK
  <2> QED
    BY <2>1, <2>2, <2>3, <2>4, <2>5, <2>6, <2>7, <2>8 DEF TypeOK
<1>2. MigrationInv'
  BY DEF MigrationInv, TypeOK
<1>3. FindableInv'
  BY DEF FindableInv, MigrationInv, Undisturbed, TypeOK
<1>4. LatestInv'
  BY DEF LatestInv, Storing, TypeOK
<1>5. ErasedInv'
  BY DEF ErasedInv, Undisturbed, TypeOK
<1>6. KeptInv'
  <2>1. (pc = "removeSentinel" => ~login)'
    BY DEF KeptInv, TypeOK
  <2>2. HereInv'
    BY DEF KeptInv, HereInv, HandedOverInv, MigrationInv, LatestInv, Storing, TypeOK
  <2>3. HandedOverInv'
    BY DEF KeptInv, HandedOverInv, TypeOK
  <2>4. MovedInv'
    BY DEF KeptInv, HereInv, HandedOverInv, MovedInv, MigrationInv, ErasedInv,
       LatestInv, Storing, Undisturbed, TypeOK
  <2> QED
    BY <2>1, <2>2, <2>3, <2>4 DEF KeptInv
<1> QED
  BY <1>1, <1>2, <1>3, <1>4, <1>5, <1>6

LEMMA RemoveSentinelKeeps ==
  ASSUME TypeOK, MigrationInv, FindableInv, LatestInv, ErasedInv, KeptInv,
         RemoveSentinel, UNCHANGED <<flowVars, given>>
  PROVE  /\ TypeOK' /\ MigrationInv' /\ FindableInv'
         /\ LatestInv' /\ ErasedInv' /\ KeptInv'
<1> USE StoreAssumption, FlowAssumption, LoginAssumption
    DEF RemoveSentinel, Goto, files, traces, told, faults, Moving, Opened, Readable,
       Refuse
<1>1. TypeOK'
  <2>1. FlowTypeOK' /\ given' \in 0 .. MaxCommands
    BY DEF TypeOK, FlowTypeOK, flowVars
  <2>2. /\ profiles' \in BOOLEAN
        /\ flat' \in {"none", "login"} /\ old' \in {"none", "login", "torn"}
        /\ sentinel' \in {"none", "ok", "torn"} /\ keyring' \in 0 .. rank' \cup {None}
    BY DEF TypeOK
  <2>3. /\ instance' \in BOOLEAN
        /\ flatStatus' \in {"none", "live"} /\ status' \in {"none", "live", "torn"}
        /\ legacyPid' \in {"none", "live", "stale"}
    BY DEF TypeOK
  <2>4. /\ job' \in Jobs \cup {"none", "startAuth", "startForce"}
        /\ pc' # "idle" => job' # "none"
    BY DEF TypeOK
  <2>5. pc' \in Places /\ after' \in {"none", "removeOld", "verify"}
    BY DEF TypeOK, Places
  <2>6. /\ held' \in 0 .. rank' \cup {None}
        /\ pc' \in {"setKeyring", "writeSentinel"} => held' # None /\ after' # "none"
    BY DEF TypeOK
  <2>7. rank' \in Nat /\ floor' \in 0 .. rank' + 1
    BY DEF TypeOK
  <2>8. /\ login' \in BOOLEAN /\ refused' \in BOOLEAN /\ interrupted' \in BOOLEAN
    BY DEF TypeOK
  <2> QED
    BY <2>1, <2>2, <2>3, <2>4, <2>5, <2>6, <2>7, <2>8 DEF TypeOK
<1>2. MigrationInv'
  BY DEF MigrationInv, TypeOK
<1>3. FindableInv'
  BY DEF FindableInv, MigrationInv, Undisturbed, TypeOK
<1>4. LatestInv'
  BY DEF LatestInv, Storing, TypeOK
<1>5. ErasedInv'
  BY DEF ErasedInv, Undisturbed, TypeOK
<1>6. KeptInv'
  <2>1. (pc = "removeSentinel" => ~login)'
    BY DEF KeptInv, TypeOK
  <2>2. HereInv'
    BY DEF KeptInv, HereInv, HandedOverInv, MigrationInv, LatestInv, Storing, TypeOK
  <2>3. HandedOverInv'
    BY DEF KeptInv, HandedOverInv, TypeOK
  <2>4. MovedInv'
    BY DEF KeptInv, HereInv, HandedOverInv, MovedInv, MigrationInv, ErasedInv,
       LatestInv, Storing, Undisturbed, TypeOK
  <2> QED
    BY <2>1, <2>2, <2>3, <2>4 DEF KeptInv
<1> QED
  BY <1>1, <1>2, <1>3, <1>4, <1>5, <1>6

LEMMA AuthorizedKeeps ==
  ASSUME TypeOK, MigrationInv, FindableInv, LatestInv, ErasedInv, KeptInv,
         Authorized
  PROVE  /\ TypeOK' /\ MigrationInv' /\ FindableInv'
         /\ LatestInv' /\ ErasedInv' /\ KeptInv'
<1> USE StoreAssumption, FlowAssumption, LoginAssumption
    DEF Authorized, Goto, files, traces, told, faults, Moving, Opened, Readable
<1>1. TypeOK'
  <2>1. FlowTypeOK' /\ given' \in 0 .. MaxCommands
    BY DEF TypeOK, FlowTypeOK, End
  <2>2. /\ profiles' \in BOOLEAN
        /\ flat' \in {"none", "login"} /\ old' \in {"none", "login", "torn"}
        /\ sentinel' \in {"none", "ok", "torn"} /\ keyring' \in 0 .. rank' \cup {None}
    BY DEF TypeOK
  <2>3. /\ instance' \in BOOLEAN
        /\ flatStatus' \in {"none", "live"} /\ status' \in {"none", "live", "torn"}
        /\ legacyPid' \in {"none", "live", "stale"}
    BY DEF TypeOK
  <2>4. /\ job' \in Jobs \cup {"none", "startAuth", "startForce"}
        /\ pc' # "idle" => job' # "none"
    BY DEF TypeOK
  <2>5. pc' \in Places /\ after' \in {"none", "removeOld", "verify"}
    BY DEF TypeOK, Places
  <2>6. /\ held' \in 0 .. rank' \cup {None}
        /\ pc' \in {"setKeyring", "writeSentinel"} => held' # None /\ after' # "none"
    BY DEF TypeOK
  <2>7. rank' \in Nat /\ floor' \in 0 .. rank' + 1
    BY DEF TypeOK
  <2>8. /\ login' \in BOOLEAN /\ refused' \in BOOLEAN /\ interrupted' \in BOOLEAN
    BY DEF TypeOK
  <2> QED
    BY <2>1, <2>2, <2>3, <2>4, <2>5, <2>6, <2>7, <2>8 DEF TypeOK
<1>2. MigrationInv'
  BY DEF MigrationInv, TypeOK
<1>3. FindableInv'
  BY DEF FindableInv, MigrationInv, Undisturbed, TypeOK
<1>4. LatestInv'
  BY DEF LatestInv, Storing, TypeOK
<1>5. ErasedInv'
  BY DEF ErasedInv, Undisturbed, TypeOK
<1>6. KeptInv'
  <2>1. (pc = "removeSentinel" => ~login)'
    BY DEF KeptInv, TypeOK
  <2>2. HereInv'
    BY DEF KeptInv, HereInv, HandedOverInv, MigrationInv, LatestInv, Storing, TypeOK
  <2>3. HandedOverInv'
    BY DEF KeptInv, HandedOverInv, TypeOK
  <2>4. MovedInv'
    BY DEF KeptInv, HereInv, HandedOverInv, MovedInv, MigrationInv, ErasedInv,
       LatestInv, Storing, Undisturbed, TypeOK
  <2> QED
    BY <2>1, <2>2, <2>3, <2>4 DEF KeptInv
<1> QED
  BY <1>1, <1>2, <1>3, <1>4, <1>5, <1>6

LEMMA CrashKeeps ==
  ASSUME TypeOK, MigrationInv, FindableInv, LatestInv, ErasedInv, KeptInv,
         Crash
  PROVE  /\ TypeOK' /\ MigrationInv' /\ FindableInv'
         /\ LatestInv' /\ ErasedInv' /\ KeptInv'
<1> USE StoreAssumption, FlowAssumption, LoginAssumption
    DEF Crash, Goto, files, traces, told, faults, Moving, Opened, Readable,
       CrashTraces, Forget, Become
<1>1. TypeOK'
  <2>1. FlowTypeOK' /\ given' \in 0 .. MaxCommands
    BY DEF TypeOK, FlowTypeOK, End
  <2>2. /\ profiles' \in BOOLEAN
        /\ flat' \in {"none", "login"} /\ old' \in {"none", "login", "torn"}
        /\ sentinel' \in {"none", "ok", "torn"} /\ keyring' \in 0 .. rank' \cup {None}
    BY DEF TypeOK
  <2>3. /\ instance' \in BOOLEAN
        /\ flatStatus' \in {"none", "live"} /\ status' \in {"none", "live", "torn"}
        /\ legacyPid' \in {"none", "live", "stale"}
    BY DEF TypeOK
  <2>4. /\ job' \in Jobs \cup {"none", "startAuth", "startForce"}
        /\ pc' # "idle" => job' # "none"
    BY DEF TypeOK
  <2>5. pc' \in Places /\ after' \in {"none", "removeOld", "verify"}
    BY DEF TypeOK, Places
  <2>6. /\ held' \in 0 .. rank' \cup {None}
        /\ pc' \in {"setKeyring", "writeSentinel"} => held' # None /\ after' # "none"
    BY DEF TypeOK
  <2>7. rank' \in Nat /\ floor' \in 0 .. rank' + 1
    BY DEF TypeOK
  <2>8. /\ login' \in BOOLEAN /\ refused' \in BOOLEAN /\ interrupted' \in BOOLEAN
    BY DEF TypeOK
  <2> QED
    BY <2>1, <2>2, <2>3, <2>4, <2>5, <2>6, <2>7, <2>8 DEF TypeOK
<1>2. MigrationInv'
  BY DEF MigrationInv, TypeOK
<1>3. FindableInv'
  BY DEF FindableInv, MigrationInv, Undisturbed, TypeOK
<1>4. LatestInv'
  BY DEF LatestInv, Storing, TypeOK
<1>5. ErasedInv'
  BY DEF ErasedInv, Undisturbed, TypeOK
<1>6. KeptInv'
  <2>1. (pc = "removeSentinel" => ~login)'
    BY DEF KeptInv, TypeOK
  <2>2. HereInv'
    BY DEF KeptInv, HereInv, HandedOverInv, MigrationInv, LatestInv, Storing, TypeOK
  <2>3. HandedOverInv'
    BY DEF KeptInv, HandedOverInv, TypeOK
  <2>4. MovedInv'
    BY DEF KeptInv, HereInv, HandedOverInv, MovedInv, MigrationInv, ErasedInv,
       LatestInv, Storing, Undisturbed, TypeOK
  <2> QED
    BY <2>1, <2>2, <2>3, <2>4 DEF KeptInv
<1> QED
  BY <1>1, <1>2, <1>3, <1>4, <1>5, <1>6

-----------------------------------------------------------------------------
(***************************************************************************)
(* The loop that waits for the user.                                       *)
(***************************************************************************)
LEMMA PolitelyOnward ==
  ASSUME TypeOK, PoliteInv,
         \/ PollStep \/ Begin \/ End \/ UNCHANGED flowVars
  PROVE  PoliteInv'
<1> USE FlowAssumption DEF TypeOK, FlowTypeOK, PoliteInv, PollsPolitely
<1>1. CASE Wake
  <2>1. PICK late \in 0 .. Late :
          /\ elapsed' = Later(elapsed + interval + late)
          /\ waited' = waited + interval + late
    BY <1>1 DEF Wake
  <2>2. waited' >= required /\ UNCHANGED <<interval, lead, required>>
    BY <1>1, <2>1 DEF Wake
  <2>3. flow' = "asking" => elapsed' \in Nat /\ elapsed' < ExpiresIn
    BY <1>1, <2>1 DEF Wake, Later
  <2>4. flow' = "asking" => lead' + elapsed' < ExpiresIn + Prompt
    BY <2>2, <2>3
  <2> QED
    BY <2>2, <2>4
<1>2. CASE Pending \/ Answered
  BY <1>2 DEF Pending, Answered
<1>3. CASE Begin \/ End \/ UNCHANGED flowVars
  BY <1>3 DEF Begin, End, flowVars
<1> QED
  BY <1>1, <1>2, <1>3 DEF PollStep

-----------------------------------------------------------------------------
(***************************************************************************)
(* Every step keeps the invariant.                                         *)
(***************************************************************************)
LEMMA Initially == Init => Inv
<1> SUFFICES ASSUME Init PROVE Inv
  OBVIOUS
<1> USE FlowAssumption, StoreAssumption, LoginAssumption DEF Init, FlowInit, StoreInit
<1>1. PICK l \in Layouts :
        /\ Sensible(l)
        /\ profiles = l.profiles /\ flat = l.flat /\ old = l.old
        /\ sentinel = l.sentinel
        /\ keyring = IF l.sentinel = "ok" THEN 0 ELSE None
        /\ flatStatus = l.flatStatus /\ legacyPid = l.legacyPid
  OBVIOUS
<1>2. /\ l.profiles \in BOOLEAN /\ l.flat \in {"none", "login"}
      /\ l.old \in {"none", "login", "torn"} /\ l.sentinel \in {"none", "ok"}
      /\ l.flatStatus \in {"none", "live"} /\ l.legacyPid \in {"none", "live", "stale"}
  BY DEF Layouts
<1>3. /\ profiles => flat = "none"
      /\ ~profiles => old = "none" /\ sentinel = "none"
      /\ sentinel = "ok" => old = "none"
  BY <1>1 DEF Sensible
<1>4. TypeOK
  <2>1. FlowTypeOK
    BY DEF FlowTypeOK
  <2>2. instance \in BOOLEAN /\ login \in BOOLEAN
    OBVIOUS
  <2>3. keyring \in 0 .. rank \cup {None}
    BY <1>1
  <2>4. /\ flat \in {"none", "login"} /\ old \in {"none", "login", "torn"}
        /\ sentinel \in {"none", "ok", "torn"} /\ profiles \in BOOLEAN
        /\ flatStatus \in {"none", "live"} /\ legacyPid \in {"none", "live", "stale"}
    BY <1>1, <1>2
  <2>5. pc = "idle" /\ pc \in Places /\ status = "none"
        /\ refused = FALSE /\ interrupted = FALSE
        /\ job = "none" /\ after = "none" /\ held = None
    BY DEF Places
  <2>6. rank \in Nat /\ floor \in 0 .. rank + 1 /\ given \in 0 .. MaxCommands
    OBVIOUS
  <2> QED
    BY <2>1, <2>2, <2>3, <2>4, <2>5, <2>6 DEF TypeOK
<1>5. MigrationInv /\ PoliteInv /\ FindableInv
  <2>1. MigrationInv /\ PoliteInv
    BY <1>3 DEF MigrationInv, PoliteInv, PollsPolitely
  <2>2. instance => flatStatus = "live" \/ legacyPid = "live"
    OBVIOUS
  <2>3. profiles => flatStatus = "none" /\ legacyPid = "none"
    BY <1>1 DEF Sensible
  <2> QED
    BY <2>1, <2>2, <2>3 DEF FindableInv, Moving
<1>6. LatestInv
  BY <1>1, <1>2, <1>3 DEF LatestInv, Readable, Storing, Opened
<1>7. ErasedInv
  BY <1>1, <1>2 DEF ErasedInv
<1>8. KeptInv
  <2>1. Readable <=> sentinel = "ok"
    BY <1>1 DEF Readable
  <2>2. login => flat = "login" \/ old = "login" \/ sentinel = "ok"
    <3>1. login => "login" \in {flat, old} \/ keyring = 0
      OBVIOUS
    <3>2. keyring = 0 => sentinel = "ok"
      BY <1>1
    <3> QED
      BY <3>1, <3>2
  <2> QED
    BY <1>2, <1>3, <2>1, <2>2 DEF KeptInv, HereInv, HandedOverInv, MovedInv
<1> QED
  BY <1>4, <1>5, <1>6, <1>7, <1>8 DEF Inv

LEMMA StoreKeeps ==
  ASSUME TypeOK, MigrationInv, FindableInv, LatestInv, ErasedInv, KeptInv, Store
  PROVE  /\ TypeOK' /\ MigrationInv' /\ FindableInv'
         /\ LatestInv' /\ ErasedInv' /\ KeptInv'
<1>1. CASE Migrate
  BY <1>1, MigrateKeeps DEF Store
<1>2. CASE Mkdir
  BY <1>2, MkdirKeeps DEF Store
<1>3. CASE MoveStatus
  BY <1>3, MoveStatusKeeps DEF Store
<1>4. CASE MoveCredentials
  BY <1>4, MoveCredentialsKeeps DEF Store
<1>5. CASE MovePid
  BY <1>5, MovePidKeeps DEF Store
<1>12. CASE GetProfile
  BY <1>12, GetProfileKeeps DEF Store
<1>6. CASE OpenStorage
  BY <1>6, OpenStorageKeeps DEF Store
<1>7. CASE RemoveOld
  BY <1>7, RemoveOldKeeps DEF Store
<1>8. CASE SetKeyring
  BY <1>8, SetKeyringKeeps DEF Store
<1>9. CASE WriteSentinel
  BY <1>9, WriteSentinelKeeps DEF Store
<1>10. CASE Erase
  BY <1>10, EraseKeeps DEF Store
<1>11. CASE RemoveSentinel
  BY <1>11, RemoveSentinelKeeps DEF Store
<1> QED
  BY <1>1, <1>2, <1>3, <1>4, <1>5, <1>6, <1>7, <1>8, <1>9, <1>10, <1>11, <1>12
  DEF Store, StorageStep

LEMMA Invariance == Spec => []Inv
<1>1. Inv /\ [Next]_vars => Inv'
  <2> SUFFICES ASSUME Inv, [Next]_vars PROVE Inv'
    OBVIOUS
  <2> USE DEF Inv
  <2>1. CASE LoginSteps
    <3>1. PoliteInv'
      BY <2>1, PolitelyOnward DEF LoginSteps, Run, Dispatch, Check, Look, Initiate, Offer,
         Poll,
         NotAuthorized, Verify, Load, Exit, vars
    <3> QED
      BY <2>1, <3>1, OnwardOnly, OnwardTypes, OnwardKeeps
  <2>2. CASE Store
    <3>1. PoliteInv'
      BY <2>2, PolitelyOnward DEF Store
    <3> QED
      BY <2>2, <3>1, StoreKeeps
  <2>3. CASE Authorized
    <3>1. PoliteInv'
      BY <2>3, PolitelyOnward DEF Authorized
    <3> QED
      BY <2>3, <3>1, AuthorizedKeeps
  <2>4. CASE Crash
    <3>1. PoliteInv'
      BY <2>4, PolitelyOnward DEF Crash
    <3> QED
      BY <2>4, <3>1, CrashKeeps
  <2> QED
    BY <2>1, <2>2, <2>3, <2>4 DEF Next, Steps, Idle, LoginSteps
<1> QED
  BY Initially, <1>1, PTL DEF Spec
-----------------------------------------------------------------------------
(***************************************************************************)
(* The theorems.                                                           *)
(***************************************************************************)
\* The types of Login, CredentialStore and DeviceFlow.
THEOREM TypeCorrect == Spec => []TypeOK
<1>1. Inv => TypeOK
  BY DEF Inv
<1> QED
  BY Invariance, <1>1, PTL

\* poll_for_token keeps every distance GitHub has asked for, and asks for a code
\* that has expired for no longer than the offer before the loop has taken,
\* however late its sleeps end.
THEOREM PolitePolls == Spec => []PollsPolitely
<1>1. Inv => PollsPolitely
  BY DEF Inv, PoliteInv
<1> QED
  BY Invariance, <1>1, PTL

\* get_github_token never returns a login older than the last one completed,
\* or from before the last logout, wherever commands have crashed.
THEOREM LatestServed == Spec => []ServesLatest
<1>1. Inv => ServesLatest
  BY StoreAssumption DEF Inv, LatestInv, ServesLatest, Tokens, TypeOK
<1> QED
  BY Invariance, <1>1, PTL

\* delete_github_token leaves nothing behind, if no access was refused and no
\* crash came between the keyring and the sentinel.
THEOREM LogoutsErase == Spec => []LogoutErases
<1>1. Inv => LogoutErases
  BY DEF Inv, ErasedInv, LatestInv, LogoutErases, Undisturbed, Storing, TypeOK
<1> QED
  BY Invariance, <1>1, PTL

\* run_migration and migrate_from_xor lose no login, and start finds the one
\* that is there.
THEOREM LoginsKept == Spec => []LoginKept
<1>1. Inv => LoginKept
  <2> SUFFICES ASSUME Inv PROVE LoginKept
    OBVIOUS
  <2>1. login /\ ~refused /\ sentinel # "torn" => "login" \in {flat, old} \/ Readable
    BY DEF Inv, KeptInv, HereInv
  <2>2. pc \in {"look", "load"} /\ login /\ Undisturbed => Readable
    <3> SUFFICES ASSUME pc \in {"look", "load"}, login, Undisturbed PROVE Readable
      OBVIOUS
    <3>1. old = "none" /\ (profiles \/ flat = "none") /\ sentinel # "torn"
      BY DEF Inv, LatestInv, ErasedInv, Undisturbed, Opened
    <3> QED
      BY <3>1, <2>1 DEF Inv, KeptInv, MovedInv, Undisturbed
  <2> QED
    BY <2>1, <2>2 DEF LoginKept
<1> QED
  BY Invariance, <1>1, PTL

\* run_migration never leaves a running instance of an earlier version without
\* a file that names it; once done, and not disturbed, the one that is read.
THEOREM InstancesFindable == Spec => []InstanceFindable
<1>1. Inv => InstanceFindable
  BY DEF Inv, FindableInv, InstanceFindable, Moving
<1> QED
  BY Invariance, <1>1, PTL
=============================================================================
