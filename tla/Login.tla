------------------------------- MODULE Login -------------------------------
(***************************************************************************)
(* The commands that deal with the login of a profile: auth (with or       *)
(* without --force), logout, and start, which logs in before it serves     *)
(* unless it is told not to (--skip-auth).  Each migrates and opens the    *)
(* storage first; a login asks GitHub in between.                          *)
(***************************************************************************)
EXTENDS DeviceFlow, CredentialStore

CONSTANT MaxCommands   \* bound: commands given

ASSUME LoginAssumption == MaxCommands \in Nat

VARIABLE
    given     \* commands given so far

vars == <<flowVars, storeVars, given>>

Jobs == {"auth", "force", "logout", "start", "serve"}

Init == FlowInit /\ StoreInit /\ given = 0

Become(task) == job' = task
Still == <<files, traces, told, faults, after, held, given>>

Run ==
    /\ pc = "idle" /\ given < MaxCommands
    /\ given' = given + 1
    /\ \E task \in Jobs : Become(task)
    /\ Goto("migrate")
    /\ UNCHANGED <<files, traces, told, faults, after, held, flowVars>>

\* The storage is open; auth --force does not look at the token that is there.
Dispatch ==
    /\ pc = "opened"
    /\ Goto(CASE job = "logout" -> "erase"
                 [] job \in {"force", "startForce"} -> "initiate"
                 [] job \in {"auth", "startAuth"} -> "check"
                 [] job = "start" -> "look"
                 [] job = "serve" -> "load")
    /\ UNCHANGED <<job, Still, flowVars>>

\* A login is there: auth is done, start opens the storage for its server.
Continue ==
    IF job \in {"auth", "force"} THEN Goto("exit") /\ UNCHANGED job
    ELSE Goto("open") /\ Become("serve")

\* auth: a token that GitHub accepts is enough.
Check ==
    /\ pc = "check"
    /\ \E t \in Tokens :
          \/ t # None /\ Continue
          \/ Goto("initiate") /\ UNCHANGED job
    /\ UNCHANGED <<Still, flowVars>>

\* start: without a token it logs in; with one that GitHub does not accept it
\* logs in again; otherwise it serves with it.
Look ==
    /\ pc = "look"
    /\ \E t \in Tokens :
          IF t = None THEN Goto("open") /\ Become("startAuth")
          ELSE \/ Goto("exit") /\ UNCHANGED job
               \/ Goto("open") /\ Become("startForce")
    /\ UNCHANGED <<Still, flowVars>>

\* The device code.
Initiate ==
    /\ pc = "initiate"
    /\ Goto("offer") \/ Goto("exit")
    /\ UNCHANGED <<job, Still, flowVars>>

\* The user is shown the code and offered a browser; then the loop begins.
Offer ==
    /\ pc = "offer"
    /\ \/ Goto("poll") /\ Begin
       \/ Goto("exit") /\ UNCHANGED flowVars
    /\ UNCHANGED <<job, Still>>

Poll ==
    /\ pc = "poll"
    /\ PollStep
    /\ UNCHANGED <<storeVars, given>>

\* The token has come and is stored, or the loop has failed.
Authorized ==
    /\ pc = "poll" /\ flow = "granted"
    /\ End
    /\ rank' = rank + 1
    /\ held' = rank + 1
    /\ after' = "verify"
    /\ Goto("setKeyring")
    /\ UNCHANGED <<files, traces, floor, login, faults, job, given>>

NotAuthorized ==
    /\ pc = "poll" /\ flow = "failed"
    /\ End
    /\ Goto("exit")
    /\ UNCHANGED <<job, Still>>

\* A Copilot token is asked for, and whatever comes the login has succeeded.
Verify ==
    /\ pc = "verify"
    /\ held' = None
    /\ Continue
    /\ UNCHANGED <<files, traces, told, faults, after, given,
                   flowVars>>

\* The server has the token or is not authenticated.
Load ==
    /\ pc = "load"
    /\ Goto("exit")
    /\ UNCHANGED <<job, Still, flowVars>>

Store == StorageStep /\ UNCHANGED <<flowVars, given>>

\* The command is gone, and with it what it had in hand.
Forget ==
    /\ Goto("idle")
    /\ Become("none")
    /\ after' = "none"
    /\ held' = None

Exit ==
    /\ pc = "exit"
    /\ Forget
    /\ UNCHANGED <<files, traces, told, faults, given, flowVars>>

Crash ==
    /\ pc \notin {"idle", "exit"}
    /\ CrashTraces
    /\ End
    /\ Forget
    /\ UNCHANGED <<told, refused, given>>

Steps ==
    \/ Store \/ Dispatch \/ Check \/ Look \/ Initiate \/ Offer
    \/ Poll \/ Authorized \/ NotAuthorized \/ Verify
    \/ Load \/ Exit

Idle == given = MaxCommands /\ pc = "idle" /\ UNCHANGED vars

Next == Run \/ Steps \/ Crash \/ Idle

Spec == Init /\ [][Next]_vars
\* A command goes on, if GitHub, the disk and the keyring answer.
FairSpec == Spec /\ WF_vars(Steps)
-----------------------------------------------------------------------------
Places ==
    {"idle", "migrate", "mkdir", "moveStatus", "moveCredentials", "movePid",
     "get", "open", "removeOld", "tidy", "opened", "setKeyring",
     "writeSentinel", "verify", "erase", "removeSentinel", "check", "look",
     "load", "initiate", "offer", "poll", "exit"}

\* Every variable has its type; a command has a job, and a token to store.
TypeOK ==
    /\ FlowTypeOK
    /\ profiles \in BOOLEAN
    /\ flat \in {"none", "login"} /\ old \in {"none", "login", "torn"}
    /\ sentinel \in {"none", "ok", "torn"} /\ keyring \in 0 .. rank \cup {None}
    /\ instance \in BOOLEAN
    /\ flatStatus \in {"none", "live"} /\ status \in {"none", "live", "torn"}
    /\ legacyPid \in {"none", "live", "stale"}
    /\ pc \in Places
    /\ job \in Jobs \cup {"none", "startAuth", "startForce"}
    /\ pc # "idle" => job # "none"
    /\ after \in {"none", "removeOld", "verify"}
    /\ held \in 0 .. rank \cup {None}
    /\ pc \in {"setKeyring", "writeSentinel"} => held # None /\ after # "none"
    /\ rank \in Nat /\ floor \in 0 .. rank + 1
    /\ login \in BOOLEAN /\ refused \in BOOLEAN /\ interrupted \in BOOLEAN
    /\ given \in 0 .. MaxCommands

Undisturbed == ~refused /\ ~interrupted
Moving == {"moveStatus", "moveCredentials", "movePid"}

\* Wherever commands crashed, one that reads the login finds none that is
\* older than the last one completed, and none from before the last logout
\* (get_github_token, delete_github_token, migrate_from_xor).
ServesLatest ==
    ~refused => \A t \in Tokens \ {None} : t >= floor

\* After a logout nothing is left, not in the keyring either.  A login that
\* ended between the keyring and the sentinel leaves an entry that
\* delete_github_token does not look for.
LogoutErases ==
    floor > rank /\ Undisturbed =>
        keyring = None /\ sentinel = "none" /\ old = "none"

\* At every moment, so after every crash, a login is in one of its places
\* (run_migration, migrate_from_xor); only a sentinel that was being written
\* or an access that was refused loses it, with a message.  And start finds
\* the login that is there: it asks for no other and serves with it.  Only a
\* crash after profiles/ was created leaves it in the flat layout for ever.
LoginKept ==
    /\ login /\ ~refused /\ sentinel # "torn" =>
          "login" \in {flat, old} \/ Readable
    /\ pc \in {"look", "load"} /\ login /\ Undisturbed => Readable

\* The instance of an earlier version that is running is named by a file at
\* every moment, and after the migration by the one that stop, status and start
\* read.  Only a crash or a refusal during a move leaves it in the other files,
\* which nothing reads once profiles/ exists (run_migration).
InstanceFindable ==
    instance =>
        /\ "live" \in {flatStatus, legacyPid, status}
        /\ profiles /\ Undisturbed /\ pc \notin Moving => status = "live"

\* Every command ends, a login at the latest when its code expires.
CommandsEnd == pc # "idle" ~> pc = "idle"
=============================================================================
