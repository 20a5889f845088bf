-------------------------- MODULE CredentialStore --------------------------
(***************************************************************************)
(* Where the login of the default profile is kept, and the steps in which  *)
(* commands migrate, write and delete it (run_migration, NativeStorage):   *)
(*   flat      credentials.json of the layout without profiles             *)
(*   old       credentials.json in the profile, in the old XOR format      *)
(*   sentinel  github-copilot.json, which says that the keyring has it     *)
(*   keyring   the entry of the profile in the keyring of the system       *)
(* and the files that name an instance of an earlier version:              *)
(* flatStatus, legacyPid and, in the profile, status.                      *)
(*                                                                         *)
(* Between any two steps the command may crash, and any access may be      *)
(* refused.  Commands run one after the other: the storage has no lock, and *)
(* the last of two writers wins.  A token is the rank of its login; 0 is  *)
(* the login made with an earlier version.  This is the storage of macOS   *)
(* and Linux; on Windows DPAPI takes the place of the keyring.             *)
(***************************************************************************)
EXTENDS Naturals, FiniteSets

CONSTANTS
    None        \* no entry, no token

ASSUME StoreAssumption == None \notin Nat

VARIABLES
    profiles,    \* profiles/ exists, and with it the default profile
    flat, old, sentinel, keyring,
    instance,    \* an instance of an earlier version is running
    flatStatus, legacyPid, status,
    pc,          \* where a command is
    job,         \* what it does once its storage is open
    after,       \* where it goes on when it has stored a token
    held,        \* the token it has in hand
    rank,        \* logins stored so far
    floor,       \* the oldest login that may still be found
    login,       \* the user is logged in, as far as the commands said
    refused,     \* an access was refused
    interrupted  \* a crash came during a move or the write of a sentinel

files == <<profiles, flat, old, sentinel, keyring>>
traces == <<instance, flatStatus, legacyPid, status>>
progress == <<pc, job, after, held>>
told == <<rank, floor, login>>
faults == <<refused, interrupted>>
storeVars == <<files, traces, progress, told, faults>>

\* What earlier versions and this one leave behind.
Layouts ==
    [profiles : BOOLEAN, flat : {"none", "login"},
     old : {"none", "login", "torn"}, sentinel : {"none", "ok"},
     flatStatus : {"none", "live"},
     legacyPid : {"none", "live", "stale"}]

Sensible(l) ==
    /\ l.profiles => l.flat = "none" /\ l.flatStatus = "none"
                     /\ l.legacyPid = "none"
    /\ ~l.profiles => l.old = "none" /\ l.sentinel = "none"
    /\ l.sentinel = "ok" => l.old = "none"

StoreInit ==
    /\ \E l \in Layouts :
         /\ Sensible(l)
         /\ profiles = l.profiles /\ flat = l.flat /\ old = l.old
         /\ sentinel = l.sentinel
         /\ keyring = IF l.sentinel = "ok" THEN 0 ELSE None
         /\ flatStatus = l.flatStatus /\ legacyPid = l.legacyPid
    /\ instance = (flatStatus = "live" \/ legacyPid = "live")
    /\ status = "none"
    /\ pc = "idle"
    /\ job = "none"
    /\ after = "none"
    /\ held = None
    /\ rank = 0 /\ floor = 0
    /\ login = ("login" \in {flat, old} \/ keyring = 0)
    /\ refused = FALSE /\ interrupted = FALSE

Goto(place) == pc' = place
Refuse == refused' = TRUE
-----------------------------------------------------------------------------
(***************************************************************************)
(* run_migration, which every command begins with, and then the profile.   *)
(***************************************************************************)
\* Nothing to do once profiles/ exists, or if nothing is there to move.
Migrate ==
    /\ pc = "migrate"
    /\ Goto(IF profiles \/ (flat = "none" /\ flatStatus = "none"
                               /\ legacyPid = "none")
               THEN "get" ELSE "mkdir")
    /\ UNCHANGED <<files, traces, job, after, held, told, faults>>

Mkdir ==
    /\ pc = "mkdir"
    /\ \/ profiles' = TRUE /\ Goto("moveStatus") /\ UNCHANGED refused
       \/ profiles' \in {profiles, TRUE} /\ Goto("get") /\ Refuse
    /\ UNCHANGED <<flat, old, sentinel, keyring, traces, job, after, held,
                   told, interrupted>>

\* move_file: nothing if there is a destination already; otherwise rename, or
\* copy and remove, of which the second may fail, or neither.
Moves(src, dest) ==
    IF src = "none" \/ dest # "none"
    THEN {[src |-> src, dest |-> dest, ok |-> TRUE]}
    ELSE {[src |-> "none", dest |-> src, ok |-> TRUE],
          [src |-> src, dest |-> src, ok |-> TRUE],
          [src |-> src, dest |-> dest, ok |-> FALSE]}

MoveStatus ==
    /\ pc = "moveStatus"
    /\ \E m \in Moves(flatStatus, status) :
         /\ flatStatus' = m.src /\ status' = m.dest
         /\ IF m.ok THEN UNCHANGED refused ELSE Refuse
    /\ Goto("moveCredentials")
    /\ UNCHANGED <<files, instance, legacyPid, job, after, held, told,
                   interrupted>>

MoveCredentials ==
    /\ pc = "moveCredentials"
    /\ \E m \in Moves(flat, old) :
         /\ flat' = m.src /\ old' = m.dest
         /\ IF m.ok THEN UNCHANGED refused ELSE Refuse
    /\ Goto("movePid")
    /\ UNCHANGED <<profiles, sentinel, keyring, traces, job, after, held,
                   told, interrupted>>

\* Slip: the PID file goes even if its status could not be written.
MovePidAlways ==
    /\ pc = "movePid"
    /\ legacyPid' = "none"
    /\ \/ UNCHANGED status
       \/ legacyPid = "live" /\ status = "none" /\ status' = "live"
    /\ Goto("get")
    /\ UNCHANGED <<files, instance, flatStatus, job, after, held, told,
                   faults>>

\* migrate_legacy_pid_file: a PID file that names no process goes; of one that
\* does a status is made first, unless there is one.  A removal that fails is
\* ignored.
MovePid ==
    /\ pc = "movePid"
    /\ \/ /\ legacyPid = "live" /\ status = "none"
          /\ UNCHANGED <<status, legacyPid>> /\ Refuse
       \/ /\ status' = IF legacyPid = "live" /\ status = "none"
                       THEN "live" ELSE status
          /\ legacyPid' \in {"none", legacyPid} /\ UNCHANGED refused
    /\ Goto("get")
    /\ UNCHANGED <<files, instance, flatStatus, job, after, held, told,
                   interrupted>>

\* ProfileManager::get: the directory is made if the migration has not made it,
\* so that the next command finds nothing to migrate.
GetProfile ==
    /\ pc = "get"
    /\ \/ profiles' = TRUE /\ Goto("open") /\ UNCHANGED refused
       \/ profiles' \in {profiles, TRUE} /\ Goto("exit") /\ Refuse
    /\ UNCHANGED <<flat, old, sentinel, keyring, traces, job, after, held,
                   told, interrupted>>
-----------------------------------------------------------------------------
(***************************************************************************)
(* NativeStorage::new: the migration of the old format.  Where the probe of *)
(* the keyring finds none, SetKeyring is refused.                          *)
(***************************************************************************)
\* Slip: the old file is removed as soon as it has been read.
OpenAndRemove ==
    /\ pc = "open"
    /\ IF sentinel = "none" /\ old = "login"
       THEN /\ Goto("setKeyring")
            /\ after' = "tidy"
            /\ held' = 0
            /\ old' = "none"
       ELSE /\ Goto("tidy")
            /\ UNCHANGED <<after, held, old>>
    /\ UNCHANGED <<profiles, flat, sentinel, keyring, traces, job, told, faults>>

\* The old file is read unless there is a new one; reading a torn one fails.
OpenStorage ==
    /\ pc = "open"
    /\ IF sentinel = "none" /\ old = "login"
       THEN /\ Goto("setKeyring")
            /\ after' = "removeOld"
            /\ held' = 0
       ELSE /\ Goto(IF sentinel = "none" /\ old = "torn"
                       THEN "removeOld" ELSE "tidy")
            /\ UNCHANGED <<after, held>>
    /\ UNCHANGED <<files, traces, job, told, faults>>

\* The old file goes, whether the new one could be written or not, and again
\* if both are there.
RemoveOld ==
    /\ pc \in {"removeOld", "tidy"}
    /\ IF pc = "tidy" /\ (sentinel = "none" \/ old = "none")
       THEN UNCHANGED <<old, refused>>
       ELSE \/ old' = "none" /\ UNCHANGED refused
            \/ UNCHANGED old /\ Refuse
    /\ Goto(IF pc = "removeOld" THEN "tidy" ELSE "opened")
    /\ held' = None
    /\ UNCHANGED <<profiles, flat, sentinel, keyring, traces, job, after,
                   told, interrupted>>
-----------------------------------------------------------------------------
(***************************************************************************)
(* store_github_token, get_github_token and delete_github_token.           *)
(***************************************************************************)
\* A store that fails ends a login with an error; the migration goes on.
StoreFails ==
    /\ Refuse
    /\ Goto(IF after = "removeOld" THEN "removeOld" ELSE "exit")
    /\ held' = None

\* The directory, which is there, and the entry of the keyring.
SetKeyring ==
    /\ pc = "setKeyring"
    /\ \/ /\ keyring' = held
          /\ Goto("writeSentinel")
          /\ UNCHANGED <<held, refused>>
       \/ UNCHANGED keyring /\ StoreFails
    /\ UNCHANGED <<profiles, flat, old, sentinel, traces, job, after, told,
                   interrupted>>

\* The sentinel; with it a login is complete.
WriteSentinel ==
    /\ pc = "writeSentinel"
    /\ \/ /\ sentinel' = "ok"
          /\ Goto(after)
          /\ IF after = "verify"
             THEN floor' = held /\ login' = TRUE ELSE UNCHANGED <<floor, login>>
          /\ UNCHANGED <<held, refused>>
       \/ /\ UNCHANGED <<sentinel, floor, login>>
          /\ StoreFails
    /\ UNCHANGED <<profiles, flat, old, keyring, traces, job, after, rank, interrupted>>

\* Slip: the keyring is read without a look at the sentinel.
TokensOfKeyring == {keyring, None}

\* What get_github_token returns: the keyring is read if the sentinel says so;
\* it may refuse.
Readable == sentinel = "ok" /\ keyring # None
Tokens == (IF Readable THEN {keyring} ELSE {}) \cup {None}

\* Slip: the entry of the keyring is left alone.
EraseNothing ==
    /\ pc = "erase"
    /\ login' = FALSE
    /\ Goto("removeSentinel")
    /\ UNCHANGED <<files, traces, job, after, held, rank, floor, faults>>

\* delete_github_token: the entry of the keyring if a sentinel can be read, an
\* error ignored, then the sentinel.
Erase ==
    /\ pc = "erase"
    /\ login' = FALSE
    /\ \/ /\ keyring' = IF sentinel = "ok" THEN None ELSE keyring
          /\ UNCHANGED refused
       \/ /\ sentinel = "ok" /\ keyring # None
          /\ Refuse /\ UNCHANGED keyring
    /\ Goto("removeSentinel")
    /\ UNCHANGED <<profiles, flat, old, sentinel, traces, job, after, held,
                   rank, floor, interrupted>>

RemoveSentinel ==
    /\ pc = "removeSentinel"
    /\ \/ /\ sentinel' = "none" /\ floor' = rank + 1
          /\ UNCHANGED refused
       \/ /\ sentinel # "none"
          /\ Refuse /\ UNCHANGED <<sentinel, floor>>
    /\ Goto("exit")
    /\ UNCHANGED <<profiles, flat, old, keyring, traces, job, after, held,
                   rank, login, interrupted>>

\* What a crash leaves behind: a copy that is not finished or not
\* followed by the removal, a file that is half written, or nothing.
CrashTraces ==
    /\ UNCHANGED <<profiles, flat, keyring, instance, flatStatus, legacyPid>>
    /\ \/ UNCHANGED <<old, sentinel, status>>
       \/ /\ pc = "moveStatus" /\ flatStatus # "none" /\ status = "none"
          /\ status' \in {"torn", flatStatus} /\ UNCHANGED <<old, sentinel>>
       \/ /\ pc = "moveCredentials" /\ flat # "none" /\ old = "none"
          /\ old' \in {"torn", flat} /\ UNCHANGED <<sentinel, status>>
       \/ /\ pc = "movePid" /\ legacyPid = "live" /\ status = "none"
          /\ status' \in {"torn", "live"} /\ UNCHANGED <<old, sentinel>>
       \/ /\ pc = "writeSentinel"
          /\ sentinel' \in {"torn", "ok"} /\ UNCHANGED <<old, status>>
    /\ interrupted' = (interrupted \/ pc \in {"moveStatus",
                          "moveCredentials", "movePid", "writeSentinel"})

StorageStep ==
    \/ Migrate \/ Mkdir \/ MoveStatus \/ MoveCredentials
    \/ MovePid \/ GetProfile \/ OpenStorage \/ RemoveOld \/ SetKeyring
    \/ WriteSentinel \/ Erase \/ RemoveSentinel
=============================================================================
