----------------------------- MODULE Lifecycle -----------------------------
(***************************************************************************)
(* The commands start, stop, status and profiles create/delete, and the    *)
(* servers they start.  They are processes that share nothing but files: a *)
(* directory with a status file per profile, and one PID file of the older *)
(* layout (the port file beside it is written and removed with it).        *)
(*                                                                         *)
(* A process is named by its PID.  While a status file names a PID, no     *)
(* other process gets it.  What a command does to the credentials is left  *)
(* out; a start may fail while it looks at them.  A start --daemon changes *)
(* its PID in between, before any step that makes use of it.               *)
(***************************************************************************)
EXTENDS Naturals, FiniteSets

CONSTANTS
    Procs,      \* PIDs
    Profiles,   \* names of profiles
    Default,    \* the profile that always may be used
    Ports,      \* ports that instances are started on
    NoPort,     \* port 0
    NoProc      \* no PID

ASSUME LifecycleAssumption ==
    /\ Default \in Profiles
    /\ NoPort \notin Ports /\ NoProc \notin Procs

Status   == [pid : Procs, port : Ports]
NoStatus == [pid |-> NoProc, port |-> NoPort]

VARIABLES
    step,    \* what a process does next, "none" if the PID is not in use
    cmd,     \* its command
    dirs,    \* the directories of profiles that exist
    status,  \* status.json in each of them
    pidFile, \* the PID file of the older layout
    sequential  \* history: no command has begun while another one was running

files == <<dirs, status, pidFile>>
vars  == <<step, cmd, files, sequential>>

\* A command: which one and its phase, its profile and port, the profiles it
\* has still to look at, the one it looks at, and what it read there.
Commands == [task : {"conflict", "own", "stop", "status", "delete"},
             profile : Profiles, port : Ports \cup {NoPort},
             todo : SUBSET Profiles, at : Profiles, seen : Status \cup {NoStatus}]
NoCommand == [task |-> "status", profile |-> Default, port |-> NoPort,
              todo |-> {}, at |-> Default, seen |-> NoStatus]

CommandSteps == {"read", "check", "prepare", "bind", "bound", "written",
                 "signal", "wait", "unlink", "remove"}
ServerSteps  == {"serving", "draining", "cleaning", "leaving"}

Init ==
    /\ step = [p \in Procs |-> "none"]
    /\ cmd = [p \in Procs |-> NoCommand]
    /\ dirs = {}
    /\ status = [f \in Profiles |-> NoStatus]
    /\ pidFile = NoProc
    /\ sequential = TRUE
-----------------------------------------------------------------------------
(***************************************************************************)
(* Processes and files.                                                    *)
(***************************************************************************)
Alive(p) == p \in Procs /\ step[p] # "none"

\* A new process gets a PID that no process has and no file or memory names.
Fresh(p) ==
    /\ step[p] = "none"
    /\ \A f \in Profiles : status[f].pid # p
    /\ \A q \in Procs : cmd[q].seen.pid # p

MayBegin(p) ==
    /\ Fresh(p)
    /\ sequential' = (sequential /\ \A q \in Procs : step[q] \notin CommandSteps)

\* The command of p goes on with step s.
Goto(p, s) == step' = [step EXCEPT ![p] = s] /\ UNCHANGED cmd

Exit(p) ==
    /\ step' = [step EXCEPT ![p] = "none"]
    /\ cmd' = [cmd EXCEPT ![p] = NoCommand]

\* A command begins, by looking at the profiles in fs.
Begin(p, task, f, port, fs) ==
    /\ MayBegin(p)
    /\ step' = [step EXCEPT ![p] = "read"]
    /\ cmd' = [cmd EXCEPT ![p] =
         [NoCommand EXCEPT !.task = task, !.profile = f, !.port = port, !.todo = fs]]

\* read_status_from.
Read(p) ==
    /\ step[p] = "read"
    /\ \E f \in cmd[p].todo :
         cmd' = [cmd EXCEPT ![p].at = f, ![p].todo = @ \ {f}, ![p].seen = status[f]]
    /\ step' = [step EXCEPT ![p] = "check"]
    /\ UNCHANGED files

\* What was read names a process that exists, or one that has gone.
Running(p) == cmd[p].seen # NoStatus /\ Alive(cmd[p].seen.pid)
Stale(p)   == cmd[p].seen # NoStatus /\ ~Alive(cmd[p].seen.pid)

CleanUpStale(p) ==
    status' = IF Stale(p) THEN [status EXCEPT ![cmd[p].at] = NoStatus] ELSE status

Checking(p, task) == step[p] = "check" /\ cmd[p].task = task

\* The loop over profiles goes on, or the command ends.
NextProfile(p) ==
    IF cmd[p].todo = {} THEN Exit(p)
    ELSE /\ step' = [step EXCEPT ![p] = "read"]
         /\ cmd' = [cmd EXCEPT ![p].seen = NoStatus]
-----------------------------------------------------------------------------
(***************************************************************************)
(* start.                                                                  *)
(***************************************************************************)
\* The part of start that looks at the status of its own profile.
LookAtOwn(c) == [c EXCEPT !.task = "own", !.todo = {c.profile}, !.seen = NoStatus]

\* ProfileManager::get, and the list for check_port_conflict.
Start(p, f, port) ==
    /\ f \in dirs \cup {Default}
    /\ dirs' = dirs \cup {f}
    /\ IF dirs \ {f} = {} THEN Begin(p, "own", f, port, {f})
       ELSE Begin(p, "conflict", f, port, dirs \ {f})
    /\ UNCHANGED <<status, pidFile>>

\* check_port_conflict, one profile.
CheckConflict(p) ==
    /\ Checking(p, "conflict")
    /\ CleanUpStale(p)
    /\ IF Running(p) /\ cmd[p].seen.port = cmd[p].port THEN Exit(p)
       ELSE /\ step' = [step EXCEPT ![p] = "read"]
            /\ cmd' = [cmd EXCEPT ![p] =
                 IF @.todo = {} THEN LookAtOwn(@) ELSE [@ EXCEPT !.seen = NoStatus]]
    /\ UNCHANGED <<dirs, pidFile>>

\* Slip: a running instance is taken for a stale one.
CheckOwnNever(p) ==
    /\ Checking(p, "own")
    /\ status' = [status EXCEPT ![cmd[p].at] = NoStatus]
    /\ step' = [step EXCEPT ![p] = "prepare"]
    /\ cmd' = [cmd EXCEPT ![p].seen = NoStatus]
    /\ UNCHANGED <<dirs, pidFile>>

\* Is this profile's instance already running?
CheckOwn(p) ==
    /\ Checking(p, "own")
    /\ CleanUpStale(p)
    /\ IF Running(p) THEN Exit(p)
       ELSE /\ step' = [step EXCEPT ![p] = "prepare"]
            /\ cmd' = [cmd EXCEPT ![p].seen = NoStatus]
    /\ UNCHANGED <<dirs, pidFile>>

\* The credentials are looked at, and the process may become a daemon.
Prepare(p) ==
    /\ step[p] = "prepare"
    /\ Goto(p, "bind") \/ Exit(p)
    /\ UNCHANGED files

\* A listener is open from the bind until the shutdown signal.
Listening(p) == step[p] \in {"bound", "written", "serving"}

PortFree(port) == \A q \in Procs : Listening(q) => cmd[q].port # port

Bind(p) ==
    /\ step[p] = "bind"
    /\ IF PortFree(cmd[p].port) THEN Goto(p, "bound") ELSE Exit(p)
    /\ UNCHANGED files

\* Slip: the status is written where it was before there were profiles.
WriteStatusDefault(p) ==
    /\ step[p] = "bound"
    /\ \/ /\ dirs' = dirs \cup {Default}
          /\ status' = [status EXCEPT ![Default] = [pid |-> p, port |-> cmd[p].port]]
          /\ Goto(p, "written")
       \/ Exit(p) /\ UNCHANGED <<dirs, status>>
    /\ UNCHANGED pidFile

\* write_status_to, which may fail.
WriteStatus(p) ==
    /\ step[p] = "bound"
    /\ \/ /\ dirs' = dirs \cup {cmd[p].profile}
          /\ status' = [status EXCEPT ![cmd[p].profile] =
                          [pid |-> p, port |-> cmd[p].port]]
          /\ Goto(p, "written")
       \/ Exit(p) /\ UNCHANGED <<dirs, status>>
    /\ UNCHANGED pidFile

\* write_pid_file, which may fail: the status then stays behind.
WritePidFile(p) ==
    /\ step[p] = "written"
    /\ \/ pidFile' = p /\ Goto(p, "serving")
       \/ Exit(p) /\ UNCHANGED pidFile
    /\ UNCHANGED <<dirs, status>>
-----------------------------------------------------------------------------
(***************************************************************************)
(* The end of a server.                                                    *)
(***************************************************************************)
\* SIGTERM: a server closes its listener and goes on until its requests are
\* answered, once; a process without a handler dies.
Terminated(s) ==
    CASE s = "serving"                    -> "draining"
      [] s \in ServerSteps \ {"serving"} -> s
      [] OTHER                            -> "none"

\* Ctrl-C in the terminal of a server, or a SIGTERM of another program.
Interrupt(p) ==
    /\ step[p] = "serving"
    /\ Goto(p, "draining")
    /\ UNCHANGED files

Drained(p) ==
    /\ step[p] = "draining"
    /\ Goto(p, "cleaning")
    /\ UNCHANGED files

\* Whatever the file says by now.
RemoveStatus(p) ==
    /\ step[p] = "cleaning"
    /\ status' = [status EXCEPT ![cmd[p].profile] = NoStatus]
    /\ Goto(p, "leaving")
    /\ UNCHANGED <<dirs, pidFile>>

RemovePidFile(p) ==
    /\ step[p] = "leaving"
    /\ pidFile' = NoProc
    /\ Exit(p)
    /\ UNCHANGED <<dirs, status>>

Crash(p) ==
    /\ step[p] # "none"
    /\ Exit(p)
    /\ UNCHANGED files
-----------------------------------------------------------------------------
(***************************************************************************)
(* stop, status, profiles.                                                 *)
(***************************************************************************)
\* With a profile, or with --all.
Stop(p, fs) ==
    /\ \/ \E f \in dirs \cup {Default} : fs = {f} /\ dirs' = dirs \cup {f}
       \/ fs = dirs /\ fs # {} /\ UNCHANGED dirs
    /\ Begin(p, "stop", Default, NoPort, fs)
    /\ UNCHANGED <<status, pidFile>>

CheckStop(p) ==
    /\ Checking(p, "stop")
    /\ CleanUpStale(p)
    /\ IF Running(p) THEN Goto(p, "signal") ELSE NextProfile(p)
    /\ UNCHANGED <<dirs, pidFile>>

\* SIGTERM, which fails if the process has gone meanwhile.
Signal(p) ==
    /\ step[p] = "signal"
    /\ IF Running(p)
       THEN LET q == cmd[p].seen.pid IN
            /\ step' = [step EXCEPT ![p] = "wait", ![q] = Terminated(@)]
            /\ cmd' = IF step[q] \in ServerSteps THEN cmd
                      ELSE [cmd EXCEPT ![q] = NoCommand]
       ELSE NextProfile(p)
    /\ UNCHANGED files

\* Slip: when the waiting is over the status is removed in any case.
WaitNot(p) ==
    /\ step[p] = "wait"
    /\ Goto(p, "unlink")
    /\ UNCHANGED files

\* The process has gone, or it has not within two seconds.
Wait(p) ==
    /\ step[p] = "wait"
    /\ IF Running(p) THEN NextProfile(p) ELSE Goto(p, "unlink")
    /\ UNCHANGED files

\* Whatever the file says by now.
Unlink(p) ==
    /\ step[p] = "unlink"
    /\ status' = [status EXCEPT ![cmd[p].at] = NoStatus]
    /\ NextProfile(p)
    /\ UNCHANGED <<dirs, pidFile>>

ShowStatus(p, fs) ==
    /\ \/ \E f \in dirs \cup {Default} : fs = {f} /\ dirs' = dirs \cup {f}
       \/ fs = dirs /\ fs # {} /\ UNCHANGED dirs
    /\ Begin(p, "status", Default, NoPort, fs)
    /\ UNCHANGED <<status, pidFile>>

CheckStatus(p) ==
    /\ Checking(p, "status")
    /\ CleanUpStale(p)
    /\ NextProfile(p)
    /\ UNCHANGED <<dirs, pidFile>>

Create(p, f) ==
    /\ MayBegin(p)
    /\ f \notin dirs \cup {Default}
    /\ dirs' = dirs \cup {f}
    /\ UNCHANGED <<step, cmd, status, pidFile>>

Delete(p, f) ==
    /\ f \in dirs \ {Default}
    /\ Begin(p, "delete", f, NoPort, {f})
    /\ UNCHANGED files

CheckDelete(p) ==
    /\ Checking(p, "delete")
    /\ IF Running(p) THEN Exit(p) ELSE Goto(p, "remove")
    /\ UNCHANGED files

\* remove_dir_all.
RemoveDir(p) ==
    /\ step[p] = "remove"
    /\ dirs' = dirs \ {cmd[p].profile}
    /\ status' = [status EXCEPT ![cmd[p].profile] = NoStatus]
    /\ Exit(p)
    /\ UNCHANGED pidFile
-----------------------------------------------------------------------------
\* A command comes from the outside.
Invoke(p) ==
    \/ \E f \in Profiles, port \in Ports : Start(p, f, port)
    \/ \E fs \in SUBSET Profiles : Stop(p, fs) \/ ShowStatus(p, fs)
    \/ \E f \in Profiles : Create(p, f) \/ Delete(p, f)

\* What a process does by itself once it runs.
Run(p) ==
    \/ Read(p) \/ CheckConflict(p) \/ CheckOwn(p) \/ Prepare(p) \/ Bind(p)
    \/ WriteStatus(p) \/ WritePidFile(p)
    \/ Drained(p) \/ RemoveStatus(p) \/ RemovePidFile(p)
    \/ CheckStop(p) \/ Signal(p) \/ Wait(p) \/ Unlink(p) \/ CheckStatus(p)
    \/ CheckDelete(p) \/ RemoveDir(p)

Next ==
    \E p \in Procs :
        \/ Invoke(p)
        \/ (Run(p) \/ Interrupt(p) \/ Crash(p)) /\ UNCHANGED sequential

Spec == Init /\ [][Next]_vars
-----------------------------------------------------------------------------
(***************************************************************************)
(* Properties.                                                             *)
(***************************************************************************)
TypeOK ==
    /\ step \in [Procs -> {"none"} \cup CommandSteps \cup ServerSteps]
    /\ cmd \in [Procs -> Commands]
    /\ dirs \subseteq Profiles
    /\ status \in [Profiles -> Status \cup {NoStatus}]
    /\ pidFile \in Procs \cup {NoProc}
    /\ sequential \in BOOLEAN

\* An instance: a process that has a listener or still answers requests.
Instance(p) == Listening(p) \/ step[p] = "draining"

\* As long as commands have run one at a time, a profile has one instance (start
\* looks before, not while, it starts).
OneInstance ==
    sequential =>
      \A p, q \in Procs :
        Instance(p) /\ Instance(q) /\ cmd[p].profile = cmd[q].profile => p = q

\* An instance has announced itself and has not yet removed its status.
Announced == {"written", "serving", "draining", "cleaning"}
Found(p) ==
    /\ cmd[p].profile \in dirs
    /\ status[cmd[p].profile] = [pid |-> p, port |-> cmd[p].port]

\* As long as commands have run one at a time, an instance that has announced
\* itself is found where stop, status and the next start look, until it removes
\* its status itself (main.rs, server.rs).
Findable == sequential => \A p \in Procs : step[p] \in Announced => Found(p)

\* As long as commands have run one at a time, a port in use is noticed by
\* check_port_conflict or as the profile's own instance, so that no start gets as
\* far as a bind that fails.
NoLateConflict ==
    sequential => \A p \in Procs : step[p] = "bind" => PortFree(cmd[p].port)

\* However commands interleave, a status file names an instance of its profile
\* with its port, or a process that has gone: stop never signals anything else
\* (main.rs).
StatusTruthful ==
    \A f \in Profiles : Alive(status[f].pid) =>
      LET p == status[f].pid IN
        /\ step[p] \in {"written"} \cup ServerSteps
        /\ cmd[p].profile = f /\ cmd[p].port = status[f].port
=============================================================================
