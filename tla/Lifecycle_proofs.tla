-------------------------- MODULE Lifecycle_proofs --------------------------
(***************************************************************************)
(* Proofs about Lifecycle, for any processes, profiles and ports.  What    *)
(* holds when commands run at the same time comes first; what is needed to *)
(* show that a profile has one instance when they run one by one follows.  *)
(***************************************************************************)
EXTENDS Lifecycle, TLAPS

Steps == {"none"} \cup CommandSteps \cup ServerSteps

-----------------------------------------------------------------------------
(***************************************************************************)
(* Types.                                                                  *)
(***************************************************************************)
\* A file that is there is told apart from one that is not.
LEMMA StatusTyping ==
    /\ NoStatus \notin Status
    /\ \A p \in Procs, port \in Ports : [pid |-> p, port |-> port] \in Status
    /\ \A s \in Status : s.pid \in Procs /\ s.port \in Ports
    /\ NoStatus.pid = NoProc /\ NoProc \notin Procs
BY LifecycleAssumption DEF Status, NoStatus

LEMMA CommandTyping ==
    /\ NoCommand \in Commands
    /\ \A c \in Commands : /\ c.profile \in Profiles /\ c.at \in Profiles
                           /\ c.todo \in SUBSET Profiles
                           /\ c.port \in Ports \cup {NoPort}
                           /\ c.seen \in Status \cup {NoStatus}
                           /\ [c EXCEPT !.seen = NoStatus] \in Commands
                           /\ LookAtOwn(c) \in Commands
BY LifecycleAssumption DEF Commands, NoCommand, LookAtOwn

\* The ways in which a step changes step and cmd keep their types.
LEMMA GotoTypes ==
    ASSUME TypeOK, NEW p \in Procs, NEW s \in Steps, Goto(p, s)
    PROVE  step' \in [Procs -> Steps] /\ cmd' \in [Procs -> Commands]
BY DEF TypeOK, Goto, Steps

LEMMA ExitTypes ==
    ASSUME TypeOK, NEW p \in Procs, Exit(p)
    PROVE  step' \in [Procs -> Steps] /\ cmd' \in [Procs -> Commands]
BY CommandTyping DEF TypeOK, Exit, Steps

LEMMA NextProfileTypes ==
    ASSUME TypeOK, NEW p \in Procs, NextProfile(p)
    PROVE  step' \in [Procs -> Steps] /\ cmd' \in [Procs -> Commands]
<1>1. CASE Exit(p)
  BY <1>1, ExitTypes
<1>2. CASE ~Exit(p)
  <2>1. /\ step' = [step EXCEPT ![p] = "read"]
        /\ cmd' = [cmd EXCEPT ![p] = [cmd[p] EXCEPT !.seen = NoStatus]]
    BY <1>2 DEF NextProfile
  <2> QED  BY <2>1, CommandTyping DEF TypeOK, Steps, CommandSteps
<1> QED  BY <1>1, <1>2

LEMMA BeginTypes ==
    ASSUME TypeOK, NEW p \in Procs, NEW f \in Profiles, NEW port \in Ports \cup {NoPort},
           NEW fs \in SUBSET Profiles,
           NEW task \in {"conflict", "own", "stop", "status", "delete"},
           Begin(p, task, f, port, fs)
    PROVE  step' \in [Procs -> Steps] /\ cmd' \in [Procs -> Commands]
<1>1. [NoCommand EXCEPT !.task = task, !.profile = f, !.port = port, !.todo = fs]
        \in Commands
  BY LifecycleAssumption DEF Commands, NoCommand
<1> QED  BY <1>1 DEF TypeOK, Begin, Steps, CommandSteps

\* What a signal does to the process that sends it, and to the others.
LEMMA SignalEffect ==
    ASSUME TypeOK, NEW p \in Procs, Signal(p), Running(p)
    PROVE  /\ cmd[p].seen.pid \in Procs
           /\ step' \in [Procs -> Steps] /\ cmd' \in [Procs -> Commands]
           /\ step'[p] \in {"wait", "none"}
           /\ \A q \in Procs \ {p} :
                 step'[q] = IF q = cmd[p].seen.pid THEN Terminated(step[q]) ELSE step[q]
           /\ \A q \in Procs :
                 cmd'[q] = IF q = cmd[p].seen.pid /\ step[q] \notin ServerSteps
                           THEN NoCommand ELSE cmd[q]
<1> DEFINE r == cmd[p].seen.pid
<1>1. r \in Procs
  BY DEF Running, Alive
<1>2. \A s \in Steps : Terminated(s) \in Steps
  BY DEF Terminated, Steps, CommandSteps, ServerSteps
<1>3. /\ step \in [Procs -> Steps] /\ cmd \in [Procs -> Commands]
      /\ "wait" \in Steps /\ NoCommand \in Commands /\ step[p] = "signal"
  BY CommandTyping DEF TypeOK, Steps, CommandSteps, Signal
<1>4. /\ step' = [step EXCEPT ![p] = "wait", ![r] = Terminated(step[r])]
      /\ cmd' = IF step[r] \in ServerSteps THEN cmd ELSE [cmd EXCEPT ![r] = NoCommand]
  BY DEF Signal
<1>5. Terminated("signal") = "none"
  BY DEF Terminated, ServerSteps
<1> HIDE DEF r, Steps
<1> QED  BY <1>1, <1>2, <1>3, <1>4, <1>5 DEF r

LEMMA CleanUpTypes ==
    ASSUME TypeOK, NEW p \in Procs, CleanUpStale(p)
    PROVE  status' \in [Profiles -> Status \cup {NoStatus}]
BY CommandTyping DEF TypeOK, CleanUpStale

\* Only a start goes as far as writing a status, and it has a port.
PortGiven ==
    \A p \in Procs :
      /\ cmd[p].task \in {"conflict", "own"} => cmd[p].port \in Ports
      /\ step[p] \in {"prepare", "bind", "bound"} => cmd[p].task = "own"

LEMMA InitTypes == ASSUME Init PROVE TypeOK /\ PortGiven
BY LifecycleAssumption, CommandTyping DEF Init, TypeOK, PortGiven, NoCommand

\* One step per action of Next.
LEMMA NextTypes == ASSUME TypeOK, PortGiven, [Next]_vars PROVE TypeOK'
<1>0. CASE UNCHANGED vars
  BY <1>0 DEF TypeOK, vars, files
<1> SUFFICES ASSUME NEW p \in Procs, Invoke(p) \/ Run(p) \/ Interrupt(p) \/ Crash(p),
                    sequential' \in BOOLEAN
            PROVE  TypeOK'
  <2>1. sequential' \in BOOLEAN
    BY DEF TypeOK, vars, Next, Invoke, Start, Stop, ShowStatus, Create, Delete, Begin,
       MayBegin
  <2> QED  BY <1>0, <2>1 DEF Next
<1> USE DEF Steps, files
<1>1. ASSUME NEW f \in Profiles, NEW port \in Ports, Start(p, f, port)
      PROVE  TypeOK'
  <2>1. dirs \ {f} \in SUBSET Profiles /\ {f} \in SUBSET Profiles
    BY DEF TypeOK
  <2>2. step' \in [Procs -> Steps] /\ cmd' \in [Procs -> Commands]
    BY <1>1, <2>1, BeginTypes DEF Start
  <2> QED  BY <1>1, <2>2 DEF Start, TypeOK
<1>2. ASSUME NEW fs \in SUBSET Profiles, Stop(p, fs) \/ ShowStatus(p, fs)
      PROVE  TypeOK'
  <2>1. step' \in [Procs -> Steps] /\ cmd' \in [Procs -> Commands]
    BY <1>2, LifecycleAssumption, BeginTypes DEF Stop, ShowStatus
  <2> QED  BY <1>2, <2>1, LifecycleAssumption DEF Stop, ShowStatus, TypeOK
<1>3. ASSUME NEW f \in Profiles, Create(p, f) \/ Delete(p, f)
      PROVE  TypeOK'
  <2>1. CASE Create(p, f)
    BY <2>1 DEF Create, TypeOK
  <2>2. CASE Delete(p, f)
    <3>1. step' \in [Procs -> Steps] /\ cmd' \in [Procs -> Commands]
      BY <2>2, BeginTypes DEF Delete
    <3> QED  BY <2>2, <3>1 DEF Delete, TypeOK
  <2> QED  BY <1>3, <2>1, <2>2
<1>4. CASE Read(p)
  BY <1>4 DEF Read, TypeOK, Commands, CommandSteps
<1>5. CASE CheckConflict(p)
  <2>1. step' \in [Procs -> Steps] /\ cmd' \in [Procs -> Commands]
    <3>1. CASE Exit(p)
      BY <3>1, ExitTypes
    <3>2. CASE ~Exit(p)
      BY <1>5, <3>2, CommandTyping DEF CheckConflict, TypeOK, CommandSteps
    <3> QED  BY <3>1, <3>2
  <2>2. status' \in [Profiles -> Status \cup {NoStatus}]
    BY <1>5, CleanUpTypes DEF CheckConflict
  <2> QED  BY <1>5, <2>1, <2>2 DEF CheckConflict, TypeOK
<1>6. CASE CheckOwn(p)
  <2>1. step' \in [Procs -> Steps] /\ cmd' \in [Procs -> Commands]
    <3>1. CASE Exit(p)
      BY <3>1, ExitTypes
    <3>2. CASE ~Exit(p)
      BY <1>6, <3>2, CommandTyping DEF CheckOwn, TypeOK, CommandSteps
    <3> QED  BY <3>1, <3>2
  <2>2. status' \in [Profiles -> Status \cup {NoStatus}]
    BY <1>6, CleanUpTypes DEF CheckOwn
  <2> QED  BY <1>6, <2>1, <2>2 DEF CheckOwn, TypeOK
<1>7. CASE Prepare(p) \/ Bind(p)
  <2>1. step' \in [Procs -> Steps] /\ cmd' \in [Procs -> Commands]
    BY <1>7, GotoTypes, ExitTypes DEF Prepare, Bind, CommandSteps
  <2> QED  BY <1>7, <2>1 DEF Prepare, Bind, TypeOK
<1>8. CASE WriteStatus(p)
  <2>1. step' \in [Procs -> Steps] /\ cmd' \in [Procs -> Commands]
    BY <1>8, GotoTypes, ExitTypes DEF WriteStatus, CommandSteps
  <2>2. cmd[p].profile \in Profiles /\ [pid |-> p, port |-> cmd[p].port] \in Status
    BY <1>8, CommandTyping, StatusTyping DEF WriteStatus, TypeOK, PortGiven
  <2> QED  BY <1>8, <2>1, <2>2 DEF WriteStatus, TypeOK
<1>9. CASE WritePidFile(p)
  <2>1. step' \in [Procs -> Steps] /\ cmd' \in [Procs -> Commands]
    BY <1>9, GotoTypes, ExitTypes DEF WritePidFile, ServerSteps
  <2> QED  BY <1>9, <2>1 DEF WritePidFile, TypeOK
<1>10. CASE Interrupt(p) \/ Drained(p) \/ Wait(p) \/ CheckDelete(p)
  <2>1. step' \in [Procs -> Steps] /\ cmd' \in [Procs -> Commands]
    BY <1>10, GotoTypes, ExitTypes, NextProfileTypes
       DEF Interrupt, Drained, Wait, CheckDelete, CommandSteps, ServerSteps
  <2> QED  BY <1>10, <2>1 DEF Interrupt, Drained, Wait, CheckDelete, TypeOK
<1>11. CASE RemoveStatus(p) \/ RemovePidFile(p) \/ RemoveDir(p) \/ Crash(p)
  <2>1. step' \in [Procs -> Steps] /\ cmd' \in [Procs -> Commands]
    BY <1>11, GotoTypes, ExitTypes
       DEF RemoveStatus, RemovePidFile, RemoveDir, Crash, ServerSteps
  <2> QED  BY <1>11, <2>1 DEF RemoveStatus, RemovePidFile, RemoveDir, Crash, TypeOK
<1>12. CASE CheckStop(p) \/ CheckStatus(p)
  <2>1. step' \in [Procs -> Steps] /\ cmd' \in [Procs -> Commands]
    BY <1>12, GotoTypes, NextProfileTypes DEF CheckStop, CheckStatus, CommandSteps
  <2>2. status' \in [Profiles -> Status \cup {NoStatus}]
    BY <1>12, CleanUpTypes DEF CheckStop, CheckStatus
  <2> QED  BY <1>12, <2>1, <2>2 DEF CheckStop, CheckStatus, TypeOK
<1>13. CASE Signal(p)
  <2>1. CASE NextProfile(p)
    BY <1>13, <2>1, NextProfileTypes DEF Signal, TypeOK
  <2>2. CASE ~NextProfile(p)
    <3>1. Running(p)
      BY <1>13, <2>2 DEF Signal
    <3> QED  BY <1>13, <3>1, SignalEffect DEF Signal, TypeOK
  <2> QED  BY <2>1, <2>2
<1>14. CASE Unlink(p)
  <2>1. step' \in [Procs -> Steps] /\ cmd' \in [Procs -> Commands]
    BY <1>14, NextProfileTypes DEF Unlink
  <2> QED  BY <1>14, <2>1 DEF Unlink, TypeOK
<1> QED
  BY <1>1, <1>2, <1>3, <1>4, <1>5, <1>6, <1>7, <1>8, <1>9, <1>10, <1>11, <1>12,
     <1>13, <1>14 DEF Invoke, Run

LEMMA NextPortGiven == ASSUME TypeOK, PortGiven, [Next]_vars PROVE PortGiven'
<1>0. CASE UNCHANGED vars
  BY <1>0 DEF PortGiven, vars, files
<1> SUFFICES ASSUME NEW p \in Procs, Invoke(p) \/ Run(p) \/ Interrupt(p) \/ Crash(p)
            PROVE  PortGiven'
  BY <1>0 DEF Next
<1> USE DEF PortGiven, TypeOK
<1>1. CASE Invoke(p)
  <2>1. ASSUME NEW task, NEW f, NEW port, NEW fs, Begin(p, task, f, port, fs),
               task \in {"conflict", "own"} => port \in Ports
        PROVE  PortGiven'
    BY <2>1 DEF Begin, NoCommand
  <2>2. CASE \E f \in Profiles : Create(p, f)
    BY <2>2 DEF Create
  <2> QED  BY <1>1, <2>1, <2>2 DEF Invoke, Start, Stop, ShowStatus, Delete
<1>2. CASE Exit(p)
  BY <1>2 DEF Exit, NoCommand
<1>3. CASE \E s \in Steps \ {"prepare", "bind", "bound"} : Goto(p, s)
  BY <1>3 DEF Goto
<1>4. CASE NextProfile(p)
  BY <1>2, <1>4 DEF NextProfile, Commands
<1>5. CASE Read(p)
  BY <1>5 DEF Read, Commands
<1>6. CASE CheckConflict(p)
  <2>1. cmd[p].task = "conflict" /\ cmd[p] \in Commands
    BY <1>6 DEF CheckConflict, Checking
  <2>2. CASE ~Exit(p)
    <3>1. PICK c \in {LookAtOwn(cmd[p]), [cmd[p] EXCEPT !.seen = NoStatus]} :
            cmd' = [cmd EXCEPT ![p] = c] /\ step' = [step EXCEPT ![p] = "read"]
      BY <1>6, <2>2 DEF CheckConflict
    <3>2. c.port = cmd[p].port
      BY <2>1, <3>1 DEF LookAtOwn, Commands
    <3> QED  BY <2>1, <3>1, <3>2
  <2> QED  BY <1>2, <2>2
<1>7. CASE CheckOwn(p)
  BY <1>2, <1>7 DEF CheckOwn, Checking, Commands
<1>8. CASE Prepare(p) \/ Bind(p)
  BY <1>2, <1>8 DEF Prepare, Bind, Goto
<1>9. CASE Signal(p)
  <2>1. CASE NextProfile(p)
    BY <1>4, <2>1
  <2>2. CASE ~NextProfile(p)
    <3>1. Running(p)
      BY <1>9, <2>2 DEF Signal
    <3>2. \A s \in Steps : Terminated(s) \notin {"prepare", "bind", "bound"}
      BY DEF Terminated, Steps, CommandSteps, ServerSteps
    <3>3. step \in [Procs -> Steps]
      BY DEF Steps
    <3>4. ASSUME NEW q \in Procs, step'[q] \in {"prepare", "bind", "bound"}
          PROVE  step'[q] = step[q] /\ cmd'[q] = cmd[q]
      <4>1. step[q] \notin ServerSteps => Terminated(step[q]) = "none"
        BY DEF Terminated, ServerSteps
      <4> HIDE DEF PortGiven, TypeOK
      <4>2. q # p
        BY <1>9, <3>1, <3>4, SignalEffect
      <4>3. q # cmd[p].seen.pid
        BY <1>9, <3>1, <3>2, <3>3, <3>4, <4>2, SignalEffect
      <4> QED  BY <1>9, <3>1, <4>2, <4>3, SignalEffect
    <3>5. ASSUME NEW q \in Procs PROVE cmd'[q] \in {cmd[q], NoCommand}
      <4> HIDE DEF PortGiven, TypeOK
      <4> QED  BY <1>9, <3>1, SignalEffect
    <3> QED  BY <3>4, <3>5 DEF NoCommand
  <2> QED  BY <2>1, <2>2
<1> QED
  BY <1>1, <1>2, <1>3, <1>4, <1>5, <1>6, <1>7, <1>8, <1>9
     DEF Run, Interrupt, Crash, WriteStatus, WritePidFile, Drained, RemoveStatus,
         RemovePidFile, CheckStop, Wait, Unlink, CheckStatus, CheckDelete, RemoveDir,
         Steps, CommandSteps, ServerSteps

LEMMA TypeInvariant == Spec => [](TypeOK /\ PortGiven)
<1>1. Init => TypeOK /\ PortGiven
  BY InitTypes
<1>2. TypeOK /\ PortGiven /\ [Next]_vars => (TypeOK /\ PortGiven)'
  BY NextTypes, NextPortGiven
<1> QED  BY <1>1, <1>2, PTL DEF Spec

\* Every variable keeps its type: steps, commands, directories and files
\* (main.rs, server.rs, daemon/status.rs).
THEOREM TypeCorrect == Spec => []TypeOK
BY TypeInvariant, PTL

-----------------------------------------------------------------------------
(***************************************************************************)
(* What status files name, also when commands run at the same time.        *)
(***************************************************************************)
\* Nothing but p changes.
OnlyMoves(p) == \A q \in Procs \ {p} : step'[q] = step[q] /\ cmd'[q] = cmd[q]

\* The process that acts is the one that changes, unless it sends a signal.
LEMMA Moves ==
    ASSUME TypeOK, NEW p \in Procs, Invoke(p) \/ Run(p) \/ Interrupt(p) \/ Crash(p)
    PROVE  OnlyMoves(p) \/ (Signal(p) /\ Running(p))
<1> USE DEF OnlyMoves, TypeOK
<1>1. CASE Invoke(p)
  BY <1>1 DEF Invoke, Start, Stop, ShowStatus, Create, Delete, Begin
<1>2. CASE Exit(p)
  BY <1>2 DEF Exit
<1>3. ASSUME NEW s, Goto(p, s) PROVE OnlyMoves(p)
  BY <1>3 DEF Goto
<1>4. CASE NextProfile(p)
  BY <1>2, <1>4 DEF NextProfile
<1>5. CASE Read(p)
  BY <1>5 DEF Read
<1>6. CASE CheckConflict(p) \/ CheckOwn(p)
  BY <1>2, <1>6 DEF CheckConflict, CheckOwn
<1>7. CASE Signal(p)
  BY <1>4, <1>7 DEF Signal
<1> QED
  BY <1>1, <1>2, <1>3, <1>4, <1>5, <1>6, <1>7
     DEF Run, Interrupt, Crash, Prepare, Bind, WriteStatus, WritePidFile, Drained,
         RemoveStatus, RemovePidFile, CheckStop, Wait, Unlink, CheckStatus,
         CheckDelete, RemoveDir

\* The steps of a process that a status file may name.
Named == {"written"} \cup ServerSteps

LEMMA NamedSteps ==
    ASSUME TypeOK, NEW p \in Procs, Invoke(p) \/ Run(p) \/ Interrupt(p) \/ Crash(p),
           NEW q \in Procs, step[q] \in Named
    PROVE  step'[q] = "none" \/ (step'[q] \in Named /\ cmd'[q] = cmd[q])
<1>1. CASE Signal(p) /\ Running(p)
  <2>1. q # p
    BY <1>1 DEF Signal, Named, ServerSteps
  <2>2. Terminated(step[q]) \in Named \cup {"none"}
    BY DEF Terminated, Named, ServerSteps
  <2>3. step[q] \notin ServerSteps => Terminated(step[q]) = "none"
    BY DEF Terminated, ServerSteps
  <2> QED  BY <1>1, <2>1, <2>2, <2>3, SignalEffect
<1>2. CASE OnlyMoves(p) /\ q # p
  BY <1>2 DEF OnlyMoves
<1>3. CASE OnlyMoves(p) /\ q = p
  <2>1. \/ WritePidFile(p) \/ Drained(p) \/ RemoveStatus(p) \/ RemovePidFile(p)
        \/ Interrupt(p) \/ Crash(p) \/ \E f \in Profiles : Create(p, f)
    BY <1>3 DEF Invoke, Start, Stop, ShowStatus, Delete, Begin, MayBegin, Fresh, Run,
       Read, CheckConflict, CheckOwn, Checking, Prepare, Bind, WriteStatus, CheckStop,
       Signal, Wait, Unlink, CheckStatus, CheckDelete, RemoveDir, Named, ServerSteps
  <2>2. CASE Exit(p)
    BY <1>3, <2>2 DEF Exit, TypeOK
  <2>3. CASE \E s \in ServerSteps : Goto(p, s)
    BY <1>3, <2>3 DEF Goto, Named, TypeOK
  <2> QED
    BY <1>3, <2>1, <2>2, <2>3 DEF WritePidFile, Drained, RemoveStatus, RemovePidFile,
       Interrupt, Crash, Create, ServerSteps
<1> QED  BY <1>1, <1>2, <1>3, Moves

\* The ways in which a status file changes.
LEMMA StatusChanges ==
    ASSUME TypeOK, NEW p \in Procs, Invoke(p) \/ Run(p) \/ Interrupt(p) \/ Crash(p),
           NEW f \in Profiles
    PROVE  \/ status'[f] = status[f]
           \/ status'[f] = NoStatus
           \/ /\ step[p] = "bound" /\ step'[p] = "written" /\ cmd' = cmd
              /\ cmd[p].profile = f
              /\ status'[f] = [pid |-> p, port |-> cmd[p].port]
<1> USE DEF TypeOK
<1>1. CASE WriteStatus(p)
  BY <1>1 DEF WriteStatus, Goto
<1>2. CASE CleanUpStale(p)
  BY <1>2 DEF CleanUpStale
<1>3. CASE UNCHANGED status
  BY <1>3
<1>4. CASE RemoveStatus(p) \/ Unlink(p) \/ RemoveDir(p)
  BY <1>4 DEF RemoveStatus, Unlink, RemoveDir
<1> QED
  BY <1>1, <1>2, <1>3, <1>4
     DEF Invoke, Start, Stop, ShowStatus, Create, Delete, Run, Interrupt, Crash, Read,
         CheckConflict, CheckOwn, Prepare, Bind, WritePidFile, Drained, RemovePidFile,
         CheckStop, Signal, Wait, CheckStatus, CheckDelete, files

\* A process that begins is not named by any file.
LEMMA NewProcess ==
    ASSUME TypeOK, NEW p \in Procs, Invoke(p) \/ Run(p) \/ Interrupt(p) \/ Crash(p),
           NEW q \in Procs, step[q] = "none", step'[q] # "none"
    PROVE  q = p /\ MayBegin(p) /\ Fresh(p) /\ UNCHANGED status
<1>1. ~(Signal(p) /\ Running(p))
  <2> SUFFICES ASSUME Signal(p), Running(p) PROVE FALSE
    OBVIOUS
  <2>1. Terminated("none") = "none" /\ q # p
    BY DEF Terminated, ServerSteps, Signal
  <2> QED  BY <2>1, SignalEffect
<1>2. q = p
  BY <1>1, Moves DEF OnlyMoves
<1>3. Invoke(p)
  BY <1>2 DEF Run, Read, CheckConflict, CheckOwn, Checking, Prepare, Bind, WriteStatus,
     WritePidFile, Drained, RemoveStatus, RemovePidFile, CheckStop, Signal, Wait, Unlink,
     CheckStatus, CheckDelete, RemoveDir, Interrupt, Crash
<1>4. ASSUME NEW f, Create(p, f) PROVE FALSE
  BY <1>2, <1>4 DEF Create
<1> QED
  BY <1>2, <1>3, <1>4 DEF Invoke, Start, Stop, ShowStatus, Delete, Begin, MayBegin, files

LEMMA NextTruthful ==
    ASSUME TypeOK, StatusTruthful, [Next]_vars PROVE StatusTruthful'
<1>0. CASE UNCHANGED vars
  BY <1>0 DEF StatusTruthful, Alive, vars, files
<1> SUFFICES ASSUME NEW p \in Procs, Invoke(p) \/ Run(p) \/ Interrupt(p) \/ Crash(p),
                    NEW f \in Profiles, Alive(status[f].pid)'
            PROVE  LET q == status'[f].pid IN
                     /\ step'[q] \in Named
                     /\ cmd'[q].profile = f /\ cmd'[q].port = status'[f].port
  BY <1>0 DEF Next, StatusTruthful, Named
<1>1. CASE status'[f] = status[f]
  <2> DEFINE q == status[f].pid
  <2>1. q \in Procs /\ step'[q] # "none"
    BY <1>1 DEF Alive
  <2>2. step[q] # "none"
    BY <2>1, NewProcess DEF Fresh
  <2>3. step[q] \in Named /\ cmd[q].profile = f /\ cmd[q].port = status[f].port
    BY <2>1, <2>2 DEF StatusTruthful, Alive, Named
  <2> QED  BY <1>1, <2>1, <2>3, NamedSteps
<1>2. CASE status'[f] = NoStatus
  BY <1>2, StatusTyping DEF Alive
<1>3. CASE /\ step[p] = "bound" /\ step'[p] = "written" /\ cmd' = cmd
           /\ cmd[p].profile = f
           /\ status'[f] = [pid |-> p, port |-> cmd[p].port]
  BY <1>3 DEF Named
<1> QED  BY <1>1, <1>2, <1>3, StatusChanges

\* A status file names an instance of its profile with its port, or a process
\* that has gone, however commands are interleaved: stop signals nothing else
\* (stop_profile_instance).
THEOREM StatusNamesInstance == Spec => []StatusTruthful
<1>1. Init => StatusTruthful
  BY StatusTyping DEF Init, StatusTruthful, Alive
<1>2. TypeOK /\ StatusTruthful /\ [Next]_vars => StatusTruthful'
  BY NextTruthful
<1> QED  BY <1>1, <1>2, TypeCorrect, PTL DEF Spec

-----------------------------------------------------------------------------
(***************************************************************************)
(* Commands that run one at a time.  The invariant says what the one that  *)
(* runs may rely on: nobody else writes a status, and a server only        *)
(* removes its own, so what was read is still there or its process ends.   *)
(***************************************************************************)
\* Where an instance with the port of a starting process may still be found.
Sought(p) ==
    {cmd[p].profile} \cup cmd[p].todo \cup
      (IF step[p] = "check" THEN {cmd[p].at} ELSE {})

CommandInv(p) ==
    /\ step[p] \in {"read", "check"} /\ cmd[p].task \in {"own", "delete"} =>
         Sought(p) = {cmd[p].profile}
    /\ step[p] = "remove" => cmd[p].at = cmd[p].profile
    /\ step[p] \in {"check", "signal", "wait", "unlink", "remove"} =>
         status[cmd[p].at] \in {cmd[p].seen, NoStatus}
    /\ step[p] \in {"signal", "wait", "unlink"} => cmd[p].task = "stop"
    /\ step[p] \in {"unlink", "remove"} => ~Running(p)
    /\ step[p] \in {"read", "check"} /\ cmd[p].task \in {"conflict", "own"} =>
         \A q \in Procs : Listening(q) /\ cmd[q].port = cmd[p].port
           => cmd[q].profile \in Sought(p)
    /\ step[p] \in {"prepare", "bind"} => PortFree(cmd[p].port)
    /\ step[p] \in {"prepare", "bind", "bound"} =>
         \A q \in Procs : step[q] \in Announced => cmd[q].profile # cmd[p].profile

Alone ==
    \A p, q \in Procs : step[p] \in CommandSteps /\ step[q] \in CommandSteps => p = q

AllFound == \A p \in Procs : step[p] \in Announced => Found(p)

\* A command never finds itself.
NotSelf == \A p \in Procs : cmd[p].seen.pid # p

OneByOne ==
    /\ TypeOK /\ NotSelf /\ StatusTruthful
    /\ Alone /\ AllFound
    /\ \A p \in Procs : CommandInv(p)

\* What a command has read names the instance of that profile, if there is one.
LEMMA SeenIsInstance ==
    ASSUME TypeOK, AllFound, NEW p \in Procs, NEW q \in Procs,
           status[cmd[p].at] \in {cmd[p].seen, NoStatus},
           step[q] \in Announced, cmd[q].profile = cmd[p].at
    PROVE  Running(p) /\ cmd[p].seen = [pid |-> q, port |-> cmd[q].port]
<1>1. status[cmd[p].at] = [pid |-> q, port |-> cmd[q].port]
  BY DEF AllFound, Found, Announced
<1>2. [pid |-> q, port |-> cmd[q].port] # NoStatus
  BY LifecycleAssumption DEF NoStatus
<1> QED  BY <1>1, <1>2 DEF Running, Alive, Announced

\* A process becomes announced by writing its status, and keeps its command.
LEMMA AnnouncedSteps ==
    ASSUME TypeOK, NEW p \in Procs, Invoke(p) \/ Run(p) \/ Interrupt(p) \/ Crash(p),
           NEW q \in Procs, step'[q] \in Announced
    PROVE  /\ cmd'[q] = cmd[q]
           /\ step[q] \in Announced \/ (q = p /\ WriteStatus(p))
<1>1. CASE Signal(p) /\ Running(p)
  <2>1. q # p
    BY <1>1, SignalEffect DEF Announced
  <2>2. Terminated(step[q]) \in Announced => step[q] \in Announced \cap ServerSteps
    BY DEF Terminated, Announced, ServerSteps
  <2> QED  BY <1>1, <2>1, <2>2, SignalEffect DEF Announced
<1>2. CASE OnlyMoves(p) /\ q # p
  BY <1>2 DEF OnlyMoves
<1>3. CASE OnlyMoves(p) /\ q = p
  <2>1. ~Exit(p)
    BY <1>3 DEF Exit, TypeOK, Announced
  <2>2. ~NextProfile(p)
    BY <1>3, <2>1 DEF NextProfile, TypeOK, Announced
  <2>3. \A s : Goto(p, s) => s \in Announced /\ cmd' = cmd
    BY <1>3 DEF Goto, TypeOK
  <2>4. ~Invoke(p) \/ \E f \in Profiles : Create(p, f)
    BY <1>3 DEF Invoke, Start, Stop, ShowStatus, Delete, Begin, TypeOK, Announced
  <2>5. ~(Read(p) \/ CheckConflict(p) \/ CheckOwn(p) \/ Signal(p))
    BY <1>3, <2>1, <2>2, SignalEffect
       DEF Read, CheckConflict, CheckOwn, Signal, TypeOK, Announced
  <2> QED
    BY <1>3, <2>1, <2>2, <2>3, <2>4, <2>5
       DEF Run, Create, Prepare, Bind, WriteStatus, WritePidFile, Drained, RemoveStatus,
           RemovePidFile, Interrupt, Crash, CheckStop, Wait, Unlink, CheckStatus,
           CheckDelete, RemoveDir, Announced
<1> QED  BY <1>1, <1>2, <1>3, Moves

\* The files of announced instances survive every step.
LEMMA NextFindable ==
    ASSUME OneByOne, NEW p \in Procs, Invoke(p) \/ Run(p) \/ Interrupt(p) \/ Crash(p)
    PROVE  AllFound'
<1> SUFFICES ASSUME NEW q \in Procs, step'[q] \in Announced
            PROVE  /\ cmd'[q].profile \in dirs'
                   /\ status'[cmd'[q].profile] = [pid |-> q, port |-> cmd'[q].port]
  BY DEF AllFound, Found, Announced
<1> DEFINE f == cmd[q].profile
<1>1. cmd'[q] = cmd[q] /\ f \in Profiles
  BY AnnouncedSteps, CommandTyping DEF OneByOne, TypeOK
<1>2. CASE q = p /\ WriteStatus(p)
  BY <1>1, <1>2, AnnouncedSteps DEF WriteStatus, Goto, Exit, Announced, OneByOne, TypeOK
<1>3. CASE step[q] \in Announced
  <2>1. f \in dirs /\ status[f] = [pid |-> q, port |-> cmd[q].port]
    BY <1>3 DEF OneByOne, AllFound, Found, Announced
  <2>2. status[f] # NoStatus
    BY <2>1, LifecycleAssumption DEF NoStatus
  <2> HIDE DEF f
  <2>3. CASE UNCHANGED status /\ dirs \subseteq dirs'
    BY <1>1, <2>1, <2>3 DEF f
  <2>4. CASE CleanUpStale(p) /\ step[p] = "check" /\ UNCHANGED dirs
    <3>1. ~(Stale(p) /\ cmd[p].at = f)
      BY <1>3, <2>4, SeenIsInstance DEF OneByOne, CommandInv, Stale, Running, f
    <3>2. status'[f] = status[f]
      BY <1>1, <2>4, <3>1 DEF CleanUpStale, OneByOne, TypeOK
    <3> QED  BY <1>1, <2>1, <2>4, <3>2 DEF f
  <2>5. CASE WriteStatus(p)
    <3>1. cmd[p].profile # f
      BY <1>3, <2>5 DEF WriteStatus, OneByOne, CommandInv, f
    <3> QED  BY <1>1, <2>1, <2>5, <3>1 DEF WriteStatus, OneByOne, TypeOK, f
  <2>6. CASE RemoveStatus(p)
    <3>1. q # p
      BY <2>6 DEF RemoveStatus, Goto, OneByOne, TypeOK, Announced
    <3>2. status[f].pid = q /\ status[cmd[p].profile].pid = p
      <4>1. status[cmd[p].profile] = [pid |-> p, port |-> cmd[p].port]
        BY <2>6 DEF RemoveStatus, OneByOne, AllFound, Found, Announced
      <4> QED  BY <2>1, <4>1
    <3>3. cmd[p].profile # f
      BY <3>1, <3>2
    <3> QED  BY <1>1, <2>1, <2>6, <3>3 DEF RemoveStatus, OneByOne, TypeOK, f
  <2>7. CASE Unlink(p)
    <3>1. cmd[p].at # f
      BY <1>3, <2>7, SeenIsInstance DEF Unlink, OneByOne, CommandInv, f
    <3> QED  BY <1>1, <2>1, <2>7, <3>1 DEF Unlink, OneByOne, TypeOK, f
  <2>8. CASE RemoveDir(p)
    <3>1. cmd[p].profile # f
      BY <1>3, <2>8, SeenIsInstance DEF RemoveDir, OneByOne, CommandInv, f
    <3> QED  BY <1>1, <2>1, <2>8, <3>1 DEF RemoveDir, OneByOne, TypeOK, f
  <2> QED
    BY <2>3, <2>4, <2>5, <2>6, <2>7, <2>8
       DEF Invoke, Start, Stop, ShowStatus, Create, Delete, Run, Interrupt, Crash, Read,
           Checking, CheckConflict, CheckOwn, Prepare, Bind, WritePidFile, Drained,
           RemovePidFile, CheckStop, Signal, Wait, CheckStatus, CheckDelete, files
<1> QED  BY <1>2, <1>3, AnnouncedSteps DEF OneByOne

\* A command never reads a status that names its own process.
LEMMA NextNotSelf ==
    ASSUME TypeOK, StatusTruthful, NotSelf, [Next]_vars PROVE NotSelf'
<1>0. CASE UNCHANGED vars
  BY <1>0 DEF NotSelf, vars
<1> SUFFICES ASSUME NEW p \in Procs, Invoke(p) \/ Run(p) \/ Interrupt(p) \/ Crash(p),
                    NEW q \in Procs
            PROVE  cmd'[q].seen.pid # q
  BY <1>0 DEF Next, NotSelf
<1> USE DEF TypeOK
<1>1. NoCommand.seen.pid # q /\ NoStatus.pid # q /\ cmd[q].seen.pid # q
  BY StatusTyping DEF NoCommand, NotSelf
<1>2. CASE Signal(p) /\ Running(p)
  BY <1>1, <1>2, SignalEffect
<1>3. CASE OnlyMoves(p) /\ q # p
  BY <1>1, <1>3 DEF OnlyMoves
<1>4. CASE q = p /\ cmd' = cmd
  BY <1>1, <1>4
<1>5. CASE q = p /\ Exit(p)
  BY <1>1, <1>5 DEF Exit
<1>6. CASE q = p /\ cmd'[p].seen = NoStatus
  BY <1>1, <1>6
<1>7. CASE q = p /\ Read(p)
  <2>1. PICK f \in Profiles : cmd'[p].seen = status[f]
    BY <1>7 DEF Read, Commands
  <2>2. status[f].pid # p
    BY <1>7, <2>1 DEF Read, StatusTruthful, Alive, ServerSteps
  <2> QED  BY <1>7, <2>1, <2>2
<1>8. CASE Invoke(p)
  <2>1. ASSUME NEW task, NEW f, NEW port, NEW fs, Begin(p, task, f, port, fs)
        PROVE  cmd'[p].seen = NoStatus
    BY <2>1 DEF Begin, NoCommand
  <2>2. CASE \E f \in Profiles : Create(p, f)
    BY <1>1, <2>2 DEF Create
  <2>3. CASE cmd'[p].seen = NoStatus
    BY <1>2, <1>3, <1>6, <2>3, Moves
  <2> QED  BY <1>8, <2>1, <2>2, <2>3 DEF Invoke, Start, Stop, ShowStatus, Delete
<1>9. CASE NextProfile(p)
  <2>1. ~Exit(p) => cmd'[p].seen = NoStatus
    BY <1>9 DEF NextProfile, Commands
  <2> QED  BY <1>2, <1>3, <1>5, <1>6, <2>1, Moves
<1>10. CASE CheckConflict(p) \/ CheckOwn(p)
  <2>1. ASSUME ~Exit(p) PROVE cmd'[p].seen = NoStatus
    <3>1. PICK c \in {LookAtOwn(cmd[p]), [cmd[p] EXCEPT !.seen = NoStatus]} :
            cmd' = [cmd EXCEPT ![p] = c]
      BY <1>10, <2>1 DEF CheckConflict, CheckOwn
    <3>2. c.seen = NoStatus
      BY <3>1 DEF LookAtOwn, Commands
    <3> QED  BY <3>1, <3>2
  <2> QED  BY <1>2, <1>3, <1>5, <1>6, <2>1, Moves
<1> QED
  BY <1>2, <1>3, <1>4, <1>5, <1>7, <1>8, <1>9, <1>10, Moves
     DEF Run, Interrupt, Crash, Prepare, Bind, WriteStatus, WritePidFile, Drained,
         RemoveStatus, RemovePidFile, CheckStop, Signal, Wait, Unlink, CheckStatus,
         CheckDelete, RemoveDir, Goto

\* Nobody enters the steps of a command but a process that begins.
LEMMA CommandsBegin ==
    ASSUME TypeOK, NEW p \in Procs, Invoke(p) \/ Run(p) \/ Interrupt(p) \/ Crash(p),
           NEW q \in Procs, step'[q] \in CommandSteps
    PROVE  step[q] \in CommandSteps \/ (q = p /\ step[p] = "none" /\ MayBegin(p))
<1>1. CASE step[q] = "none"
  BY <1>1, NewProcess DEF CommandSteps
<1>2. CASE step[q] \in ServerSteps
  <2>1. \A s \in ServerSteps : Terminated(s) \in ServerSteps
    BY DEF Terminated, ServerSteps
  <2>2. ServerSteps \cap CommandSteps = {} /\ "none" \notin CommandSteps
    BY DEF ServerSteps, CommandSteps
  <2>3. CASE Signal(p) /\ Running(p)
    <3>1. q # p
      BY <1>2, <2>3 DEF Signal, ServerSteps
    <3> QED  BY <1>2, <2>1, <2>2, <2>3, <3>1, SignalEffect
  <2>4. CASE OnlyMoves(p) /\ q # p
    BY <1>2, <2>2, <2>4 DEF OnlyMoves
  <2>5. CASE q = p
    <3>1. \/ Drained(p) \/ RemoveStatus(p) \/ RemovePidFile(p) \/ Interrupt(p)
          \/ Crash(p) \/ \E f \in Profiles : Create(p, f)
      BY <1>2, <2>5 DEF Invoke, Start, Stop, ShowStatus, Delete, Begin, MayBegin, Fresh,
         Run, Read, CheckConflict, CheckOwn, Checking, Prepare, Bind, WriteStatus,
         WritePidFile, CheckStop, Signal, Wait, Unlink, CheckStatus, CheckDelete,
         RemoveDir, ServerSteps
    <3>2. ~Exit(p)
      BY <2>2, <2>5 DEF Exit, TypeOK
    <3>3. \A s : Goto(p, s) => s \in CommandSteps
      BY <2>5 DEF Goto, TypeOK
    <3>4. step # step'
      BY <1>2, <2>2, <2>5
    <3> QED
      BY <3>1, <3>2, <3>3, <3>4 DEF Drained, RemoveStatus, RemovePidFile, Interrupt,
         Crash, Create, CommandSteps
  <2> QED  BY <2>3, <2>4, <2>5, Moves
<1> QED  BY <1>1, <1>2 DEF TypeOK

LEMMA NextAlone ==
    ASSUME sequential', TypeOK, Alone, NEW p \in Procs,
           Invoke(p) \/ Run(p) \/ Interrupt(p) \/ Crash(p)
    PROVE  Alone'
BY CommandsBegin DEF Alone, MayBegin

\* What a command relies on is not lost while instances only withdraw.
LEMMA Withdraw ==
    ASSUME TypeOK, NEW p \in Procs, CommandInv(p), step'[p] = step[p], cmd'[p] = cmd[p],
           \A q \in Procs : step'[q] \in Announced =>
             step[q] \in Announced /\ cmd'[q] = cmd[q],
           \A q \in Procs : Listening(q)' => Listening(q) /\ cmd'[q] = cmd[q],
           \A q \in Procs : step[q] = "none" => step'[q] = "none",
           \A f \in Profiles : status'[f] \in {status[f], NoStatus}
    PROVE  CommandInv(p)'
<1>1. Sought(p)' = Sought(p)
  BY DEF Sought
<1>2. ~Running(p) => ~Running(p)'
  BY DEF Running, Alive
<1>3. PortFree(cmd[p].port) => PortFree(cmd[p].port)'
  BY DEF PortFree
<1>4. status[cmd[p].at] \in {cmd[p].seen, NoStatus} =>
        status'[cmd'[p].at] \in {cmd'[p].seen, NoStatus}
  BY CommandTyping DEF TypeOK
<1> HIDE DEF Sought, Running, PortFree, Listening
<1> QED  BY <1>1, <1>2, <1>3, <1>4 DEF CommandInv

LEMMA OtherCommands ==
    ASSUME sequential', OneByOne, NEW p \in Procs,
           Invoke(p) \/ Run(p) \/ Interrupt(p) \/ Crash(p), NEW c \in Procs \ {p}
    PROVE  CommandInv(c)'
<1> USE DEF OneByOne
<1>1. CASE step'[c] \notin CommandSteps
  BY <1>1 DEF CommandInv, CommandSteps
<1>2. CASE step'[c] \in CommandSteps
  <2>1. step[c] \in CommandSteps
    BY <1>2, CommandsBegin
  <2>2. step[p] \notin CommandSteps
    BY <2>1 DEF Alone
  <2>3. OnlyMoves(p)
    BY <2>2, Moves DEF Signal, CommandSteps
  <2>4. \A q \in Procs : step'[q] \in Announced =>
          step[q] \in Announced /\ cmd'[q] = cmd[q]
    BY <2>2, AnnouncedSteps DEF WriteStatus, CommandSteps
  <2>5. \A q \in Procs : step[q] = "none" => step'[q] = "none"
    BY <2>1, NewProcess DEF MayBegin
  <2>6. step'[p] \notin CommandSteps
    BY <2>1, <2>2, CommandsBegin DEF MayBegin
  <2>7. \A q \in Procs : Listening(q)' => Listening(q) /\ cmd'[q] = cmd[q]
    <3> SUFFICES ASSUME NEW q \in Procs, Listening(q)'
                PROVE  Listening(q) /\ cmd'[q] = cmd[q]
      OBVIOUS
    <3>1. CASE q # p
      BY <2>3, <3>1 DEF OnlyMoves, Listening
    <3>2. CASE q = p
      <4>1. step'[p] = "serving"
        BY <2>6, <3>2 DEF Listening, CommandSteps
      <4>2. step[p] \in ServerSteps /\ cmd'[p] = cmd[p]
        BY <2>2, <2>4, <4>1 DEF Announced, TypeOK
      <4>3. step[p] = "serving"
        BY <4>1, <4>2 DEF Invoke, Start, Stop, ShowStatus, Create, Delete, Begin, MayBegin,
           Fresh, Run, Read, CheckConflict, CheckOwn, Checking, Prepare, Bind, WriteStatus,
           WritePidFile, CheckStop, Signal, Wait, Unlink, CheckStatus, CheckDelete,
           RemoveDir, Drained, RemoveStatus, RemovePidFile, Interrupt, Crash, Exit, Goto,
           ServerSteps, TypeOK
      <4> QED  BY <3>2, <4>2, <4>3 DEF Listening
    <3> QED  BY <3>1, <3>2
  <2>8. \A f \in Profiles : status'[f] \in {status[f], NoStatus}
    BY <2>2, StatusChanges DEF CommandSteps
  <2> QED  BY <2>3, <2>4, <2>5, <2>7, <2>8, Withdraw DEF OnlyMoves
<1> QED  BY <1>1, <1>2

\* A command that begins knows what it has to look at.
LEMMA CommandBegins ==
    ASSUME sequential', OneByOne, NEW p \in Procs, Invoke(p)
    PROVE  CommandInv(p)'
<1> USE DEF OneByOne, TypeOK
<1>1. CASE \E f \in Profiles : Create(p, f)
  BY <1>1 DEF Create, MayBegin, Fresh, CommandInv
<1>2. ASSUME NEW task, NEW f \in Profiles, NEW port, NEW fs, Begin(p, task, f, port, fs)
      PROVE  /\ step'[p] = "read" /\ cmd'[p].task = task /\ cmd'[p].profile = f
             /\ cmd'[p].port = port /\ cmd'[p].todo = fs
             /\ \A q \in Procs : Listening(q)' => step[q] = "serving" /\ cmd'[q] = cmd[q]
  <2>1. /\ step'[p] = "read" /\ cmd'[p].task = task /\ cmd'[p].profile = f
        /\ cmd'[p].port = port /\ cmd'[p].todo = fs
    BY <1>2 DEF Begin, NoCommand
  <2>2. ASSUME NEW q \in Procs, Listening(q)'
        PROVE  step[q] = "serving" /\ cmd'[q] = cmd[q]
    <3>1. q # p
      BY <2>1, <2>2 DEF Listening
    <3> QED  BY <1>2, <2>2, <3>1 DEF Begin, MayBegin, Listening, CommandSteps
  <2> QED  BY <2>1, <2>2
<1>3. ASSUME NEW f \in Profiles, NEW port \in Ports, Start(p, f, port)
      PROVE  CommandInv(p)'
  <2>1. PICK task \in {"own", "conflict"}, fs \in SUBSET Profiles :
          /\ Begin(p, task, f, port, fs)
          /\ task = "own" => fs = {f}
          /\ dirs \ {f} \subseteq fs
    BY <1>3 DEF Start
  <2>2. \A q \in Procs : Listening(q)' => cmd'[q].profile \in dirs
    BY <1>2, <2>1 DEF AllFound, Found, Announced
  <2>3. Sought(p)' = {f} \cup fs
    BY <1>2, <2>1 DEF Sought
  <2> QED  BY <1>2, <2>1, <2>2, <2>3 DEF CommandInv
<1>4. ASSUME NEW fs \in SUBSET Profiles, Stop(p, fs) \/ ShowStatus(p, fs)
      PROVE  CommandInv(p)'
  <2>1. PICK task \in {"stop", "status"} : Begin(p, task, Default, NoPort, fs)
    BY <1>4 DEF Stop, ShowStatus
  <2>2. step'[p] = "read" /\ cmd'[p].task \in {"stop", "status"}
    BY <1>2, <2>1, LifecycleAssumption
  <2> QED  BY <2>2 DEF CommandInv
<1>5. ASSUME NEW f \in Profiles, Delete(p, f)
      PROVE  CommandInv(p)'
  <2>1. Begin(p, "delete", f, NoPort, {f})
    BY <1>5 DEF Delete
  <2>2. /\ step'[p] = "read" /\ cmd'[p].task = "delete"
        /\ cmd'[p].profile = f /\ cmd'[p].todo = {f}
    BY <1>2, <2>1
  <2>3. Sought(p)' = {f}
    BY <2>2 DEF Sought
  <2> QED  BY <2>2, <2>3 DEF CommandInv
<1> QED  BY <1>1, <1>3, <1>4, <1>5 DEF Invoke

\* A command that goes on may rely on what it has seen.
LEMMA CommandGoesOn ==
    ASSUME sequential', OneByOne, NEW p \in Procs, Run(p) \/ Interrupt(p) \/ Crash(p)
    PROVE  CommandInv(p)'
<1> USE DEF OneByOne, TypeOK
<1>1. CASE step'[p] \notin CommandSteps \ {"written"}
  BY <1>1 DEF CommandInv, CommandSteps
<1> SUFFICES ASSUME step'[p] \in CommandSteps \ {"written"}
            PROVE  CommandInv(p)'
  BY <1>1
<1>2. step[p] \in CommandSteps
  BY CommandsBegin, <1>1 DEF Run, Read, CheckConflict, CheckOwn, Checking, Prepare, Bind,
     WriteStatus, WritePidFile, Drained, RemoveStatus, RemovePidFile, CheckStop, Signal,
     Wait, Unlink, CheckStatus, CheckDelete, RemoveDir, Interrupt, Crash, CommandSteps
<1>3. \A q \in Procs \ {p} : step[q] \notin CommandSteps
  BY <1>2 DEF Alone
<1>4. ~Exit(p)
  BY DEF Exit, CommandSteps
<1>5. ASSUME cmd[p].task \in {"stop", "status"}, NextProfile(p)
      PROVE  CommandInv(p)'
  <2>1. step'[p] = "read" /\ cmd'[p].task = cmd[p].task
    BY <1>4, <1>5 DEF NextProfile, Commands
  <2> QED  BY <1>5, <2>1 DEF CommandInv
<1>6. ASSUME NEW q \in Procs, Listening(q), step[p] = "check", cmd[q].profile = cmd[p].at
      PROVE  Running(p) /\ cmd[p].seen.port = cmd[q].port
  <2>1. step[q] \in Announced
    BY <1>3, <1>6 DEF Listening, Announced, CommandSteps
  <2>2. cmd[p].seen = [pid |-> q, port |-> cmd[q].port]
    BY <1>6, <2>1, SeenIsInstance DEF CommandInv
  <2> QED  BY <1>6, <2>1, <2>2, SeenIsInstance DEF CommandInv
<1>7. CASE Read(p)
  <2>1. PICK f \in cmd[p].todo :
          cmd'[p] = [cmd[p] EXCEPT !.at = f, !.todo = @ \ {f}, !.seen = status[f]]
    BY <1>7 DEF Read
  <2>2. /\ step[p] = "read" /\ step'[p] = "check" /\ UNCHANGED files
        /\ \A q \in Procs \ {p} : step'[q] = step[q] /\ cmd'[q] = cmd[q]
    BY <1>7 DEF Read
  <2>3. /\ cmd'[p].task = cmd[p].task /\ cmd'[p].profile = cmd[p].profile
        /\ cmd'[p].port = cmd[p].port /\ cmd'[p].at = f /\ cmd'[p].seen = status[f]
        /\ cmd'[p].todo = cmd[p].todo \ {f}
    BY <2>1 DEF Commands
  <2>4. Sought(p)' = Sought(p)
    BY <2>2, <2>3 DEF Sought
  <2>5. \A q \in Procs : Listening(q)' => Listening(q) /\ cmd'[q] = cmd[q]
    BY <2>2 DEF Listening
  <2> QED  BY <2>2, <2>3, <2>4, <2>5 DEF CommandInv, files
<1>8. CASE CheckConflict(p)
  <2>1. /\ step[p] = "check" /\ step'[p] = "read" /\ cmd[p].task = "conflict"
        /\ ~(Running(p) /\ cmd[p].seen.port = cmd[p].port)
        /\ cmd'[p] = IF cmd[p].todo = {} THEN LookAtOwn(cmd[p])
                     ELSE [cmd[p] EXCEPT !.seen = NoStatus]
        /\ \A q \in Procs \ {p} : step'[q] = step[q] /\ cmd'[q] = cmd[q]
    BY <1>4, <1>8 DEF CheckConflict, Checking
  <2>2. /\ cmd'[p].profile = cmd[p].profile /\ cmd'[p].port = cmd[p].port
        /\ \/ cmd'[p].task = "own" /\ cmd'[p].todo = {cmd[p].profile} /\ cmd[p].todo = {}
           \/ cmd'[p].task = "conflict" /\ cmd'[p].todo = cmd[p].todo
    BY <2>1 DEF LookAtOwn, Commands
  <2>3. Sought(p)' = {cmd[p].profile} \cup cmd[p].todo
    BY <2>1, <2>2 DEF Sought
  <2>4. ASSUME NEW q \in Procs, Listening(q)', cmd'[q].port = cmd'[p].port
        PROVE  cmd'[q].profile \in Sought(p)'
    <3>1. Listening(q) /\ cmd'[q] = cmd[q]
      BY <2>1, <2>4 DEF Listening
    <3>2. cmd[q].profile \in Sought(p)
      BY <2>1, <2>2, <2>4, <3>1 DEF CommandInv
    <3>3. cmd[q].profile # cmd[p].at
      BY <1>6, <2>1, <2>2, <2>4, <3>1
    <3> QED  BY <2>1, <2>3, <3>1, <3>2, <3>3 DEF Sought
  <2> QED  BY <2>1, <2>2, <2>3, <2>4 DEF CommandInv
<1>9. CASE CheckOwn(p)
  <2>1. /\ step[p] = "check" /\ step'[p] = "prepare" /\ cmd[p].task = "own" /\ ~Running(p)
        /\ cmd'[p] = [cmd[p] EXCEPT !.seen = NoStatus]
        /\ \A q \in Procs \ {p} : step'[q] = step[q] /\ cmd'[q] = cmd[q]
    BY <1>4, <1>9 DEF CheckOwn, Checking
  <2>2. cmd'[p].profile = cmd[p].profile /\ cmd'[p].port = cmd[p].port
    BY <2>1 DEF Commands
  <2>3. Sought(p) = {cmd[p].profile} /\ cmd[p].at = cmd[p].profile
    <3>1. Sought(p) = {cmd[p].profile}
      BY <2>1 DEF CommandInv
    <3> QED  BY <2>1, <3>1 DEF Sought
  <2>4. ASSUME NEW q \in Procs, Listening(q)', cmd'[q].port = cmd'[p].port
        PROVE  FALSE
    <3>1. Listening(q) /\ cmd'[q] = cmd[q]
      BY <2>1, <2>4 DEF Listening
    <3>2. cmd[q].profile = cmd[p].profile
      BY <2>1, <2>2, <2>3, <2>4, <3>1 DEF CommandInv
    <3> QED  BY <1>6, <2>1, <2>3, <3>1, <3>2
  <2>5. ASSUME NEW q \in Procs, step'[q] \in Announced
        PROVE  cmd'[q].profile # cmd'[p].profile
    <3>1. step[q] \in Announced /\ cmd'[q] = cmd[q]
      BY <2>1, <2>5 DEF Announced
    <3>2. status[cmd[p].at] \in {cmd[p].seen, NoStatus}
      BY <2>1 DEF CommandInv
    <3> QED  BY <2>1, <2>2, <2>3, <3>1, <3>2, SeenIsInstance
  <2> QED  BY <2>1, <2>4, <2>5 DEF CommandInv, PortFree
<1>10. CASE Prepare(p) \/ Bind(p)
  <2>1. /\ step[p] \in {"prepare", "bind"} /\ step'[p] \in {"bind", "bound"} /\ cmd' = cmd
        /\ step[p] = "bind" => step'[p] = "bound"
        /\ \A q \in Procs \ {p} : step'[q] = step[q]
    BY <1>4, <1>10 DEF Prepare, Bind, Goto
  <2>2. \A q \in Procs : step'[q] \in Announced => step[q] \in Announced
    BY <2>1 DEF Announced
  <2>3. step'[p] = "bind" => PortFree(cmd[p].port)'
    BY <2>1 DEF PortFree, Listening, CommandInv
  <2> QED  BY <2>1, <2>2, <2>3 DEF CommandInv
<1>11. CASE CheckStop(p) \/ CheckStatus(p)
  <2>1. step[p] = "check" /\ cmd[p].task \in {"stop", "status"} /\ CleanUpStale(p)
    BY <1>11 DEF CheckStop, CheckStatus, Checking
  <2>2. CASE ~NextProfile(p)
    <3>1. cmd[p].task = "stop" /\ Running(p) /\ step'[p] = "signal" /\ cmd' = cmd
      BY <1>11, <2>2 DEF CheckStop, CheckStatus, Checking, Goto
    <3>2. status' = status
      BY <2>1, <3>1 DEF CleanUpStale, Stale, Running
    <3> QED  BY <2>1, <3>1, <3>2 DEF CommandInv
  <2> QED  BY <1>5, <2>1, <2>2
<1>12. CASE Signal(p)
  <2>1. step[p] = "signal" /\ cmd[p].task = "stop" /\ UNCHANGED files
    BY <1>12 DEF Signal, CommandInv
  <2>2. CASE Running(p)
    <3>1. cmd[p].seen.pid # p
      BY DEF NotSelf
    <3>2. step'[p] = "wait" /\ cmd'[p] = cmd[p]
      BY <1>12, <2>2, <3>1, SignalEffect DEF CommandSteps
    <3> QED  BY <2>1, <3>2 DEF CommandInv, files
  <2>3. CASE ~Running(p)
    BY <1>5, <1>12, <2>1, <2>3 DEF Signal
  <2> QED  BY <2>2, <2>3
<1>13. CASE Wait(p)
  <2>1. step[p] = "wait" /\ cmd[p].task = "stop" /\ UNCHANGED files
    BY <1>13 DEF Wait, CommandInv
  <2>2. CASE ~Running(p)
    <3>1. step'[p] = "unlink" /\ cmd' = cmd /\ \A q \in Procs \ {p} : step'[q] = step[q]
      BY <1>13, <2>2 DEF Wait, Goto
    <3>2. ~Running(p)'
      BY <2>1, <2>2, <3>1 DEF Running, Alive
    <3> QED  BY <2>1, <3>1, <3>2 DEF CommandInv, files
  <2> QED  BY <1>5, <1>13, <2>1, <2>2 DEF Wait
<1>14. CASE CheckDelete(p)
  <2>1. /\ step[p] = "check" /\ cmd[p].task = "delete" /\ ~Running(p) /\ UNCHANGED files
        /\ step'[p] = "remove" /\ cmd' = cmd /\ \A q \in Procs \ {p} : step'[q] = step[q]
    BY <1>4, <1>14 DEF CheckDelete, Checking, Goto
  <2>2. ~Running(p)'
    BY <2>1 DEF Running, Alive
  <2>3. cmd[p].at = cmd[p].profile
    BY <2>1 DEF CommandInv, Sought
  <2> QED  BY <2>1, <2>2, <2>3 DEF CommandInv, files
<1>15. CASE Unlink(p)
  BY <1>5, <1>15 DEF Unlink, CommandInv
<1>16. \A s \in ServerSteps \cup {"written"} : ~Goto(p, s)
  BY DEF Goto, CommandSteps, ServerSteps
<1> QED
  BY <1>4, <1>7, <1>8, <1>9, <1>10, <1>11, <1>12, <1>13, <1>14, <1>15, <1>16
     DEF Run, WriteStatus, WritePidFile, Drained, RemoveStatus, RemovePidFile,
         RemoveDir, Interrupt, Crash, ServerSteps

\* What has not happened by now did not happen before.
LEMMA SequentialSoFar == ASSUME [Next]_vars, sequential' PROVE sequential
BY DEF vars, Next, Invoke, Start, Stop, ShowStatus, Create, Delete, Begin, MayBegin

LEMMA OneByOneInvariant == Spec => [](sequential => OneByOne)
<1>1. Init => OneByOne
  <2> SUFFICES ASSUME Init PROVE OneByOne
    OBVIOUS
  <2>1. \A p \in Procs : step[p] = "none" /\ cmd[p] = NoCommand
    BY DEF Init
  <2>2. NotSelf
    BY <2>1, StatusTyping DEF NotSelf, NoCommand
  <2>3. StatusTruthful
    BY StatusTyping DEF Init, StatusTruthful, Alive
  <2> QED
    BY <2>1, <2>2, <2>3, InitTypes
       DEF OneByOne, Alone, AllFound, Announced, CommandInv, CommandSteps
<1>2. (sequential => OneByOne) /\ TypeOK /\ PortGiven /\ [Next]_vars
        => (sequential => OneByOne)'
  <2> SUFFICES ASSUME sequential => OneByOne, TypeOK, PortGiven, [Next]_vars, sequential'
              PROVE OneByOne'
    OBVIOUS
  <2>0. OneByOne
    BY SequentialSoFar
  <2>1. TypeOK' /\ NotSelf' /\ StatusTruthful'
    BY <2>0, NextTypes, NextNotSelf, NextTruthful DEF OneByOne
  <2>2. CASE UNCHANGED vars
    <3>1. Alone' /\ AllFound'
      BY <2>0, <2>2 DEF OneByOne, Alone, AllFound, Found, vars, files
    <3>2. ASSUME NEW p \in Procs PROVE CommandInv(p)'
      BY <2>0, <2>2 DEF OneByOne, CommandInv, Sought, Running, Alive, PortFree, Listening,
         vars, files
    <3> QED  BY <2>1, <3>1, <3>2 DEF OneByOne
  <2>3. CASE Next
    <3>1. PICK p \in Procs : Invoke(p) \/ Run(p) \/ Interrupt(p) \/ Crash(p)
      BY <2>3 DEF Next
    <3>2. Alone' /\ AllFound'
      BY <2>0, <3>1, NextAlone, NextFindable DEF OneByOne
    <3>3. ASSUME NEW q \in Procs PROVE CommandInv(q)'
      BY <2>0, <3>1, OtherCommands, CommandBegins, CommandGoesOn
    <3> QED  BY <2>1, <3>2, <3>3 DEF OneByOne
  <2> QED  BY <2>2, <2>3
<1> QED  BY <1>1, <1>2, TypeInvariant, PTL DEF Spec

\* As long as commands run one at a time, a profile has one instance, although
\* start only looks before it starts one (main.rs).
THEOREM StartsOnce == Spec => []OneInstance
<1>1. (sequential => OneByOne) => OneInstance
  <2> SUFFICES ASSUME OneByOne, NEW p \in Procs, NEW q \in Procs,
                      Instance(p), Instance(q), cmd[p].profile = cmd[q].profile
              PROVE  p = q
    BY DEF OneInstance
  <2>1. CASE step[p] = "bound" /\ step[q] = "bound"
    BY <2>1 DEF OneByOne, Alone, CommandSteps
  <2>2. CASE step[p] # "bound" /\ step[q] # "bound"
    <3>1. /\ status[cmd[p].profile] = [pid |-> p, port |-> cmd[p].port]
          /\ status[cmd[q].profile] = [pid |-> q, port |-> cmd[q].port]
      BY <2>2 DEF OneByOne, AllFound, Found, Announced, Instance, Listening
    <3>2. status[cmd[p].profile].pid = p /\ status[cmd[q].profile].pid = q
      BY <3>1
    <3> QED  BY <3>2
  <2>3. CASE step[p] = "bound" /\ step[q] # "bound"
    BY <2>3 DEF OneByOne, CommandInv, Instance, Listening, Announced
  <2>4. CASE step[p] # "bound" /\ step[q] = "bound"
    BY <2>4 DEF OneByOne, CommandInv, Instance, Listening, Announced
  <2> QED  BY <2>1, <2>2, <2>3, <2>4
<1> QED  BY <1>1, OneByOneInvariant, PTL

\* As long as commands run one at a time, the status of an announced instance stays
\* where stop, status and the next start look (main.rs, server.rs).
THEOREM InstancesFound == Spec => []Findable
<1>1. (sequential => OneByOne) => Findable
  BY DEF OneByOne, AllFound, Findable
<1> QED  BY <1>1, OneByOneInvariant, PTL

\* As long as commands run one at a time, a port in use is noticed before the bind
\* (check_port_conflict).
THEOREM ConflictsNoticed == Spec => []NoLateConflict
<1>1. (sequential => OneByOne) => NoLateConflict
  BY DEF OneByOne, CommandInv, NoLateConflict
<1> QED  BY <1>1, OneByOneInvariant, PTL
=============================================================================
