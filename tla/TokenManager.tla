---------------------------- MODULE TokenManager ----------------------------
(***************************************************************************)
(* TokenManager: the Copilot token that all requests share.                *)
(*                                                                         *)
(* Requests call get_valid_token, background tasks refresh the token ahead *)
(* of its expiry, and an operator logs in (set_github_token) and out       *)
(* (clear_tokens).  "state" is behind a lock that is never held across an  *)
(* await, so each access to it is one step; an exchange of the GitHub      *)
(* token for a Copilot token happens under refresh_lock, a fair mutex.     *)
(* The server drops a request whose client left at any await.              *)
(*                                                                         *)
(* A Copilot token is its expiry.  A restart of the process is another     *)
(* behaviour that begins in Init with what is stored.                      *)
(***************************************************************************)
EXTENDS Integers, Sequences

CONSTANTS
    Callers,       \* requests that call get_valid_token
    Tasks,         \* auto-refresh tasks
    Nobody,        \* holder of a free lock
    NoToken,       \* no Copilot token
    Life,          \* lifetime of a token when it is issued
    RefreshAhead,  \* a token is refreshed that long before its expiry
    SoonDelay,     \* sleep of a task when the token is about to expire
    IdleDelay,     \* sleep of a task when there is no token
    MaxTime        \* bound of the clock

Procs == Callers \cup Tasks

ASSUME TokenAssumption ==
    /\ Callers \cap Tasks = {} /\ Nobody \notin Procs
    /\ NoToken \notin Int
    /\ {Life, RefreshAhead, SoonDelay, IdleDelay, MaxTime} \subseteq Nat

VARIABLES
    github,     \* state.github_token is present
    copilot,    \* state.copilot_token
    stored,     \* the storage has the GitHub token
    holder,     \* who holds refresh_lock
    waiters,    \* who waits for it, in order of arrival
    pc,         \* where each process is
    response,   \* the token an exchange in progress was answered with
    wake,       \* when the sleep of a task ends
    current,    \* tasks whose cancellation token is not cancelled
    admin,      \* the login or logout in progress
    now,        \* the clock
    failures    \* history: exchanges that failed in a row, 2 for more

vars == <<github, copilot, stored, holder, waiters, pc, response, wake,
          current, admin, now, failures>>
lock == <<holder, waiters>>
tokens == <<github, copilot, stored>>
env == <<current, admin, now>>

Valid(token) == token # NoToken /\ now < token

\* The token was just loaded from storage, if it could be.
Init ==
    /\ stored \in BOOLEAN /\ github = stored /\ copilot = NoToken
    /\ holder = Nobody /\ waiters = <<>>
    /\ pc = [p \in Procs |-> IF p \in Callers THEN "idle" ELSE "stopped"]
    /\ response = [p \in Procs |-> NoToken]
    /\ wake = [t \in Tasks |-> 0]
    /\ current = {} /\ admin = "idle" /\ now = 0 /\ failures = 0
-----------------------------------------------------------------------------
(***************************************************************************)
(* refresh_lock.                                                           *)
(***************************************************************************)
Goto(p, label) == pc' = [pc EXCEPT ![p] = label]

\* Where a process goes on when its refresh is over.
Resume(p) == IF p \in Callers THEN "idle" ELSE "planning"

\* Slip: the lock is freed, nobody is woken.
ReleaseNoHandOff == holder' = Nobody /\ UNCHANGED waiters

\* The guard is dropped: the lock passes to the first process in the queue.
Release ==
    IF waiters = <<>> THEN holder' = Nobody /\ UNCHANGED waiters
    ELSE holder' = Head(waiters) /\ waiters' = Tail(waiters)

\* A process that waits leaves the queue.
LeaveQueue(p) ==
    \E i \in 1 .. Len(waiters) :
      /\ waiters[i] = p
      /\ waiters' = SubSeq(waiters, 1, i - 1) \o SubSeq(waiters, i + 1, Len(waiters))
      /\ UNCHANGED holder

\* Slip: refreshes are not serialized.
LockShared(p) ==
    /\ pc[p] = "locking"
    /\ holder' = p
    /\ Goto(p, "queued")
    /\ UNCHANGED <<waiters, tokens, response, wake, env, failures>>

\* refresh_lock.lock(): taken if it is free, else the process queues.
Lock(p) ==
    /\ pc[p] = "locking"
    /\ IF holder = Nobody THEN holder' = p /\ UNCHANGED waiters
       ELSE waiters' = Append(waiters, p) /\ UNCHANGED holder
    /\ Goto(p, "queued")
    /\ UNCHANGED <<tokens, response, wake, env, failures>>
-----------------------------------------------------------------------------
(***************************************************************************)
(* get_valid_token and refresh_copilot_token.                              *)
(***************************************************************************)
\* The fast path of a call: a valid token is returned at once.
FastPath(c) ==
    /\ pc[c] = "idle"
    /\ ~Valid(copilot)
    /\ Goto(c, "locking")
    /\ UNCHANGED <<tokens, lock, response, wake, env, failures>>

\* Slip: the caller does not look again.
RecheckNever(p) ==
    /\ pc[p] = "queued" /\ holder = p
    /\ Goto(p, "refreshing")
    /\ UNCHANGED <<tokens, lock, response, wake, env, failures>>

\* With the lock, a caller looks again; a task refreshes in any case.
Recheck(p) ==
    /\ pc[p] = "queued" /\ holder = p
    /\ IF p \in Callers /\ Valid(copilot) THEN Release /\ Goto(p, "idle")
       ELSE Goto(p, "refreshing") /\ UNCHANGED lock
    /\ UNCHANGED <<tokens, response, wake, env, failures>>

\* do_refresh reads the GitHub token and sends it, or gives up without one.
StartExchange(p) ==
    /\ pc[p] = "refreshing"
    /\ IF github THEN Goto(p, "exchanging") /\ UNCHANGED lock
       ELSE Release /\ Goto(p, Resume(p))
    /\ UNCHANGED <<tokens, response, wake, env, failures>>

\* GitHub issues a Copilot token.
Issue(p) ==
    /\ pc[p] = "exchanging"
    /\ response' = [response EXCEPT ![p] = now + Life]
    /\ Goto(p, "answered")
    /\ UNCHANGED <<tokens, lock, wake, env, failures>>

\* The exchange fails: transport, HTTP status or body.
ExchangeFails(p) ==
    /\ pc[p] = "exchanging"
    /\ Release /\ Goto(p, Resume(p))
    /\ failures' = IF failures = 0 THEN 1 ELSE 2
    /\ UNCHANGED <<tokens, response, wake, env>>

\* The answer is stored and returned, whatever happened to the state since.
StoreToken(p) ==
    /\ pc[p] = "answered"
    /\ copilot' = response[p] /\ failures' = 0
    /\ Release /\ Goto(p, Resume(p))
    /\ UNCHANGED <<github, stored, response, wake, env>>

\* The future of a call is dropped where it awaits.
DropCall(c) ==
    /\ pc[c] # "idle"
    /\ \/ holder = c /\ Release
       \/ holder # c /\ pc[c] = "queued" /\ LeaveQueue(c)
       \/ pc[c] = "locking" /\ UNCHANGED lock
    /\ Goto(c, "idle")
    /\ UNCHANGED <<tokens, response, wake, env, failures>>
-----------------------------------------------------------------------------
(***************************************************************************)
(* The auto-refresh task.                                                  *)
(***************************************************************************)
\* start_auto_refresh: a task with the current cancellation token.
StartAuto(t) ==
    /\ pc[t] = "stopped"
    /\ Goto(t, "planning")
    /\ current' = current \cup {t}
    /\ UNCHANGED <<tokens, lock, response, wake, admin, now, failures>>

\* Slip: the task sleeps until the token has expired.
SleepTimeToExpiry ==
    IF copilot = NoToken THEN IdleDelay
    ELSE IF copilot > now THEN copilot - now ELSE SoonDelay

\* The sleep before the next refresh.
SleepTime ==
    IF copilot = NoToken THEN IdleDelay
    ELSE IF copilot - now > RefreshAhead THEN copilot - now - RefreshAhead
    ELSE SoonDelay

PlanSleep(t) ==
    /\ pc[t] = "planning"
    /\ wake' = [wake EXCEPT ![t] = now + SleepTime]
    /\ Goto(t, "sleeping")
    /\ UNCHANGED <<tokens, lock, response, env, failures>>

\* The sleep is over; a task that is cancelled by then does not refresh.
Wake(t) ==
    /\ pc[t] = "sleeping" /\ now >= wake[t]
    /\ t \in current
    /\ Goto(t, "locking")
    /\ UNCHANGED <<tokens, lock, response, wake, env, failures>>

\* Slip: the cancellation does not interrupt the sleep.
CancelledAfterSleep(t) ==
    /\ pc[t] = "sleeping" /\ now >= wake[t] /\ t \notin current
    /\ Goto(t, "stopped")
    /\ UNCHANGED <<tokens, lock, response, wake, env, failures>>

\* A cancelled task leaves its sleep and ends.
Cancelled(t) ==
    /\ pc[t] = "sleeping" /\ t \notin current
    /\ Goto(t, "stopped")
    /\ UNCHANGED <<tokens, lock, response, wake, env, failures>>

\* stop_auto_refresh: cancel, and a fresh cancellation token for later tasks.
StopAuto ==
    /\ current # {}
    /\ current' = {}
    /\ UNCHANGED <<tokens, lock, pc, response, wake, admin, now, failures>>
-----------------------------------------------------------------------------
(***************************************************************************)
(* Login and logout, one at a time.                                        *)
(***************************************************************************)
\* set_github_token writes to the storage; when that fails nothing changes.
StoreGithub ==
    /\ admin = "idle"
    /\ admin' = "setting" /\ stored' = TRUE
    /\ UNCHANGED <<github, copilot, lock, pc, response, wake, current, now, failures>>

\* ... and then to memory.
RememberGithub ==
    /\ admin = "setting"
    /\ admin' = "idle" /\ github' = TRUE
    /\ UNCHANGED <<copilot, stored, lock, pc, response, wake, current, now, failures>>

\* clear_tokens cancels the tasks,
BeginClear ==
    /\ admin = "idle"
    /\ admin' = "clearing" /\ current' = {}
    /\ UNCHANGED <<tokens, lock, pc, response, wake, now, failures>>

\* and clears the memory and the storage, which may refuse.
ClearTokens ==
    /\ admin = "clearing"
    /\ admin' = "idle" /\ github' = FALSE /\ copilot' = NoToken
    /\ stored' \in {FALSE, stored}
    /\ UNCHANGED <<lock, pc, response, wake, current, now, failures>>

Tick ==
    /\ now < MaxTime
    /\ now' = now + 1
    /\ UNCHANGED <<tokens, lock, pc, response, wake, current, admin, failures>>
-----------------------------------------------------------------------------
\* What a process does by itself once it has begun.
Refresh(p) ==
    \/ Lock(p) \/ Recheck(p) \/ StartExchange(p)
    \/ Issue(p) \/ ExchangeFails(p) \/ StoreToken(p)
TaskStep(t) == Refresh(t) \/ PlanSleep(t) \/ Wake(t) \/ Cancelled(t)

Next ==
    \/ \E c \in Callers : FastPath(c) \/ Refresh(c) \/ DropCall(c)
    \/ \E t \in Tasks : StartAuto(t) \/ TaskStep(t)
    \/ StopAuto \/ StoreGithub \/ RememberGithub \/ BeginClear \/ ClearTokens
    \/ Tick

Spec == Init /\ [][Next]_vars

\* The executor polls every task that can go on, and an exchange ends.
FairSpec ==
    /\ Spec
    /\ \A c \in Callers : WF_vars(Refresh(c))
    /\ \A t \in Tasks : WF_vars(TaskStep(t))

\* The server (server::run): logged in, perhaps with a token that the start
\* command obtained, the task is started at once, nobody logs in or out, no
\* step takes as long as a clock tick and no two exchanges in a row fail.
Quiet ==
    /\ \A c \in Callers : pc[c] = "idle"
    /\ \A t \in Tasks : pc[t] = "sleeping" /\ now < wake[t]

ServerInit == Init /\ github = TRUE

ServerNext ==
    /\ Next
    /\ admin' = "idle" /\ current \subseteq current'
    /\ now' # now => Quiet
    /\ failures' <= 1

ServerSpec == ServerInit /\ [][ServerNext]_vars

\* A sleep, and the short one after a failed refresh, end within the lifetime
\* of a token (start_auto_refresh: 5 s, 60 s, 300 s ahead of the expiry).
Timely ==
    /\ SoonDelay < RefreshAhead /\ 2 * SoonDelay < Life
    /\ IdleDelay + SoonDelay < Life
-----------------------------------------------------------------------------
(***************************************************************************)
(* Properties.                                                             *)
(***************************************************************************)
InExchange == {"refreshing", "exchanging", "answered"}
Labels(p) ==
    {"locking", "queued"} \cup InExchange \cup
    (IF p \in Callers THEN {"idle"} ELSE {"stopped", "planning", "sleeping"})

\* Every variable has its type; in particular a task is never left where
\* only a request can be, outside its loop.
TypeOK ==
    /\ github \in BOOLEAN /\ stored \in BOOLEAN
    /\ copilot \in Nat \cup {NoToken}
    /\ holder \in Procs \cup {Nobody}
    /\ waiters \in Seq(Procs)
    /\ DOMAIN pc = Procs /\ \A p \in Procs : pc[p] \in Labels(p)
    /\ response \in [Procs -> Nat \cup {NoToken}]
    /\ wake \in [Tasks -> Nat]
    /\ current \in SUBSET Tasks
    /\ admin \in {"idle", "setting", "clearing"}
    /\ now \in Nat
    /\ failures \in 0 .. 2

\* At most one exchange is in progress, whatever requests and tasks there are
\* and wherever a request is dropped ("prevent concurrent API calls").
OneExchange ==
    \A p, q \in Procs : pc[p] \in InExchange /\ pc[q] \in InExchange => p = q

\* The lock is never lost: it is free only when nobody waits for it, and its
\* holder is a process that goes on (a dropped request passes it on).
LockNotLost ==
    /\ holder = Nobody => waiters = <<>>
    /\ holder # Nobody => pc[holder] \in InExchange \cup {"queued"}

\* A request that waited while another one refreshed does not refresh again:
\* no request sends an exchange while the token is valid (the re-check).
NoRedundantExchange ==
    [][\A c \in Callers :
         pc[c] = "refreshing" /\ pc'[c] = "exchanging" => ~Valid(copilot)]_vars

\* A late answer never replaces a newer token: the expiry of the token in
\* memory only grows, except by a logout.
NeverOlder ==
    [][copilot # NoToken /\ copilot' # NoToken => copilot' >= copilot]_vars

\* A login that requests can use survives a crash at any moment: it was
\* stored before it was used (set_github_token, clear_tokens).
LoginIsDurable == github => stored

\* Every call of get_valid_token returns, in spite of tasks and requests that
\* keep asking for the lock (refresh_lock is fair, an exchange ends).
CallsReturn == \A c \in Callers : pc[c] # "idle" ~> pc[c] = "idle"

\* A task that was cancelled ends without waiting for its sleep to end, even
\* when it was refreshing (the clock need not tick for it).
CancelledTaskStops ==
    \A t \in Tasks :
      pc[t] # "stopped" /\ t \notin current ~> pc[t] = "stopped"

\* In a running server the token does not expire: once there is one, the task
\* replaces it in time, even when the exchange fails once (do_refresh,
\* start_auto_refresh), and no request waits for an exchange any more.
NeverLapses == [][Valid(copilot) => Valid(copilot)']_vars
=============================================================================
