----------------------------- MODULE DeviceFlow -----------------------------
(***************************************************************************)
(* poll_for_token: after the user was given a code and offered a browser,  *)
(* GitHub is asked at intervals whether the login was authorized, for as   *)
(* long as the code lives.  Time is what the offer, the sleeps and the     *)
(* questions take.                                                         *)
(***************************************************************************)
EXTENDS Naturals

CONSTANTS
    Interval,   \* interval of the device code
    SlowDown,   \* what slow_down adds to it
    ExpiresIn,  \* expires_in
    Prompt,     \* assumption: the longest the offer of the browser takes
    Late        \* assumption: how much longer a sleep and an answer may take

ASSUME FlowAssumption ==
    /\ Interval \in Nat \ {0} /\ SlowDown \in Nat /\ ExpiresIn \in Nat
    /\ Prompt \in Nat /\ Late \in Nat

VARIABLES
    flow,       \* where the loop is
    interval,   \* poll_interval
    lead,       \* how old the code was when it began
    elapsed,    \* time since it began
    waited,     \* time since it last asked
    required    \* the distance of questions GitHub wants by now

flowVars == <<flow, interval, lead, elapsed, waited, required>>

FlowInit ==
    /\ flow = "off"
    /\ interval = Interval
    /\ lead = 0 /\ elapsed = 0
    /\ waited = 0
    /\ required = Interval

\* The code is there before the loop: Enter is waited for, and a browser opened.
Begin ==
    /\ flow' = "asleep"
    /\ interval' = Interval
    /\ lead' \in 0 .. Prompt
    /\ elapsed' = 0
    /\ waited' = 0
    /\ required' = Interval

End ==
    /\ flow' = "off"
    /\ lead' = 0 /\ elapsed' = 0
    /\ waited' = 0
    /\ interval' = Interval
    /\ required' = Interval

\* The time in the loop, which ends after the deadline.
Later(t) == IF t < ExpiresIn + Interval THEN t ELSE ExpiresIn + Interval

\* The sleep, then the look at the deadline; GitHub is asked before it.
Wake ==
    /\ flow = "asleep"
    /\ \E late \in 0 .. Late :
         /\ elapsed' = Later(elapsed + interval + late)
         /\ waited' = waited + interval + late
    /\ flow' = IF elapsed' >= ExpiresIn THEN "failed" ELSE "asking"
    /\ UNCHANGED <<interval, lead, required>>

\* Slip: slow_down is treated like authorization_pending.
PendingOnly ==
    /\ flow = "asking"
    /\ flow' = "asleep"
    /\ waited' = 0
    /\ \E more \in {0, SlowDown} :
          required' = required + more
    /\ UNCHANGED <<interval, lead, elapsed>>

\* Slip: the deadline is counted from the last question.
PendingAfresh ==
    /\ flow = "asking"
    /\ flow' = "asleep"
    /\ elapsed' = 0 /\ waited' = 0
    /\ \E more \in {0, SlowDown} :
         /\ interval' = interval + more
         /\ required' = required + more
    /\ UNCHANGED lead

\* authorization_pending, or slow_down: it is asked again, later from now on.
Pending ==
    /\ flow = "asking"
    /\ flow' = "asleep"
    /\ waited' = 0
    /\ \E more \in {0, SlowDown} :
         /\ interval' = interval + more
         /\ required' = required + more
    /\ UNCHANGED <<lead, elapsed>>

\* The token, or expired_token, access_denied, another error, no answer.
Answered ==
    /\ flow = "asking"
    /\ \E end \in {"granted", "failed"} : flow' = end
    /\ UNCHANGED <<interval, lead, elapsed, waited, required>>

PollStep == Wake \/ Pending \/ Answered
-----------------------------------------------------------------------------
FlowTypeOK ==
    /\ flow \in {"off", "asleep", "asking", "granted", "failed"}
    /\ lead \in 0 .. Prompt /\ elapsed \in 0 .. ExpiresIn + Interval
    /\ waited \in Nat /\ interval \in Nat /\ required \in Nat

\* Every question comes at least as long after the one before as GitHub has
\* asked for by then.  The deadline is counted from the beginning of the loop,
\* so that the program may ask for a code that has expired, but for no longer
\* than the offer before the loop has taken (poll_for_token).
PollsPolitely ==
    flow = "asking" =>
        waited >= required /\ lead + elapsed < ExpiresIn + Prompt
=============================================================================
