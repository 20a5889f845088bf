--------------------------- MODULE CopilotClient ---------------------------
(***************************************************************************)
(* One call of CopilotClient: send_chat_completion ("plain"),              *)
(* stream_chat_completion ("stream") or fetch_models ("models"), with the  *)
(* attempts, what the upstream API and the network make of each, and the   *)
(* HTTP answer the client of the adapter gets for an error.                *)
(*                                                                         *)
(* The HTTP client is built without any timeout (server.rs:134), so an     *)
(* attempt lasts until the upstream answers or the connection fails.       *)
(***************************************************************************)
EXTENDS SseParser, FiniteSets

CONSTANTS
    MaxRetries,   \* MAX_RETRIES
    Statuses,     \* status codes of upstream answers
    ErrorBodies,  \* bodies of upstream errors, as the parsers see them
    RetryAfter,   \* values of a Retry-After header
    None          \* no header, or no number in it

\* What a body that reports a prompt that is too long may look like: is it
\* JSON with an error object, is the code there, is the phrase in the
\* message, does the message end with it, do the numbers fit into 32 bits?
BodyShapes == [json : BOOLEAN, code : BOOLEAN, phrase : BOOLEAN,
               last : BOOLEAN, fits : BOOLEAN]

ASSUME ClientAssumption ==
    /\ MaxRetries \in Nat
    /\ Statuses \subseteq 300 .. 599
    /\ ErrorBodies \subseteq BodyShapes
    /\ RetryAfter \subseteq Nat /\ None \notin Nat

VARIABLES
    call,      \* which of the three functions was called
    pc,        \* where it is
    attempt,   \* attempt
    answers,   \* what came of each attempt, in order
    served,    \* attempts that made the upstream API produce an answer
    result     \* the error returned, or NoError

callVars == <<call, pc, attempt, answers, served, result>>
vars == <<sseVars, callVars>>

Success(s) == s \in 200 .. 299
ClientError(s) == s \in 400 .. 499
ServerError(s) == s \in 500 .. 599

NoBody == [json |-> FALSE, code |-> FALSE, phrase |-> FALSE, last |-> FALSE,
           fits |-> FALSE]
\* A network failure has no status: its kind is in "net".
Answer(net, status, shape, after) ==
    [net |-> net, status |-> status, shape |-> shape, after |-> after]
NetworkFailures == {"timeout", "connect", "reset"}

NoError == [err |-> "none", status |-> 200, after |-> None]
Error(err, status, after) == [err |-> err, status |-> status, after |-> after]

Init ==
    /\ SseInit
    /\ call \in {"plain", "stream", "models"}
    /\ call # "stream" => body = <<>>
    /\ pc = "send"
    /\ attempt = 0
    /\ answers = <<>> /\ served = 0
    /\ result = NoError
-----------------------------------------------------------------------------
(***************************************************************************)
(* Errors.                                                                 *)
(***************************************************************************)
\* parse_prompt_too_long: error.code and error.message of a JSON body.
ParsePromptTooLong(b) == b.json /\ b.code /\ b.phrase /\ b.last /\ b.fits
\* The fallback: the phrase anywhere in a body that has one of the markers.
ParsePromptTooLongRegex(b) == (b.code \/ b.phrase) /\ b.phrase /\ b.fits

\* The two parsers in turn.
TooLong(a) ==
    /\ a.status = 400
    /\ ParsePromptTooLong(a.shape) \/ ParsePromptTooLongRegex(a.shape)

\* Slip: every other error of the upstream API is a CopilotError.
HandleErrorAsOurs(a) ==
    IF a.status = 429
    THEN Error("RateLimited", 429, IF a.after = None THEN 60 ELSE a.after)
    ELSE IF TooLong(a) THEN Error("PromptTooLong", 400, None)
    ELSE Error("CopilotError", 502, None)

\* handle_error_response, with the default of parse_retry_after.
HandleErrorResponse(a) ==
    IF a.status = 429
    THEN Error("RateLimited", 429, IF a.after = None THEN 60 ELSE a.after)
    ELSE IF TooLong(a) THEN Error("PromptTooLong", 400, None)
    ELSE IF ClientError(a.status)
    THEN Error("UpstreamClientError", a.status, None)
    ELSE Error("CopilotError", 502, None)

\* The status an AppError is answered with (into_response); the client error
\* of the upstream API keeps its own.
ResponseStatus(e) ==
    CASE e.err \in {"NotAuthenticated", "TokenExpired"} -> 401
      [] e.err \in {"GitHubError", "CopilotError"} -> 502
      [] e.err = "UpstreamClientError" -> e.status
      [] e.err = "RateLimited" -> 429
      [] e.err \in {"InvalidRequest", "PromptTooLong"} -> 400
      [] e.err = "ModelNotFound" -> 404
      [] e.err = "Internal" -> 500
      [] e.err = "none" -> 200

Return(error) ==
    /\ pc' = "done"
    /\ result' = error
-----------------------------------------------------------------------------
(***************************************************************************)
(* Attempts.                                                               *)
(***************************************************************************)
\* The sleep before a repetition, 1, 2, 4 ... seconds, ends.
Backoff ==
    /\ pc = "backoff"
    /\ pc' = "send"
    /\ UNCHANGED <<sseVars, call, attempt, answers, served, result>>

Send ==
    /\ pc = "send"
    /\ pc' = "await"
    /\ UNCHANGED <<sseVars, call, attempt, answers, served, result>>

\* The failures after which an attempt is repeated.
Transient(a) ==
    \/ a.net \in {"timeout", "connect"}
    \/ a.net = "no" /\ ServerError(a.status)

Retries(a) == call # "models" /\ Transient(a) /\ attempt < MaxRetries

\* An attempt ends with a, after the upstream produced an answer or not.
AttemptEnds(a, worked) ==
    /\ pc = "await"
    /\ answers' = Append(answers, a)
    /\ served' = served + (IF worked THEN 1 ELSE 0)
    /\ UNCHANGED <<sseVars, call>>

\* A failure of the network; a request that never got a connection made the
\* upstream do nothing, of any other one cannot know.
NetworkFails(kind, worked) ==
    LET a == Answer(kind, 0, NoBody, None)
    IN  /\ kind = "connect" => ~worked
        /\ AttemptEnds(a, worked)
        /\ IF Retries(a)
           THEN pc' = "backoff" /\ attempt' = attempt + 1 /\ UNCHANGED result
           ELSE Return(Error("CopilotError", 502, None)) /\ UNCHANGED attempt

\* An answer with another status than success.
ErrorStatus(status, shape, after, worked) ==
    LET a == Answer("no", status, shape, after)
    IN  /\ ~Success(status)
        /\ worked => ServerError(status)
        /\ status # 400 => shape = NoBody
        /\ status # 429 => after = None
        /\ AttemptEnds(a, worked)
        /\ IF Retries(a)
           THEN pc' = "backoff" /\ attempt' = attempt + 1 /\ UNCHANGED result
           ELSE Return(HandleErrorResponse(a)) /\ UNCHANGED attempt

\* A success: its body is read now, or handed to the caller as a stream.
SuccessStatus ==
    /\ AttemptEnds(Answer("no", 200, NoBody, None), TRUE)
    /\ pc' = IF call = "stream" THEN "streaming" ELSE "read"
    /\ UNCHANGED <<attempt, result>>

\* response.text() and the JSON parser: neither is tried again.
ReadBody ==
    /\ pc = "read"
    /\ \E error \in {NoError, Error("Internal", 500, None)} : Return(error)
    /\ UNCHANGED <<sseVars, call, attempt, answers, served>>

\* The caller pulls the stream.
Stream ==
    /\ pc = "streaming"
    /\ SseStep
    /\ UNCHANGED callVars

\* Slip: a stream that breaks before its first chunk is asked for again.
StreamBreaksAndRetries ==
    /\ pc = "streaming"
    /\ ReadFails
    /\ IF yielded = <<>> /\ attempt < MaxRetries
       THEN pc' = "backoff" /\ attempt' = attempt + 1
       ELSE UNCHANGED <<pc, attempt>>
    /\ UNCHANGED <<call, answers, served, result>>

StreamBreaks ==
    /\ pc = "streaming"
    /\ ReadFails
    /\ UNCHANGED callVars

\* The stream has ended; a failure is its last item.
StreamDone ==
    /\ pc = "streaming" /\ phase \in {"ended", "failed"}
    /\ Return(IF phase = "failed" THEN Error("Internal", 500, None)
              ELSE NoError)
    /\ UNCHANGED <<sseVars, call, attempt, answers, served>>

\* The handler is dropped with its client, at any await.
Drop ==
    /\ pc \notin {"done", "dropped"}
    /\ pc' = "dropped"
    /\ UNCHANGED <<sseVars, call, attempt, answers, served, result>>

AttemptDone ==
    \/ \E kind \in NetworkFailures, worked \in BOOLEAN :
          NetworkFails(kind, worked)
    \/ \E status \in Statuses, shape \in ErrorBodies \cup {NoBody},
          after \in RetryAfter \cup {None}, worked \in BOOLEAN :
          ErrorStatus(status, shape, after, worked)
    \/ SuccessStatus

Finished ==
    /\ pc \in {"done", "dropped"}
    /\ UNCHANGED vars

Progress ==
    Backoff \/ Send \/ AttemptDone \/ ReadBody \/ Stream \/ StreamDone
Next == Progress \/ StreamBreaks \/ Drop \/ Finished

Spec == Init /\ [][Next]_vars
-----------------------------------------------------------------------------
Answers ==
    [net : NetworkFailures \cup {"no"}, status : Statuses \cup {0, 200},
     shape : BodyShapes, after : RetryAfter \cup {None}]
Errors ==
    [err : {"none", "RateLimited", "PromptTooLong", "UpstreamClientError",
            "CopilotError", "Internal"},
     status : Nat, after : Nat \cup {None}]

\* Every variable has its type; in particular there are never more attempts
\* than the first one and MAX_RETRIES repetitions.
TypeOK ==
    /\ body \in Seq(Units) /\ wire \in Seq(Units)
    /\ phase \in {"pull", "lines", "ended", "failed"}
    /\ call \in {"plain", "stream", "models"}
    /\ pc \in {"backoff", "send", "await", "read", "streaming", "done", "dropped"}
    /\ attempt \in 0 .. MaxRetries
    /\ answers \in Seq(Answers) /\ Len(answers) <= MaxRetries + 1
    /\ served \in 0 .. MaxRetries + 1
    /\ result \in Errors

Latest == Last(answers)
IsSuccess(a) == a.net = "no" /\ Success(a.status)

\* The upstream API is asked again only after a failure that may pass, at most
\* MAX_RETRIES times and never after it has begun to answer (the comments of
\* send_chat_completion and stream_chat_completion).  An answer that was
\* produced twice was lost by the network or a 5xx.
Lost == {i \in 1 .. Len(answers) :
            Transient(answers[i]) /\ answers[i].net # "connect"}
RetriesJustified ==
    /\ \A i \in 1 .. Len(answers) - 1 : Transient(answers[i])
    /\ pc \in {"backoff", "send", "await"} /\ answers # <<>> => Transient(Latest)
    /\ Len(answers) <= MaxRetries + 1
    /\ served <= 1 + Cardinality(Lost)

\* What is answered for an error tells whose error it was: a client error of
\* the upstream API stays one ("would cause Claude Code to retry
\* indefinitely"), any other failure of the upstream is 502, a body that
\* cannot be understood 500.
StatusTellsWhose ==
    pc = "done" =>
      /\ answers # <<>>
      /\ IsSuccess(Latest) => ResponseStatus(result) \in {200, 500}
      /\ Latest.net # "no" => ResponseStatus(result) = 502
      /\ Latest.net = "no" /\ ClientError(Latest.status) =>
            ResponseStatus(result) = Latest.status
      /\ Latest.net = "no" /\ ~ClientError(Latest.status) /\ ~IsSuccess(Latest) =>
            ResponseStatus(result) = 502

\* A rate limit says how long to wait, and a prompt that is too long is
\* recognised in every body that states both numbers, whatever is around it.
ErrorKeepsItsMeaning ==
    pc = "done" /\ answers # <<>> /\ Latest.net = "no" =>
      /\ Latest.status = 429 =>
            /\ result.err = "RateLimited"
            /\ result.after = IF Latest.after = None THEN 60 ELSE Latest.after
      /\ Latest.status = 400 /\ Latest.shape.phrase /\ Latest.shape.fits =>
            result.err = "PromptTooLong"
=============================================================================
