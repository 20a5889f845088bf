# Verification of copilot-adapter

TLA+ models, TLC runs and TLAPS proofs about copilot-adapter, a proxy that
speaks the Anthropic Messages protocol to its clients (Claude Code) and the
OpenAI-style API of GitHub Copilot to its upstream. Paths below are relative to
the crate's `src/` directory.

## 1. The system

A request to `/v1/messages` takes the Copilot token from the **token manager**,
is translated, and is sent by the **Copilot client**, which retries and parses
the chunks of a streamed answer. The **messages handler** turns the answer into
Anthropic form: natively (a streamed answer is translated chunk by chunk by
**StreamingState**), with tool calls that the model writes as text (found by the
**parser** once the answer is complete) or plain. Each finished exchange is handed
to the **conversation log**. Requests for models go through the **models cache**.
The commands `start`, `stop`, `status`, `auth`, `logout` and `profiles` share files
with the server: the **status files** of the running instances and the
**credentials**.

| Component | State | Operations | Interacts with |
|---|---|---|---|
| Streaming translation (`streaming/state.rs`) | current block (type, index, open), buffer of tool events, truncated calls, pieces for the estimate, upstream usage | `process_chunk` (`handle_text_delta`, `handle_tool_call_delta`, `handle_finish`), `finalize` | driven by the generator of `handlers/messages.rs`, which keeps a second copy of the answer for the log |
| Messages handler (`handlers/messages.rs`) | per request: mode, log builder, accumulators of the generators | routing, answers that are not streamed, plain, buffered and native streaming, repetition with injected tools after a refusal of native ones | token manager, client, translation, parser, log |
| Request/response translation (`anthropic/types.rs`, `tools/translator.rs`, `tools/injector.rs`, `model_mapper.rs`) | none | conversions of messages, tools, names and answers | handler |
| Tool-call parser (`tools/parser.rs`, `tools/registry.rs`) | none | extraction, removal and coercion of calls written as text | handler |
| Token manager (`auth/token.rs`) | GitHub token, Copilot token, `refresh_lock`, cancellation token, the sleep of the task | `get_valid_token`, `refresh_copilot_token`, `start/stop_auto_refresh`, `set_github_token`, `clear_tokens` | every request, a background task, the credential storage, GitHub |
| Copilot client (`copilot/client.rs`, `error.rs`) | attempt counter; parse buffer of the stream | `send_chat_completion`, `stream_chat_completion`, `fetch_models`, `parse_sse_stream` | upstream API |
| Models cache (`copilot/models_cache.rs`, `handlers/models.rs`) | cached list and its time | `get`, `set`; fetch on a miss | token manager, client |
| Conversation log (`conversation_log.rs`) | the file and its backup; request counter | builder calls, `log_cycle`, rotation | one task per exchange |
| Device flow (`auth/device_flow.rs`) | interval, deadline | `initiate`, `poll_for_token`, `get_copilot_token` | GitHub, commands, token manager |
| Credential storage (`storage/`, `profile/migration.rs`) | file, sentinel, keyring entry, old flat layout | store, get, delete, migrate | token manager, commands |
| Process lifecycle (`main.rs`, `server.rs`, `daemon/`, `profile/mod.rs`) | status file per profile, legacy PID and port files, profile directories, the processes | `start`, `stop`, `status`, `profiles create/delete`, graceful shutdown | several processes through files only |
| Token counter, command line, guidance, DPAPI binding, protocol spy | none, or none that others share | estimates, parsing, printing, logging proxy | - |

### What is hard, and what makes each component correct

- **Streaming**: text, parallel calls, finish reason, usage and the end of the
  body arrive in any order and block indices are kept by hand. Correct means: the
  client sees a well-formed Anthropic stream; a call is sent complete or not at
  all; every call is resolved and every stream ends; the log agrees with what was
  sent; the buffered path sends a whole answer or an error.
- **Handler and translation**: the whole history comes with each request and is
  translated anew, in one of two forms; an attempt with native tools may be
  followed by one with injected tools. Correct means: the upstream API accepts the
  history, nothing the user or a tool said is lost, every call reaches the client
  under its name and with an id of its own, the fallback helps, the log tells the
  last attempt.
- **Parser**: two dialects, wrapped or not, values with markup. Correct means: a
  call is read as it was meant and the rest of the text is the prose.
- **Token manager**: requests that are dropped at any await, a background task
  and an operator share two tokens and a lock. Correct means: exchanges are
  serialized and needed, the lock is never lost, the token only becomes younger
  and does not expire in a running server, a login in use is durable, cancelled
  tasks end, calls return.
- **Client**: failures that may pass or not, a body that is cut anywhere. Correct
  means: a repetition is justified and bounded, the status tells whose error it
  was, the same chunks come out of every cut of a body.
- **Models cache**: concurrent fetches. Correct means: no list is older than the
  time to live and a flight; a failed fetch harms only its own request.
- **Log**: concurrent appends and rotation over files that stay open across a
  rename. Correct means: the size is bounded, records are in order, a rotation
  leaves the latest records.
- **Credentials and login**: writes in several steps, crashes between them,
  accesses that are refused, three older layouts. Correct means: a login is not
  lost silently and is found by `start`, the latest one is served, a logout leaves
  nothing, GitHub is polled as it asked for, every command ends.
- **Lifecycle**: processes that only share files. Correct means: one instance per
  profile, a running instance can be found and stopped, a stop signals nothing
  else.

`PROJECT.json` lists every hazard at its line with the properties that cover it.

## 2. Modules

| Module | Content |
|---|---|
| `StreamEvents` | the event kinds, the stop reasons, and which event may directly follow which (`Follows`) |
| `AnthropicStream` | abstract specification: one variable, the last event a client has; each step is an event that may follow it |
| `StreamingState` | the translator and its generator; refines `AnthropicStream` |
| `TextStream` | the two generators that do not use native tools; refines `AnthropicStream` |
| `Translation` | pure: messages, tools, answers, names of models |
| `ToolText` | pure: calls written as text, their parser and the types of values |
| `WrittenAnswer` | pure: what is meant by a text and how it is written, in the two forms that the parser knows; which texts it is meant to understand (`WellWritten`) |
| `Conversation` | the handler for answers that are not streamed, and its client, over several exchanges; uses the two above |
| `SseParser` | the parser of the event stream |
| `CopilotClient` | one call with its attempts and errors; composes `SseParser` |
| `TokenManager` | the shared token |
| `ModelsCache`, `ConversationLog` | the two, each for several requests |
| `ServerState` | both, as the requests of one server share them |
| `DeviceFlow` | the polling loop |
| `CredentialStore` | the steps in which the storage is migrated, written and deleted |
| `Login` | `auth`, `logout` and `start`; composes the two above |
| `Lifecycle` | the commands and the servers they start, as processes over status files |
| `*_proofs` | the theorems about the module of that name; `Server_proofs` those about `ServerState` and `Conversation`; `StreamEvents_proofs` lemmas about chains of events, shared by two of them |
| `MC*` | values of constants that a cfg cannot write, and symmetry where no liveness is checked |

Recursion is written as recursive functions (`Of`, `Matches`), about which the
provers can reason; no module declares a recursive operator.

Operators whose comment begins with "Slip" are plausible mistakes. No
specification uses them; substituting one for the definition that follows it
shows that a property notices the mistake.

### StreamingState

| Model | Code |
|---|---|
| `blockType` ... `upstreamUsage` | the fields of `StreamingState` of the same names |
| `ReceiveChunk` | `stream.next()` and the `message_start` of the first chunk |
| `HandleTextDelta`, `HandleNewToolCall`, `HandleToolCallArguments`, `HandleFinish`, `CaptureUsage` | the delta functions, with the accumulation for the log that the generator does for the same part |
| `FinishChunk`, `Yield` | `process_chunk` returns; one `yield` |
| `Finalize`, `UpstreamError`, `ClientDisconnect`, `WriteLog` | end of the body, error of the body, drop of the generator, `log_cycle` |

The parts of a chunk are chosen when they are visited: nothing else runs in
between and none is read early. `events` is everything returned so far, of which
the client has the first `yielded`; the log record is compared with it.
A text or a piece of JSON is counted, not spelled out; a call is its index.

Abstractions: one choice per chunk (Copilot sends one); a new call has an index
of its own; after `finish_reason` the upstream sends only usage; logging is
configured. `MaxInput` bounds chunks and parts. `Interleaving` says whether
fragments of parallel calls may be mixed; Copilot sends them one after the
other, and the properties are checked and proved for that; section 5 says what
happens otherwise.

### TextStream

| Model | Code (`handlers/messages.rs`) |
|---|---|
| `PassOn` | one chunk in `handle_streaming`: `message_start` and `content_block_start` when they are needed, then the delta |
| `Buffer` | one chunk in `handle_streaming_with_tools` |
| `Close` | the end of the body in `handle_streaming` |
| `Parse`, `SendCall`, `FinishCalls` | the end of the body in `handle_streaming_with_tools`: calls are parsed and text is sent; one round of the loop over `tool_calls`; the last two events |
| `Found`, `Stripped` | `parse_tool_calls` and `strip_tool_calls`: which calls are found, what is left of the text |
| `UpstreamError`, `Yield`, `ClientDisconnect`, `WriteLog` | as in `StreamingState`; the events of a step are yielded before the next step |

`parseTools` selects the generator and never changes. The text of an answer is a
sequence of pieces: prose, an empty string, or the XML of one call, inside a
`<function_calls>` element or not (`Wrapped`). `calls` are places in it.

Abstractions: the upstream API was offered no tools, so it reports no `tool_calls`
as finish reason; one choice per chunk; prose is not blank; every call has a name;
all calls of an answer are written in the same form, as `parse_invokes` expects;
logging is configured. Serialising an event cannot fail. `MaxInput` bounds the
chunks with text.

### Translation, ToolText, Conversation

| Model | Code |
|---|---|
| `TranslateMessage`, `ToChatCompletionRequest`, `Extract...`, `ToAnthropicResponse` | the functions of `anthropic/types.rs` of the same names |
| `TruncateToolName`, `TranslateTools`, `RestoreToolName` | `tools/translator.rs` |
| `InjectTools`, `TranslateToolMessages` | `tools/injector.rs` |
| `NormalizeModelName` | `model_mapper.rs`, on the parts of a name between its dashes |
| `ParseToolCalls`, `ParseInvokes`, `ParseXmlParams`, `ParseAttributeParams`, `StripToolCalls` | `tools/parser.rs` |
| `GetParamType`, `ParseValueWithType` | `tools/registry.rs` |
| `Receive` | a request arrives: the client has appended to its history what it was answered and the results of the calls |
| `OfferNatively`, `NativeAnswer` | `handle_with_native_tools`, `handle_native_tools_non_streaming` |
| `Inject`, `XmlAnswer` | `messages` without native tools, or after they were refused |
| `Refuse`, `Error` | the upstream API refuses the request for its tools; any other failure |
| `NewCycle`, `SetIncoming` ... `SetFinal` | the log builder |

A block has a kind, a number (of a text or a call) and a tool; a text written with
calls is a sequence of tokens: tags, tags with a name, runs of characters. The lazy
regular expressions of the parser are functions on such sequences, which look for
the next opening and then for the first closing tag, as the expressions do. The texts of a
run are written by `WrittenAnswer` (`Answer`): as `TOOL_USAGE_INSTRUCTIONS` says
(`Invoke`) or in the form that the parser also accepts (`Tagged`), wrapped in
`<function_calls>` or bare, with prose around. `meant`
holds what the model meant by an answer, and whether it is `whole`, that is, no call of it
was cut off; it is chosen with the answer and never looked at by the handler.

Abstractions: what a text says and what a result holds (its id is kept, and `NothingLost`
speaks of nothing else of it); schemas (names and types of parameters are kept);
blanks around values; parameters of sampling; whether the name of a parameter is an
identifier, as it has to be where it is a tag. A plain string as content is one text
block. A name of a model is a sequence of parts (between its dashes), a part a sequence
of pieces (between dots); which parts are dates (`Dates`) and which look like a context
size (`Markers`: other digits, or `m` or `k` at the end) are constants. The client is Claude Code as the documentation describes it: it remembers
answers, may have thinking in them, answers all calls, in any order, and repeats a
request that failed with the history it had.

### SseParser, CopilotClient

| Model | Code (`copilot/client.rs`) |
|---|---|
| `Pull`, `Decode` | `stream.next()` and `from_utf8_lossy` of its chunk |
| `CutFrame`, `ProcessLine`, `FrameDone` | the loop over blank lines and the loop over the lines of a frame |
| `BodyEnds`, `ReadFails` | the end of the body, an error of the connection |
| `Send`, `AttemptDone`, `Backoff` | one round of the loop of `send_chat_completion` and `stream_chat_completion` |
| `NetworkFails`, `ErrorStatus`, `SuccessStatus` | what comes of an attempt |
| `HandleErrorResponse`, `TooLong`, `ResponseStatus` | `handle_error_response`, the two parsers of a prompt that is too long, `AppError::into_response` |
| `ReadBody`, `Stream`, `StreamDone`, `Drop` | reading the body, pulling the stream, its end, the handler is dropped |

A body is a sequence of units, the smallest things a cut can separate; the two
bytes of a character outside of ASCII are two units. `served` counts the answers
the upstream API produced, which the client cannot know. The HTTP client is built
without a timeout (`server.rs:134`); the failure `timeout` is one of the connection.

### ModelsCache, ConversationLog, ServerState

| Model | Code |
|---|---|
| `Lookup`, `GetToken`, `Serve`, `FetchFails`, `Store` | `resolve_models`, cut at its awaits; `Serve` is the moment the upstream API answers |
| `ListChanges`, `Tick` | the upstream API, the clock |
| `Arrive`, `Abandon`, `Spawn` | `next_request_number`; a request that is not logged; the task of one that is |
| `Stat`, `Rename`, `Open`, `Write` | `maybe_rotate` and `log_cycle`, cut at their awaits, each of which may fail |
| `Restart` | the process ends and is started again: numbers begin anew, the files stay |

A file is an inode with records, because a task may append to a file that another
one has renamed. `ServerState` composes the two for the requests of one server,
each of one kind. `ModelsCache::invalidate` is called by tests only and left out.
`MaxFlight` is an assumption: how long a token and a fetch take together.

### DeviceFlow, CredentialStore, Login

| Model | Code |
|---|---|
| `Begin`, `Wake`, `Pending`, `Answered` | `poll_for_token`; a sleep and an answer may take up to `Late` longer. `lead` is the time from the device code to the loop |
| `Migrate`, `Mkdir`, `MoveStatus`, `MoveCredentials`, `MovePid` | `run_migration`, with which every command begins |
| `GetProfile` | `ProfileManager::get`, which makes the default profile if the migration has not |
| `OpenStorage`, `RemoveOld` | `NativeStorage::new` with `migrate_from_xor` |
| `SetKeyring`, `WriteSentinel` | `store_github_token` |
| `Erase`, `RemoveSentinel` | `delete_github_token` |
| `Tokens` | what `get_github_token` may return |
| `Run`, `Dispatch`, `Check`, `Look`, `Initiate`, `Offer`, `Poll`, `Authorized`, `Verify`, `Load`, `Exit` | `Command::Auth`, `Command::Logout` and the part of `Command::Start` about credentials |
| `Crash`, `CrashTraces` | the end of a command between any two accesses, with files half written or half moved |

A token is the rank of its login, so that "latest" can be said; `floor` is the
oldest login that may still be found, and is raised by a completed login and by a
logout. `refused` and `interrupted` remember that an access was refused and that a
crash came within a step of several accesses; the properties say which of the two
they need. The initial states are what earlier versions and this one leave behind.

Abstractions: macOS and Linux; commands one after the other (the storage has no
lock, and the last of two writers wins); the profile is the default one, which is
the one that is migrated. `Offer` is the wait for Enter, of up to 10 s, and the start of
a browser; `Prompt` is an assumption: how long the two take together.

### TokenManager

A process is a request or an auto-refresh task; its `pc` says where in
`get_valid_token`, `refresh_copilot_token` or the loop it is. An access to
`state` is atomic (its lock is never held across an await); `refresh_lock` is
tokio's fair mutex, a holder and a queue. A Copilot token is its expiry.

| Model | Code |
|---|---|
| `FastPath`, `Lock`, `Recheck` | the three parts of `get_valid_token`; a task goes through the last two without the re-check |
| `StartExchange`, `Issue`/`ExchangeFails`, `StoreToken` | `do_refresh`, before, during and after its await |
| `DropCall` | the server drops the future of a request, at any await |
| `StartAuto`, `PlanSleep`, `Wake`, `Cancelled`, `StopAuto` | the auto-refresh task and its cancellation |
| `StoreGithub`, `RememberGithub` | `set_github_token`: storage, then memory |
| `BeginClear`, `ClearTokens` | `clear_tokens`: cancel, then memory and storage |
| `Tick` | the clock, up to `MaxTime` |

A crash and a restart need no action: the next start is a behaviour that begins
in `Init` with what is `stored`. `LoginIsDurable` therefore speaks about every
moment a crash could come. An exchange takes any number of clock ticks.
Logins and logouts happen one at a time.

### Lifecycle

A process is a PID with a `step`, the thing it does next, and a `cmd`, what it was
asked to do and what it has read. Every access to a file, every check for a process
and every signal is a step of its own, so that two processes interleave wherever
the operating system lets them.

| Model | Code |
|---|---|
| `dirs`, `status`, `pidFile` | the profile directories, `status.json` in each of them, the one PID file in the temporary directory |
| `Start`, `CheckConflict`, `CheckOwn`, `Prepare` | `Command::Start` up to the server: `ProfileManager::get`, `check_port_conflict`, the profile's own status, credentials |
| `Bind`, `WriteStatus`, `WritePidFile`, `Drained`, `RemoveStatus`, `RemovePidFile` | `server::run` |
| `Interrupt`, `Terminated` | Ctrl-C and SIGTERM: a server drains, a process without a handler dies |
| `Stop`, `CheckStop`, `Signal`, `Wait`, `Unlink` | `Command::Stop` and `stop_profile_instance` |
| `ShowStatus`, `CheckStatus` | `Command::Status` |
| `Create`, `Delete`, `CheckDelete`, `RemoveDir` | `profiles create`, `profiles delete` |
| `Read`, `CleanUpStale`, `Alive` | `read_status_from`, `remove_status_from` of a status whose process has gone, `process_exists` |
| `Crash` | the end of any process at any step |

`Crash` is followed by any command, which is what a restart is. A `Wait` may give up
at any moment, as a server may take longer than the two seconds of the code.
Commands interleave freely; the history variable `sequential` is true until a command
begins while another one runs, that is, is between its first step and its end or its
serving. `OneInstance` and `Findable` hold as long as it is. The order in which a loop looks at the profiles is any.

Abstractions: the Unix variant; a PID that a status file or a running command names
is not given to a new process (see the hazard at `main.rs:560`); a status file is
written at once; the port file goes with the PID file; `start --daemon` changes its
PID before any step that makes use of it; credentials only as something that may
fail. The listener closes at the signal, before the requests are drained (axum).

## 3. What TLC checks

| Run | What holds (or fails) | Size and bounds |
|---|---|---|
| `streaming` | `AnthropicProtocol` (refinement), `TruncatedNeverSent`, `ReleasedWhenComplete`, `LogMatchesWire`; under `FairSpec` also `EveryCallResolved`, `StreamEnds` | 2 calls, 8 chunks and parts: text before, between and after two calls, a truncation with an earlier complete call, an end without finish reason, usage in time and late |
| `text` | `AnthropicProtocol` (refinement), `WholeOrNothing`, `LogMatchesWire`; under `FairSpec` also `StreamEnds` | 3 calls, two of them wrapped, 4 pieces |
| `token` | `NoRedundantExchange`, `NeverOlder`; under `FairSpec` also `CallsReturn`, `CancelledTaskStops` | 2 requests, 1 task, clock to 2 (it may stop at any time) |
| `token_server` | `NeverLapses` under `ServerSpec` | 2 requests, 1 task, clock to 14, two lifetimes of 6 |
| `lifecycle` | `StatusTruthful` however commands interleave; `OneInstance`, `Findable` as long as they run one at a time | 3 processes, 2 profiles, 2 ports, crashes, failures and slow shutdowns anywhere |
| `client` | `RetriesJustified`, `StatusTellsWhose`, `CutIndependent` | 2 repetitions (the code has 3; proved for all), every class of failure in every attempt, 4 bodies with every cut |
| `shared` | `LogBounded`, `LogOrdered`, `KeepsLatest`, `NoStaleList` | 3 requests, limits of 0 (off), 1 and 2 records, one restart; time to live 2, flight 1, clock to 4, 3 versions |
| `login` | `PollsPolitely`, `ServesLatest`, `LogoutErases`, `LoginKept`, `InstanceFindable`; under `FairSpec` also `CommandsEnd` | 3 commands, every older layout, a crash or a refusal at any access |
| `conversation` | `ResultsFollowCalls`, `NothingLost`, `CallsReachClient`, `TextUnderstood`, `FallbackHelps`, `LogTellsWhatHappened`, `ModelListed`, `ChatTypeOK` | 2 exchanges, a short and a long name, up to 2 tools and 2 calls, one of which may be cut off, 5 texts |
| `sse_text` | `TextIntact` fails | see section 5 |
| `long_names` | `NamesFit` fails | see section 5 |
| `cut_off` | `TruncationTold` fails | see section 5 |

*Why the bounds are enough.* Two calls are the least for a hand-over between calls
and for a truncation with an earlier complete one; calls only interact through the
current block, so a third adds no new pair. Three calls and four pieces of text give
several calls of one kind, calls of both kinds (the wrapped ones hide the others),
and prose before, between and after them. Two requests and a task give `refresh_lock`
a holder and a queue of two from which either may be dropped. Three processes are two
instances, of one profile or of two, and a command that looks at them; two ports let
them conflict or not. Two repetitions give a first, a middle and a last attempt. The
bodies have two lines in one frame, a comment, the marker with data after it, an
unfinished frame, blank lines more than needed and data that is no JSON; every
line has a character outside of ASCII that may be cut. Three tasks and a limit of one or two
records let two rotate one after the other while a third has an older file open. Three
commands are a login, a logout and a start, each of which may have crashed or been
refused. Two exchanges are the least for a history with calls and results, and for
a request that is repeated after an error.

Deadlock is checked everywhere except in `token_server`, whose behaviours end when
the clock reaches its bound while the task sleeps.

**Fairness.** `FairSpec` of `StreamingState`: the executor keeps polling the
generator, and a body ends or fails (a client library closes what it cannot
read; there is no fairness on receiving chunks and none on the client's leaving).
`FairSpec` of `TextStream` assumes the same.
`FairSpec` of `TokenManager`: weak fairness of each process's own steps. The
queue of `refresh_lock` is in arrival order in the model because it is in tokio;
an exchange ends (reqwest reports an error when the connection is lost; the code
sets no timeout, which is listed as a hazard). There is no fairness of the clock:
`CancelledTaskStops` must not need it.
`FairSpec` of `Login`: a command goes on, if GitHub, the disk and the keyring
answer. `CommandsEnd` then rests on the deadline of the device code, since GitHub may
answer `authorization_pending` for ever.

**ServerSpec** adds what `server::run` arranges: a login, the task started, no
login or logout, no step that lasts as long as a clock unit (`Quiet`), and no two
failed exchanges in a row (`failures` counts them). Under these the retry after
`SoonDelay` is in time. A task whose exchange fails goes on in the run, and so does
the clock: the token is seen to survive a failure in each of its lifetimes.

## 4. What is proved

For every value of the constants that satisfies the assumptions named in the modules
(`EventsAssumption`, `StreamAssumption`, `TextAssumption`, `TokenAssumption`,
`LifecycleAssumption`, `BodiesAssumption`, `ClientAssumption`, `CacheAssumption`,
`LogAssumption`, `FlowAssumption`, `StoreAssumption`, `LoginAssumption`,
`NamesAssumption`, `PartsAssumption`, `ConversationAssumption`), so for any
number of calls, chunks, requests, tasks, processes, profiles, ports, retries and
commands, and any durations:

| Module | Theorem | Statement |
|---|---|---|
| `StreamingState_proofs` | `TypeCorrect` | `Spec => []TypeOK` |
| | `ProtocolCorrect` | without interleaving, `Spec => AnthropicProtocol` |
| | `TruncatedUnsent` | without interleaving, `Spec => []TruncatedNeverSent` |
| | `ReleasedComplete` | without interleaving, `Spec => ReleasedWhenComplete` |
| | `LogAgrees` | without interleaving, `Spec => []LogMatchesWire` |
| | `EndsWell` | `Spec => []EndsAsItShould`: a stream that was not dropped ends with `message_stop` or an error |
| | `WorkEnds` | `Spec => [](Work \in Nat) /\ [][received' = received => Work' < Work]_vars` |
| | `CallsResolved` | without interleaving, when the stream is done every call was sent or replaced by a notice |
| `TextStream_proofs` | `TypeCorrect` | `Spec => []TypeOK` |
| | `AllOrNothing` | `Spec => []WholeOrNothing` |
| | `ProtocolCorrect` | `Spec => AnthropicProtocol` |
| | `LogAgrees` | `Spec => []LogMatchesWire` |
| | `EndsWell` | `Spec => []EndsAsItShould`: as above |
| | `WorkEnds` | `Spec => [](Work \in Nat) /\ [][Chunk \/ Work' < Work]_vars` |
| `TokenManager_proofs` | `TypeCorrect` | `Spec => []TypeOK` |
| | `ExchangesExclusive` | `Spec => []OneExchange` |
| | `LockPassedOn` | `Spec => []LockNotLost` |
| | `ExchangeOnlyWhenNeeded` | `Spec => NoRedundantExchange` |
| | `TokenOnlyYounger` | `Spec => NeverOlder` |
| | `LoginDurable` | `Spec => []LoginIsDurable` |
| | `TokenNeverLapses` | with `Timely` and a task, `ServerSpec => NeverLapses` |
| `Lifecycle_proofs` | `TypeCorrect` | `Spec => []TypeOK` |
| | `StatusNamesInstance` | `Spec => []StatusTruthful` |
| | `StartsOnce` | `Spec => []OneInstance` |
| | `InstancesFound` | `Spec => []Findable` |
| | `ConflictsNoticed` | `Spec => []NoLateConflict` |
| `CopilotClient_proofs` | `TypeCorrect` | `Spec => []TypeOK` |
| | `RetriesAreJustified` | `Spec => []RetriesJustified` |
| | `StatusesTellWhose` | `Spec => []StatusTellsWhose` |
| | `ErrorsKeepMeaning` | `Spec => []ErrorKeepsItsMeaning` |
| | `CutsDoNotMatter` | `Spec => []CutIndependent` |
| `Server_proofs` | `TypeCorrect` | `Spec => []TypeOK` |
| | `FailuresStayOwn` | `Spec => []FailureStaysOwn` |
| | `ListsRecent` | `Spec => NoStaleList` |
| | `LogIsBounded` | `Spec => []LogBounded` |
| | `LogIsOrdered` | `Spec => []LogOrdered` |
| | `LatestKept` | `Spec => []KeepsLatest` |
| | `ChatTypes` | `ChatSpec => []ChatTypeOK` |
| | `ResultsFollow` | `ChatSpec => []ResultsFollowCalls` |
| | `NothingIsLostOnTheWay` | `ChatSpec => []NothingLost` |
| | `WrittenIsUnderstood` | `WellWritten(w) => Understood(w, registry)` |
| | `TextAlwaysUnderstood` | with `TextsWritten`, `ChatSpec => []TextUnderstood` |
| | `CallsReach` | `ChatSpec /\ []TextUnderstood => []CallsReachClient` |
| | `WrittenCallsReach` | with `TextsWritten`, `ChatSpec => []CallsReachClient` |
| | `ModelIsListed` | with `ModelsKnown`, `ChatSpec => []ModelListed` |
| | `FallbackAlwaysHelps` | `ChatSpec => []FallbackHelps` |
| | `LogTells` | `ChatSpec => []LogTellsWhatHappened` |
| `Login_proofs` | `TypeCorrect` | `Spec => []TypeOK` |
| | `PolitePolls` | `Spec => []PollsPolitely` |
| | `LatestServed` | `Spec => []ServesLatest` |
| | `LogoutsErase` | `Spec => []LogoutErases` |
| | `LoginsKept` | `Spec => []LoginKept` |
| | `InstancesFindable` | `Spec => []InstanceFindable` |

Some of the assumptions say more than what kind of value a constant is: no two long names
are cut to the same and none to a name in use (`NamesAssumption`; the hash at the end of a
name that was cut makes it improbable, not impossible), the requests that are logged are
finitely many (`LogAssumption`; their tasks and files are counted), what a line of a body
is stands at its beginning (`BodiesAssumption`), and `Timely`, a hypothesis of
`TokenNeverLapses`, says how the delays of the auto-refresh task compare with the lifetime
of a token (5 s, 60 s, 300 s and the about 30 minutes Copilot grants). `PartsAssumption`
says that a date is no `Marker`, as `is_datestamp` is asked first. `TextsWritten`, a
hypothesis of the two theorems that name it, says that each text the model may answer is
`Answer(w)` for some well written `w`; `ModelsKnown`, of `ModelIsListed`, that each name a
client asks for is that of a listed model, or of one with a dot in its version and written
with a dash, perhaps with a date behind it. Section 5 lists what happens to other texts and
names. The values of the runs satisfy all of them (`MCTextsWellWritten`, `MCModelsKnown`).

The type invariants, `OneExchange`, `LockNotLost`, `LoginIsDurable`, `NoLateConflict`,
`ErrorKeepsItsMeaning` and `FailureStaysOwn` are in no run: the theorems cover them.

*ProtocolCorrect.* `AnthropicProtocol` is a relation between neighbouring events
the client received, and `Yield` shows it `events[yielded + 1]`. So it is enough
that all of `events` is a chain of the protocol, and this is inductive once it is
known how the translator's fields describe the end of `events` followed by the
buffer: an open block is the block of the last event and has index `blockIndex`,
a closed one is the last stop, the buffer is a chain by itself that begins with
the start of the current block. `MessageDelta` and `MessageStop` come once because
`Visit` lets only usage follow a finish reason. Each action then extends the chain
by events that may follow its end.

*The account of a stream.* The properties of `StreamingState` about its history count
events: the starts and the pieces of arguments of each call, the texts, the ends with
a stop reason. `Count` and its lemmas in `StreamEvents_proofs` say what appending a
sequence adds. `AccountInv` then keeps the books of both sequences, `events` and
`toolBuffer`: a call has one start and as many pieces as the log has counted, all in
the buffer while it is streamed, all among the events once it is released, none if it
was cut off. At most one call is cut off, because after a finish reason only usage is
looked at, and then the only end is `max_tokens`. `TruncatedNeverSent` alone is not
inductive: it says nothing of what is still held back. `ReleasedWhenComplete` is a step
property of the same invariant: a step that counts another piece is one of the call
whose events wait, and none of those was sent. When the log is written nothing waits,
so that what was counted is what was sent (`LogAgrees`). The account of `TextStream` is
simpler, since its calls are sent when all are known.

*The end of a stream.* `EndInv` says how far the client is at each place of the
generator, and that the last event of a stream that has ended is `message_stop` or the
error; with it, `EndsWell`. `Work` counts the steps that are left if nothing more comes
from the upstream API: an event to yield, an event of the buffer to release, and a
constant for `finalize` and the log. Each such step lowers it (`WorkEnds`), so that what
`StreamEnds` needs besides is only that the executor polls the generator and that the
upstream API ends its stream. `TextStream` has the same two theorems; its `Work` counts
four steps for each call that is still to be sent. `CallsResolved` is the account again: when nothing waits,
a call is among the events or was cut off.

*TextStream.* `TextInv` says again that `events` is a chain, and what its last
event is at each point the generator may be at: nothing, `message_start` or a text
delta while chunks are passed on (`PlainInv`), nothing while they are buffered, and
an event after which block `blockIndex` may start while calls are sent. The lemmas
`PassedFollows`, `ClosingFollows`, `OpeningFollows`, `CallFollows` and
`FinaleFollows` say that what a step sends may come there. `WholeOrNothing` is part
of `TextInv`: no call is sent after an error because a block may not start after it.

*Token manager.* `HolderOnly` (a process between `Recheck` and the end of its
exchange holds the lock) gives `OneExchange`. `NoRedundantExchange` needs in
addition that a caller past the re-check saw an invalid token and that nobody else
can have stored one since; `NeverOlder` that an answer in hand is at least as young
as the token in memory, since only the holder writes it and the clock only grows.
`LockNotLost` needs `QueueInv`: exactly the processes in the queue wait, each
once, and none of them is the holder, so that a hand-over reaches a process that
goes on. `TokenNeverLapses` is about time. The clock ticks only while every task
sleeps, so that the token is safe if each sleep ends before it expires; `InTime`
says so, and that it ends earlier by `SoonDelay` as long as the last exchange did not
fail, which leaves room for the short sleep and a second exchange. A request that
refreshes between two sleeps only makes the token younger, and a task that sleeps
then wakes before the expiry of the new token, too.

*Lifecycle.* `StatusTruthful` is inductive with the types: a file is written by its
process, which from then on is a server or gone, and a new process gets a PID that no
file names. The other three follow from `OneByOne`, which holds as long as `sequential`
does (`SequentialSoFar`: once false, it stays false). It says that at most one command
runs (`Alone`) and what that one may rely on (`CommandInv`): what it read is still in
the file or the file is gone; a process it saw ended has not come back; every
instance with its port is in a profile it has still to look at; once it has looked
there is no instance of its profile and none with its port. The lemma `Withdraw`
shows that servers, which only stop listening and remove their own files, take none
of this away; `SeenIsInstance`, that a command that removes a file would have seen
the instance it belongs to. `OneInstance` alone is not inductive: two starts that
both passed their check would satisfy it until the second bind.

*CopilotClient.* `AttemptInv` counts: before and during an attempt as many answers
have been noted as `attempt` says, afterwards one more; as long as it may be repeated,
every answer noted is one that may pass, and `served` is at most the number of those
that were lost on the way. `RetriesJustified` alone is not inductive because it does
not say what `attempt` has to do with `answers`. Once the body is read the last
answer is a success, which gives the two properties about errors.

*The parser.* `CutIndependent` compares the chunks with the places of the complete body
that must yield one (`Expected`), which no step of the parser looks at. `ParseInv` says
where in the body the parser is: `Taken` units have left the buffer, what is in it
stands for the units that follow, and the rest is on the wire; `Done` units are
processed, none of them stops the parser, and as many chunks were yielded as there are
places among them. A frame ends at the first of two line ends in the buffer, and the
same holds in the body because everything before it is in the buffer. A character that
a cut has broken still stands for its unit: `Same` compares what is decoded with it up
to the replacement. The line of a frame that yields a chunk is one that begins a line in
the body, which is what `BodiesAssumption` is for.

*ServerState.* `AgeInv`: a list in the hands of a request was current when or after
its fetch began, the one in the cache when or within a flight before it was stored,
and a fetch has not lasted longer than `MaxFlight`. A request that is answered from
the cache adds the time to live.

*The log.* The types say that the open files are among the inodes and that the log and
its backup are never one file. `SizeInv`: the tasks that will write to the log (`Ready`:
they found room, or they opened it) have their place in the bound already, so that a
write takes from one part of the sum what it adds to the other. `OrderInv`: a request
that arrived after a record was in the log never writes to an older file, and a file has
its records in order; `RecordInv`: a record is written once, after its request arrived,
and found only by requests that arrive later. `LatestInv`: when tasks do not overlap,
backup and log together are the end of the sequence of all records, from some place
on, and the backup is full if that place is not the first. `LogBounded` and
`KeepsLatest` are not inductive because they look at the files between tasks; these
invariants say at every step of a task what it has found.

*Login.* The invariant has one part per property. `PoliteInv`: the loop's interval is
the one GitHub wants by now, and a question is sent only before the deadline of the loop.
`MigrationInv`: what is there and what is not at each place of the migration.
`FindableInv`: which file names the instance at each of these places, and that after a
migration that nothing disturbed it is the status file of the profile. `LatestInv`: no login older than `floor` is anywhere a command would find it,
and once there is a floor nothing is left to migrate, so that no old login can come
back. `ErasedInv`: undisturbed, an entry of the keyring lies under a sentinel, except
between the two steps that write them. `KeptInv`: what a command has taken from one
place it has put into the next, or has in hand and still there (`HereInv`,
`HandedOverInv`, `MovedInv`).

*Conversation.* `ChatInv` is kept by every action, for histories of any length. What
it says of a history (`Sound`) is what the properties need and what the client keeps
when it appends an exchange: each message has its results before its texts, and the
native translation of the whole history is `Closed`, that is, each message with calls
is followed by exactly their results. `ResultsFollowCalls` alone is not inductive: it
speaks of the request and says nothing between requests. `Closed` survives an exchange
because a concatenation of closed lists is closed (`ClosedConcat`) and because the new
pair, an answer and the results of its calls in any order, is closed (`ExchangeClosed`);
after a failure the old history comes again. `NothingLost` rests on `Reach`, the texts
and results a list of messages lets through: for a message it is what its blocks say
(`ReachMessage`), for a concatenation the concatenation, and neither the injection of
tools nor the rewriting of results changes it (`InjectedTyping`). For `CallsReachClient`
the invariant bounds every id by the next one (`IdsBelow`), and `NamesComeBack` says that
a shortened name is restored, because `NamesAssumption` (no two names are cut to the
same) makes the mapping invertible. `Stages` says what has been asked at each place of
the handler; that the injected request has no tools, calls or results of the native form
(`NoToolsToRefuse`) gives `FallbackHelps`. `LogFollows` says that the builder has the
request that is under way, so that after a fallback it has the second one.

The induction over the length of a history, of a message and of a text cannot cite the
library's induction theorems, whose parameter is an operator. `Induction` therefore
takes a set of numbers, from the well-foundedness of `<` on them, and `SequenceInduction`
a set of sequences. What the recursive functions compute is then proved once
(`Recursion`, for `FlattenSeq` and `Of`; `RecursionFromBack`, for the matches of the
parser) and what they preserve follows from that.

*The parser of calls.* `WrittenIsUnderstood` is a round trip: writing `w` and reading the
text gives back the calls of `w` and its prose, for texts of any length. The regular
expressions know nothing of the structure of a text, and run over it once for each tag, so
the proof has to say what each of them sees. A `Cell` is some text without the opening that
is looked for (`Free`), the opening, a body without the closing tag, and the closing tag;
`Scan` says that if a text is laid out as cells with such a text at the end (`Laid`), the
matches are exactly the bodies of the cells and what is left without them is what stands
before each and at the end. It is proved by induction over the places at which a search
starts (`MatchesUnfold`: where the recursive function of `Matches` goes on;
`NextMatch`: what it finds there; `Marks`: where the cells end), and every further step
applies it to another division of the text: the parameters in an `invoke` element (`AttributeParamsAre`,
`FieldsAre`), the name and the parameters in the other form (`TaggedName`,
`TaggedParameters`), the calls in an element or in a bare text (`BareRead`), where the
expression for the other form must find nothing (`NamedRead`, `TaggedRead`), the elements
in the answer (`ElementsAre`), and what is left (`ElementsLeave`). A parameter is the last
one of its name for the parser; that it is the one that was meant is `ByNameIs`, from
`DistinctNames`. The conditions in `WellWritten` are those that this needs: a value in the
form of the instructions may have markup inside, even an `<invoke>` that is not closed, but
no tag that ends the parameter, the call or the element, and no `<tool_name>`; the values of
the form with tags have no markup, because there every tag in a value becomes a parameter;
prose has no opening of a call.

`TextUnderstood` then follows from an invariant that says where `meant` comes from
(`ReadInv`), and from `ValueRead`: whatever the type in the schema, a value is read as that
type or as the string it was, unless it is a number that is not finite. `ModelListed` needs
that what is asked is the name of the client in its normal form (`NameInv`) and `NameKnown`:
`normalize_model_name` takes every name a listed model is known by to the listed one. Both
invariants were checked on the run `conversation` first.

**Only model-checked**: everything under fairness
(`EveryCallResolved`, `StreamEnds`, `CallsReturn`, `CancelledTaskStops`,
`CommandsEnd`), which is outside of what the prover does. The first two have a safety
half that is proved (`CallsResolved`; `EndsWell` and `WorkEnds` for both modules). The properties of mixed argument
fragments (`Interleaving = TRUE`) are neither: they fail, see section 5.

## 5. Disagreements between the code and its comments

Three runs end in a violation; `findings` in `PROJECT.json` quotes the sentences.

- `sse_text`: each network chunk is decoded on its own (`copilot/client.rs:530`), so
  a character whose bytes arrive in two chunks becomes two replacement characters in
  the text or the arguments of a call.
- `long_names`: names of tools are cut where they are defined, but the calls in the
  history of the next request have their full names (`anthropic/types.rs:640`).
- `cut_off`: a call that the output limit cuts off in an answer that is not streamed
  is returned as a call (`anthropic/types.rs:912`), with input `{}` where its arguments
  are no JSON, and with the stop reason `tool_use`; `docs/known-issues.md:201` describes
  a text notice and no call, which only streamed answers get. `CallsReachClient` is
  therefore about answers that are `whole`.

The following can be read off the modules and has no run. A property above that would
contradict one of them names the condition under which it holds.

Streaming:

- When the output limit cuts a call off, the token estimate loses the JSON of the
  calls that were sent before it (`streaming/state.rs:416`).
- Usage in the chunk of the `finish_reason`, or later, comes too late for
  `message_delta`, which then has the estimate (`streaming/state.rs:168`).
- Fragments of parallel calls that arrive mixed would all go to the block of the last
  call: their `index` is not looked at (`streaming/state.rs:357`).
- When the output limit cuts an answer after a complete call, the log says `tool_use`
  (`EffectiveHasToolCalls` in `WriteLog`) and the client was told `max_tokens`.

Handler, translation and parser:

- Only the first choice is answered, the log lists the calls of all.
- An error that calls any parameter unsupported leads to the fallback, tools or not.
- A message that consists of a document is dropped, and so are the images inside a
  result (`anthropic/types.rs:664`), whose texts alone are sent.
- In parameters that are numbers, `inf` and `NaN` become `null`. In the dialect of
  tags, tags inside of a value become parameters of their own; in both, a closing tag
  of a parameter or a call inside of a value ends it.
- A call beside wrapped ones is removed from the text and not returned.
- A name of a model with the family behind the version gets its dot in the wrong
  place (`claude-3-5-sonnet-...`); one with a date instead of a minor version is passed
  on as it is. The size of the context in a name (`-1m`) is kept although Copilot lists no
  such name any more (`docs/known-issues.md:225`): the listed names of the run
  `conversation` have one because the code still takes care of it.

Server and commands:

- An exchange of tokens that is in flight during `clear_tokens` stores its answer
  (`auth/token.rs:135`); no command clears the tokens of a running server yet.
- Of two tasks that find the log full, the second makes a backup of the few records
  written in between (`KeepsLatest` is about tasks that do not overlap).
- Two starts of one profile at the same time both find no instance (`main.rs:50`), and
  a `profiles delete` may remove the status file of a start that came in between
  (`main.rs:398`): one command at a time is safe, which is proved, two are not.
- The PID file of the older layout does not belong to one instance: the end of one
  server removes the file of the next (`RemovePidFile`), even when commands run one at
  a time.
- A crash between the keyring and the sentinel leaves an entry that `logout` does not
  look for; `LogoutErases` is about logouts with no crash before.
- The migration is skipped once `profiles/` exists, and `ProfileManager::get` makes it in
  the same command. A crash during the migration or a refused `mkdir` or move therefore
  leaves a login, or the status file of a running instance, in the flat layout for ever,
  where no command reads it.
- The polling loop counts the lifetime of the device code from its own beginning
  (`auth/device_flow.rs:124`), but the code was issued before the user was offered a
  browser (`main.rs:466`): GitHub may be asked for an expired code for as long as that
  took (`lead` in `PollsPolitely`), and answers `expired_token`, which ends the loop.

## 6. Not modelled

- Windows: DPAPI in place of the keyring (`storage/dpapi.rs`, calls of the Windows
  API), `taskkill` and the spawned child of `start --daemon`.
- Two commands on one storage at a time: the code has no lock and promises nothing.
- The token counter: a tokenizer applied to texts, without state.
- Wording, rendering and printing: the command line, the guidance, the text of the
  prompt and of a log record.
- `bin/protocol_spy.rs`, a development tool outside of the adapter.
- What `fork` does to the threads of the runtime in `daemonize`: below the level of
  every module.
- The reuse of a PID while a status file names it.

What would be next: a module of one whole streamed exchange that `CopilotClient` and
`StreamingState` both refine.
