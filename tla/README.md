# Verification of CLIProxyAPI

This directory holds TLA+ models of the proxy's core, the TLC configurations
that check them and TLAPS proofs about all of them.  Paths of the program are
relative to `src/`; `conductor.go`, `scheduler.go`, `selector.go` and
`auto_refresh_loop.go` are in `sdk/cliproxy/auth/`, `service.go` in
`sdk/cliproxy/`.

1. [The system](#the-system)
2. [The modules](#the-modules)
3. [The runs](#the-runs)
4. [Bounds and fairness](#bounds-and-fairness)
5. [Where the code and its documentation disagree](#where-the-code-and-its-documentation-disagree)
6. [What else the models show](#what-else-the-models-show)
7. [Proofs](#proofs)
8. [Not modelled](#not-modelled)
9. [Plan](#plan)

## The system

The proxy accepts requests in the dialects of OpenAI, Gemini, Claude and Codex
and forwards each with one of many upstream credentials (*auths*).  Credentials
come from files, from the configuration and from websocket connections; they
fail, cool down, expire, are refreshed, change and vanish while requests use
them.  What is hard is that nearly every component keeps a derived copy of what
another one knows, and that copies are brought up to date outside the lock
under which the original changed.

| Component | Source | State | Operations |
|---|---|---|---|
| Manager | `conductor.go`, `types.go` | `m.auths` under `m.mu` | Register, Update, MarkResult, refreshAuth, ReconcileRegistryModelStates |
| Scheduler | `scheduler.go` | an entry per credential, shards per provider and model, ready views with cursors, own mutex | upsertAuth, rebuild, setSelector, pickSingle, pickMixed, promoteExpired |
| Request execution | `conductor.go` | per request: attempt, tried credentials, last error; per stream: one goroutine | Execute, ExecuteCount, ExecuteStream, shouldRetryAfterError, wrapStreamResult |
| Automatic refresh | `auto_refresh_loop.go`, `conductor.go` | a heap of next checks, a timer, a dirty set, `wakeCh`, `jobs` | loop, handleDue, applyDirty, worker, markRefreshPending |
| Model registry | `internal/registry/model_registry.go` | registrations with counts and marks, client lists, cached model lists | RegisterClient, UnregisterClient, Set/ClearModelQuotaExceeded, Suspend/ResumeClientModel, GetAvailableModels |
| Service | `service.go` | none of its own between steps | applyCoreAuthAddOrUpdate, applyCoreAuthRemoval, refreshModelRegistrationForAuth |
| Watcher | `internal/watcher` | `currentAuths`, `lastAuthHashes`, `runtimeAuths`, `pendingUpdates`, an update channel | handleEvent, reloadClients, DispatchRuntimeAuthUpdate, dispatchLoop |
| Stream relay | `sdk/api/handlers` | per request: a producer, two channels, perhaps a converter, a handler | ExecuteStreamWithAuthManager, ForwardStream, the handlers that peek |
| Codex sessions | `internal/runtime/executor/codex_websockets_executor.go` | per client websocket: a session with `reqMu`, a connection and its reader, the active channel | ExecuteStream, ensureUpstreamConn, readUpstreamLoop, invalidateUpstreamConn, CloseCodexWebsocketSessionsForAuthID |
| Websocket relay | `internal/wsrelay` | per session: pending requests, a channel each | request, send, dispatch, cleanup, Stream, NonStream |
| Usage statistics | `sdk/cliproxy/usage`, `internal/redisqueue` | a queue each | Publish, run; Enqueue, PopOldest |
| Session affinity | `selector.go`, `session_cache.go` | session to credential | Pick, invalidate |
| The rest | handlers, executors, translators, stores, logins, panel | see PROJECT.json | |

How they interact:

- *Calls.*  A handler calls the Manager, which asks the scheduler for a
  credential, an executor for the answer, and records the result in its record,
  then (after releasing `m.mu`) in the scheduler and in the registry.
- *Channels.*  A stream goes from the executor's goroutine to the Manager's, to the
  producer's, to the handler's, each with a channel and a context to watch.  The
  watcher puts updates into a channel the Service consumes; the refresh loop puts
  credentials into `jobs` for 16 workers; a session's reader puts messages into
  one channel per request.
- *Callbacks.*  The model catalogue calls the Service for every credential it
  touches; the relay calls it when a session connects or breaks.
- *Shared state.*  The scheduler reads the registry inside an upsert; the
  Service reads a record, binds models, and writes it back.

What makes each component correct:

| Component | Correct when |
|---|---|
| Manager and scheduler | the copy routes as the record demands; a stale copy is repaired; no result is lost to a write-back |
| Registry | counts are what the lists add up to; a mark is lifted only by its own client; nobody is served a stale list |
| Request execution | limits hold; a wait pays; what is counted is what the client got; every request ends |
| Refresh | what is due is refreshed, once, and never in a tight loop; a report is never lost |
| Watcher | the pool ends up mirroring files and connections |
| Selection | the best ready credential is found; whoever shares a view is served in turn |
| Stream relay | a client gets one answer, is told its end, and is told what was counted; all goroutines end |
| Codex sessions | no turn gets another's answer; a client is answered or disconnected; no connection stays open |
| Websocket relay | an answer is complete or an error; closing releases every request; nothing is left behind |

## The modules

| Module | Models | Instances |
|---|---|---|
| `CredentialPool` | Manager, scheduler, Service and catalogue around one record per credential | `MC_CredentialPool` |
| `CredentialPool_proofs` | proofs about it | |
| `ModelRegistry` | the registry, the callers that mark and list | `MC_ModelRegistry` |
| `ModelRegistry_proofs` | proofs about it | |
| `WsSession` | one session of the relay and its requests | `MC_WsSession` |
| `WsSession_proofs` | proofs about it | |
| `AuthWatcher` | from files and connections to the pool | `MC_AuthWatcher` |
| `AuthWatcher_proofs` | proofs about it | |
| `RefreshLoop` | heap, timer, workers, marks | itself |
| `RefreshLoop_proofs` | proofs about it | |
| `RequestRetry` | passes, waits, streams of requests that share cooldowns | in `MC_StreamedRequest` |
| `StreamRelay` | producer, channels, converter and handler of a streamed answer | in `MC_StreamedRequest` |
| `StreamedRequest` | `StreamRelay` over `RequestRetry` | `MC_StreamedRequest` |
| `StreamedRequest_proofs` | proofs about `RequestRetry`, about `StreamRelay`, that a streaming request implements both, and about it | |
| `CodexSession` | sessions, connections, readers and attempts behind one client websocket | `MC_CodexSession` |
| `CodexSession_proofs` | proofs about it | |
| `Rotation` | abstract: what taking turns means | |
| `SchedulerPick` | which ready credential is picked; implements `Rotation` | `MC_Selection` |
| `SchedulerPick_proofs` | proofs about it | |

Each module opens with what it abstracts.  An operator named in a comment
`Mutant of X` is a plausible bug of `X`: PROJECT.json pairs it with the property
that notices.

**CredentialPool.**  `auths` is `m.auths`, `sched` the scheduler's entries,
`registered` the registry's answer for a credential.  A goroutine is a `pc`,
a `target` and the records it `held` when it left `m.mu`; whatever the code does
in one critical section is one action, and pushing a clone into the scheduler is
another: `MarkResult`/`PublishResult`, `RefreshWriteBack`/
`PublishRefreshed`, `ApplyAdd`/`ApplyWrite`/`PublishApplied`, `Bind`/`ReadSupported`/`Reconcile`/
`Republish`/`CloneEntry`/`PublishEntry`.  Register and Update give the scheduler
the live record instead of a clone; `live` and `shared` follow that, and a read
of such a record sees what it holds at that time.  `raced` is a history
variable: some write overtook a snapshot and no undisturbed one has followed.

**ModelRegistry.**  Every method is one action, for each holds `r.mutex`.
`RegisterClient` carries the five ways the code adjusts counts (new client,
provider change, added, removed and repeated models).  The callers interleave:
MarkResult makes up to two calls, with nothing held over both, some time after its
client was picked; `ListEnter` reads the clock that `ListServe` uses.

**WsSession.**  `request` is cut where another goroutine can come between: store,
load, send, wait.  `cleanup` is cut at every entry of `sync.Map.Range`, which
neither sees all entries stored meanwhile nor loads them at one time.  A channel
is its content and whether it is closed.  A send on a closed channel, and an
assertion on an entry that is gone, set `panicked`.

**AuthWatcher.**  `hash` and `current` are what the watcher believes of the
files, `held` what a goroutine changed under the lock and has not dispatched,
`pending`, `batch`, `queue` the way to `pool`.  Reading a file or the directory
is a step of its own, before the lock.

**RefreshLoop.**  Of a record only what decides on the schedule is kept.  The
loop is cut at every lock and channel operation; `hot` and `touched` are history
variables for the two properties about repetition.

**RequestRetry.**  Cooldowns are time that remains.  `Pick`, `Fail`, `Succeed`
and `PickFails` make up a pass; `Pause` is the decision between passes;
`Open`, `Break`, `End` and `Discard` are the goroutine of wrapStreamResult.
`Succeed` and `Fail` stand for the three executors' loops, which differ only in
where a stream's error may come from.

**StreamRelay.**  `producer` is where ExecuteStreamWithAuthManager or its
goroutine stands; a send on an unbuffered channel is the producer's offer and the
reader's step that takes it, one action, and `errs` and `data` are the two
channels.  The deferred closes are two steps, errChan first.  `front` chooses one
of seven handlers: those that hand everything to ForwardStream at once (the one
of the Gemini CLI) or after peeking at the first payload (`direct`, `responses`,
`completions` with its converting goroutine), the images handler with a loop of
its own, the collector of an image that streams nothing to its client, and
the responses websocket.  `WhenClosed` says what each makes of a closed channel; the two for images end
with an error of their own (`refused`) at an answer without an image.
Two contexts are followed: the client's and the upstream call's, which a
goroutine ends after the first and every handler ends with itself.

**StreamedRequest.**  Each call of ExecuteStream is a request of RequestRetry's:
the first made by the handler, the others by the producer's bootstrap retries.
What the relay may read is tied to where that request stands (`Flowing`,
`Failing`, `Over`), what the Manager's goroutine may do to what the relay has
taken (`Sends`), and the relay's context is the one the Manager watches.

**CodexSession.**  An attempt is a call of ExecuteStream with its read loop, cut
where `reqMu` is taken, where a connection is dialled, where its channel is made
the active one and where it reads.  `reader[c]` is readUpstreamLoop of connection
`c`, which on failure takes the channel active *then*, tells it, closes it and
gives the connection up, four steps.  `Redial` is the one retry on a new
connection, `Http` the fallback after a handshake was refused.  `removal` is
CloseCodexWebsocketSessionsForAuthID in its three critical sections.  The
handler (`client`) pins a credential to its turns, retries as
ExecuteStreamWithAuthManager does, and its watcher closes the client's websocket
when the upstream connection is lost.  A turn may also end while its attempt
still streams: the producer refuses a payload that is no JSON (`Refused`), the
handler cancels the call and reads the next turn, and the attempt returns as soon
as it notices (`Cancelled`), leaving to the connection what it has not read
(`deserted` is a history variable: the sessions of which that was the rest of an
answer).  `panicked` ends the process.

**SchedulerPick, Rotation.**  Every ready view of every provider and priority
has a cursor per ring: the flat list, the virtual parents, the children of each;
every provider list of mixed requests has one over its weighted slots.  A pick
(`PickSingle`, `PickMixed`) promotes what is due, finds the best priority,
prefers websockets where wanted and advances cursors; an upsert rebuilds the
indexes of one shard and restores cursors by position.  `Rotation` says without
cursors what they are for: rounds, in which nobody is served twice while somebody
who may be served has not had a turn.  The refinement reads off `had`, the
members between the start of the round and the cursor; a rebuild, or a change of
a ring's members, starts its round afresh, and that is all the code promises: a
credential in a view whose members keep changing may wait for ever.

## The runs

| Run | Configuration | Question | Distinct states |
|---|---|---|---|
| `pool` | `Pool.cfg` | Do the scheduler and the Manager stay in step under requests, refreshes, catalogue and updates, is a race repaired by a rebuild, is no result lost to a write-back, and are exactly the registry's models offered? (`TypeOK`, `SchedulerFollowsManager`, `SchedulerModelsCurrent`, `RebuildRepairs`, `ResultsNeverLost`) | 3039921 |
| `pool_stale_models` | `PoolStaleModels.cfg` | Can the catalogue leave a removed credential registered? It can. (`NoStaleRegistration`) | to the violation |
| `registry` | `Registry.cfg` | Are counts, marks and the cached list right under late marks and racing lists? (`TypeOK`, `AnswersCurrent`, `CountsMatch`, `MarksAreOwn`) | 722948 |
| `registry_listed` | `RegistryListed.cfg` | Is every model with an available client listed? It is not. (`AvailableListed`) | to the violation |
| `selection` | `Selection.cfg` | Is the best ready credential always found, and does every cursor take turns? (`TypeOK`, `BestPicked`, `TakesTurns`) | 31096 (by the view without the last answer) |
| `session` | `Session.cfg` | Are answers complete, and does everyone get away when a session breaks? (`TypeOK`, `OkIsComplete`, `ClosedSettles`, `NothingLeaks`) | 528077 |
| `watcher` | `Watcher.cfg` | Does the pool end up mirroring files and connections, and do reloads keep the pipeline in order and repair what events lost? (`TypeOK`, `PipelineFollows`, `ConvergedByEvents`, `ReloadRepairs`, `EventuallyMirrored`) | 1240719 |
| `watcher_stale_reload` | `WatcherStaleReload.cfg` | Does a reload that races a file change converge? It does not. (`Converged`) | to the violation |
| `refresh_loop` | `RefreshLoop.cfg` | Is what is due refreshed, once, and without a tight loop? (`TypeOK`, `NothingForgotten`, `RefreshedOnce`, `Throttled`, `DueIsRefreshed`) | 1239784 |
| `streamed_request` | `StreamedRequest.cfg` | Do limits hold, do waits pay, does a client get one answer and is told its end, is what counts what the client got, and does every request and goroutine end? (`TypeOK`, `RetryFindsCredential`, `OutcomeCounted`, `RelayTypeOK`, `OneAnswer`, `EndTold`, `ToldAsCounted`, `RequestEnds`, `StreamEnds`) | 423577 |
| `codex_session` | `CodexSession.cfg` | Until a session has lost a connection, are channels used rightly, and does every turn get its own answer unless one was given up amid its own; is a client always released and every connection closed? (`TypeOK`, `OwnAnswers`, `NoEarlyPanic`, `ClientReleased`, `NothingStaysOpen`) | 710484 |
| `codex_stuck` | `CodexStuck.cfg` | Does a session survive a refused handshake? It does not. (`UpgradeFailuresSurvived`) | to the violation |

What the properties mean is said above each of them in the modules.  Every
property of a passing run is shown to depend on the code it is about: replacing
the definition named in `mutants` by its mutant makes TLC report a violation
under the same configuration.

## Bounds and fairness

All bounds are constants that only limit an environment (clock, changes of
files, updates, messages of a peer, results), never a step of the program.

- *CredentialPool*: one credential suffices for the interleavings of its
  writers, as no action reads two records except the snapshot of a rebuild,
  which copies each independently; the proofs cover any number.  A behaviour has
  a *team* beside the update consumer: two requests, or a request and a refresh
  worker, or a request and a catalogue callback; all four at once are too many.
  For two requests the clock reaches 2 with a transient cooldown of 1 and a
  long one of 2, so both lapse within a run; the other teams stop at 1.  Backoff
  levels are capped at 1, where the cooldown stops growing.
- *ModelRegistry*: two clients and two providers are needed for counts that
  differ per provider; lists name a model up to twice; time runs one past the
  quota window; two listers to share the cache.
- *WsSession*: a channel of capacity 1 overflows as one of 8 does, only earlier.
  The plain request gets a chunk before its end.
- *AuthWatcher*: a channel of capacity 1; four changes of a file let it be
  written, spoilt, removed and restored.  Three teams: events alone, one reload
  with two changes and a connection, two reloads with two changes.
- *RefreshLoop*: a jobs channel of 1 blocks with two credentials due; all waits
  are one tick, so each lapses before the clock ends.  A second refresh of one
  credential shows in the channel or with the worker, so one worker is enough
  for `RefreshedOnce` to be at stake; larger instances (two workers, three
  ticks) were searched for tens of millions of states without a violation and
  without an end.
- *RequestRetry, StreamRelay, StreamedRequest*: three parts of one state space.
  `manager`: two credentials, of which one permits a second pass, a plain request
  and a stream; cooldowns below, at and above the longest wait (1, 2, 3 against
  2).  `relay`: every handler, two payloads and one retry, whatever the Manager
  hands over.  `both`: the composition, with streams of one payload, for the
  three handlers that differ in whom they wait for and what they watch; the
  proofs cover all handlers and any number of payloads and retries.
- *CodexSession*: two attempts (two turns, or a turn and its retry), two
  connections, two session objects, a channel of capacity 1 that a reader blocks
  on as on one of 4096, one credential for the first attempt (they are alike) and
  for the second the same if it is pinned, another if not.  No credential is
  removed from a session of which a turn was given up, and no client leaves amid
  a removal (the proofs have neither restriction).  With three attempts the space is out of reach; one attempt to
  break a connection and one to suffer from it is what every race here needs.
- *SchedulerPick*: three credentials at a time in three teams: Codex with
  websockets at two priorities, one provider under two virtual parents, and two
  providers for mixed requests.  Three members make a ring in which somebody is
  passed over, comes back and is due.

`CHECK_DEADLOCK FALSE` is set where the bounds, or answered requests, end a
behaviour.

Fairness is weak fairness of goroutines that are never blocked for good: the Go
scheduler runs what is runnable.  It is assumed of

- `WsSession`: requests once they have begun, watchers, dispatch of a message
  that was read, cleanup.  Not of the peer, which may stay silent, nor of Close.
- `AuthWatcher`: the event loop, a reload that has begun, dispatch, the
  dispatcher, the consumer, and the end of a debounce window (a timer).  Not of
  files, connections and reloads, which may stop or go on.
- `RefreshLoop`: loop, workers and the update path.  A worker's step includes
  the answer of the provider: executors use contexts and HTTP clients that end.
  Time need not pass.
- `RequestRetry`: time passes, a request's goroutine runs, providers answer and
  end their streams.
- `StreamedRequest`: only that *something* happens as long as anything can
  (`Progress`: a goroutine runs, time passes, a provider answers).  That is enough,
  for no request goes in circles, and it is less than the scheduler of Go gives.
  The client may stay or leave.
- `CodexSession`: attempts, readers, the handler and its watcher, the rest of a
  removal.  A reader gets a message or fails, at the latest after its read
  deadline; dials and HTTP exchanges end.  Neither turns nor removals need begin.

`CredentialPool`, `ModelRegistry`, `SchedulerPick` and `StreamRelay` by itself state
no liveness and no fairness.

## Where the code and its documentation disagree

Four runs end in a violation on purpose; PROJECT.json quotes the lines.

- `pool_stale_models`: `refreshModelRegistrationForAuth` re-applies "the latest
  auth snapshot so concurrent auth updates cannot leave stale model
  registrations behind" (`service.go:1305`), but a removal that completes between
  reading that snapshot and registering leaves a disabled credential registered.
- `registry_listed`: `GetAvailableModels` "returns all models that have at least
  one available client" (`model_registry.go:752`), but marks are subtracted from
  the count as if each belonged to another client: one client with a quota mark
  and a suspension hides a model a second client could serve.
- `watcher_stale_reload`: "updates continue to be merged, so the latest state is
  eventually applied" (`docs/sdk-watcher.md:23`), but a reload applies what it
  read of the directory before it took the lock, without touching the hashes, so
  that the events that follow are skipped.
- `codex_stuck`: the executor "preserves the existing CodexExecutor HTTP
  implementation as a fallback [...] for websocket upgrade failures"
  (`codex_websockets_executor.go:44-45`), but ExecuteStream takes that way out
  without unlocking `reqMu`: the turn is served, and the client's next one waits for
  ever.

## What else the models show

No run states these, because no line of the repository promises otherwise, or
because the run above it is the more telling one; they can be seen by adding the
obvious property.

- *A refresh in flight undoes a removal.*  refreshAuth writes back the clone it
  made before the network call (`conductor.go:3944-3959`): a credential disabled
  meanwhile is enabled again.
- *A late result marks a new registration.*  The registry calls of MarkResult may
  arrive after the client has been registered anew, which had cleared its marks.
- *A cooldown can be lost.*  applyCoreAuthAddOrUpdate copies the model states it
  read over those recorded since (`service.go:297`).
- *A full channel loses a terminal message.*  dispatch drops what does not fit
  into eight places (`session.go:108-111`); NonStream then ends with the body so
  far and status 200 (`http.go:58`) once the channel closes.  `OkIsComplete`
  therefore excludes requests a message was dropped for.
- *A session may panic.*  dispatch looks a request up and sends on its channel
  later (`session.go:107-109`); the watcher of a cancelled request, or a cleanup
  started elsewhere, may have closed it.  And `request` asserts the type of an
  entry that cleanup, replacing the map, has taken away (`session.go:148-149`).
  The liveness properties hold up to a panic.
- *Updates can overtake each other.*  A reload and a disconnecting session change
  `currentAuths` in one order and dispatch in the other
  (`dispatcher.go:72-76`); `PipelineFollows` excludes such credentials
  (`astray`), and a reload in quiet repairs them (`ReloadRepairs`).
- *A second removal within a second is dropped* (`events.go:177-181`): with
  `Spaced = FALSE` `Converged` fails within nine steps.
- *Retries after server errors do not happen by default.*  `config.example.yaml:92`
  says retries occur on 403, 408 and 5xx.  Those leave cooldowns of one and
  thirty minutes, longer than the default `max-retry-interval` of 30 seconds,
  and `Pause` is empty then; with cooldowns disabled it is empty as well, since
  only a 429 with a Retry-After is waited for.
- *max-retry-credentials holds per pass.*  "Maximum number of different
  credentials to try for one failed request" (`config.example.yaml:95`) is
  checked against the credentials of one pass; the next starts from none.
- *A Retry-After inside a stream is not waited for.*  An error before the first
  payload comes wrapped, and `retryAfterFromError` does not unwrap
  (`conductor.go:2496`).
- *An error before the first payload may be answered with status 200.*  The
  peeking handlers select over both channels; if the producer has put its error
  into errChan and closed dataChan, either case may be chosen, and the one of the
  closed channel commits an empty answer (`claude/code_handlers.go:258-266`, and
  the handlers of OpenAI and Gemini alike), although the comment above says that
  "upstream failures before the first chunk" are returned as errors (`:238`).
  `EndTold` therefore speaks of answers that have begun.
- *Two handlers do not look for a pending error.*  forwardImagesStream takes a
  closed channel for a regular end (`openai_images_handlers.go:944`), and
  the responses websocket reports a stream that was cut short in place of the
  error, and keeps the credential pinned that caused it
  (`openai_responses_websocket.go:910-942`).
- *A garbled stream is not charged.*  A payload that fails validation ends the
  client's answer with an error (`handlers.go:791`), while the Manager, whose
  stream is merely left, counts nothing or a success: `ToldAsCounted` excludes
  the handlers that validate.
- *A lost connection may take the next turn with it.*  The reader of a failed
  upstream connection tells whichever attempt is active by then, and two readers
  may close one channel, or one send to what the other closed
  (`codex_websockets_executor.go:1312-1325`): a panic of the process.  It takes a
  turn that starts between the failure and the moment the client is disconnected;
  `NoEarlyPanic` says that nothing is closed twice, or sent to once closed, before
  that.
- *A refused payload leaves its answer to the next turn.*  The producer ends a
  turn at a payload that is no JSON (`handlers.go:791-795`); the websocket handler
  reports that, cancels the call and reads the next turn
  (`openai_responses_websocket.go:904-909`).  The attempt's goroutine ends with the
  context and hands back `reqMu` and the channel only
  (`codex_websockets_executor.go:540-543`, `:566-579`), and ensureUpstreamConn gives
  the connection to the next turn (`:1264-1276`), whose client gets the rest of the old answer
  as its own: the messages come over the connection it expects.  Every answer
  after that is late by one.  With `OwnAnswers` reduced to `Lost` TLC finds this
  in nineteen steps.  No line promises the contrary, so no run is about it, and
  `OwnAnswers` leaves such sessions out (`deserted`).
- *A connection is reused whoever dialled it.*  ensureUpstreamConn does not ask
  for the credential (`codex_websockets_executor.go:1260-1277`); that turns of a session stay
  with one is the doing of the handler's pin.
- *A credential freed just before the decision is not tried again*:
  closestCooldownWait only looks for credentials that still cool down.

## Proofs

TLAPS proves, for every value of the constants that the named assumptions allow:

| Theorem | Module | States |
|---|---|---|
| `TypeCorrect` | `CredentialPool_proofs` | `Spec => []TypeOK` |
| `ModelsCurrent` | | the scheduler offers a credential for exactly the registry's models unless someone rebinds it |
| `ResultsKept` | | no step uncounts a result |
| `SchedulerFollows` | | without a race, the scheduler agrees with the Manager whenever no snapshot is on its way |
| `RebuildRepairsAll` | | a rebuild from a current snapshot repairs every entry |
| `TypeCorrect` | `ModelRegistry_proofs` | `Spec => []TypeOK` |
| `ListsCurrent` | | nobody is served a stale model list |
| `CountsCorrect` | | a model's counts are the references that the clients' lists hold |
| `MarksStayOwn` | | no step takes a client's mark off a model it lists, but its own |
| `TypesKept` | `WsSession_proofs` | `Spec => []TypeOK`: no channel over its capacity, nothing taken that was not sent |
| `AnswersComplete` | | an answer that ended well is everything the peer sent |
| `CleanupReachesAll` | | once cleanup's Range has ended, nobody waits on an open channel |
| `EntriesAreWatched` | | every entry of `s.pending` has someone to take it out |
| `TypeCorrect` | `AuthWatcher_proofs` | `Spec => []TypeOK` |
| `UpdatesArrive` | | the pool is on its way to `currentAuths`, whatever is coalesced, batched and queued |
| `EventsConverge` | | without a reload, events leave the pool mirroring files and connections |
| `ReloadsRepair` | | a reload that begins in quiet repairs what events lost |
| `LoopTyped` | `RefreshLoop_proofs` | `Spec => []TypeOK` |
| `NothingIsForgotten` | | whenever the loop sleeps it wakes in time for what is due |
| `OneRefresh` | | a credential is with one worker at a time, unless its mark lapsed or an update overwrote it |
| `MarksThrottled` | | no credential is marked twice at one time |
| `TypeCorrect` | `StreamedRequest_proofs` | `Spec => []TypeOK`: passes, credentials per pass and waits keep their limits |
| `WaitsPay` | | the pass after a wait finds a credential, unless results of other requests came in |
| `Accounted` | | a client got a success exactly if one was counted last for its request |
| `ImplementsRelay`, `ImplementsManager` | | a streaming request implements `StreamRelay` and the steps of `RequestRetry` |
| `AnswerIsOne`, `EndIsTold`, `RelayStaysTyped` | | so its client gets one answer and is told its end, and retries keep their limit |
| `ToldIsCounted` | | what the client was told is what its credential is charged with |
| `TypeCorrect` | `CodexSession_proofs` | `Spec => []TypeOK`: no channel over its capacity |
| `AnswersOwn` | | no turn gets another's answer while its session has lost no connection, and none of its turns was given up amid its answer |
| `PanicsLate` | | nor is a closed channel closed again or sent to |
| `RequestsExclude` | | no two attempts are at work on one session between `Lock` and their return |
| `DialsOnce` | | no second connection is served beside one that the session has not lost |
| `NoConnForgotten` | | an open connection is the one its session has |
| `LocksAreServed` | | reqMu is with an attempt at work, unless one returned without Unlock |
| `OnlyRejectionsLeak` | | which only a rejected handshake and the HTTP exchange after a 426 do |
| `TypeCorrect` | `SchedulerPick_proofs` | `Spec => []TypeOK`: no cursor beyond its view's end |
| `BestIsPicked` | | a pick gets a best ready credential, and fails only if there is none |
| `TurnsTaken` | | the scheduler implements `Rotation`: every ring gets its turns |

*Credential pool.*  The assumptions are that the kinds of goroutines are
disjoint, durations are positive and the null values are no records.  `TypeOK`
is not inductive: that an action finds the record it takes to exist needs
`KnownIDs`, that a goroutine holds records only of credentials `m.auths` has.
`Inv1`, the two together, is inductive (`Inv1Step`, one step per action over
lemmas for the four shapes of a write).  `SchedulerModelsCurrent` is inductive
relative to it: every handler that touches the registry stays in `Rebinding`
until its upsert, and an upsert reads the registry.  `SchedulerFollowsManager`
speaks of time (an entry may wait for an instant that is past until a pick
looks) and is not inductive; `SnapshotsCurrent` is: every snapshot on its way
equals the Manager's record, and with none on its way the entry is
`Synchronised`, computed from that record now or earlier.  `SyncAgrees` leads
from there to `Agrees`, at any later time.

*Registry lists.*  `IInv` adds to the types that listers read the clock in the past
and that the cache is sound: from some instant no later than now, and as long as the
cache is valid, it is the list that would be built.  That rests on `BuildStable`:
a list expires with the first mark it depends on, and time alone brings no other
change.

*Requests.*  `Inv` adds `Sound` to the types: who executes has tried its
credential, and who waits is permitted one more pass.  `RetryFindsCredential` is
about the moment after a wait; `Awaited` carries it through the wait: some
credential cools down no later than the wait ends, which `PauseAwaits` shows of
the pause that is chosen and `Tick` keeps, as both run down together.
`OutcomeCounted` follows from `Booked`: no success is counted before the step
that returns it.

*Streams.*  `RelayInv` accounts for every payload that was
read: with the handler, with the converter, with the producer, or lost because
somebody gave up (`PayloadsAccounted`), and says what an error tells of the producer that
met it (`Told`).  `OneAnswer` and `EndTold` are not inductive without it: that the
taken payloads are of the current attempt needs that a retry happens only while
none is on its way.  It assumes nothing of the Manager.  The rest of the module
shows that the composition takes no step the relay or the Manager could not take
alone, which carries over what is proved of each, and then joins them: `Joined`
says of the calls before the current one that they ended without success, of those
after it that they have not begun, and of the current one how far the relay has
followed it.  `ToldIsCounted` needs every part: an error told means a stream
whose failure was counted, and an answer told as whole means a producer that met
the end of a stream after `MarkResult` had counted it.  The assumptions are that
there is a call for every attempt, and that every handler either hands its
payloads to ForwardStream or checks them.

*Sessions.*  `OkIsComplete` is about the moment a reader meets the end of its
channel; what it needs is `Balanced`: a channel begins with some number of data
messages, those, the ones taken and the one the reader carries are all the peer
sent, and a channel that is closed or has met a terminal message says so after
the data.  That fails for a request whose message was dropped, whose
context ended or whose process panicked, which the property excludes or which
ends everything (`Relying`).  `ReaderKnows` ties the message on its way to what
the peer has done, `Entered` says that a request stays in `s.pending` until
someone has a reason to take it out, without which cleanup would miss it.
`Left` proves what `ClosedSettles` and `NothingLeaks` rest on.  A request may
store its entry while Range is under way and be passed over; what saves it is that
it looks at `s.closed` afterwards, so whoever gets past that look had its
entry among those Range must pass (`Due`), or has its channel closed already.

*Watcher.*  `IInv` says that outside `astray` one goroutine at most holds an
update of a credential, the current one (`Tracked`), and that nobody makes
updates while he still holds earlier ones (`Empty`); `PipelineFollows` is
inductive relative to it.  The lemmas on `Sent` and `LastSent` say what a channel
keeps of an ID when an update is appended or consumed.  `Mirror`
leads to the two theorems on convergence: a file whose content is not the one
recorded has an event to come or the event goroutine is on it (`Heard`; the last
event of a file tells whether the file is there, and what was read is the
present content unless another event follows); without a reload `currentAuths`
agrees with the hashes and the connections (`Alone`); a reload that began in
quiet compares with what is there (`Calmed`).  The assumptions are that files,
connections and the two goroutines are different things and that no content is
taken for its absence.

*Refresh.*  `NothingForgotten` speaks of a sleeping loop; `Heaped` carries it
through a pass: a credential that is to be refreshed is in the heap under a time
no later than its next check, or somebody is on the way to put it there
(`Covered`).  `Timed` gives the timer the earliest of these, which rests on the
well-foundedness of the naturals (`Earliest`), and `Awake` gives every report
its wake-up.  `Once` places a credential in flight with the loop, in the channel
or with a worker, only one of them, and says that its mark still holds it back;
`Cool` says that what was marked in this pass is not due again at the time the
pass goes by.  The assumption is that no record, credential or time is the null
value.

*Registry counts.*  `CountsMatch` compares counts that are kept up step by step
with the lists they stand for, and says so by the cardinality of a set of
references (client, position), not by a sum, so that no induction over clients is needed:
a step replaces one client's references (`ListReplaced`, `TotalChange`), and
`AddedCounts`, `RemovedCounts`, `RenewedCounts` and `ReconciledCounts` follow
RegisterClient's branches.  `CInv` makes it inductive: a client that
holds a list is registered with a provider (`ListsOwned`), so the counts per
provider move with the counts per model.  `MarksAreOwn` follows from it: a
registration, and with it everybody's marks, is dropped only at count zero, when
nobody lists the model (`TwoClients`).

*Codex sessions.*  `IInv` says where attempts, connections, readers and channels
stand to each other.  Part of it holds always: reqMu gives a session one running
attempt (`Locked`), beside the attempt of the client's turn nothing runs but streams
of turns that were given up, or that the client left (`Turns`), a channel is known to one session and its readers (`OneSession`),
and nobody knows the channel of an attempt that has not come to send
(`Unused`).  The rest holds until the session loses a connection, which is
when its watcher is told (`Lost`): it
has had one connection (`OneConn`), hence one reader; that reader closes a
channel last of all (`ClosedLast`, `OpenRead`); and, until the client leaves or a
turn is given up amid its answer (`Watched`), what the connection owes is the rest of the answer to the running attempt
(`OwesCurrent`); and what lies in that attempt's channel is its own, or says that
the connection failed (`EventsCurrent`).  The last two need each other: an
attempt leaves its stream at the last event of its answer, and the next one
finds the connection owing nothing because past that event nothing was owed.
`Lost` never reverts (`LostForever`), nor does `deserted` (`DesertedForever`), so a
property excused once stays excused.  One lemma
per action shows that the invariant is kept, by what the action writes
(`AttSet`, `SessSet`, ...) and frames for the parts it leaves alone.  The
assumptions are that sessions, attempts and connections are numbered, and that the
null value is none of them.  Two more invariants are proved beside it, each over a form
of step the actions share.  `OpenHeld` is what `NothingStaysOpen` rests on: a step
that takes a connection from its session shuts it (`NoneLost`), and a dial is made
only for a session that has none.  `LockOwned` is what `ClientReleased` rests on and
says how far the finding about `reqMu` reaches: who has a lock is at work until he
returns (`HoldersStay`), only `Lock` takes one (`LocksNext`), and every way
out but the two of the finding hands it back (`ReturnUnlocks`).

*Scheduler.*  `Rotation` knows who has had a turn in a round; the scheduler knows
a position.  The members from the start of the round to the cursor (`Arc`) are
those who have had theirs: `RingTurn` shows that to go on from a place of a ring
to the first member that may be served is a turn of `Rotation`, with the members
passed over as those that lose theirs.  It rests on arithmetic of places (`Ahead`,
the distance from one place of a ring to another) and on the uniqueness of
remainders.  What a pick does to one view is such a turn (`PickedFlat`,
`PickedGroup`), a mixed pick is one of the slots as well (`SlotServes`, where
the slots of a provider make a segment and a jump to another segment passes over
providers that have nothing untried), and the rings no pick asks stand still.
Between picks views are rebuilt and cursors restored by position: a ring
that lists the same members lists them in the same order (`OrderSame`),
and stands where it stood (`PlaceKept`); one whose members changed begins a new
round, as `Rotation` lets it.  All this is said of one form of step (`Steps`), which
every action is shown to have, so that the invariant and the refinement are each
proved once.  The invariant `IInv` is the types together with every view cursor's
bound, the rings being what entries and levels call for, and the start of a
round being a place of its ring.  `BestPicked` does not follow from the invariant:
it is about steps, and needs that promotion leaves nothing due (`BestStep`), that
the highest priority that has an untried member is found in every provider's shard
(`TierBest`, `MixedBest`), and that the websocket view, if asked first, is asked
only when somebody in it may be picked.  The assumption (`SchedulerAssumption`) is that
credentials, parents and priorities are numbers and finitely many, and that a list
of providers has at least two, none twice, which `normalizeProviderKeys` sees
to (`scheduler.go:480`).

What the proofs do not cover and TLC does: the liveness properties, which need
fairness and ENABLED.  Every invariant and every action property of the runs that
pass is stated by a theorem.  Of the liveness of the two kinds of sessions the
theorems show the part that is safety: that nobody is left whom no goroutine
serves.

## Not modelled

PROJECT.json lists every component with its status.  Left out of the modelled
ones are persistence and its errors, the alias tables and pools of upstream
models behind one name, pinned credentials, home mode (a control plane outside
this repository), the Antigravity credits, model metadata, the rescan after a
change of the auth directory, credentials of the configuration file, stopping and
restarting the refresh loop, config reloads whose timers' callbacks overlap, the heartbeat of a session, the selectors behind
session affinity, pings and the non-streaming call of the Codex executor, and the
order of start and shutdown.  Most of the code by lines are conversions between dialects,
executors that do one HTTP exchange, handlers of the management API that read and
write files, stores, logins, configuration and user interfaces: I/O or functions of
their input, without state that two steps share.  They appear as the
nondeterministic answers, errors and updates of the models, and modelling them
definition by definition would restate them.

## Plan

Done, in this order: CredentialPool and its proofs, ModelRegistry and its
proofs, WsSession, AuthWatcher, RefreshLoop, RequestRetry and its proofs,
SchedulerPick against Rotation, CodexSession, StreamRelay, StreamedRequest and
their proofs, the proofs about WsSession, RefreshLoop, AuthWatcher, CodexSession
and SchedulerPick.

Next:

1. Home mode and pools of upstream models in `RequestRetry`.
2. `SessionAffinity`: `session_cache.go` and the affinity selector; a session
   keeps its credential while it is usable and leaves it when it is not.
3. An abstract specification of the pool (one record, one eligible set) that
   `CredentialPool` implements for behaviours without races.
4. `CodexSession` under the Manager: turns as streamed requests.
