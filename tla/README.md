# Verification of ClouDesk

TLA+ models of ClouDesk, TLC configurations that check them on small instances,
and TLAPS proofs of the main results for every instance.

ClouDesk is at milestone M0: the domain packages are empty, and the logic that
can go wrong is in four places — the control plane that the repository's agents
work under (`.codex/scripts/`, Python), the API process and its routes
(`backend/`, Go), the generated server those routes mount
(`backend/internal/gen/openapi`) and the event-stream and HTTP clients of the
frontend (TypeScript, generated and committed). All four are modelled; section 5
says what is left out and why. Paths below are relative to the repository root;
`PROJECT.json` maps every definition to the lines it stands for and lists the
hazards that the properties answer.

## 1. The system

### Control plane (`.codex/scripts/`)

Each task has a *workspace*, a directory of files that short-lived `control.py`
processes, started by several agents, read and rewrite. There is no server: the
files are the state, and a lock file is the only coordination.

| Component | State | Operations | What is hard | What makes it correct |
| --- | --- | --- | --- | --- |
| Workspace lock (`control_lock.py`) | `control/.lock`, `_HELD_LOCKS` | take, nest, release, clear a dead process's lock | read, probe and unlink are separate system calls; kills; recycled pids; deadlines | one process inside; no file left behind except by a crash; waiters end; dead locks are cleared |
| Metrics store (`record_metric`) | `control/metrics.json` | add to a counter | read-modify-write by many processes | no addition lost, none counted twice |
| Commands (`control_actions.py`) | `status.md`, `gates.json`, `implementation.json`, `events.jsonl`, `metrics.json` | `transition`, `record-gate`, `run-gate`, `checkpoint`, `record-implementation`, `metric` | one command writes several files one after the other and may die between; a completion is written first, validated next, undone on failure | the lifecycle is followed; work is approved; completion is certified; the trail agrees with the status |
| Validation (`control_validation.py`, `control_io.py`, `control_config.py`) | none, reads all of the above | `validate_workspace`, `validate_gate_receipts`, `required_artifacts` | many reads while agents edit | what is accepted stands when it is recorded |
| Bindings (`control_bindings.py`, `control_binding_validation.py`) | `git-binding.json`, `file-binding.json` | `bind-git`, `bind-files`, and their validation | HEAD and the tree are read one after the other; files are hashed before the lock; order of gates, edits and bindings | sources that changed after the gates cost the gates |
| Selection and listing | none | `select_workspace`, `list` | unlocked readers over several workspaces | never report a status that was undone |
| Configuration, bootstrap, doctor, evaluations | `config.json`, installed files | merge and validation; idempotent installation; test driver | re-running after a partial installation | a second run changes nothing |

The commands interact through the files only. Every command that writes takes
the lock for its whole duration (`run-gate` also while its subprocess runs);
agents edit the plan, the artifacts, the evidence and the sources without it.

### Backend (`backend/`)

| Component | State | Operations | What is hard | What makes it correct |
| --- | --- | --- | --- | --- |
| API process (`cmd/api/main.go`, `httpserver/server.go`) | the goroutine that serves, the channel `serveDone`, the signal context | start, serve, withdraw, drain, force close, exit | two goroutines, a signal and an accept error together, the drain deadline against the last response | a signalled process ends; exit 0 cuts nobody off; the goroutine is joined |
| Readiness (`health/state.go`, the probe in `routes.go`) | one atomic flag | mark ready, mark not ready, probe | order against serving and draining | off from the start of a drain |
| Routes and request identity (`routes.go`) | per request: its id, its context | give an id, arm the timeout, mount the generated server under two patterns, answer a probe, cancel | the flag is read in one step and answered in others; a path that the mux cleans, redirects or hands on; a deadline that only ends a context | one valid id in context, header and body; a probe is about one moment; the fixture's operation is unreachable; every request is answered |
| Generated server (`internal/gen/openapi`) | `serverConfig`; two counters; per request the recorder of its status | options; route; security; decode parameters; middleware; handler; encode; `ErrorHandler`; span and counters | an error after the status line; deferred counting; two copies of one router; double unescaping; decoding into a value that is there already | nothing before the session; telemetry as on the wire; both routers agree; the codec accepts what conforms |
| Worker (`app/worker.go`) | the flag | wait for the signal | a timeout that is read and not used | ready only while running |
| Configuration, database pool | none | bounded parsing; open and ping | boundaries | refused or within bounds |
| Domain packages | none yet | none yet | — | — |

### Frontend (`frontend/`)

| Component | State | Operations | What is hard | What makes it correct |
| --- | --- | --- | --- | --- |
| Event-stream client (`serverSentEvents.gen.ts`) | last event id, attempts, retry delay, the read in hand, the signal | connect, read, validate, yield, retry, abort | broken off and resumed anywhere; a signal or a consumer that stops between any two awaits; callbacks that throw | events with ids once and in order; nothing skipped that was not refused; an abort ends it; connections are not piled up |
| Browser client and request pipeline (`browser-client.ts`, `client.gen.ts`, `utils.gen.ts`) | three lists of interceptors, the configuration; per call where it is | `use`, `eject`, `update`, `clear`, `setConfig`; a call through the lists; each connection of a stream through the first | the lists and the configuration change while a call awaits an interceptor; ids outlive a `clear`; an interceptor throws or returns nothing | what was installed once runs once; an id withdraws its own; unsafe requests carry the token; callers are told of an error as they asked |
| Shells and pages | none | render | — | — |

## 2. Modules

| Module | Stands for | Built on |
| --- | --- | --- |
| `WorkspaceLock` | `workspace_lock`, `clear_stale_lock` | — |
| `AtomicCounter` | what `record_metric` promises (abstract) | — |
| `MetricsStore` | `record_metric` inside the lock | composes with `WorkspaceLock`, refines `AtomicCounter` |
| `ControlRules` | the tables: transitions, gates of each risk, required artifacts | — |
| `WorkspaceLifecycle` | what a workspace's status promises (abstract) | `ControlRules` |
| `ControlPlane` | the commands on one workspace, validation, bindings, edits, deaths | `ControlRules`, refines `WorkspaceLifecycle` |
| `ServerLifecycle` | `main`, `Server.Run`, `Server.Serve`, readiness, `http.Server` | — |
| `ApiSchema` | the types of the public API and their `Validate` methods | — |
| `ApiCodec` | `Encode` and `Decode` of the JSON bodies | `ApiSchema` |
| `ApiRouter` | `ServeHTTP` and `FindPath` of the generated router | — |
| `OpenApiServer` | `NewServer` with every option, and a request's way through the generated server | `ApiSchema`, `ApiRouter` |
| `ApiConsumer` | the server and a program that decodes its bodies | composes `OpenApiServer` and `ApiCodec` |
| `HealthRoutes` | `routes.go`, both probes, the readiness flag, the mux | instantiates `OpenApiServer` (through its proofs, so that their theorems come along) and refines it |
| `EventStream` | `createSseClient`, its consumer, the network and the signal | — |
| `ApiClient` | `createBrowserApiClient`, `createClient`, `class Interceptors`: calls through lists that change | — |
| `BrowserClient` | one client with its calls and a stream (`makeSseFn`) | composes `EventStream` and `ApiClient` |
| `*_proofs` | theorems about the module they are named after; those about `WorkspaceLock` are in `MetricsStore_proofs` and those about `EventStream` in `BrowserClient_proofs`, which need them | TLAPS |
| `FoldRun` | what `FoldLeft` computes, for any operator: a lemma library for the proofs, no part of the model | instantiated by `OpenApiServer_proofs` and `ApiConsumer_proofs`, once for each operator they fold with |
| `MC*` | what TLC instantiates | the module they are named after |

### How state and actions correspond to the code

**WorkspaceLock.** `pc` is the system call a process does next; each is an
action: `OpenCreates`/`OpenExists` (`os.open` with `O_EXCL`), `WritePid`,
`ReadPid`, `ProbePid` (`os.kill(pid, 0)`), `UnlinkStale`, `RetryOrGiveUp`,
`Release` (the `finally` clause), `EnterNested`/`LeaveNested` (`_HELD_LOCKS`).
`lockFile` is the creator of the file that the *path* leads to, so an unlink may
take away a file other than the one read. A body may do nothing, nest, or never
end. `Crash` also stands for an exception between `os.open` and `try`. `late`
says whose deadline has passed; clock values are not modelled. `misdeleted` is
history.

**MetricsStore.** Two steps in the body of the lock, read and replace; the
replacement is atomic (`atomic_write_text` renames). One counter, one addition
per process: other counters would not interact with it, except that the whole
file is replaced, which the same read and write show.

**ControlPlane.** A variable per file. `step` is the place in the command under
way, so the order of the writes is the order in the code: status, then (for a
completion) validation in two halves, then event, then metric. `Crash` stops a
command at any step. The lock is taken as exclusive here; what happens when it
is not is the subject of the two modules above. The `metric` command is
`record_metric` alone and is modelled there. Contents are abstracted: a source
tree is a version number (`repo.content`) with a flag for changes outside the
allowed paths, HEAD is a number, evidence is either what the receipt hashed or
not (`stale`), a plan has open tasks or not, and one forbidden gate command
stands for all. `risk` is a variable that no command changes, so that one run may
start from any set of risks.

A name is whatever the command line gave: concrete, one of the placeholders that
`transition_workspace`, `record_gate` and the validation refuse, or blanks, which
`" "` stands for. Blanks pass the guard of an approval (`control_actions.py:41`)
and are written to `status.md`, where `read_frontmatter` strips them
(`control_io.py:63`), so that the approver reads back as nobody (`ReadBack`). Work
may then begin under a blank name, and it is the validation of a completion that
refuses it: hence the two halves of `ApprovedBeforeWork`.
`record_implementation` checks no name at all.

`certified`, `since` in a transition, `content` in a receipt and `first` in a
binding are history: nothing in the model reads them but properties. `certified`
holds the final statuses that a validation has let in, each for itself: a
delivery is certified by its own validation and not by that of the completion it
came from. `since` counts the edits made when the transition began, which tells a
validation that agents disturbed from one they did not.

**ServerLifecycle.** `main` is the place of the main goroutine in `run` and
`Serve`, `serve` that of the goroutine started by `go`. `conn` is the state of
each connection. What `net/http` does (`Shutdown` polling, closing idle
connections, `Close`) is modelled from its use in `server.go` and marked
external. A signal before `NotifyContext` or after `stop` kills.

**ApiSchema, ApiCodec, ApiRouter.** Pure definitions. A Go struct is a record
keyed by the names on the wire; a string is known by its length and the patterns
it matches; a `Validate` method returns the set of fields it complains of. A
document is a tree whose objects are *sequences* of members, since order and
repetition matter to `Decode`, and a `Decode` method reads member after member
into a value that exists already (the recursion over members is a fold). A path
is a sequence of tokens, cut where the router's prefixes end, with percent
escapes as tokens of their own.

**OpenApiServer.** Each request has a goroutine; `pc` says which stage it is
before: `route` (`Unrouted`, `Start`), `secure`, `decode`, `call`, `encode`
(`Encode`, `EncodeCut` when writing the body fails, and the failure of a response
of an unexpected type), `record` (the deferred error counter), `count` (the
deferred request counter). `out` is what the `ResponseWriter` sent, `code` what
`codeRecorder` believes, and `session` what the security handler said of the
cookie of this request (`CookieSession`): accepted, skipped, denied, or not
asked. The handler, the security handler, the middleware and `ErrorHandler` are
the using program's: they may do what their types allow. An `ErrorHandler` may
set a status of its own or write a body without `WriteHeader`: then the client
gets 200, and the recorder keeps what it noted before, which is nothing unless
encoding had begun (`Noted`).

**ApiConsumer.** `Deliver` encodes a body that was sent, `Differ` lets the
document of a peer of another version drop, repeat, change or add one member,
`Unmarshal` decodes it. `Conforms` is the reference definition that the decoder
is compared with.

**HealthRoutes.** `outer` is the place of a request in the wrappers, in the
order of `NewRoutes`: `Identify`, `ArmTimeout`, the mux (`Mount`, `Dismiss`),
then the generated server's own actions through `INSTANCE`, then the deferred
cancel (`Return`). `saw` is history: where the process was when the handler
loaded the flag. `net/http`'s `ServeMux` is external.

**EventStream.** `pc` is where the generator of `createSseClient` is: at the
head of its loop, awaiting `fetch` or `read`, between chunks, awaiting the
callbacks, suspended at `yield`, in `catch`, asleep. The server's log is
`1 .. LogLength`; `named` are the events with an `id:` line, `refused` those at
which the validator, the transformer or `onSseEvent` throws, both chosen freely.
`position` and `chunks` are the events of this connection already handled and
those of the last read still to come. `forgotten` counts bodies whose reader was
released and not cancelled. The replay after `Last-Event-ID` is the server's and
external; without the header it is taken to start at the beginning. The abort
handler and the signal given to `fetch` race, so an aborted read ends or throws.

**ApiClient.** `fns[list]` are the arrays a list has had, the last in use:
`clear` makes a new one, everything else changes the array in place, as in `class
Interceptors`. The arrays hold functions, and neither `use` nor `update` asks
whether a function is listed already, so the model holds *installations*: each
`use` and each `update` brings one, of the function `FnOf` gives, and several may
be of one function, at once or one after the other. `Eject` and `Update` go by
id; `EjectFunction` and `UpdateFunction` take the first slot that holds the
function (`indexOf`), whoever installed it there. `home` is the array an
installation went into, so that it is made once; its function may come as often
as `Installs` has installations of it. So `EachOnce` is a promise by
installation, and all that the code gives: a function that is withdrawn and used
again while a call awaits it stands behind the place of that call and runs a
second time. A call awaits what `stage` says; `walk` is the array and the slot
its `for`-`of` loop is at, `ran` the installations it has called. A step ends
where the code awaits. `home`, `withdrawn` and `due` are history. Requests,
responses and errors are the classes that the code and the properties tell apart
(a request with the token, a response that holds JSON, an error that is nothing).

**BrowserClient.** The stream is a walker like a call, and every connection it
makes enters the first list anew; the actions of `EventStream` are conjoined
with the walk's. Interceptors are assumed to hand on the signal of the request
they got.

## 3. Runs

| Run | Properties | What it shows |
| --- | --- | --- |
| `lock_all` | `OverlapOnlyAfterMisdelete`, `NoLeakedLock`, `BoundedWait`, `StaleLockRecovered` | until an unlink removes a file it should not, the holder is alone; only a crash leaves a file; waiting ends; dead locks are cleared |
| `metrics_safety` | `MetricsTypeOK`, `LostOnlyAfterMisdelete`, `NeverOvercounts`, `ImplementsCounter` | additions are exact while the lock is sound, and never overstated |
| `metrics_lost` | `NoLostUpdate`, *violated* | finding 1 |
| `control_lifecycle` | `ApprovedBeforeWork`, `AuditTrail`, `CompletionCertified`, `ImplementsLifecycle` | a low-risk workspace from approval to delivery, under a name, a placeholder and blanks, with failed gates, a git binding and two deaths; completion and delivery are each validated |
| `control_high` | `CommitPointIsGated` | five gates, two actors, file bindings and an edit anywhere, from work in progress through completion to delivery |
| `control_crash` | `CompletionSurvivesCrash`, *violated* | finding 2 |
| `control_rebind` | `GatesRenewedOnRebind`, *violated* | finding 3 |
| `server_all` | `WithdrawnBeforeDrain`, `CleanExitDrained`, `GoroutineJoined`, `ForcedOnlyAfterDeadline`, `SignalEndsProcess` | the process from start to each kind of exit |
| `server_ready` | `ReadyOnlyWhenServing`, *violated* | finding 4 |
| `exchange_all` | `SessionFirst`, `TelemetryMatchesWire`, `RoutesAgree`, `LastOptionDecides`, `DecodesToSent`, `AcceptsConforming`, `RepeatsMerge` | one exchange with the generated server under every option list, request, result and security outcome of the instance, and a reader that decodes a body which may differ in one place |
| `routes_all` | `EffectiveId`, `OrganizationHidden`, `ProbeTellsTheTime`, `TelemetryAddsUp`, `ImplementsGenerated`, `Answered` | two requests at once through the wrappers, the mux and the generated server, while the process turns ready and drains |
| `client_all` | `NamedAtMostOnce`, `SkippedOnlyRefused`, `AbortStopsReading`, `ForgottenBounded`, `EachOnce`, `TokenOnUnsafe`, `CallerTold`, `AbortEnds`, `WithdrawsOwn` | a stream of any three events, broken off, resumed, refused and aborted anywhere; a call and every connection on their way through lists that the application changes |

Type correctness is a theorem of every module that has proofs (section 4); only
`metrics_safety` also checks it. Between them the passing runs fire every action;
file bindings, edits and receipts without a command fire in `control_high`,
the other control-plane actions in
`control_lifecycle`. Each property has a mutant in `PROJECT.json`: a definition
changed as a plausible bug would change it (a mutated form stands before the
definition it replaces), under which TLC finds the property violated.

### Bounds

- *Lock and metrics*: three processes. Two never overlap (theorem
  `PairExclusion`); three is the least number that does, one to hold, one to
  probe it and one to come after it. One crash is enough for a stale lock. Depth
  2 is one nested lock, which is as deep as the code goes (`run_gate` calling
  `record_gate` and `record_metric`). Symmetry is used for `metrics_safety`
  only: `lock_all` checks liveness.
- *Control plane*: `MaxEvents` bounds the transitions in the trail, `MaxRuns`
  gates run, `MaxCheckpoints`, `MaxEdits`, `MaxCrashes` the rest; `Recorded` are
  gates that passed before the first look. `control_lifecycle` starts at
  `awaiting_approval` with six transitions, of which four reach `delivered` and two
  are left for a return to draft, a block or one that is undone; two deaths let one
  spoil a completion and the other its delivery. It has no edit: what edits do to
  what was validated is the question of `control_high`, which starts in progress
  with four of five gates passed, so that one run, one review and one binding are
  left, and has the two transitions to `delivered` and one edit, which falls
  anywhere: between the scan and the write of a binding, between the two halves of
  a validation, between a completion and its delivery. Files are bound there and
  git in `control_lifecycle` and `control_rebind`. Any number of edits, deaths and
  transitions together is what the proofs are about.
- *Server*: three connections, so that one can be busy, one idle and one new at
  the drain.
- *Generated server and its reader*: one exchange, since requests share nothing
  but two counters, which `routes_all` has two of. Requests: each path that a
  prefix of the router tells apart, with escapes that are canonical, needless,
  twice escaped or a slash, and each method on a known path. Options: each one
  alone, and every pair of those that a later one replaces. Values:
  each type at the ends of its lengths and numbers, one string that matches no
  pattern, and two UUIDs and times of which one has two spellings. `MaxEdits` =
  1, as the decoders report a fault per member and one member differs from a
  conforming body in every way that a member can.
  `ApiSchema` and `ApiCodec` keep lengths, patterns and the order of members since
  a conforming body is one whose every field is within its bounds: without them
  `AcceptsConforming` would compare the decoders with nothing.
- *Routes*: two requests, any two of seven: both probes, ids that are kept,
  refused, empty and made, a wrong method, the organization's path alone, behind
  a dot segment and behind an escaped one. Two are enough to count together and
  to load the flag on both sides of a change.
- *Browser client*: one call and one stream, up to three installations of request
  interceptors or two of error interceptors beside that for the token, one `clear`.
  Three are needed to withdraw one that is neither run nor running. Two of the three
  are of one function (`MCFnOf`): listed twice, or used again after it was
  withdrawn.
  `MCApps` lists the applications: what each may change of the lists, and
  whether a call, a stream or both are made.
- *Event stream*, in the same run: three events, so that one can be refused
  between two others, and reads of up to two, so that a refusal drops the rest
  of a read. Which events have ids and which are refused is free where the
  application leaves the lists alone; elsewhere all have ids and none is
  refused. The attempt counter stops at 2 (the larger limit in use) and is
  unbounded in effect for limit 0, as nothing else reads it. `MaxOpen` = 5 is
  above what `ForgottenBounded` allows (4).

Deadlock is not checked where a run may end: a generator that is over, calls and
requests that are answered, processes that have all exited, a process that is
gone.

### Fairness

- *Lock*: weak fairness of a process's acquisition loop and of the passing of
  its deadline: the loop has no blocking call, and time passes. Nothing is
  assumed of the body, since `run_gate` gives its subprocess no timeout, and
  nothing of `Exit`: `StaleLockRecovered` is about crashed processes only.
- *Server*: weak fairness of the main goroutine, of the serving goroutine's
  start and end, and of the deadline: the Go scheduler and clock. No handler is
  assumed to return, no client to send, no signal to arrive.
- *Routes*: weak fairness of each request's goroutine, since the Go scheduler
  runs every goroutine and no step of these handlers waits for anything. No
  client is assumed to send, no deadline to pass and the process need not turn
  ready.
- *Browser client and event stream*: weak fairness of what the generator does by
  itself (timers fire, callbacks return), of interceptors, which return or throw,
  and, once the signal has fired, of the answer of `fetch` or `read`.
  Interceptors, and a `fetch` the application brings, are taken to hand on the
  signal of the request they were given, and `fetch` to heed it: a request made anew
  without it (`client.gen.ts:257`) would connect after an abort.
  The network may be silent for ever, and the consumer may stop asking.
- *Control plane and generated server*: none; their properties are safety, and
  a refinement that is about steps.

### Findings

1. **Overlap in the lock, a lost update** (`control_lock.py:20`, `metrics_lost`).
   A waiter reads and probes the pid of a process that has just exited, the lock
   was released and taken again meanwhile, and the waiter unlinks the new
   holder's file. Nobody crashes. An evaluation case expects every successful
   mutation preserved.
2. **A completion nobody validated** (`control_actions.py:48`, `control_crash`).
   The status is written before validation and put back on errors; a death in
   between leaves `completed`.
3. **Binding again renews nothing** (`control_binding_validation.py:54`,
   `control_rebind`). The error says gates must be renewed; running `bind-git`
   again is enough, as receipts do not say on which sources they were obtained.
4. **Ready before serving** (`server.go:48`, `server_ready`). The architecture
   document says readiness follows the start of serving; the flag is set after
   the `go` statement, whether or not the goroutine has run.

Places where the documents describe an API that the code does not have yet; no
run is needed to see them, and the models follow the code:

- `docs/api/conventions.md:82` and `docs/api/openapi.md:93` have duplicate JSON
  keys rejected. The generated decoders merge them, as `RepeatsMerge` says; no
  operation with a body is declared yet.
- `docs/api/errors.md:32` has one JSON envelope for every error. The mux and the
  generated `NotFound` answer 404 in text, a wrong method 405 without a body, and
  `ErrorHandler` an object with the single member `error_message`.
- `docs/api/errors.md:71` answers a deadline of the server's own with a controlled
  timeout. `withRequestTimeout` ends a context that no handler looks at
  (`Answered` holds because nothing waits).

## 4. Proofs

Checked by `tlapm`, for every value of the constants allowed by the named
assumptions:

- `LockAssumption` (`NoProc` is no process, bounds are numbers), `ProcsAssumption`
  (finitely many processes; for cardinalities), `ControlAssumption` (names,
  risks, gates and commands from the code's tables; the starting status is not a
  final one), `StreamAssumption` (bounds are numbers, limits are within the
  counter's);
- `TextAssumption`, `ConversionAssumption` and `EscapeAssumption` (what a string
  is known by; which texts parse, and to what), `ServerAssumption`,
  `InputAssumption` and `OutcomeAssumption` (options, requests and results have
  the types that the Go signatures give them; finitely many exchanges),
  `OptionAssumption` (an option for a field that is a string or a list is not
  nil), `EditAssumption` (a bound is a number, the changed values are texts);
- `RoutesAssumption`, `MessageAssumption` and `ClientAssumption` (the texts that
  `routes.go` writes are texts with the lengths and patterns they have, new ids
  are valid, clients send requests);
- `ApiClientAssumption` (installations have a list and a function each,
  callers and applications have
  the fields that are read).

| Theorem | States |
| --- | --- |
| `MetricsStore_proofs`: `TypeCorrect`, `ExclusionUntilMisdelete`, `NothingLeaks` | `TypeOK`, `OverlapOnlyAfterMisdelete`, `NoLeakedLock` |
| `MetricsStore_proofs`: `PairExclusion` | with at most two processes, no two are ever inside |
| `MetricsStore_proofs`: `MetricsTypeCorrect`, `LossTakesMisdelete`, `NoOvercount`, `CounterImplemented` | the four properties of `metrics_safety` |
| `ControlPlane_proofs`: `ControlTypeCorrect`, `WorkIsApproved`, `TrailIsComplete`, `CompletionIsCertified`, `CommitIsGated`, `LifecycleImplemented` | `TypeOK` and the five properties of the control plane's passing runs |
| `ServerLifecycle_proofs`: `ServerTypeCorrect`, `ReadinessWithdrawn`, `CleanExit`, `NothingLeftRunning`, `ForcedAfterDeadline` | `TypeOK`, `WithdrawnBeforeDrain`, `CleanExitDrained`, `GoroutineJoined`, `ForcedOnlyAfterDeadline` |
| `BrowserClient_proofs`: `StreamTypeCorrect`, `DeliveredOnce`, `NothingElseSkipped`, `AbortHeeded`, `FewForgotten` | `TypeOK`, `NamedAtMostOnce`, `SkippedOnlyRefused`, `AbortStopsReading`, `ForgottenBounded` |
| `OpenApiServer_proofs`: `TypeCorrect`, `StrangersLearnNothing`, `TelemetryIsTrue`, `NothingUncounted`, `RoutersAgree`, `OptionsDecided` | `TypeOK`, `SessionFirst`, `TelemetryMatchesWire`, `TelemetryAddsUp` of the generated server, `RoutesAgree`, `LastOptionDecides` |
| `FoldRun`: `FoldLeftRuns` | `FoldLeft(Op, base, seq)` is the last state of a run over `seq`, for any operator and any length |
| `ApiConsumer_proofs`: `DecodedIsSent`, `ConformingIsAccepted`, `RepeatsAreMerged` | `DecodesToSent`, `AcceptsConforming`, `RepeatsMerge` |
| `HealthRoutes_proofs`: `NoWayToOrganizations`, `OneEffectiveId`, `ProbesTellTheTime`, `RoutesRefine`, `RoutesTelemetry` | `OrganizationHidden`, `EffectiveId`, `ProbeTellsTheTime`, `ImplementsGenerated`, `TelemetryAddsUp` |
| `HealthRoutes_proofs`: `GeneratedExpectations` | what the generated server assumes of its inputs holds of those the routes give it |
| `BrowserClient_proofs`: `EachOnceHolds`, `WithdrawsOwnHolds`, `TokenOnUnsafeHolds`, `CallerToldHolds` | `EachOnce`, `WithdrawsOwn`, `TokenOnUnsafe`, `CallerTold` |
| `BrowserClient_proofs`: `ClientStreams`, `StreamStaysSound` | a client's steps are steps of `EventStream` or leave its stream alone, so that the stream keeps `NamedAtMostOnce`, `SkippedOnlyRefused` and `AbortStopsReading` |

**The inductive invariants**, and why the properties alone do not do:

- `LockInv`: types, exclusion until a misdelete and no leak need to know that a
  process about to unlink has *read the pid of a dead process*
  (`UnlinksTheDead`; no process comes back to life, though its pid may). `PairExclusion`
  adds that with two processes the dead one and the unlinking one are all there
  are.
- `CounterInv`: exactness needs that the copy of the one process inside equals
  the counter while the lock is sound (`Exact`), that only a process that has
  been inside has read (`ReadInside`), and, for the bound that survives a broken
  lock, that every copy is at most the additions made (`Bounded`). The step of
  the lock is used through `LockInv` alone.
- `ControlInv`: the trail needs the exact balance of lines, counted transitions
  and deaths (`TrailCounted`) and the fact that a transition under way is a
  legal one whose target is in `status.md` (`Underway`). Certification is by
  status; a delivery that is refused goes back to `completed`, so it needs that a
  delivery starts from a certified completion (`DeliveryOfCertified`).
  `CertifiedApproved` says that whatever was certified once has an approver who can
  be read, as no transition leads out of the final statuses to another approval. The
  commit point needs that the receipts checked in the first half still stand
  during the second (`CheckedGatesStand`): no command may write a receipt
  meanwhile, although evidence, plan and sources may change; and, where nobody
  edited since the transition began (`SinceCounted`), that the rest of the first
  half does. `OtherSteps` shows
  once that the gate, binding and environment actions leave alone what the
  transition properties read.
- `ServerInv`: which places of the main goroutine go with readiness
  (`ReadyInv`), with the serving goroutine and the listener (`ServeInv`), and
  with connections (`DrainInv`). `ForcedInv` adds that a process on the path of
  a forced close has passed its deadline.
- `StreamInv`: at most once needs that ids count when their event is parsed
  (`IdsCounted`), so that no event with an id beyond the last one was ever
  yielded (`IdsReached`, `Fresh`); nothing skipped needs that all a connection
  has passed was yielded or refused (`Handled`), and where the last id stands
  relative to the event in hand (`Order`). `ForgottenInv` pays for each
  forgotten connection with a refused event that the last id has passed
  (`Spent`), so that none is refused twice.
- `RequestInv` (generated server): at each stage, what has been sent, what the
  recorder believes and what the spans say (`GoroutineInv`); the two come apart
  only where the body could not be written or `ErrorHandler` called no
  `WriteHeader`. `Guarded` says where a request can be whose cookie was not
  accepted: before the security stage, or past it with its error sent.
  `CountersInv` has each counter equal
  the number of exchanges that are past their deferred addition, so that
  concurrent requests neither lose nor share one. `FunctionsInv` carries the
  types of the functions the variables hold. `RoutedInv` says that a request is
  where `ServeHTTP` sent it and that its parameters hold the decoded argument;
  `SearchesAgree` compares the two searches for any path (where the raw path has
  no escape left, the handler does not unescape and `FindPath` does, which
  changes nothing).
- `ConfigInv`: once the server is up, its configuration is that of
  `NewServerConfig` for its options. `OptionsFolded` carries `Decided` along the
  options: after the first k of them, a field holds what the last of these says
  that is not nil.
- `ConsumerInv`: what a program reads is the body of a response that was written
  without an error (`WrittenInv`, since a body is sent in another step than the
  one that reports its fault, and `Sent` stays true once it is), or a document
  made of one by a number of differences (`ReaderInv`). It also says that
  whatever the differences, the document is an object with members, so that the
  lemmas about the decoders apply: a difference is a `Differs` of the member list
  (`EditedMembers`). The reading of such a document (`ReadingSteps`) is as long
  fine as every member is known and fits, has the bits of the keys seen so far
  and has changed only their fields; `MissedInOrder` names the bits left over.
  From these follow what each `Decode` accepts and returns (`ErrorDetailRead`,
  `DetailsRead`, `ErrorRead`, `EnvelopeRead`, `HealthStatusRead`,
  `OrganizationRead`), and that it takes back what its `Encode` wrote
  (`BodyBack`).
- `RoutesInv`: what the wrappers have set before the generated server is entered
  (`Wrapped`) and what it can be answering (`Answering`): the path that reached
  it through the mux has no operation but the probes. `RoutesRefine` maps each
  step of the wrappers to a stutter and each inner one to the generated
  server's own; with `GeneratedExpectations`, the theorems of the generated
  server then hold of this program's, and `RoutesTelemetry` is one of them.
- `RegistryInv`: an installation is in one slot of one array (`Single`), the one
  it was given when it was made (`Homed`, `Identified`), and the one for the
  token comes first (`CsrfFirst`); so an id withdraws its own, even where the
  function stands in other slots too. `WalkInv`: what is
  ahead of a walk has not run, and what is due and has not run is ahead: appending,
  emptying a slot and leaving the array for a new one all keep both. `KnownInv`
  says that a walk has run only what was added, `TokenInv` where the
  token is at each stage of a call, `ToldInv` how a failure and the options of
  the call give its answer.

The refinements are proved by mapping the initial states and each step:
`LifecycleStep` shows that a completion counts from the moment it is accepted
(or its command dies), so the write of `status.md` and its undoing are stutters.

**Folds.** `NewServerConfig` and every `Decode` are folds over sequences of any
length, so what they compute takes an induction. No theorem that takes an
operator as its argument is cited for it. `FoldRun` has the operator as a
CONSTANT and is instantiated for each one, and its induction (`UpTo`) is about a
set of numbers: were one missing there would be a least missing one, by the
well-foundedness of `<`. `FoldLeftRuns` makes `FoldLeft` a run with a state after
each element, of which the lemmas above then show an invariant by `UpTo`. The
run `exchange_all` has documents that differ in at most `MaxEdits` = 1 place and
option lists of at most two; the theorems are about any number of differences,
and option lists, members, details and exchanges without a bound (the exchanges
finitely many). `OptionAssumption` says what the Go signatures say of options:
a prefix is a string, and a list of attributes or middlewares that is empty is
`none`, a list like any other.

**Only model-checked**: `BoundedWait`, `StaleLockRecovered`, `SignalEndsProcess`,
`AbortEnds` and `Answered`, since liveness needs `ENABLED`, which the prover does
not support. Every safety property of a passing run has a theorem. The violated
properties are shown by TLC's traces.

## 5. What is left out, and why

Contents of files, log texts, formatting and argument parsing are abstracted
everywhere. Beyond that:

*Partly modelled*

- **Command line of the control plane**: the subcommands are the actions;
  parsing, error texts and `validate-scope` are not modelled.
- **Control-plane configuration**: the default gate policy is a table; the merge of
  `load_config` and `validate_config` are functions of one file, and the models
  start from a configuration that passed.
- **Generated server**: getters, setters and text marshalling of enums,
  `findAuthorization` (no operation calls it), the histogram of durations, the
  attributes of `Labeler`, and panics are left out. So is `FindRoute`,
  which is `FindPath` of a path without escapes.
- **Browser client**: URLs, headers, the choice of a parser by content type and
  the same-origin check are functions of strings; `exists` and `getConfig` change
  nothing; the React provider builds one client per set of options.

*Not modelled*

- **Selection and listing** (`select_workspace`, `control_list_workspaces.py`):
  readers without a lock that
  keep nothing. What they may read too early is what `CompletionCertified` and
  `CompletionSurvivesCrash` are about; nothing promises what a listing shows.
- **Bootstrap, doctor, portability check, evaluations**: one sequential process
  each, which edits text or drives other programs; what could go wrong is in the
  text, line by line, and their own checks run them for real.
- **Worker**: one goroutine that waits for a signal and has no work yet.
- **Backend configuration**: a function of the environment, without state, run once.
- **Database pool and migrations**: opened by no process yet.
- **Domain packages, shells and pages**: no behaviour in this version.
- **Build, CI and local-dependency scripts**: sequential drivers of docker, git
  and the generators.

Three hazards have no property. A stream's attempt counter is never reset by a
connection that worked (`serverSentEvents.gen.ts:116`): the counter is in the
model, but nothing says when it should start again. Line endings are normalised
read by read (`serverSentEvents.gen.ts:172`), so a CR and an LF that fall into
two reads become two line feeds: the model's reads hold whole events, and
`NamedAtMostOnce` and `SkippedOnlyRefused` hold for a server that ends its lines
with LF, or as long as no read ends inside a CR LF; an event split there could be
yielded before its id is parsed and come again, or be skipped. The
provider of the browser client keeps the first token it was given
(`runtime-provider.tsx:24`): no page of this version gives it one.
