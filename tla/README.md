# A verification development for dop-api

dop-api is the edge of the DOP platform (a BFF): REST with server-sent events
for the cockpit, gRPC for the CLI and the agents, over one set of use cases.
It keeps no state of its own that outlives a request, a connection or a cache
(ADR-0012); the truth is in the core, another service, which the edge reaches
over one gRPC channel. What can go wrong at the edge is therefore not a lost
row but a call made under the wrong identity, an answer that does not say what
was done, a write made twice, a stream with a gap, a subscription nobody
cancels, a screen that shows what the core does not say, a dead token, or a
request or a shutdown that never ends. Those are the questions asked here.

## The system

| Part | State | Operations | Hard because |
|---|---|---|---|
| Request pipeline: `AuthMiddleware`, `AuthInterceptor`, `ErrorInterceptor`, `CoreResolver`, the decorators | `auth_ctx` (a ContextVar of the task), locals of the task | verify the token, `EnsureUser`, `ListAccounts`, `ListMemberships`, set the context, decide, run, translate, reset | every step is an `await`: other requests run, memberships change, callers hang up |
| Use cases (`app/usecases`) | none; between two awaits, what was read | one to three calls of the core; from the core's message to the model | a later call fails after a write was done; gathers; a project and a flow are read, changed and written back whole |
| Ports (`app/routers`, `app/grpcapi`) | none | parse, call the use case, convert | two ports must tell the same story, each through tables of its own, also when the core is newer |
| Error translation (`platform/errors.py`) | none | core status ↔ HTTP status ↔ gRPC status, the 5xx rule | two tables, and one path that uses both in turn |
| Channel to the core (`coreclient/client.py`) | the channel, the identity token's cache | retry policy, deadline, idempotency keys, metadata | retries and late answers of writes |
| Live streams (`usecases/stream.py`, `routers/stream.py`, `grpcapi/stream.py`, `watch_attention`) | one generator and one core call per connection | open, emit, error frame, cancel | reconnection, slow subscribers, abandoned connections |
| Token verification (`security/firebase.py`) | the certificates' cache, one per port | fetch with a brake, verify | concurrent fetches, key rotation |
| Token caches (`_ServiceIdentity` in `client.py`, `FirebaseAdmin`) | a token and its expiry | hand out, renew early | grpc's threads write token and expiry one after the other without a lock; coroutines fetch side by side |
| Server life cycle (`main.py`, `grpcapi/server.py`, `CoreClient.start/stop`, `tracing.setup/shutdown`) | the channel, the two servers | boot, serve, drain, stop with a grace | calls are in flight and still accepted while parts go down |
| Call assertion, logging, settings, health | none | | see "Not modelled" |

The parts interact by plain calls within one task. Shared between tasks are
only the context variable (one value per task), the channel, and the caches.
Between the edge and the core there is a network, and the core serves other
callers at the same time.

## The modules

| Module | Models | Used by |
|---|---|---|
| `EdgeErrors` | `errors.py` and the two places that apply it. A message text is abstracted to who wrote it | `RequestPipeline`, `EventStream` |
| `CoreApi`, `EdgeApi` | the generated stubs of the core's contract and the generated services of the edge's: every method and the kind of call it is | `UseCases`, `Ports` |
| `UseCases` | `usecases/*.py` as a table: what each one demands, the calls it can make and in which order, its own refusals, who makes the key | `Ports` |
| `Ports` | `routers/*.py` and `grpcapi/*.py`: which port exposes which use case and hands the caller's key on | the MC modules |
| `Vocabulary` | the tables of every enumeration, the core's numbers and the edge's | `Views` |
| `Views` | the conversions of `usecases/*.py` and `grpcapi/*.py` that decide, derive or may lack something | `Crossing`, `ViewsProofs` |
| `Crossing` | callers of both ports reading and changing a project, a flow, a demand, a budget, the attention box | `MCCrossing`, `CrossingProofs` |
| `TokenCache` | the two token caches, many calls at a time | `MCTokenCache`, `TokenCacheProofs` |
| `Lifecycle` | boot, service and shutdown with calls in flight | `MCLifecycle`, `LifecycleProofs` |
| `RequestPipeline` | a request from the header to the answer, many at a time | `MCRequestPipeline`, `RequestPipelineProofs` |
| `CoreChannel` | a write on its way to the core: keys, attempts, deadline, repetition | `MCCoreChannel`, `CoreChannelProofs` |
| `KeyCache` | the certificates' cache of `firebase.py`, many verifications at a time | `MCKeyCache`, `KeyCacheProofs` |
| `EventFeed` | what a live stream promises, abstractly | `EventStream` |
| `EventStream` | the account's event stream and the client that drops and returns | `MCEventStream`, `EventStreamProofs` |

`MCx` modules only give the constants their values; `xProofs` modules only hold
theorems. `RequestPipeline` and `CoreChannel` take the table as a constant, so
the theorems hold for any table; the runs use the real one. `UseCases` and
`Ports` assume, and TLC evaluates, that every call in the table is a method of a
stub, of the right kind, and that every method registered on the gRPC port is
overridden by its servicer.

### RequestPipeline

One action per stretch of code between two awaits: `Arrive`, `Verify`,
`EnsureUser`, `AssertMembership`, `RoleInAccount`, `Handle` (parsing, the
decorators and the start of the body), `CallCore` (one step of the use case's
plan; a gather is a set of calls), `Hangup` (a gRPC task cancelled at its
await). `pc` is the place in the code, `user` and `todo` are locals, `ctx` is
`auth_ctx`. The core is external: `membership` changes at any moment, and a
call ends with any status. `sent`, `acked` and `held` are history variables,
read by properties only. A call that failed counts as sent: it may have reached
the core.

Abstractions: bodies are "ok" or "malformed" (also for a use case without a
body, which only adds behaviours); a REST client that disconnects leaves its
request running, so there is no REST hang-up; public routes (health, docs) skip
the pipeline; `require_grant` decorates nothing; streams authenticate by the
same steps and then belong to `EventStream`.

### CoreChannel

An *intent* is one thing a caller wants written. `Send` is one call of a use
case, the first time or again after a failure; `Retry` the channel's policy,
`Deadline` the timeout of the call, `Answer` the answer to the current attempt.
`Execute` (external) is the core taking a request from `wire`, now, late or
never, and doing it once per key. The kinds of write checked are read off the
table, not invented: a key minted at the edge, a key only the caller can give
(`run_turn`), no key at all; a port that hands the key on or does not. The core
answers OK to a key it knows without doing anything, which is what makes a repeated
write safe and a shared key dangerous: `AnswerIsEarned` says that nobody is told OK
for a write of somebody else's, nor that a turn was refused which has been run.

### KeyCache

A client presents its token again and again (`Begin`): the cached key, the brake
or a GET. `Serve`, `Rotate` and `Tick` are external; an answer holds what was
published at its moment and replaces the cache when it is applied, in whatever
order (`Apply`), and the key is read back after the `async with` has awaited the
client's close (`Lookup`). Clock values are kept as ages, saturated where they
stop to matter, so that time is unbounded and the state space is not. Assumed:
closing the client takes no time, a GET at most `MaxFetch`. REST and gRPC hold
a verifier each; the module is one of them.

### EventStream and EventFeed

`EventFeed` promises a client the log in order, each event once, from its
cursor. `EventStream` has the generator of each connection (`edge`), the core's
call of it (`call`, `pos`), the frames under way (`wire`) and the client
(`cookie`, what it resends; `seen`, what it processed). The call is opened by
the handler, the generator yields `retry:` first, and `_pump`, whose `finally`
cancels the call, starts only at the second pull; so `Detect` (the edge notices
that the client left) has two cases: `_pump` was waiting for the core, and its
`finally` runs; or it had not started, or was suspended at a `yield`, and nobody
closes it there and then. What nobody refers to is collected (`Collect`,
external): the event loop's finalizer closes a suspended generator, grpc.aio
cancels the call of one that never started. The refinement is the
identity on `log`, `seen` and `got`, the last of which counts what was processed, so
that an event processed twice in a row does not pass for a stutter. `Since` is the
cursor the handler sends the core. `WireFollows` says why nothing is lost: that
cursor is the last event processed, and the frames under way are the events from
there to where the core's call stands, with a failure only behind them.

### TokenCache

One module for both caches, told apart by `kind`. `_ServiceIdentity` runs on
threads of grpc: `FreshToken` (the clock), `Check`, `Return`, `StoreToken` and
`StoreExpiry` are separate steps, because another thread may run between any two
of its reads and writes. `FirebaseAdmin` runs on the event loop: `AccessToken` up
to its await and `Renew` after it are atomic; against the emulator there is no token
at all, and no behaviour. A token is the instant at which it
expires. Assumed of the metadata server: a service token is at most `Age` old when
handed out, `expires_in` is true, and a token outlives the call that fetched it;
of the code's timeouts, that one call takes at most `Delay`, and that
`Age + 2 * Delay <= SKEW` (the five minutes against seconds).

### Lifecycle

`phase` is the place in `lifespan`. `Setup`, `CoreStart` and `GrpcStart` are the
first half, each of which may fail the boot where the code raises; `Resume`,
`Stopped` or `GraceOver`, `CoreStop` and `Shutdown` the second. uvicorn and grpc.aio
are external: `Signal`, `Accept`, `Answer`. Between the signal and `stop` the gRPC
port still accepts, since nobody has told it. A closed channel is not None: a
handler that asked it would be refused, which is the state "broken" that
`ChannelIsThere` rules out.

### Vocabulary, Views and Crossing

Each enumeration exists four times: in the core's contract, in a table of the use
case, in the edge's contract, in a table of the servicer. `Vocabulary` has both
tables as written, by the numbers of the generated code. `Views` has the
conversions; a field that may be absent has a presence and a value, since the
value of a protobuf field that was not set reads as zero. What is copied
untouched is left out. A stage's actions are modelled because they are not: the
core's stage has them, the edge's view has no field for them, and the flow sent back
has none. The inputs contain numbers one past every table: a core
newer than the edge.

`Crossing` lets callers of both ports work on what the core stores. The
aggregates do not depend on one another, so a behaviour follows one of them. What
the core does with a write is external and is what the use cases' comments rely
on: `UpdateProject` and `UpdateFlow` replace the whole. `UpdateProject` may be sent
twice by the channel, and either call of `bind_task_manager` may fail. `TypeOK` says
that what the edge makes the core store is a message of the core again; the order of
the box is stated by the places of its items in the queue (`At`, `InQueueOrder`).

## The runs

| Run | Properties | Bounds | States |
|---|---|---|---|
| `pipeline_all` | `TypeOK`, `AnswerMatchesEffect`, `TransportParity`, `NoCoreDetailOn5xx`, `EveryRequestEnds` | one request; every use case, port, credential, account header and body; all 16 error statuses at every call | 144 701 |
| `pipeline_race` | `IInv`, `RoleWasHeld`, `OwnIdentity`, `ContextBrackets` | two requests, two people, one account, one membership change; a gated use case and one with two calls, one under an explicit account | 1 282 030 |
| `stream` | `TypeOK`, `NoOrphanCall`, `WireFollows`, `ImplementsFeed`, `SubscriptionDies`, `EveryEventArrives` | two events, three connections, a retryable and a final status; SSE and gRPC clients with a cursor | 358 279 |
| `key_cache` | `IInv`, `RefusalIsRecent`, `PublishedIsAccepted` | two clients, two keys, a brake and a GET of two units each; time and rotations unbounded | 219 160 |
| `channel` | `IInv`, `OncePerCall`, `OncePerIntent`, `AnswerIsEarned` | two intents of every pair of kinds, two attempts, two sends | 737 505 |
| `token_cache` | `IInv`, `TokenIsAlive` | three calls, a life of 5, a skew of 3, an age and a call of 1, ten instants | 1 615 700 |
| `lifecycle` | `LifeInv`, `ChannelIsThere`, `ShortCallsFinish`, `StopCompletes` | three calls of any kind, a grace of 2, deadlines up to 4 | 181 036 |
| `crossing` | `TypeOK`, `PortsAgree`, `ScreensAreTrue`, `GroupsKeepTheQueue`, `HeldIsCurrent`, `EditKeepsWords`, `BindTouchesNothingElse`, `MovesReadBack` | two callers, two boards, three flows of at most two stages, two edits, four items in the box, spending up to 3; every number of every vocabulary and one past it | 97 177 |

Why the bounds are enough: a request has no loop, and what can disturb it is
another task with a context or a change in the core, so two requests and one
change meet every case (the theorems remove the bound). Three connections are
needed for a cursor to go stale: one that reads, one that fails after a
resumption, one that shows the result. The code
makes four attempts, and the run of the channel two: a first whose answer is late or
lost and one that repeats it, beside a second intent whose key might be mistaken for
its own; the theorems of `CoreChannelProofs` hold for any number of each.
The case-by-case content of `pipeline_all` needs no second request. Deadlock
checking is off (except in `key_cache`): a bounded number of requests,
connections or sends comes to an end.

Three calls are what the token's race needs: one that stores its token, one that
stores over it, one that reads between the two; a skew at its assumed minimum
leaves no slack to hide in. In `lifecycle` the longest deadline outlives the grace,
as ten seconds outlive five. Four items in the box let two demands alternate,
which is what tells a group from a run of neighbours.

Symmetry is used in `pipeline_race`, `channel`, `token_cache` and `crossing`
only (requests, people, intents and callers are interchangeable, no liveness is checked there).

### Disagreements between the repository and its code

Each of these runs checks one sentence of the repository and finds it violated.

* `recorded_usage_answers_ok`: an overrun "becomes an OK response". When the
  GetBudget that follows fails, the caller reads an error for a consumption that
  was recorded.
* `fetch_resumes`: the error frame's `since_event_id` is for the client that
  reconnects by hand. It is empty until the connection has emitted an event,
  also on a connection that resumed; resuming from it loses the place.
* `repeating_is_safe`: "Writes carry an idempotency_key, so repeating is safe".
  The policy covers every method, and many writes carry none.
* `flow_goes_in_whole`: "The flow goes in whole", because half a flow "would be a
  partial replacement in disguise". A stage of the core has actions; the edge neither
  shows nor sends them, so an edit of one stage writes every stage back without its
  actions. What `EditKeepsWords` does give is the type, the artifacts and the gate.

Smaller ones met on the way and not given a run: "A core error CROSSES with its own
status" (`grpcapi/interceptors.py`), but not one the resolver met, which becomes an
HTTPException and is translated back, so that ABORTED arrives as ALREADY_EXISTS and
UNKNOWN as INTERNAL, of the same class (`TransportParity`); `enroll`'s 422 leaves gRPC as
INTERNAL while a malformed message is INVALID_ARGUMENT (for that reason
`TransportParity` asks of a 422 only that it is an error on both ports); `remove_member` has neither `@account_scoped` nor
`@require_role` although its docstring speaks of the active account; `_pump`'s
docstring says the call is cancelled whenever the consumer abandons the
generator, which is not so before the first pull (`Detect`'s second case).

Met while modelling the conversions and the life cycle, and stated here rather than
checked:

* `grpcapi/server.py` registers `SecondFactorService` but its reflection list omits
  it.
* The gRPC `AttentionUpdate` drops the core's event id, so a gRPC watcher of the box
  has nothing to put in `since_event_id`.
* A stage whose type or gate the edge does not know is rewritten by an edit: to
  `generic` and `none` through gRPC, to UNSPECIFIED through REST. `EditKeepsWords` is
  about the stages whose words the edge knows.
* An unknown kind of second factor among the allowed ones is "" over REST and is
  dropped over gRPC; `create_invite` answers without `expires_at` over gRPC. Neither
  is among the messages of `Crossing`, and `PortsAgree` says nothing of them.
* The grace (5 s) is shorter than the deadline of a call (10 s), so the shutdown can
  cut a write, which the comment of `GRACE_S` means to avoid. `ShortCallsFinish` is
  what the grace does give.
* Of two callers editing one flow, or binding one project, the last one wins: no
  version is sent.
* A turn of the agent may be resent after up to ten minutes with the assertion of
  its first attempt, which is worth 120 s.

### Fairness

* `RequestPipeline!FairSpec`: weak fairness of a request's own steps. Every
  await has a timeout (`core_deadline_s`, ten seconds for the certificates) and
  the event loop runs every ready task.
* `KeyCache!FairSpec`: clients keep coming, the event loop runs what is ready, time
  goes on, and the provider does not fail every fetch for ever (strong fairness
  of `Serve`: an assumption on the provider, not on the code).
* `EventStream!FairSpec`: the response is pulled while it lives, the client reads
  and reconnects (`retry:`), a disconnect is noticed (the ping every
  `sse_ping_s` fails), an unreferenced call is collected. The core is not
  obliged to do anything; the last connection of the bounded model is left in
  peace, which is the premise of `EveryEventArrives`.
* `Lifecycle!FairSpec`: the process runs, time passes, a unary call ends by its
  deadline and an SSE response at the signal (sse-starlette). Nothing ends a gRPC
  stream but the server, which is why `StopCompletes` needs the grace.

## The proofs

All theorems are for arbitrary constants under the named assumptions of the
modules (the table has the right shape, requests use a port that exposes their
use case, the special names are not people or accounts); TLC evaluates those
assumptions on every run.

`RequestPipelineProofs`: `Invariance` proves `Spec => []IInv`, one lemma per
action. None of the properties is inductive alone. `RoleWasHeld` needs to know
that the role in the context came from the caller's membership while the
request was under way (`ContextInv`), which needs that the history `held` never
misses the current membership (`HeldInv`), which needs that the user resolved
is the one the token names (`LocalsInv`); `AnswerMatchesEffect` needs that what
was sent equals what was acknowledged until something fails (`SentInv`); the two
properties about replies need that a reply is the translation of one of the
causes the code can raise (`ReplyInv`). `TypeCorrect`, `RolesAreHeld`,
`IdentitiesDoNotMix`, `AnswersMatchEffects`, `ContextsAreBracketed`,
`PortsAgree` and `ServerErrorsAreGeneric` follow from it. `PortsAgree` leaves out the
merge refusal, which gRPC answers with a message, and compares a 422 only as an error
with an error; every other cause has the same HTTP class on both ports.

`CoreChannelProofs`: `ChannelInvariance` proves `[]IInv`, where `LedgerInv` says
that the key of a request is a function of its call and that the core's record
covers every keyed effect, with one effect per key, and `AnswerInv` that nothing
else is on that record and that an answer was given to a request of its own intent.
`KeyedOncePerCall` and `KeyedOncePerIntent` follow: equal calls, or equal intents
under the caller's key, have equal keys. `AnswersAreEarned` is the converse: a key
found on record belongs to an effect of the same intent.

`KeyCacheProofs`: `CacheInvariance` proves `[]IInv`, where `AgeInv` relates the
time a key has been out to the age of the cache that lacks it, and, so that an
answer can be applied late, to the age of the GET that lacks it.
`RefusalsAreRecent` is an action property from it: a refusal happens only while
the cache is younger than the brake.

`TokenCacheProofs`: `TokenInvariance` proves `[]IInv`. `TokenIsAlive` is not inductive:
a thread that found the cache fresh returns whatever token is there later. The
strengthening says how far apart a token and the expiry beside it can be
(`PairIsClose`: the age of a token and one call), also for a thread that has
stored the one and not yet the other (`HalfStored`), and that what is about to be
returned outlives the call (`ReturnIsLong`). `TokensAreAlive` follows, for any
number of calls and all times that satisfy `TimesAssumption`.

`LifecycleProofs`: `LifeInvariance` proves `[]LifeInv`, where `LifespanOrder` ties the
channel, the server and the calls at work to the phase.
`HandlersHaveTheirChannel` follows, for any number of calls.

`EventStreamProofs`: `StreamTypes` proves `[]TypeOK` and `NoCallIsOrphaned`
`[]NoOrphanCall`. The type of a frame holds the rule on details: a frame of a 5xx
status has the edge's words, so the rule is proved for every status of the core,
not only for the two of the run. The refinement rests on `WireInvariance`, `Spec => []WireFollows`:
`EventFeed` allows a client only the event after the last it processed, and the
client reads whatever frame is first, so one has to know what all the frames under
way are, where the core's call stands behind them, and that a reconnection asks for
the event after the last one processed. With the types it is inductive. `StreamImplementsFeed`
then maps every step to a step of `EventFeed` or a stutter, and `EventsAreCounted` says
the same as a number. Both are about clients that resume by a cursor of their own:
for the one that resumes from the error frame the statement is false, as
`fetch_resumes` shows. `client` never changes, so the hypothesis is about the first
state only.

`ViewsProofs` proves what the conversions do, without the bounds of a run.
`TablesAgree`: the use cases' tables and the servicers' are equal, and
none gives a word to UNSPECIFIED (`ZeroIsNoWord`); so a word survives the number it
travels as (`WordsCross`), an unknown one arrives as none, and each message crosses the port as it is (one
lemma per message). `GroupsKept`: the loop of `_group_by_demand`, over a queue of any
length; its loop invariant `Kept` says of the groups made so far what `InQueueOrder` says
of all of them. `DemandScreen`: a demand of any number of stages with keys of their
own. `HitsScreen`: any number of memories and scores. The two inductions over a
length are made by hand: among the numbers at which a statement fails there would
be a least one (`LeastNumber`, `Climb`), since the library's induction theorems take the
statement as an operator, which the provers cannot instantiate.

`CrossingProofs`: `HeldInvariance` proves `[]HeldIsCurrent`: what `bind_task_manager`
holds between its calls agrees with the core but for the binding.
`BindingIsContained` is an action property from it. Both rest on a fact about this
repository: `bind_task_manager` is its only write of a project. A writer that
reaches the core by another way could be overwritten. `CrossingTypes` proves `[]TypeOK`,
which is inductive: a flow and a stage's status are written through the tables and
come back as numbers of the core, and a box below its bound has an id to spare.
From it and `ViewsProofs` follow `BothPortsTellTheSame`, `ScreensStayTrue`,
`GroupsStayInOrder` (the items of a queue have ids of their own), and the action properties
`EditsKeepTheWords` (the words of a stage left alone are written back as they were
read, because a table has each word under one number) and `MovesAreShown`. They hold for any callers,
boards, flows, edits and bounds that satisfy `CrossingAssumption`: a client writes a
word of the field's vocabulary. What the messages of `Crossing` may contain is written
in the module (two stages to a demand, two memories to a search); for those the
theorems of `ViewsProofs` say more than the run does.

Only model-checked: the liveness properties `EveryRequestEnds`,
`PublishedIsAccepted`, `SubscriptionDies`, `EveryEventArrives`, `ShortCallsFinish` and
`StopCompletes`, since fairness is out of the prover's reach. Every invariant and every
safety property of the passing runs is a theorem. That a table of use cases has the
shape the theorems assume is evaluated by TLC, on the real table.

## Not modelled

* The claims of a token and its signature: a library's, and three outcomes here.
* Rewriting the verification link onto our own domain, and splitting the core's
  text of a merge refusal: work on strings.
* Fields of a message that are copied untouched. Of those the edge does not send
  back, a stage's actions are modelled; a flow's `origin`, `revoked_at`, `version` and
  `audit` and a budget's `currency` are not, because what the core makes of their absence is not in this
  repository.
* The call assertion (`callauth.py`): a pure encoding and a signature; its validity in
  time is listed as a hazard.
* Logging, settings, health: they decide nothing. Public routes skip the pipeline.
* The generated messages (`*_pb2.py`), the edge's own client stubs and the generated
  static classes, which nothing in `app/` uses.
* `watch_demand` and `tail_sandbox_logs`: the same `_pump` without a cursor. Their
  place in the table and on the ports is modelled.

## Plan

Done: every module above, and a proof of every invariant, action property and
refinement of the passing runs.

1. Demands of any number of stages in `Crossing` itself, and flows longer than the
   two stages an edit reaches, with the theorems restated for them.
2. Safety counterparts of the liveness properties, where a bound can be stated: a
   request makes finitely many calls, a stop lasts at most the grace.
3. `_flatten` and the public and token-only routes, as pure operators.
