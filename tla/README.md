# Verification of the NeKiro sample runtimes

TLA+ models, TLC checks and TLAPS proofs for the two sample agents of
NeKiro-Samples: Runtime B, a direct A2A server with a task registry shared by
concurrent streams and cancels, and Runtime A, an adapter that makes one managed
nested call. Line numbers refer to the repository's files.

## The system

| Component | State | Operations | Talks to |
|---|---|---|---|
| Runtime B task registry (`runtime-b/handler.go`) | `tasks`: identifier → task, owner, cancel channel; `cancellations`: key → count; both behind `mu` | `OnSendMessageStream`, `OnGetTask`, `OnCancelTask`, `cancel-observed` | consumers of streams, clients that get and cancel |
| Runtime B fixtures and message/send (`fixture.go`, `handler.go`) | none | `parseFixture`, `OnSendMessage` | registry, nested service |
| Runtime B nested calls (`nested.go`) | none of its own; a call in flight | `platformContext`, `invoke` | Router, by the SDK |
| Runtime A handler, engine, nested calls (`runtime-a/{handler,runtime,nested}.go`) | none of its own; a call in flight | `OnSendMessage`, `run`, `invokeWithContext` | framework runner, Router |
| Configuration (`*/config.go`) | immutable after startup | `LoadConfig`, `Validate` | environment |
| HTTP servers, readiness (`server.go`, `handler.go`) | readiness of the registration | `/readyz`, JSON-RPC | host, registrar |
| Entry points (`*/cmd/*/main.go`) | stages of startup | `runWithLookup` | external host and Nacos registrar |
| Challenge proof (`internal/challengeproof`) | files that the operator writes | `ServeHTTP` | file system |
| Router, agent SDK, A2A server | outside the repository | | |

What is hard here, and the property that makes each component correct:

- *Registry.* One goroutine per stream, any number of gets and cancels. A stream
  looks its task up again by identifier after it has yielded (`completeTask`,
  `removeWorkingTask`), a deferred function unregisters on some paths and not on
  others, a cancel may fall between any two steps, the client may go away at any
  yield, and message identifiers are chosen by clients and may collide. Correct
  means: an identifier never comes to name another task while its stream runs, a
  task has one outcome, the stream tells that outcome and `tasks/get` repeats it.
- *Cancel observation.* A counter per owner and marker is incremented by every
  cancel, refused duplicates included, and read-and-deleted by a reader. Correct means
  that every request is read once.
- *Nested calls.* Concurrent invocations share a handler; the Router may refuse,
  reply wrongly or not at all; runtimes may be configured to call each other in a
  ring. Correct means: one request, never repeated; the invocation's own lineage
  and parent; no result is embedded that is incomplete, failed or of another lineage;
  chains end.
- *Messages.* Four parsers and dispatchers, each written by itself, must agree: one
  method serves a fixture, one runtime understands what the other sends.
- *Engine.* A loop over a channel that another goroutine fills, left in four ways.
  Correct means: the answer is the last content before the end, no error is passed
  over, the handler returns, and the goroutine at the other end is released.
- *Configuration.* Two validators of the same settings with code of their own, each
  with a second check for callers that bypass the loader.
- *Startup, readiness, shutdown.* Stages that fail after others took effect; a lease
  that is lost at any time; a hold stream that is open when the process is stopped.
- *Challenge proof.* A file read while it is written, and two limits at once. Correct
  means: what is served was the proof, whole, at a moment of the request, and where a
  rewrite in place makes that impossible, at least nothing from elsewhere.

## Modules

| Module | What it is |
|---|---|
| `RuntimeBTasks` | the registry and the goroutines that share it |
| `TaskContract` | what the registry promises, without locks, channels and deferred functions |
| `RuntimeBTasksProofs` | the inductive invariant and the theorems on safety |
| `RuntimeBTasksRefinement` | the proof that `RuntimeBTasks` implements `TaskContract` |
| `MCRuntimeBTasks` | callers and symmetry for TLC |
| `NestedCalls` | managed invocations of both runtimes and the Router between them |
| `MCNestedCalls` | deliveries, configurations and symmetry for TLC |
| `MessageInputs` | the parsers and dispatchers of messages in both runtimes |
| `RuntimeEngine` | one call of Runtime A's engine beside the framework's runner |
| `ChallengeProof` | requests for proofs beside an operator who edits the files |
| `MCMessageInputs`, `MCRuntimeEngine` | instances of the two for TLC |
| `MCChallengeProof` | proofs at the limits, for TLC |
| `NestedCallsProofs`, `MessageInputsProofs`, `RuntimeEngineProofs`, `ChallengeProofTheorems`, `ProviderConfigProofs`, `ProviderLifecycleProofs` | the theorems on each of these |
| `ProviderConfig` | loaders and validators of the settings of both runtimes |
| `MCProviderConfig` | environments for TLC |
| `ProviderLifecycle` | a provider's process from its first stage to its end |

The modules meet where the code does. `MessageInputs` ends where `RuntimeBTasks` (a
stream, the counter of cancels) or `NestedCalls` (a nested call) begins; the one step
`FinishNested` of `NestedCalls` stands for what `RuntimeEngine` takes apart; the
stages "config" and "challenge" of `ProviderLifecycle` are what `ProviderConfig` looks
into; the calls in flight there are those of the other modules, of which it keeps only
whether they wait for a cancel.

### RuntimeBTasks

The name of a stream stands for the call of `OnSendMessageStream` and for the
`runtimeTask` it allocates. `tasks`, `cancellations` and `state` (the status of
each task) are the fields behind `mu`; `closes` counts closes of a task's cancel
channel; `pc`, `request`, `terminal` and `ctxDone` are the goroutine; `events`,
`observed` and `attempts` (cancel requests that reached an observed task) are histories
that nothing in the code reads.

A method that holds `mu` for its whole body is one step: `createWorkingTask`,
`OnCancelTask`, `completeTask`, `removeWorkingTask` (in `Return`, the deferred
function), `takeCancellationObservation`. Every yield and every poll of the cancel
channel is a step of its own, so anything may happen between a poll and the yield
after it. A yield either hands the event over or, when the client's context is
done, returns false; then the early `return` leads to `Return`. The clone for the
first event, made without `mu`, is two steps: what it reads is the old status, the
new one, or one word of each string header ("torn").

Abstracted: message contents, and `contextId`, which nothing branches on. A caller
is a pair of scope (workspace, agent, version, release, card, capability) and
invocation, or `None` without claims. `derivedID` is an injective pair; a collision
of SHA-256 is ignored. `OnGetTask` changes nothing and is an operator, used by
`FinalEventReadBack`. `NewHandler` makes both maps, so the nil check before a count
has no counterpart.

### NestedCalls

An invocation is delivered, handled by one agent, and answered. The handler up to
the SDK call is one step (`OnSendMessageA`, `OnSendMessageB`), the rest another
(`FinishNested`): a handler touches no shared state, and the call is where it
waits. Runtime A's echo capability is answered on the spot. `Targets` are the
configurations of both runtimes, chosen at the start and then fixed.

The Router and the transport are external. The Router creates a child with the
parent and lineage of the request's context, or refuses. It need not report what
became of the child: `RouterMixesUp` hands out the outcome of any invocation that was
answered, of another root task too, under its name, the caller's or none, with or
without the lineage and the result. These are the faults that the nested tests feed to
the handlers, in all combinations. A reply may be lost at any time (`ReplyLost`), and
the request may still reach the Router after that. Delivery is once per invocation.

A reply keeps its identifier, lineage, status and result, and `Success` the identifier
and the result that the handler embeds, so that a check the handler drops shows in the
answer. Runtime B checks all of them (`nested.go:67-73`); Runtime A does not compare
the lineage (`nested.go:46-52`, `171-173`) and relies on the SDK, whose client does:
`TestSDKRejectsChangedChildCorrelationWithoutRetry` (`runtime-a/nested_test.go:336`)
states that. `correlated` is that check, for the agents of `Correlating`. The runs
have Runtime A in it and not Runtime B, whose handler is tested with an invoker that
checks nothing, so that Runtime B's own comparison is what counts.

### MessageInputs

A message is a record of what the parsers look at: is it there, has it an identifier,
its role, the number of parts and of fields, the fixture and the shape of the value.
Each early return is a conjunct of `parseFixture` or `rootInput`; `cloneJSONValue` is
the identity up to representation, because a message comes out of a JSON decoder.
The handlers are pure here, one step each, and the properties compare their answers
to one message. `nestedInput` is the message that a target gets for a nested call: the
runtimes encode its data, its envelope is the Router's. Runtime B's handler is the one
of `NewConfiguredHandler`, which always has a nested service. The fixture "failure"
fails by both methods, and "interrupted" is not supported by `message/send`.

### RuntimeEngine

`Run`, `Receive` (one turn of the loop over events) and `Drained` (the loop ends with
its channel) are the engine; `AgentRuns` is Runtime A's own agent; the runner is
external and may send any events, nil ones included, in any order, up to `MaxEvents`,
wait while its channel is full, and give up when the context it was given is done.
A content is a combined result, `Broken` (anything that `run` or `combinedData` does
not decode) or `None` (empty). Several choices in one event are represented by the last
with a content, which is what the inner loop keeps. `emitted` is a history.

### ChallengeProof

The operator and the file system are external. A name leads to an inode, and a
request reads the inode that it opened: `Publish` renames a finished file into place,
`Rewrite` cuts the file and `Write` adds a byte at a time, `Remove` removes the name.
`ServeHTTP` opens, reads in any number of steps and any sizes up to `readLimit`, and
closes, validates and answers in one; a failing file system is `Fail`. The bytes are
letters and the two halves of a wide rune, and `MaxRunes` stands for 128, so that the
limits on bytes (`MaxBytes`) and on characters stay apart, as 512 and 128 do.

`seen` records what a request's name held since the request came, `disturbed` that its
file was cut below what was already read or that a read failed. `AnswersOneMoment`
says that the answer is the right one for some content in `seen`, unless `disturbed`.
The exemption is needed: a proof that is cut and rewritten in place between two reads may
be served as the head of the old one and the tail of the new one, and nothing in the
handler could tell; the instance of the run reaches such answers. `ServedBytesWereThere`
has no exemption and says how bad that can get: what is served is a well-formed proof
within the limit, each byte of which was at its place in the file of that name at a
moment of the request. A proof that grows while it is read is served as of the end of
the reading.

### ProviderConfig

An environment gives each setting a text or none. A text is a record of what the code
tells apart: empty, padded, and according to its kind the safe identifier, the way a
number is written and its value, what `net.SplitHostPort` and `url.Parse` find in it.
`url.Parse` takes no port but digits, so a URL has no other; the two ways
to read a port differ only on a plus sign, which a listen address may have.
Loading changes nothing, so it is one step for each runtime; helpers that both
packages hold in identical copies are defined once, those that differ
(`parsePort` and `atoiPort`, the two `validateRouterURL`, the two `Validate`) are not.
`routerauth` takes its four variables or refuses them, and is external.

### ProviderLifecycle

The stages of both `runWithLookup` are sequences of names, each passed or failed; the
registration's stage yields the readiness (`newRuntimeRegistration`), and the last one
enters the host, which is external. It is modelled from what it is given and from what
the READMEs say (`runtime-a/README.md:36-38`, `runtime-b/README.md:66-73`): publish
before serving, stop on a signal or a lost lease, close the lease and deregister, wait
for requests no longer than the shutdown bound. Signals that were not handed to the
host, and `Killed`, end the process on the spot; Nacos may fail to answer the
deregistration. Closing the lease and draining requests come in either order.
A call of the agent is its credential and whether it waits for a cancel. The handlers
answer whenever the HTTP server runs; since when it runs is the host's affair,
`Serves` lets it run from the moment of the publish to the end of the shutdown, and
probes and calls come at any of these times.

## Checks

| Run | Instance | States | What it shows |
|---|---|---|---|
| `tasks_safety` | 2 streams, 2 message identifiers, 2 callers, 1 marker, 2 cancels | 606,000 | the inductive invariant `RegistryInv` and the safety properties that rest on it; at most one content event comes late; every cancel request is observed |
| `tasks_contract` | 2 streams, 1 identifier, 4 callers, 2 cancels | 256,000 | the contract is implemented; a final event is what its owner reads back, and nobody else; streams end; a canceled hold stream tells its client |
| `tasks_first_event` | 1 stream, 1 caller | to the violation | **violated**: see findings |
| `nested_safety` | 4 invocations, 2 of them roots, 2 lineages, the configurations that link the runtimes | 343,000 | one child, truthful answers, lineage, chains of three links but where Runtime A calls itself; `CallTreeInv` |
| `nested_contexts` | 3 invocations, 1 of them a root, every root and configuration | 45,000 | incomplete contexts call nobody; everyone is answered |
| `challenge_proofs` | 1 request, 1 name, 2 files, 4 proofs, 2 characters | 1,850,000 | a request is answered as of one moment; what is served was there; `ReadingInv` |
| `config_settings` | valid environments with up to 2 changes, and every shape of Router URL | 57,000 | the runtimes agree; `Validate` agrees with the loader |
| `config_documented` | as `config_settings` | to the violation | **violated**: see findings |
| `engine_events` | 3 events, 2 results, a channel of 1 | 87,000 | the answer is the last content; handler and runner end; `EngineInv` |
| `fixture_inputs` | every shape of message | 86,000 | one method serves; the runtimes understand each other |
| `lifecycle_stops` | both runtimes and modes, 2 requests | 2,900 | readiness follows the lease at any time; a stopped process is deregistered; shutdowns end; `LifecycleInv` |

Bounds. Two streams on one identifier make every collision there is between a call
and the previous or competing owner of its identifier (the proofs cover any number).
Two cancels of one key distinguish a first cancel from a refused second one.
`MaxCancels` limits the counts and nothing else; tasks that are not observed can be
canceled any number of times. Four invocations are a chain with the fourth link of
`ChainsEnd`, which the run reaches where Runtime A calls itself, or two root tasks with a
child each; `MaxRoots` = 2 and two lineages are what a mix-up takes. For liveness the
bound must not end a chain by itself: `nested_contexts` has one root and three
invocations, as many as the longest chain where Runtime A does not call itself, so the
Router always has an identifier for a child that is due, and a ring that went around
would leave its callers waiting. `LinkedTargets` leaves out the configurations whose
chains are parts of those of another, of each kind (B and A calling each other, A calling
itself, both calling B) keeping the largest;
`nested_contexts` has every configuration. Symmetry is used only in runs without
liveness, over streams, messages, invocations, lineages and files, none of which is
compared by order.
Requests for proofs share nothing but the files, so one is enough; two files are the old
and the new one of a name, and every proof is edited any number of times. The proofs
are the longest one, a longer file that begins with it, too many characters in few
bytes, and a rune that is cut. One change of a setting reaches every rule, two every
pair of rules that could mask each other; numbers lie at and around each bound, which
are small and ordered as the real ones (in the real ones the largest integer is beyond
every other bound, and so it is here). Three events are what a content, a
completion or error, and something after it take; a channel of one fills at once. Two
requests are a probe or a call and a hold stream that outlives it.

Deadlock checking is off where the system stops: in `NestedCalls` when all of the
finitely many invocations are answered, in `RuntimeEngine` when one request is through,
in `ProviderConfig` and `MessageInputs` when every loader or handler had its input, in
`ProviderLifecycle` when the process has ended. The runs of the registry and of
`ChallengeProof` check it.

Fairness. Each stream's goroutine is weakly fair: Go schedules it, and a consumer
takes the event it is offered or notices that its context is done. Nothing obliges
a client to call, to cancel or to leave, so a hold stream may wait for ever.
`NestedCalls` assumes that handlers run and that the Router serves a caller that waits
(`RouterServes`): it starts the child and replies once that is answered. It may refuse,
and may reply wrongly, but need do neither, so nobody's answer hangs on a refusal.
`http.DefaultClient` has no timeout, so nothing weaker makes a caller's answer certain;
lost replies are possible and not assumed.
`RuntimeEngine` assumes that the handler's goroutine runs, that the runner goes on until
it has closed its channel, and that the HTTP server ends the context of a request that
was answered, as `net/http` does; a client need not leave. Without the last,
`RunnerIsReleased` fails: the loop may be left with events to come, and only the context
releases the runner. `ProviderLifecycle` assumes that the host goes on with a shutdown
that it began, its bound on the waiting included. Nobody need send a signal.

## Proofs

Every invariant and every action property that a passing run checks is stated by a
theorem, for every value of the constants: any number of streams, callers and cancels,
of invocations in any lineages, any set of messages or environments, any edits of any
files, any sequence of events. TLC checked each before it was proved.

| Module | Theorem | Property |
|---|---|---|
| `RuntimeBTasksProofs` | `TypeCorrect` | `TypeOK` |
| | `RegistryInvariant` | `RegistryInv` |
| | `StreamsOwnTheirEntries` | `StreamOwnsItsEntry` |
| | `CancelClosesOnce` | `CancelSignalMatchesStatus` |
| | `NothingIsAbandoned` | `NoAbandonedWork` |
| | `FinalEventsReadBack` | `FinalEventReadBack` |
| | `FinalStatesStay` | `TerminalIsForever` |
| | `LateContents`, `OneContentMayBeLate` | `LateInv`, `AtMostOneContentAfterCancel` |
| | `CancelsAreCounted`, `CancelsAreObserved` | `CanceledTasksAreCounted`, `EveryCancelIsObserved` |
| `RuntimeBTasksRefinement` | `RegistryImplementsContract` | `ImplementsContract` |
| `NestedCallsProofs` | `TypeCorrect`, `CallTree` | `TypeOK`, `CallTreeInv` |
| | `OneChildAtMost` | `AtMostOneChild` |
| | `SuccessesAreTruthful` | `AnswersAreTruthful` |
| | `LineagesAreKept` | `LineageIsKept` |
| | `OnlyManagedNest` | `OnlyManagedCallsNest` |
| | `ChainsAreShort` | `ChainsEnd` |
| `MessageInputsProofs` | `OneMethod` | `OneMethodServes` |
| | `EchoesAreOne` | `EchoesAgree` |
| | `NestedInputsPass` | `NestedInputsAreUnderstood` |
| `RuntimeEngineProofs` | `TypeCorrect`, `EngineInvariant` | `TypeOK`, `EngineInv` |
| | `AnswersMatchEvents` | `AnswerMatchesEvents` |
| `ChallengeProofTheorems` | `TypeCorrect`, `ReadingInvariant` | `TypeOK`, `ReadingInv` |
| | `AnswersAreOfOneMoment`, `ServedBytes` | `AnswersOneMoment`, `ServedBytesWereThere` |
| `ProviderConfigProofs` | `RuntimesStartAlike` | `RuntimesAgree` |
| | `ValidateIsTheLoader` | `ValidateAgreesWithLoad` |
| `ProviderLifecycleProofs` | `TypeCorrect`, `Lifecycle` | `TypeOK`, `LifecycleInv` |
| | `EndedAreDeregistered` | `EndedIsDeregistered` |
| | `ReadinessFollows` | `ReadinessFollowsLease` |

Assumptions. They are named in the modules, and TLC evaluates them in every run. Most
say that the stand-in for "nothing" (`None`, `Broken`, `Absent`) is none of the values it
could be mistaken for. The others are the shapes of the inputs (`ContextsAssumption`,
`RootsAssumption`, `TargetsAssumption`, `MessagesAssumption`, `EnvironmentsAssumption`,
`ProofsAssumption`, `CorrelatingAssumption`: subsets of what the code can be given or
built with), that the bounds are numbers (`MaxCancelsAssumption`, `MaxRootsAssumption`,
`BoundsAssumption`, `MaxRunesAssumption`), that a channel has
room for one event, and that the limits of a setting are in order.

*The registry.* None of its properties is inductive alone. `StreamOwnsItsEntry` fails to
be: that a step leaves a running call's entry in place needs that every remover is the
owner of what it removes, and that an ended task is not removed. The strengthening is
`RegistryInv`: `CallInv` says for each call that it owns its entry while it runs or
once its task has an outcome, and ties `pc` and `terminal` to the task's status (a
call about to tell an outcome has a task with that outcome; "lost" is unreachable);
`EntryInv` says that each entry is filed under the identifier of its own request and
that a working one has a live call or is a hold task; `OutcomeInv` says that what a
client was told is the task's state. The refinement maps each step to `Start`, `Finish`,
`Drop` or `Tell` or to a stutter: a removal is a `Drop` because the invariant makes the
removed task the caller's own and still working.

*Late content.* That at most one content event follows a cancel is not inductive: a call
between its poll and its yield could add a second. `LateInv` adds that a late content
shows a task that has ended, and that a call past the poll has handed out none; the next
poll then ends the stream.

*Counted cancels.* `CountedInv` (in `RuntimeBTasksProofs`) says that under each key the
canceled tasks are a finite set, no larger than the observations taken plus the count:
a cancel adds one task and one to the count, `takeCancellationObservation` moves the
count to what was observed. A finite set is part of it, because there may be infinitely
many streams. `EveryCancelIsObserved` is inductive with the types alone: count and
`attempts` move together, also when the request is then refused.

*Nested calls.* `CallTreeInv` follows a call around: a request is the context of its
invocation (`RequestInv`), a child is what the Router makes of an accepted request and
the only one of its parent (`ChildInv`), and what the SDK call returned is put together
from the outcome of one answered invocation, the caller's name and gaps (`ReplyInv`).
What the checks of the handlers leave of that is a whole success under its own name, not
the caller's, in the caller's lineage: `AnswersAreTruthful`. `ChainsEnd` rests on the
fixture: a child gets "success", which Runtime B answers on the spot, so an invocation
that a nested call started calls again only if it is Runtime A's for its plain
capability, and its own child can be that only if Runtime A calls itself.

*Engine.* `EngineInv`: while the loop runs, what it received ended nothing and `content`
is that of the last event that had one; after a success the runner had closed its
channel or sent an end, so nothing that comes later counts.

*Challenge proof.* `ReadingInv`: a file has one name at most, so what a request reads is
what its own name held; what it has read was there, and is the beginning of what is
there now as long as nobody cuts the file. The answer then depends on a fact about the two limits: the handler stops at
512 bytes and validates 128 characters, and `RunesBoundBytes` proves that a valid text is
no longer than its characters at their widest, for every text and every `MaxRunes`, so
the first limit refuses nothing that the second allows (an injection of the bytes that
continue a rune into those that lead one; the widest rune of the model has two bytes,
that of UTF-8 four, and the argument is the same).

*Lifecycle.* `LifecycleInv`: readiness is the registration's from that stage on
(`ReadinessInv`), a lease lies between publish and shutdown, and an instance with a lease
that is held is listed (`LeaseInv`).
`ReadinessFollowsLease` is about steps and follows from it.

*Messages and configuration.* Handlers and loaders are pure: `MadeInv` and `OutcomeInv`,
in the proof modules, say that an answer or outcome is what the operator makes of the
input, and the properties become facts about the operators (`LoadersAgree`: two loaders
with rules of their own, in another order, take the same environments). TLC compared
them near the valid environments only; the theorems are about all of them. This is how
the ports of URLs were found to be modelled too widely: with a plus sign there the
loaders would have differed, but `url.Parse` lets no such port through.

Only model-checked: liveness (`StreamsEnd`, `CanceledHoldIsTold`, `EveryoneIsAnswered`,
`HandlerReturns`, `RunnerIsReleased`, `ShutdownEnds`), since fairness and ENABLED are out
of the prover's reach. Not run by TLC: `LateInv`, `CountedInv`, `MadeInv` and `OutcomeInv`, which
the proofs need and the properties do not.

## Findings

- *First event read without the lock* (`handler.go:131`). The task is registered
  before the clone, and its identifier is derived from the message identifier, so a
  cancel may run beside the clone. `tasks_first_event` shows a cancel while the clone is
  under way and a first event that is not a working task: it may show the new state or a
  torn one. `handler_test.go:103` expects `working`, and the
  README's verification expects no report of the race detector. No later property
  depends on that event: the final states are right all the same.
- *A required variable that is not documented* (`runtime-a/config.go:57`). Runtime A
  does not start without `RUNTIME_A_INSTANCE_ID`; "Required configuration" in its README
  (lines 11-27) does not name it. `config_documented` shows an environment with
  everything that is listed, refused.

Worth knowing: nothing in the configuration of Runtime A stops it from targeting
itself with a capability other than `runtime.echo`. The recursion that follows is
bounded by the Router only; `ChainsEnd` says that it is the one configuration with a
fourth link, and `EveryoneIsAnswered` excepts it. Neither runtime can tell its child
from another invocation of the same root task that the Router reports in its place, and
if the Router reports a failed child as succeeded, or an invocation of another root task
under the caller's lineage, it is believed; the model has no such Router.
Runtime B takes a listen port with a plus sign and Runtime A does not, the one
difference that `RuntimesAgree` excludes. A proof rewritten in place may be served torn;
operators should rename.

## Not modelled

The documentation script, CI workflows and Dockerfiles have no behaviour of the
running system. The operations of Runtime A and B that answer "unsupported" change
nothing and have no step. The inside of the A2A server, `routerauth`, the SDK's client,
the host and the Nacos registrar is outside the repository; the actions marked
external are as much of it as the code relies on, and the settings of the registration
are the registrar's to validate. Ended and hold tasks are never evicted by the code,
nor are the sessions of Runtime A's runner: unbounded memory is a fact about it, and no
property is stated. A panic in `cloneTask` under `RLock` is out of reach, since
`parseFixture` admits only one data part of JSON. Replicas of a runtime share no
registry; which one a follow-up call reaches is the Router's affair.

## Plan

Done: all modules, and the theorems on every invariant and action property of the runs.
To come:

1. An abstract specification of what a nested call promises (one child, an answer of it)
   that `NestedCalls` implements, as `TaskContract` is for the registry.
2. The safety half of the liveness properties: from which states a call, the engine or a
   shutdown can still move, as invariants that say why none waits for what cannot come
   (a canceled hold stream has an open cancel signal; a runner with a full channel has a
   loop that receives or a context that ends).
