# kctx: models, checks and proofs

kctx answers questions about a Kubernetes cluster with deterministic, read-only
summaries: the context and the graph of a Pod, the trace of a Service, the health
and the dump of a namespace, the explanation of any resource. It runs as a command,
as an HTTP server and as an MCP server, the latter over stdio or HTTP/SSE. It keeps
nothing between requests except metrics and MCP sessions.

This directory holds TLA+ models of the parts where order, concurrency, limits or
failures matter, the TLC runs that check them on small instances, and TLAPS proofs
for every value of the constants. Paths below are relative to `src/internal/`, except those of documents and of the chart, which are relative to `src/`.

## 1. The system

| Component | State | Operations | Interacts with | Hard behaviour | Correct when |
|---|---|---|---|---|---|
| MCP HTTP/SSE transport, `mcp/sse.go` | store of sessions; per session a context and a channel of 16 responses | open a stream, POST a message, dispatch it, enqueue the response, keep-alive, close | protocol server (a call per POST), HTTP server | a goroutine per POST, per stream and per dispatch; selects between channel, context and timer; a client that does not read | each accepted response reaches its own stream once, in order; every handler ends; a lost client frees its session |
| MCP protocol server, `mcp/server.go` | none; stdio reads one line after the other | initialize, tools/list, tools/call | engine (a tool is an operation) | cancellation while a read of stdin blocks | one response per request, none per notification, in order |
| HTTP request life cycle, `server/`, `server/use/`, `apperror/` | request context, recorded status | middleware: access log, timeout, budget; validation; error mapping | engine, metrics | deadline, disconnect and budget end the same reads; an error after the first byte | a result is complete or says why not; a status means one cause |
| Kubernetes call budget, `limits/`, `kube/` | tokens left, in the context | Take before a read | every read | the last token; discovery's several calls for one token | never overdrawn; each read pays once |
| Engine, `engine/` | none | six operations, each a sequence of reads | kube client, graph builder | some failures of reads are ignored | no limit is swallowed |
| Owner chains and graph builder, `engine/pod_graph.go`, `engine/service_trace.go`, `graph/` | seen set, nodes, edges of one answer | two recursive walks, merge of nodes | kube client | cycles, diamonds, owners that change or go between two reads | ends; every edge has both ends; exact while nothing changes |
| Service backends, `engine/service_endpoints.go`, `service_signals.go`, `dump_*.go`, `namespace_health_*.go` | none | trace, dump, health of a Service | Pod and endpoint lists | the lists are of different moments; three ways of counting | the views agree; silence means health |
| Events and Pod signals, `engine/pod_events.go`, `pod_signals.go`, `dump_events.go`, ... | none | sort, merge, cut; group; classify containers | Pod lists, event lists | signals made from a list already cut, about Pods listed earlier; three ways of grouping and of reading containers | newest first, nothing merged that differs; the past told as past; no trouble untold |
| Metrics, `observability/metrics.go` | maps of counters and histograms, atomics, one mutex | ObserveHTTPRequest, MarshalJSON | every request, `/metrics` | the mutex guards maps, not numbers; sums by compare-and-swap | nothing lost; no number goes back |
| Server life cycle, `server/server.go`, `mcp/sse.go:57-85`, `cmd/serve` | listener, its goroutine and channel | start, shut down | all of the above | streams nobody ends, against a time limit; goroutines nobody waits for | ends in time; "ended well" leaves nobody unanswered |
| Command line, `main.go`, `cmd/flags.go`, `cmd/env.go`, `cmd/*` | none | put arguments in order, parse, load a configuration, run, exit | flag package, engine, server | arguments moved by rules that must agree with the parser's | read as meant; the exit status tells what is on stdout |
| Adapters, redaction, rendering, `kctxdev` | none | pure functions, test helpers | | | |

Who calls whom: a command, an HTTP handler or an MCP tool calls one engine operation
with a context; the operation makes its reads one after the other through
`kube.Client`, each of which takes a token from the budget in that context. HTTP
middleware puts the deadline and the budget into the context, and the MCP server does
so for each tool call. Over SSE, a POST's message is dispatched in a goroutine that
hands its response to the goroutine of the stream through the session's channel.
Access-logging middleware reports each HTTP request to the metrics.

`PROJECT.json` lists every component with its status, the hazards of this code line by
line with the properties that guard them, and which definition models which lines.

## 2. Modules

| Module | Models | Proofs |
|---|---|---|
| `SSESession` | one action per step of `handleSSE`, `handleMessage`, `dispatchSessionMessage` and `enqueue` between two points where another goroutine can be seen | `SSESessionProofs` |
| `ResponseStream` | what a client may rely on: an ordered stream without loss, per session; `SSESession` implements it | the refinement, in `SSESessionProofs` |
| `EngineRequest` | one request from the middleware to the metrics: its reads, budget, deadline, disconnect, swallowed errors, status | `EngineRequestProofs` |
| `Metrics` | observations of requests, one atomic operation at a time, and reports of `/metrics` | `MetricsProofs` |
| `OwnerChain` | the two walks over owner references, as a stack of calls, in a cluster that may change at every read | `OwnerChainProofs` |
| `ServiceBackends` | what trace, dump and health say of one Service | `ServiceBackendsProofs` |
| `EventReports` | what explanation, health and dump show of Events and signal of Pods | `EventReportsProofs` |
| `CommandLine` | how arguments are put in order and parsed, and what they mean: operators only | `CommandLineProofs` |
| `Serve` | the call of `kctx serve` in its three modes, from listening to shutdown, and the stdio loop | |
| `Process` | one run of kctx, from arguments to exit status; composes `CommandLine` and `Serve` | `ProcessProofs` |

`MC*.tla` give values to constants; `MC*.cfg` are the runs. In every module a
definition that follows the words "without", "a variant" or "as a mistake would" and has a longer
name (`HasTokenOrOwes`, `FollowLinkingOnce`, ...) is not part of the model: it is a
mutant, the definition as a plausible bug would leave it, listed in `PROJECT.json` with the
property that finds it.

### SSESession

`stream[s]` is where the goroutine of stream `s` stands, `pc[p]` where the POST `p` or the
goroutine it started stands. `store`, `queue`, `ctxDone` are `sessionStore.sessions`,
`sseSession.messages` and `sseSession.ctx`; `held` is a message received but not yet written.
A connection's end (`Disconnect`) and its arrival in the session's context
(`PropagateCancel`) are separate steps. `enqueue` is four: the check of the context, the
select (which may send, or see the context), the wait in the channel, the timer. A
goroutine blocked on a full channel is served by the receive that frees a slot, as Go does.
A payload is the number of its POST: two responses are never the same.

### EngineRequest

`entry` is HTTP or MCP, `op` the operation, `limit` the budget. `Order` is the relation
"read `r` may follow read `l`", taken from each operation's code; `last` is the read
made last. A read takes a token (`RefuseRead` without one), may fail at once if the context is over
(`FailRead`), or is sent (`StartRead`) and then answered, refused, or interrupted by
the end of the context. `Tolerated` says which failures the code ignores; `lost`
collects them. `recorded` is `statusRecorder`, `counted` the status the
metrics see. One action is one call that another party can see from outside.

The budget is an atomic, but one request's reads are all made by one goroutine, so taking a token
is one step. A rate limiter inside client-go may refuse a read before it is sent; it does so with an
error of its own, which is the failure `other`. A dial that times out fails with `timeout`, which `server/errors.go` cannot tell
from the end of a context.

### Metrics

`step[o]` counts an observation's additions: look-up under the mutex, request counter,
and for each of two histograms the bucket, the count and the sum. A sum is loaded and then swapped
(`LoadSum`, `SwapSum`); a lost swap loads again. A report holds the mutex while it
reads cell by cell, in the order of the code. `seen` is the report being made, `last` the one before.

### OwnerChain

`view` is the cluster as last answered, object by object; a read (`Read`) may be
answered with anything, and `calm` remembers whether every answer agreed with the one before.
`stack` is the recursion of `addOwnerChain` and of `traceOwnerChain`, which do the same with different
result types; a trace walks once for each Pod with a new `seen` map and removes duplicates at the end.
Kinds outside the code's switch are not read and have no owners (`Known`). An object's references are a set of objects named
by kind and name, as the code reads them: two references that differ in their UIDs alone are one
here. Once the cluster has changed under
a walk, what it was is forgotten: nothing is claimed then of what the walk finds, and everything of how it ends.

### ServiceBackends

The state is what was listed: Pods, and endpoints from EndpointSlices or from an Endpoints object. Pods and
endpoints are listed at different times, so `Init` lets them be any, in step or not. Each of the three
handlers answers once. `PodAt` is the loop of `endpointSummariesFromSlices` and of
`addDumpEndpointSliceRelations`, in which `podName`, once found, is kept for the rest of an endpoint's addresses.

### EventReports

The cluster's Events, each with a kind and a time, are fixed; its Pods change while an operation is between its two
reads, `ReadPods` and `ReadEvents`. The latter is the whole of what comes after the list of Events: `resolveEvents`
sorts, merges and cuts; `podEventSignals`, `namespaceEventSignals` and `dumpEventSignals` group what is left;
`ContainerSignals`, `PodSignals` and their callers read the Pods' statuses. An Event is named by its place in
the list, so a signal says which Event it quotes. Health sorts with an unstable sort: any order of Events of one
time is an answer. A zero `lastTimestamp` and a zero count, which the newer API for Events leaves, are kept.

### CommandLine, Serve, Process

An argument is a word, `--flag` or `--flag=value`. `NormalizeArgs` and `Parse` are the code's functions and the flag
package's; `SplitStep` is one turn of the code's loops, `ParseStep` one argument of the parser's (`Converts` says which values the Bool and the
Int among the flags can have; `Numbers` are the texts that the parser takes for a number), and each function is the
last member of a recursive function of the number of arguments read. `WellFormed` and `ReadsAsMeant` say, independently of
both, what a list of arguments means: `Lists` that the words are those of the arguments, in their order, `Value` which value
is a flag's. A word's flag, and the value of `--flag=`, are `Empty`.

In `Serve`, `call` is where the call of `ListenAndServe` or `Server.Serve` stands, `listener` the goroutine inside
it, `errCh` the channel between them. Handlers begin and end; a POST leaves a goroutine (`dispatch`) that
`Shutdown` does not know of. `stdin` holds lines not yet scanned; scanning, handling and encoding a line are three steps,
since a cancellation between any two of them counts differently.

`Process` puts both together: `ParseArguments`, `Configure` (what each command demands), `LoadEngine` (which
configuration), then either `Operate` and `Render` or the server. After the process's end `Embedding` lets the
goroutines of a server go on, as they do in a program that embeds it and in its tests.

## 3. Runs

Times are with two workers.

| Run | Question | Bounds | Result |
|---|---|---|---|
| `sse_safety` | Does any interleaving lose, duplicate, misdirect or reorder responses, reject a live session, or deliver a cancelled tool's error? | 2 sessions, 2 POSTs, a channel of 1 | holds, and implements `ResponseStream` |
| `sse_liveness` | Do handlers end, are sessions freed, is a reading client served? | 1 session, 2 POSTs, a channel of 1 | holds |
| `engine_request` | Are budgets exact, limits told, statuses true, failures counted; does a request end? | budgets 0, 3, 12, 16; up to 18 reads of a kind in a row, 3 calls of discovery | holds |
| `engine_dump` | Does every operation tell of a limit it met, as ROADMAP.md says? | the same | no: finding 1 |
| `engine_timeout` | Does a 504 mean that the request's deadline passed, as METRICS.md and `server/errors.go` have it? | the same | no: finding 2 |
| `metrics_safety` | Are concurrent requests counted once; do reports go back or contradict themselves? | 2 requests of one key, 1 bound, 2 reports | holds |
| `metrics_liveness` | Does an observation end? | the same, 1 report | holds |
| `owner_graph` | Does a walk end, is the answer closed, and exact if nothing changes? | 2 Pods that may share owners, 2 owners, 1 owner of an unknown kind | holds |
| `service_views` | Do the views of a Service agree, is silence true, is there a false alarm? | 2 Pods, 2 addresses, 2 endpoints of up to 2 addresses | holds |
| `events` | Are the newest Events shown, counted once and quoted right; is the past told as past, and all trouble told? | 2 Pods, up to 3 Events at 2 times, answers of 2 Events, Pods of up to 2 containers | holds |
| `events_latest` | Is the Event a signal calls the latest the newest, as `eventTime`'s comment has it? | 2 kinds of Events without `lastTimestamp` | no: finding 3 |
| `process` | Are arguments read as meant, does the exit status tell the truth, do the servers end, answer each line once and leave nobody behind? | 3 HTTP requests, 3 lines, 2546 lists of arguments, 903 of them well-formed | holds |

`CHECK_DEADLOCK FALSE` stands in every cfg since requests, POSTs, walks and answers happen once
and everything stops when all are over; what must not stop halfway is
stated as liveness (`EveryPostEnds`, `RequestEnds`, `ObservationsEnd`, `CancelEndsCall`) and, for walks, as a bound.

Why the bounds are enough:

- *SSE.* One slot makes a full channel, a blocked sender and a timeout happen with two POSTs; two
  sessions make a stray response possible; nothing compares more than two responses or two sessions.
- *Engine.* The budgets end before the first list is through, in a Pod's owners, among a dump's lists and among its
  Nodes; 18 reads of a kind exceed the largest budget, so the end of a fan-out and the end of a budget come in
  either order; a discovery of 1 to 3 calls is cheaper, as dear or dearer than a token.
- *Metrics.* Two requests race for one sum; a third adds no new pair. One bound with a value on it and a
  value above separates "less than" from "at most".
- *Owners.* Two readable owners make a cycle, a self-reference and, with the Pod, a diamond; the third is of a
  kind that is not read. Two Pods share owners, so that the second walk meets what the first has seen and added.
- *Service backends.* Two Pods on one address make correlation ambiguous; an endpoint with two addresses
  shows what is kept from one to the next; two endpoints separate "all" from "some".
- *Events.* With a limit of two, three Events are cut, and merged or not before they are. Two times make ties and
  differences. One Pod is explained and changes, goes and comes back; the other has Events of its own; a Job has
  the name of a Pod. The statuses are those the kubelet can leave where first and second container differ. Only one
  of health and dump is asked for beside the explanation, for they are not compared with each other.
- *Process.* Three requests are a stream and two POSTs, one of which is still answered when the other is over. Three lines
  are one answered, one being answered and one not yet read. Arguments are every order of up to six
  groups (a command, its words, flags with the value in the same or the next argument), and all short lists of what
  is typed wrongly.

The proofs lift the safety properties they cover from these bounds to every value.

### Fairness

- *SSE.* Goroutines that can run do run (WF). Go's select picks at random among ready cases, so a case
  that is ready again and again is taken (SF on `Receive` and `StreamDone`). A tool ends by its request
  timeout, a blocked `enqueue` by its 5 s timer. A write to a client that stopped reading may block for
  ever, for the server sets no write timeout: nothing is assumed of writes while the connection stands.
  With a request timeout of 0 tools have no deadline, and discovery never has one: for those `EveryPostEnds` assumes that the
  API server answers or client-go gives up.
- *Engine.* The goroutine runs, the deadline passes, client-go returns when its context ends.
  The API server need not answer any read but one: discovery has no context (`kube/resolver.go:42`) and the client no timeout
  (`kube/client.go:66`), so nothing in this code ends a discovery the API server leaves open. `RequestEnds` assumes that it ends.
- *Metrics.* Requests run; a report that holds the mutex goes on. No fairness among requests is needed:
  a swap fails only because another one succeeded.
- *Serve.* Goroutines that can go on do, and `Shutdown`'s own time-out passes. The stdio loop answers: a tool ends by its
  time-out or its context (of discovery, see above), and a client that talks over pipes reads them. Clients need neither leave nor write, HTTP handlers
  need not end: `CancelEndsCall` holds by the time-out alone, and of the stdio server only once
  there is something to scan.

## 4. Proofs

`tlapm` checks every leaf. Constants are assumed no more than the modules' named ASSUMEs say: a channel has a slot; budgets,
keys and bounds are numbers; the bounds of a histogram ascend; requests, owners and the Pods behind a Service are finitely
many; "none" is no Pod and no address; an argument is a flag or a word with a value or none, no value is not the empty one, and the empty text is no number; an Event is about an object with a kind and a name; the Pod explained is one
that may be there. One assumption is about the cluster: the kubelet calls no Pod ready that has a container which waits or has
ended (`StatusesAssumption`).

| Theorem | Says, for every value of the constants |
|---|---|
| `SSESessionProofs!TypeCorrect` | types; the channel never exceeds its capacity |
| `SSESessionProofs!RejectionsAreFinal` | `RejectedOnlyAfterClose` |
| `SSESessionProofs!CanceledNeverQueued` | `CancellationStaysInside` |
| `SSESessionProofs!AcksComeFirst` | `AnsweredAfterAck` |
| `SSESessionProofs!TimeoutsMeanFull` | the action property `TimeoutOnlyWhenFull` |
| `SSESessionProofs!DeliveredAtMostOnce`, `DeliveredWhileConnected` | `NoDuplicateOrStray`; `NothingLostWhileConnected` |
| `SSESessionProofs!Refinement` | `SSESession` implements `ResponseStream` (`ImplementsResponseStream`) |
| `EngineRequestProofs!TypeCorrect`, `BudgetExact`, `LimitsAreTold`, `StatusesMeanWhatTheySay`, `FailuresCounted` | all invariants of `engine_request` |
| `MetricsProofs!TypeCorrect`, `ReportsMonotone` | types; `ReportsNeverGoBack` |
| `MetricsProofs!NothingIsMiscounted`, `ReportsNearlyAgree` | `EveryRequestIsCounted`; `ReportsAreNearlyConsistent` |
| `OwnerChainProofs!TypeCorrect`, `ReadsBounded`, `AnswersClosed` | depth of the recursion; `OneReadPerEdge`; `NothingDangles` |
| `OwnerChainProofs!CalmAnswersExact` | `CalmWalkIsExact` |
| `ServiceBackendsProofs!TypeCorrectness`, `SilenceTrusted`, `ViewsAlwaysAgree`, `PodsAlwaysFound` | all invariants of `service_views` |
| `EventReportsProofs!ShownOnce`, `NewestAreShown`, `EachCountedOnce`, `PastToldAsPast`, `TroubleTold` | all invariants of `events` |
| `CommandLineProofs!WellFormedReadAsMeant` | every well-formed list of arguments is read as it is meant |
| `ProcessProofs!ReadAsMeant` | `ArgumentsReadAsMeant` |
| `ProcessProofs!TypeCorrect`, `NobodyLeftUnanswered`, `EveryLineReplied` | types and the exit status; `CleanShutdown`; `OneReplyPerLine` |

The arguments:

- *SSESession.* `RejectedOnlyAfterClose` needs that the store holds just the sessions whose handler
  runs (`SessionInv`) and that a POST can only name a session that was announced (`PostInv`).
  `CancellationStaysInside` needs that a tool cut short leaves its context done, and that the check after it then
  never reaches the select (`CanceledInv`). That a blocked sender's channel is full (`BlockedInv`) is kept by the receive,
  which hands the free slot to a sender that waits.
- *Delivery.* `FlowInv` counts a response over the three places it can be in: the channel, the handler's hand, the
  client. A step moves it from one to the next, leaves it, or, once the client is gone, drops it; `enqueue` adds it to the one
  stream its POST names, when it was in none. How `Append`, `Tail` and `\o` change the number of occurrences are lemmas. That a
  handler which waits has nothing in hand (`PipelineInv`) keeps the order. The refinement goes step by step:
  opening a stream is `Open`, a send into the channel `AcceptResponse`, a write `Write`, a lost connection `Lose` (with or without the
  response in hand), what is received from the channel and dropped later `Discard`; all else is a stutter.
- *EngineRequest.* `LimitsSurface` is not inductive: while a Pod's owners are read, a limit may already be
  swallowed. `SurfaceInv` says where such a request must then be: between reads, with a context that is over or
  a budget that is empty, before a read whose failure is not ignored. It holds since neither a
  context nor a budget recovers and since the reads' order puts such a read after the ignored ones.
- *Metrics.* No cell is ever decreased (a sum is swapped only if it is what was loaded), and
  what a report has read is never ahead of the cells (`NotAhead`); it has read what it
  has not still to read (`ReportComplete`), so the next report has every number of this one, and no smaller.
  For the numbers themselves `CountInv` says that a cell holds how many requests have added to it, or the sum
  of their values (`Adders`): the seven additions of a request go to seven different cells, so each enters each set once. A
  number once read lies between what the requests that were over and those that had begun come to (`SeenInv`). With
  buckets that ascend, the buckets up to a bound count the values up to it.
- *OwnerChain.* A call is made for an owner not seen before, so no two calls on the stack are of
  the same object (`CallInv`) and they are at most as many as the seen owners (`DepthInv`); a reference still to
  follow has not been linked (`LinkInv`), so every read adds an edge to `linked`. None of it
  mentions what the cluster answers. Exactness does: while it is calm (`CalmInv`), each reference of an object the answer has is
  an edge already or awaited by a call (`CompleteInv`), each edge is a reference (`SoundInv`) and each object is
  reached from a Pod (`ReachedInv`). When no call is left nothing is awaited, and the objects are closed under references.
- *ServiceBackends.* An answer stays the function of the lists that it was computed as
  (`IInv`); then it is a matter of which facts each signal stands for. `ViewsAgree` needs that
  endpoints have an address and that there are finitely many of them; `PodsAreFound` that among the Pods of an address
  there is a first, the smallest number, that it is the one meant where endpoints are in step with the Pods, and that the Pod found for
  an endpoint's first address is found for all (`PodIsKept`).
- *EventReports.* Health and dump look at the first container that has a reason, which may hide a later one's trouble.
  It stays told since the Pod is then not ready, and each view says so of every Pod of its list (`ToldInv`). What they
  quote is some container's reason, of which the explanation has all (`ErrorInv`); that a first container exists is
  the well-ordering of the numbers. For the Events, `EInv` says of each answer what holds of the Events it shows and of the
  Pods it listed (`Says`), both of which stay; the work is in the operators. That sorting has a result at all is proved by the smallest
  set that would have none, that merging keeps the first of each key by what sorting did before, and that the loops which
  group Events compute a function of the list by the first step at which they would not (`GroupIs`). Counts add
  up since each Event shown is in the group of one signal.
- *Process.* One invariant for the command (`MainInv`: what is on stdout at each place of it), one for the server
  (`ServeInv`). "Closed" is in the channel only after `Shutdown`, and `Shutdown` is called only by the select that has seen
  the context over, so the select never takes a result that means success while a handler runs; a POST's goroutine answers to a
  stream, and streams are handlers. On stdio what is owed is what is written, but for the line in hand (`ReplyInv`).

- *CommandLine.* Both functions are proved along the list, each with the invariant of its loop, for lists of any length. After
  `n` arguments `Split` has two lists of them, each in its old order (`SplitAfter`, `SplitLists`); the parser has recorded the last
  value of each flag read, but for one that still awaits its value (`ParseAfter`), and so reads a list of flags with
  values they can have (`Converted`) and leaves what follows (`ParseReads`). In between stands what makes the two agree. In a well-formed list a flag
  that takes a value is followed by it (`Tidy`), so the arguments fall into three parts: the global flags, the command's flags, each
  with their values, and the words, of which the command is the first (`ThreeParts`). A flag and its value are always put in the
  same list (`Closed`) and what is next to each other stays so in the list of its part (`Neighbours`, `Kept`): the parser gives a flag
  the value it had. The last flag of a name remains the last (`FlagsRead`).
- *ArgumentsReadAsMeant.* `LineInv` adds that what was read stays what the arguments say, and that no step loads another
  configuration than the one given.

Model-checked only: liveness (`EveryPostEnds`, `LostConnectionFreesSession`, `ReadingClientIsServed`, `RequestEnds`,
`ObservationsEnd`, `CancelEndsCall`), which is beyond the prover. Every other property of a run is proved. The library's rules of
induction take an operator, which the provers cannot instantiate; where a loop is followed here, induction is by the least step at
which something would fail (`LeastOf`, `EachStep`).

## 5. Findings

1. `engine_dump`: a namespace dump ignores the errors of `GetNode` (`engine/dump_relations.go:83`), a deadline or an empty
   budget among them, and answers 200 with Nodes that lack labels and status. ROADMAP.md:341 and the comment in
   `server/use/timeout.go:16-19` promise an error. `LimitsSurface` shows that no other operation does this.
2. `engine_timeout`: `errors.Is(err, context.DeadlineExceeded)` (`server/errors.go:32`, `apperror/apperror.go:44`) is true of the
   timeout of a dial, too, and client-go dials with 30 s of its own. With a request timeout above that, such as the 2m of
   `chart/README.md:108`, or with 0, an API server that cannot be reached is counted as 504 while the request's context is
   live. METRICS.md:100 reads 504 as request timeouts, the comment at `server/errors.go:31` as a timeout of the context.
   `StatusNamesItsCause` says what a 504 does mean: a passed deadline or a read client-go gave up.
3. `events_latest`: the signals of one Pod's Events take for the latest the one with the newest `lastTimestamp`
   (`addPodEvent`, `engine/pod_signals.go:139`). Events of the newer API, such as the scheduler's, have none: the
   signal then quotes the oldest, although the same Events were ordered by `eventTime`, whose comment
   (`engine/pod_events.go:77`) promises newest first.

Seen while reading, and not made into runs:

- A cancelled HTTP request gets no response, since `writeError` returns early (`server/handlers.go:140-143`), and is recorded as 200,
  the default of `statusRecorder`. `FailuresAreCounted` makes that exception explicit.
- When encoding fails after the first byte, the error's status is recorded although the wire already said 200.
- Discovery ignores the request's context, so the sentence that the timeout bounds one MCP tool call (`chart/README.md:119`)
  does not hold of it.
- A session that is closed between `enqueue`'s check of its context and its select (`mcp/sse.go:226-243`) may still be sent to: the
  response is then reported as queued and nobody reads it. The test (`mcp/sse_test.go:104-113`) closes the session before the call.
- Namespace health counts an ExternalName Service as one without ready endpoints (`engine/namespace_health_signals.go:44`);
  trace and dump leave such Services out. `ViewsAgree` therefore speaks of the others.
- With several addresses in one endpoint, a Pod found for one is shown for the later ones too, not for those before it
  (`engine/service_endpoints.go:51`). `PodsAreFound` lets endpoints that are in step with the Pods have more addresses behind the
  Pod's; where it compares trace and dump, which look addresses up among different Pods, it speaks of endpoints with one.
- `ResolveResource` (`kube/resolver.go:42`) takes one token for a call per API group and version; `cmd/serve/serve.go:73` calls
  the budget the number of Kubernetes API calls of a request. `BudgetIsExact` bounds the excess.
- `dumpServiceSignals` (`engine/dump_signals.go:163-187`) looks at EndpointSlices only; the trace falls back to Endpoints
  (`engine/service_endpoints.go:32`).
- Health says of Events that their Pods are *currently* ready (`engine/namespace_health_signals.go:121`); it has read the Pods
  before anything else and the Events last. `PastIsToldAsPast` therefore speaks of the Pods as listed.
- An Event of the newer API counts 0, and 1 if it is alone in its group: two add up to 1. The dump counts the Events it shows,
  health the ones it found before the cut.
- Events are matched to a Pod by name, so those of a Pod's predecessor of the same name count.
- A Pod's `BackOff` Event is a warning in its explanation if the Pod is ready, an error in health and dump in any case.
  Health adds up the restarts of all containers, the explanation looks at each.
- On the command line, `--kubeconfig=` without a value is taken for the command by `NormalizeArgs`, so that the flags
  of the real command are not moved; `-namespace`, with one dash, is known to the parser but not to `NormalizeArgs`; a flag that lacks
  its value takes the next argument, even if that is a flag. `WellFormed` leaves these out. An empty value, as in
  `--kubeconfig ""`, is taken but names no cluster (`cmd/env.go:38-46` then tries the others), and an empty value of another String flag is its
  default: `ArgumentsReadAsMeant` speaks of a cluster that was named. `--verbose` is a Bool and `--kube-api-budget` an Int
  (`cmd/flags.go:39`, `49`): a value they cannot have, the empty one included, is a usage error of the parser and makes
  a list ill-formed, while a negative budget is well-formed and refused by `configure` as a failure.
- When rendering fails halfway, the error's envelope follows what was already written.
- The stdio server learns of a cancelled context when the next line arrives, which it then drops. `CancelEndsCall` and
  `OneReplyPerLine` say so.

## 6. Not modelled

- Adapters, rendering, redaction: pure functions from finished objects to text or records. A model would restate them.
- Signals of workloads and claims (each compares two numbers of one object) and the parts of a graph that are stars around one
  object: its Node, Services, ConfigMaps and the like.
- Kubernetes itself: any answer to any read. The kube client is modelled by what the engine sees of it.
- The text of messages, JSON, metrics and log lines.
- `kctxdev`, the smoke client and test helpers: not part of the running program.

## 7. Plan

Done, in this order: `SSESession` and `ResponseStream`, `EngineRequest`, `Metrics`, `OwnerChain`, `ServiceBackends`, then
`EventReports`, `CommandLine`, `Serve` and `Process`.

Possible next modules: the composition of a Pod's graph out of its stars, and entities and relations of a whole dump, where
lists of different moments meet (now `ServiceBackends` has the endpoints' part of it); adapters, if one of them comes to combine
several conditions in an order that matters.

Further proofs: none of a property that a run checks, but for liveness. A next one would be that argument lists which are not
well-formed end in a usage error or are read as section 5 has it, which first needs a statement of what each of them should do.
