# A verification model of ToolFunnel

ToolFunnel is an MCP gateway: a client speaks MCP to it over stdio or HTTP, it
runs *upstream* MCP servers as children and passes the tools of those servers
on, every call through a gate of user-written hooks. This directory models it
in TLA+, checks the models with TLC and proves, with TLAPS, every safety
property that holds in the runs, and for each liveness property the safety it
rests on. File names below are relative to the repository; `PROJECT.json`
names, for every definition, the lines it stands for.

## Inventory

| Component | State | Operations | Hard part | Right when |
|---|---|---|---|---|
| **Upstream connections** `src/mcp/aggregator.js`, `src/mcp/mcp-client.js` | `_clients`, `_connecting`, `_tools`, `_reconnecting`, `_reconnectTimers`, `_closed`; per client the child, its waiters and its framing buffer | `connectAll`, `ensureConnected`, `reconnect`, `discover`, `closeAll`, death handler, backoff timers, list refreshes | every method awaits a child; deaths, timers, a manual button and teardown interleave with it | no child is lost, every enabled upstream comes back, a client's tool list converges |
| **Host lifecycle** `src/mcp/http-transport.js`, `src/mcp/server.js` | `build`, `started`, `stopping`, `httpServer`, listen streams; watchers, debounce timers, `reloadingExpose` | `start`, `stop`, `reload`, `reloadExpose`, watcher callbacks | state read before `connectAll` is awaited and written after; no lock between the operations | no aggregator is lost, requests meet a live one, streams and edits survive a swap |
| **Tool gate** `src/mcp/gated-run.js`, `src/core/hook-engine.js`, `src/core/hook-runner.js`, `src/core/matcher.js` | the call's phase, a worker pool per fire, one process per hook | `gatedRun`, `fire`, `runHook`, `reloadHooks` | hooks settle in any order and any way, under reloads and beside other calls | a tool runs once, only when all hooks voted and none objected |
| **Elicitation bridge** `src/mcp/server.js` | `pendingElicits` (tokens), `elicitWaiters`, `inflightRawForwards` | `handleUpstreamServerRequest`, `raceElicit`, `suspendForElicit`, `resumeElicit`, TTL timer | a question is bound to the one call that can have caused it; answer, TTL, result and retarget race | no caller is shown another's question, every question is answered once |
| **Tool surface** `src/mcp/server.js`, `src/mcp/aggregator.js`, `src/mcp/protocol.js` | none of its own: the register, the tool state, the expose rows and the connections of the moment | `tools/list`, `toolfunnel_list_tools`, `tools/call`, `toolfunnel_run_tool` | listing and calling resolve names along different code; ids, display names, aliases and default names may clash; everything changes while the gate deliberates | what is listed is what a call reaches, under that tool's gate and switch |
| **Stdio loop and dispatch** `src/mcp/server.js`, `modern.js`, `protocol.js` | the promise chain, `queuedRequests`, `inflightForwards`, `modernSubs` | framing, dispatch, batches, cancellation, listens | a cancellation overtakes the chain; forwards have other ids upstream; a listen outlives its link | replies in order, one per request, a cancel hits its own request, resources are held for who wants them |
| **HTTP requests, SSE, auth** `src/mcp/http-transport.js`, `src/auth/` | SSE clients, listen streams, `disconnectCancels`, the memoised token validator | POST handling, streams, fan-out, OAuth gate | the handler awaits a verdict, a body and an answer, while clients hang up, settings change, the host reloads or stops | nobody is admitted by other settings than those of the arrival, calls are answered or counted, streams hear of swaps |
| **Hook store** `src/core/hook-loader.js` | manifest and overlay, two files; the loader's copy | load, set, add, remove; the UI's gate switch; reload | several processes read both and write one after the other | what an operation answered is what the next load sees |
| **Register, tool state, expose store** `src/tools/`, `src/mcp/expose-store.js` | three JSON files, scripts, each process's copies | add, update, remove, toggle, wrap, attach, alias | read-modify-write of several files by several processes, crashes between them | policies follow a tool, references name what exists, a refusal has no effect |
| **Rename migration** `src/core/rename-migration.js` | none: it rewrites the hooks and the tool state before a rename is saved | plan, refuse, write, write | a crash between the writes | running the rename again finishes it |
| **Logger, metrics, events** `src/core/` | log file, counters | append, rotate | two processes rotate | at most one older generation is lost |
| **Reaper, config home, requirements, server config** `src/core/` | set of children, environment | kill at exit, resolve once | operating-system behaviour | |
| **Manager UI, CLI, scripts** `src/ui/`, `bin/`, `tools/scripts/` | none of their own | edit the stores, probe upstreams | they are other processes | see the stores |

How they interact: `server.js` builds a *build* (engine, register, aggregator)
and answers requests against whatever build it holds; a tool call goes through
`gatedRun` and then `Aggregator.execute`, which may connect. The aggregator
calls back (`onToolsChanged`, `onUpstreamNotification`,
`onUpstreamServerRequest`); the host turns these into notifications to the
client. The UI and the scripts are separate processes which only write files;
the watchers of the host pick these up and reload.

## Modules

| Module | Models |
|---|---|
| `UpstreamLifecycle` | the connections of one aggregator |
| `UpstreamLifecycle_proofs` | its theorems |
| `McpClient` | one client: framing, waiters, era probe, respawn |
| `McpClient_proofs` | its theorems |
| `HostLifecycle` | who owns the live aggregator: host operations, watchers, stream counts |
| `HttpRequests` | the requests and streams of the host, composed with `HostLifecycle` |
| `HttpRequests_proofs` | the theorems of `HostLifecycle` and `HttpRequests`, and that the second implements the first |
| `StdioLoop` | the stdio session: chain, cancellation, subscriptions |
| `StdioLoop_proofs` | its theorems |
| `ToolSurface` | what is listed and what a call reaches |
| `HookStore` | the two files of the hooks under all their writers and the gateway's reload |
| `HookStore_proofs` | its theorems |
| `ConfigStores` | register, expose store, tool state, scripts and gates, renames included |
| `ConfigStores_proofs` | its theorems |
| `ToolCalls_proofs` | theorems of `ToolSurface` and of `ToolGate`, its implementation of `Gate` included |
| `Gate` | what the gate promises of a call, abstractly |
| `ToolGate` | `gatedRun` over the hook engine and its worker pool; implements `Gate` |
| `ElicitBridge` | the elicitation bridge of a wrap, with its timers |
| `ElicitBridge_proofs` | its theorems |
| `MC*` | the constants of the instances TLC checks |

The modules meet at these points: `HttpRequests` contains `HostLifecycle` and
its `Stop`, `ReloadDone`, `Listen`; `UpstreamLifecycle` uses of `McpClient` that a connect
settles and that a death is told once (`GoneIsSettled`); `ElicitBridge` has the timers of
`McpClient`'s waiters; a call of `ToolSurface` passes the gate of `ToolGate`; `StdioLoop` sees a
gate, a tool and a forward end; the reloads of `HostLifecycle`, `HookStore` and `ToolSurface`
read what the writers of `ConfigStores` and `HookStore` leave.

Definitions whose comment begins with "Mistake:", or says what "were" the case, are
never part of a specification. Each is a wrong version of its neighbour, a bug one could have written, which
the runs are known to catch (`mutants` in `PROJECT.json`).

### Atomicity

Node runs one callback at a time and drains the continuations it released
before the next. An action is therefore one callback with everything it
settles synchronously or by resolved promises; actions interleave exactly
where the code awaits a child, a timer, a socket or a file. Where two
continuations are released together and their order matters, the action
contains both in the order the code queues them (`Reject`,
`DeathWhileListing`, `BatchEnd`).

### UpstreamLifecycle

Each `_clients`, `_connecting`, `_tools`, `_reconnecting`, `_reconnectTimers`
entry is a function over the upstreams; `_connecting` is
split into the stage it has reached (handshake or list) and who started it
(the boot batch, `ensureConnected`, `reconnect`), since the batch does not
register itself and `reconnect` handles its own failure. `open` and
`established` are what the children really are: open is every client whose
child has not been closed, known to the aggregator or not. `notified`,
`fetched` and `shown` are the client's view of the tool list.

One handshake stands for the modern probe, its legacy fallback and respawn; a
client identity is reused once closed. Tool lists are present or absent, their
content is not modelled, nor are refreshes of a changed list beyond the
re-list itself.

### McpClient

A message travels as chunks: a line, the pieces of one and its end, or a
`Content-Length` header (which may come in two parts) and that many chunks of
body. A read (`OnData`) takes any number of chunks, of one message or several,
and joins them to `buf`; `_drain` then takes a frame per round while nothing else runs (`draining`,
`Drain`). As in the code, each round tries header framing first, on a header found anywhere in
the buffer, and drops what precedes it; only then comes the first line. `skip` is what of a refused
message is still to be thrown away. `cont` is a
handshake request that has settled while the code awaiting it is yet to resume, which it
does after the read is drained. The client spawns
at most twice, the second time when the first child died on the probe, before its
policy is looked at again; either spawn may throw. Its owner may ask in any phase (`Ask`). `crossed`
would record an answer of one child settling a request of the other. Every
request may time out at any moment, and a write may fail.

### HostLifecycle

An aggregator is a number, and a build is named after the aggregator it came
with; `holder` is `build.aggregator`, which `reloadExpose` replaces inside a
build while `start` and `reload` replace the build. `starting`, `reloading`,
`swapping`, `ending` are the calls suspended in an await. `conf` is the version of
`expose.json` an aggregator was made from, `refs` the refcount of the one
URI all streams subscribe to. The aggregator's insides are those of
`UpstreamLifecycle`, of which this module uses that `connectAll` always
settles. `listen()` on a numeric host, the default, succeeds or fails before
any other callback runs, so it is one step with the end of `connectAll`; a host
name adds a DNS lookup in between, during which `stop` behaves as it does
during the await of `connectAll` modelled here. `Calls` and `Overlapping` say
which operations an embedder calls and which of them it does not serialize.
`reload` asks only for a free number, not whether the host is up, so it may leave a
build on a host that is down. A configuration that does not parse (`Broken`) makes
`loadExposeStore` throw before anything is assigned: `start` and `reload` reject with nothing
changed, the watchers keep the last good one (`FiresInVain`).

### HttpRequests

A connection carries one request, whose `stage` says which await its handler is
in: the token's verdict, the body, or the answer; or it is an open stream. `under` is the
settings of the gate it arrived under, `gate` the validator its verdict is
asked of. A socket closes because the client leaves or the host stops
(`Leave`, `StopHttp`, `StopHttpDone`); `cancels` is `disconnectCancels`. `fresh` are the
streams told, or opened, since the last swap; `announcing` the reloads that
have swapped and await the old aggregator's end before they broadcast. Steps
of the life cycle that requests take no part in are `Behind`.

### StdioLoop

`queue` and `run` are the promise chain and its link, `stage` the await that
link is in; a forward first waits for a connect in flight (`dial`), then is sent and
tracked (`Send`). A cancel is handled on arrival (`Cancel`): it drops a queued request,
relays to the upstream of a running forward, or ends a subscription; `Relayed` is what the
wrapped upstream then gets. `turns` and `late` record replies out of turn and replies after a cancel. A batch
a session does not take is refused as a whole, by one error without an id: its members are
`refused`, not replied to. An over-long message ends the session, but the chain goes on until the error
is flushed or half a second later (`dying`, `Exit`). `refs` is the aggregator's refcount of the one resource
listens may ask for.

### ToolSurface

The surfaces (`Advertised`, `Listed`) and the resolutions (`Direct`, `Run`) are
operators over the register, the overlay, the rows and the connections, each
translated from its own function, and compared by `AdvertisedRuns`. A call keeps the way it
was resolved to while it is `at` its gate; what happens to its connection
meanwhile (`Loses`) and what `execute` checks afterwards (`Executes`,
`FailsToStart`) decides whether it runs. Among the names of the instance are an id that is
another tool's display name, aliases equal to them, and an alias equal to another tool's
default name.

### HookStore and ConfigStores

Each operation is a process that reads and renames file after file, one step
each (`at` is the next; the manifest and the overlay of a load are two), and may be aborted
between two. In `HookStore` the
loader's copy (`mem`), the manifest read again (`raw`) and the overlay (`seen`)
are apart, because the code decides on one and writes another. `agreed` is what the last
answer said of a hook or a switch, dropped once two operations have overlapped:
the stores take no lock and promise nothing then, nor does the model.
It is kept as well where the code answers although it did not do what it says, for
`AnswersStand` to name (`AddedOverKey`, `SwitchedUnread`).
`ConfigStores` follows each tool the operator gated (`gated`) or switched off
(`off`) by its identity, while the files know it by a name that renames change.

### ToolGate and Gate

A fire hands its tasks to at most `Cap` workers in manifest order; each hook
ends in one of twelve ways (`Denials`, `NonDenials`), which is the
classification of `runHook`. Unreadable matchers object without running.
Direct calls keep the engine they were given, those through `engineProxy` read
the current one (`Proxied`). `Gate` has neither pool nor manifest: the hooks
consulted are fixed on arrival, all vote, then the tool runs once or not.

### ElicitBridge

`phase` says where the gateway is with a request: in `raceElicit` (`racing`,
`resumed` after a retry), in the `PostToolUse` hooks that see the question
(`post`), suspended with a token out, awaiting the result of a call whose
question it declined (`draining`), or no longer interested (`dropped`, `done`).
`work` is what the upstream does, which the gateway may not know: after a
timeout or an expired token it still works, and may ask. `asker` is that truth,
`holder` what the bridge made of it; `BoundToAsker` compares them. `window` and
`left` are `w.win` and the running timer of the request in `McpClient`, `ttl`
the timer of a token; `Tick` advances all of them and waits for what is due.
The caller's capabilities (`callerAcceptsElicit`) are the choice between
`Suspend` and `AutoDecline`; what the gate does before the call is `ToolGate`.
An upstream asks in any phase of its request, whether the bridge counts the request
(`Counted`) or not.

## Runs

Passing:

| Run | Bounds | Shows |
|---|---|---|
| `Upstreams` | 3 upstreams (2 enabled, 1 of them on the client's top level), 2 identities, 1 fast attempt; children send `list_changed` at any time | `NoStaleView`, `NoOrphan`, `NoWedge`, `ClosedIsQuiet`, `BackoffEscalates` under every interleaving; `Recovers`: an upstream that can come back does, again and again; `ViewConverges`: a client told to re-fetch ends with the live surface |
| `HostCalls` | 2 builds, 2 stops, 1 edit, 2 connections, 1 stream at most, 2 issuers; any call on a host that is up or down, reloads overlap, `stop` overlaps `start` and `stop` | `LosesOnlyTheseTwo`: what an interleaving can lose, by name; `ServesOpenAggregator`, `StopLeavesNothing`, `CallsAccounted`, `AdmittedByItsSettings` |
| `HostWatch` | 2 starts, the second after the first has failed, 3 edits, the second broken, 2 connections with streams | `EditsReachHost`, `StreamsHear` |
| `ToolGate` | 2 calls, 3 gates, 1 post hook, 2 workers, 3 manifests | `WorkersBusy`, `RunsOnlyAllowed`, `ReasonIsFirstBlocker`, `ImplementsGate`, `EveryCallAnswered` |
| `Elicit` | 2 calls, 1 raw forward, 2 questions, 2 upstreams; timeouts, TTL and grace of 1 tick | `BoundToAsker`, `AnsweredOnce`, `HoldOutlivesToken`, `EveryQuestionAnswered`, `EveryRequestAnswered` |
| `HookStore` | 2 hooks, 2 tools, one gate for all, UI and a script, 4 operations (2 if they overlap), 1 fault | `AnswersStand`, `NoStrayKeys`, `GatewayFollows` |
| `ConfigStores` | 1 local and 1 upstream tool, 3 names, UI and a script, 3 operations (2 if they overlap), 1 crash or typing error | `PolicyFollowsTool`, `TargetsExist`, `RefusalLeavesNoTrace` |
| `McpClient` | 2 children, 2 requests, 3 messages, a cap of 2 chunks, 3 policies | `FramesSurvive`, `ReplyIsOwn`, `GoneIsSettled`, `EraIsObserved` |
| `StdioLoop` | 3 requests, 1 link that waits beside the one that runs, 2 upstreams or none, 1 retarget | `AnswersInTurn`, `CancelNamesItsForward`, `RefsMatchSubs`, `EveryRequestAnswered` |
| `ToolSurface` | 2 local tools, 2 upstreams with a tool each, 6 names, 4 edits | `AdvertisedRuns`, `PolicyHolds` |

Upstreams share nothing but the latch, the batch and the client's view, so two
enabled ones show what one does to another, and a disabled one what `discover`
does; two identities are enough for a second child to exist beside the first,
which is what `NoOrphan` forbids; the attempt number only matters through its
cap. Two builds and the aggregator of an edit are a host and its successor, two reloads
that overlap, and a build left by a `reload` on a host that is down which the next `start` overwrites.
Two workers and three gates make a task wait for a worker, and make the later of
two objections come first in time. Interchangeable identities, connections and issuers
are symmetric in `HostCalls`, which checks no liveness. Two connections
and room for one stream make a listen be refused; two issuers make settings change
without being switched off. Two calls and a raw forward are the ways a question can be
ambiguous, two questions give a call a second round, two upstreams let a wrap be
retargeted and back; one tick each puts the token's end before, and the
upstream's timeout after or beside it. Two tools at one gate make a switch meet a
foreign row; four operations on the hooks are an add, a change, a removal and an add of the same
id; three on the other stores are a policy, a rename and its retry, with a fault in between. A cap of two
chunks separates a message that fits, one that fits without its header and one that does not; three
messages are one that a header swallows and what is lost with it, or a splice over a death. Three requests, of which
one runs and one waits, are two that may be under way at different upstreams and one that is cancelled before
its turn; four edits put a name into a clash,
change it, and change it again under a call. Deadlock is off where
the system may legitimately stop: a closed aggregator, a stopped host at the
bound of its calls, an upstream with nothing to do, a client that sends no more, operations used up.

Violation, a statement of a comment in the code that the model refutes
(`findings` in `PROJECT.json` quotes the line):

| Run | Statement | What happens |
|---|---|---|
| `HostTornDown` | `TornDownSwapIsNoOp` | `stop` during the watcher's reload; the new aggregator goes into the dropped build and stays up |
| `HostChannel` | `OnlyLastUnsubscribes` | a stream opens while `reload` connects the next aggregator, which has copied the counts before; the first stream to close then unsubscribes for both |

Each module states its type invariant and its inductive invariant (`HostInv`, `HttpInv`, `ClientInv`,
`FrameInv`, `HookInv`, `ConfInv`, `LoopInv`, `SurfaceInv`, the `IInv` of the others), and what the safety cores below
need beside it (`ViewInv`, `EditShape`, `FlagInv`, `PoolInv`). They are the subject of the proofs
and no run repeats them; TLC was used to find them, on the instances of the runs.

## Where the code falls short

The models found more than the two refuted statements. The rest either is
named as an exception in a property, which says that nothing else of the kind happens,
or is left out by a constant, a guard or a history variable.

Named by a property:

- Host. `LosesOnlyTheseTwo`: beside the finding of `HostTornDown`, a `reload()` on a host that
  is down keeps a connected build, and the `start()` after it overwrites that without closing it
  (`http-transport.js:1262`; `StartOver`).
- Elicitation. `BoundToAsker`: a request which the bridge no longer counts (`Counted`) may still
  ask: a call whose first question is in its `PostToolUse` hooks, was declined, lost its token or timed out while the
  upstream works on. Its question goes to the one call that is counted (`server.js:1879`).
- Hooks. `AnswersStand`: a hook added over a key that an earlier row of its id left in the overlay
  is answered `enabled: true` and is what the key says (`AddedOverKey`, `tf-hook-add.js:130`); the per-tool switch over a
  manifest that does not parse replaces it with its own row (`SwitchedUnread`, `ui/server.js:245`).
- Framing. `FramesSurvive`: a line that a `Content-Length` message follows in the same buffer is
  dropped with what precedes the header (`mcp-client.js:926`), and so are the lines before it.
- Stdio. `CancelNamesItsForward`: after a retarget the cancel of a forward goes to the new upstream,
  under the number it had at the old one (`server.js:2121`).

Left out, and by what:

- Upstreams. A boot connect that dies while it lists starts a backoff, and the end of the batch
  seeds a second one beside it (`aggregator.js:588` against the comment at 1285). The attempt under way then finds a timer, and its
  own next step is not taken: `BackoffEscalates` speaks of attempts that find none.
- Host. A stream that subscribes while `reloadExpose` connects is missing from the new
  aggregator's counts, too (`server.js:2386`); `refs` is in no property but the refuted one. An edit between the build and the arming of
  the watchers is never picked up (`http-transport.js:1316`): `EditsAnytime`. An edit that the watcher serves while
  `reload()` connects an aggregator built before it is lost in the swap: `HostWatch` calls only `start`. A second `start` during the
  first, and a `stop` during `reload`, leave an aggregator behind: `Overlapping` lists the
  pairs of calls that are not serialized.
- Requests. A client that hangs up while its token is judged and asked for a stream leaves that
  stream registered until `stop`, or beyond it if the verdict comes later still; the body of one that sent a POST is awaited
  for ever. The model has both: `Streams` leaves such a stream out, so `StreamsHear` says nothing of it.
- Stores. Two tools that share a name share its gate, and a rename of one moves it; a rename past a hooks
  or state file that does not parse drops the gate (`loose`). A crash between the hooks' write and the store's save
  leaves the tool ungated until the same rename is run again (`torn`). What another tool then does under the
  new name, such as a rename away from it, a gate switched off, a toggle or a removal, takes that policy with it, and the
  retry finds none to move: `loose` holds such tools, too (`Stranded`). A refused `tf_tool_add` or tool
  update leaves the new script body, a refused alias its upstream (`found`). A toggle over a corrupt
  `tools.state.json` wipes all curation (`bad`). A removal of a hook that fails between its two writes leaves a key in
  the overlay: `NoStrayKeys` assumes no faults. Operations that overlap on a file lose updates (`alone`, `apart`).
- Stdio. A cancel that overtakes a queued listen finds nothing (`server.js:2772`). A
  retarget drops the resources of live subscriptions: `QuietRetarget`. A cancel of a batch member does not silence its
  reply (`AnswersInTurn` speaks of single requests there). A listen still queued when stdin ends is registered and never closed.
- Tool surface. An alias equal to the id or name of a local tool that is not hot is not advertised, but a direct call
  still runs the upstream's tool (`AdvertisedRuns` reads from the advertisement to the call, not back). A local tool with the id of a hidden
  meta-tool is advertised and cannot be called (`SurfaceNames`). Where surfaced names clash, a curated call and
  `toolfunnel_run_tool` may run tools of different upstreams under one gate name. `AdvertisedRuns` compares a
  listing with a call at the same moment; a client's older listing is the subject of `NoStaleView`. `PolicyHolds` resolves a
  call's policy once: a rename or a switch thrown while it is at its gate does not reach it.

## Fairness

Weak fairness, for what Node and the code's timeouts guarantee: a pending timer
fires; a request sent to a child is answered, times out or fails with the
child (`McpClient` arms a timer per request); a settled batch is walked; a
hook settles, because `runHook`'s own timer resolves it whatever the child
does; sockets close; a handler and a link of the chain whose awaits settle goes on;
a process that has begun to edit the stores goes on unless it fails; the directory
event or the poll of a watcher comes. The client of `ViewConverges` re-fetches when it is told to.
`Recovers` adds, as `Curable`, strong fairness of success: an upstream tried
for ever starts, shakes hands and lists at last. `execute()` is assumed to
settle in `EveryCallAnswered` (it is an upstream request with a timeout, or a local
command with one). In `ElicitBridge` the clock advances, timers fire and
`PostDone` happens (`EveryCallAnswered` of the gate); upstream and caller owe
nothing. `EveryRequestAnswered` assumes that progress beats end at some time: each
re-arms the timeout, by design.

## Proofs

`UpstreamLifecycle_proofs` proves, for any upstreams, identities and attempt
cap, from the assumptions the module names and nothing else: `TypeOK`, `NoOrphan`,
`InFlightIntact`, `NoWedge`, `ClosedIsQuiet`, `ClosedIsFinal`,
`BackoffEscalates`, `NoStaleView`. The inductive invariant `IInv` adds to the properties:

- `BatchKeepsAccount`: while the batch runs, an upstream nobody looks after is
  still in the batch or among its failures. Without it the end of the batch
  could not establish `NoWedge`.
- `ConnectShape`: an attempt counts only while a connect it can await is in
  flight, and a connect of the batch has no timer beside it. Without it a
  rejected connect might leave an attempt that never resumes.
- `NothingLeft`: before the batch and after the latch the tables are empty.
  Without it a step after `closeAll` could pick something up.

One lemma per action; `RejectInv` and `SpawnInv` carry what several actions share.
The two action properties follow from `IInv` and the same case split. `NoStaleView` takes `ViewShape` beside
it: a client has listed only once the batch is over and no `reconnect()` is in flight, and was shown nothing that could not be listed.

`ToolCalls_proofs` proves `TypeOK`, `ReasonIsFirstBlocker`, `RunsOnlyAllowed`, `WorkersBusy`
and `Spec => ImplementsGate` of `ToolGate` for any hooks, calls, manifests and worker limit.
`IInv` says for each phase what the call's votes, workers and answer are.
`FirstIsLeast` shows that `First` of a non-empty finite set is its least
element, which gives the reason; `FirstCardinality` that `First` takes as many as there are workers, or all, which keeps
the pool full; the refinement maps a hook that has not settled to a vote asked for.

Of `ToolSurface` it proves `AdvertisedRuns` and `PolicyHolds`, for any tools, names, aliases, lists an upstream
answers with, and edits, from the assumptions on names the module states (`SurfaceNames`). The sequences of the code are
walked in order and the first match wins; the module states each walk as the least place that matches, so that no induction over
sequences is needed: `LeastOf` gives the least element of a non-empty set of numbers, `PlaceFacts` that of a set of places, and
`LeanFacts`, `ResolvedFacts`, `ExposedFacts` say what each walk finds. `SurfaceInv` is

- `SurfaceTypeOK`: among others, no id, row or upstream occurs twice, so that an id or a row that is found is the only one.
- `ServedOnly`: what is connected is enabled. Without it a call could be handed over to an upstream switched off under it.
- `WayShape`, `RunShape`: a call past its gate goes to a tool of the kind its way says, and its upstream is
  usable and connected while it runs there.

`AdvertisedFollows` and `PolicyFollows` derive the properties of the surface from this, one lemma per listing and per way
of a call (`MetaRuns`, `HotLocalRuns`, `CuratedRuns`, `HotUpstreamRuns`, `WrappedRuns`); the steps that edit
sequences rest on `AppendOnce` and `RemoveOnce`.

`ElicitBridge_proofs` proves, for any requests, questions, upstreams and
deadlines, `TypeOK`, `AnsweredOnce` and `HoldOutlivesToken`, and, for finitely many
calls, `BoundToAsker`, whatever an upstream asks and when. `IInv` adds

- `TokenShape`, `HolderShape`, `OneToken`: tokens and suspended calls correspond
  one to one, a token's question is open, and the timer of its request is behind
  the token's. Without them an expiry could answer a question again or a beat
  could shorten a hold.
- `QuestionShape`: the answers given follow from the last one.
- `PhaseShape`, `ClockShape`: raw forwards have no waiter, settled requests no timer.

`SettleInv`, `SuspendInv`, `AutoDeclineInv` and `SpendInv` carry what several
actions share; `OpenShape` and `AwaitShape` add what `SomebodyOnIt` needs; `SoleWaiterAsks` is the step from "one waiter" to "the asker, if it is counted".

`HttpRequests_proofs` proves `LosesOnlyTheseTwo`, `ServesOpenAggregator` and `StopLeavesNothing` of
`HostLifecycle`, `HttpTypeOK`, `CallsAccounted` and `AdmittedByItsSettings` of `HttpRequests`, and
`HttpSpec => Spec`, by which the three hold with requests in flight (`HostHoldsWithRequests`). `HostInv` says

- `NameShape`: aggregators are named in the order they are made, none before it is made is used.
- `HolderShape`: no two builds hold the same aggregator and none one that a reload is connecting, so that closing one closes no other's.
- `CallShape`: which calls may be suspended beside which, and what is set while they are.
- `OpenShape`: the aggregator of the host's build is open.

The one hypothesis is `Serialized`, which the code leaves to the embedder: no calls overlap
but reload with reload, `stop` with `start` and `stop` with `stop`. Edits, streams and requests come
at any time, and the host may be up or down. `HttpInv`
needs no hypothesis: a request is answered, counted as cancelled or still awaited (`RequestShape`), and
`cancels` is the number of those that `left`.

`McpClient_proofs` proves, for any numbers of requests, messages and chunks and any cap, `ReplyIsOwn`,
`GoneIsSettled`, `EraIsObserved` and `FramesSurvive`. `ClientInv` adds to them

- `HandshakeShape`, `ChildShape`: which request each phase awaits, and which child it is of.
- `EraShape`: the code that awaits the probe resumes with what the probe ended in, and decides no era before.
- `OwnShape`: every answer on its way, in a buffer or in a pipe, is of the child its request was sent to.

`FrameInv` is the invariant of the framing. It speaks of the `Stream` that the buffer and the stdout of the first child
are together, since a read only moves the border between them: `Framed` says what follows each chunk in it, `Started`
that it begins with a frame or within the body being skipped, `InOrder` that its messages are the last ones written,
in order, and `Accounted` that a message neither dispatched nor in it was refused or is a line that a header
swallowed. An empty stream then owes nothing but these.

`StdioLoop_proofs` proves, for any upstreams, edits of the wrap and bounds, `AnswersInTurn` and
`CancelNamesItsForward`, and `RefsMatchSubs` if `QuietRetarget`. `ChainInv` orders the links of the chain and what each
has replied; `WordInv` says no reply is out of turn or after its cancel; `WireInv` which forward is tracked,
under which number of which upstream; `SubsInv` counts the subscriptions. `NothingLeaks`, without `QuietRetarget`, says that
edits lose holds but never leak one.

`HookStore_proofs` proves `AnswersStand`, with its two exceptions, and `NoStrayKeys` for any hooks, tools, scripts, operations and faults.
`OpShape` says what each kind of operation has at each step, `Knows` that an operation that met no other has
read what the files still say, `Settled` that the overlay it is about to save differs from the one on disk by its
own row or switch alone, `Untold` that no earlier answer stands about what it is changing, and `Tidy` that without faults
the overlay is ahead of the manifest only by the row being removed.

`ConfigStores_proofs` proves `PolicyFollowsTool`, `TargetsExist` and `RefusalLeavesNoTrace` for any tools,
names, processes, operations and faults. `ConfInv` adds

- `Shaped`: what an operation is about, at which steps it may be, and what it has loaded by then.
- `Apart`, `Informed`: operations on the same file exclude each other while `apart` stands, and one that
  runs alone has read what the files still say.
- `Traceable`: an operation that may still be refused has changed nothing, or only the script its undo
  restores.
- `PolicyKept`: where the policy of each tool may be, under its old name or its new, at each step of a
  rename (`MayBe`, `Keys`, `Becoming`).
- `WrapKept`: the wrap is on an upstream that is served, unless the operation that ends this is about to lift it.

The proof of `PolicyKept` failed at first, rightly: the torn rename under "Stores" above broke `PolicyFollowsTool`
with four operations, one more than the run has, and the model now says so (`Stranded`).

### What the liveness properties rest on

Liveness itself is out of the prover's reach, which has neither fairness nor `ENABLED`. What is proved is the safety in it:
at every moment, whatever has happened, the thing that is due has happened or somebody is on the way who will do it. With
the fairness stated above, that somebody then does. TLC checked each of these formulas on the instances of the runs before it was proved;
each is a theorem (`NoStaleViewHolds` and so on) in the proof module of its component.

| Liveness | Core, proved | Who is on the way |
|---|---|---|
| `Recovers` | `NoWedge` | a timer, an attempt, a connect or the batch |
| `ViewConverges` | `NoStaleView` | a signal already sent, a retry that is due or awaited, a re-list |
| `EditsReachHost` | `EditsNotMissed` | the watcher's event or its debounce timer, or the aggregator built from the edit |
| `StreamsHear` | `NoStreamForgotten` | a reload that has swapped and not yet broadcast |
| `EveryCallAnswered` | `WorkersBusy` | `Cap` hooks run while any waits |
| `EveryQuestionAnswered`, `EveryRequestAnswered` of the bridge | `SomebodyOnIt` | a token with a TTL, the hooks of a question, the timer of an awaited request |
| `GatewayFollows` | `NothingMissed` | the watchers, or a reload that has read the manifest on disk |
| `EveryRequestAnswered` of the loop | `NobodySkipped` | the link under way, or one that waits on the chain |

`NobodySkipped` needs `FlagInv`: a reply is withheld only for a cancel that is on record. `EditsNotMissed` has hypotheses: the calls are
`Serialized`, no edit falls between a build and the arming of its watchers (`EditsAnytime`, see above), and `reload()`
is not called. The last is needed: a `reload()` that has built its aggregator from the file before an edit swaps it in after the
watcher has served that edit into the build it replaces, and the edit is lost until the next. `EditShape` says that the one
reload under way for the build that serves is its watcher's own, and is of what is on disk or has more to come.

Only model-checked, then, are the liveness properties as such, and the statements of `HostTornDown` and `HostChannel`, which are refuted.

## Plan

Left to model: one hook process under timer, output cap, error, close and abort, shown to end as
`ToolGate`'s `HookEnds` says; versions of a tool list whose refreshes overlap.

## Not modelled

- The browser code, formatting, argument parsing, printing: presentation.
- The logger, events and metrics: nothing reads them back.
- The child reaper and the installation of the auth package: operating-system behaviour.
- The environment lookups of config home, server config and requirements, made once.
- The cryptography and key fetching of the OAuth gate, the discovery document, health routes,
  the map of refusals to status codes, and header validation beyond refused or not.
- A tool's content: schemas, descriptions, arguments and results.
- Sampling and roots requests of upstreams, identity mirroring, the era memo of an earlier process.
