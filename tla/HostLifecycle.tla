---------------------------- MODULE HostLifecycle ----------------------------
(***************************************************************************)
(* Who owns the live Aggregator: start, stop and reload of the HTTP host   *)
(* (src/mcp/http-transport.js), the hot reload of expose.json both hosts   *)
(* run (reloadExpose and startConfigWatchers, src/mcp/server.js), and the  *)
(* resource subscriptions of the listen streams, which every new           *)
(* aggregator has to inherit.                                              *)
(*                                                                         *)
(* Each operation awaits Aggregator.connectAll in the middle.  It reads    *)
(* the configuration and the subscriptions before that await and swaps the *)
(* aggregator in after it; everything else happens in between.             *)
(***************************************************************************)
EXTENDS Integers, FiniteSets

CONSTANTS MaxBuilds,     \* bound: start and reload calls that build
          MaxEdits,      \* bound: edits of expose.json
          MaxStops,      \* bound: stop calls pending at once
          Broken,        \* versions of expose.json that do not parse
          Listeners,     \* clients that may hold a listen stream
          ListenersMax,  \* MODERN_LISTENERS_MAX, 64 in the code
          Calls,         \* which of start, stop, reload the embedder ever calls
          Overlapping,   \* <<c, d>>: it may call c while a d is pending
          EditsAnytime   \* FALSE: expose.json is only edited under a watch

ASSUME HostBounds == /\ MaxBuilds \in Nat /\ MaxEdits \in Nat
                     /\ MaxStops \in Nat /\ ListenersMax \in Nat
ASSUME HostSets == /\ Broken \subseteq 1..MaxEdits
                   /\ Overlapping \subseteq Calls \X Calls
                   /\ Calls \subseteq {"start", "stop", "reload"}
                   /\ EditsAnytime \in BOOLEAN

Aggs == 1..(MaxBuilds + MaxEdits)     \* each edit is reloaded once at most
None == 0

VARIABLES
  config,     \* the version of expose.json on disk
  made,       \* how many aggregators exist
  status,     \* "unborn", "connecting", "live" or "closed", per aggregator
  conf,       \* the version of expose.json an aggregator was built from
  refs,       \* _subscribedRefs of the one URI the streams agree on
  build,      \* the host's build, named after the aggregator it came with
  holder,     \* build.aggregator, per build
  started,    \* started and stopping of createHttpMcpServer
  stopping,
  server,     \* httpServer: the last start to create one
  sockets,    \* servers that listen
  watch,      \* configWatchersStop: the watcher set stop() will disarm
  armed,      \* watcher sets running, named after the start that armed them
  changed,    \* those whose fs.watch or poll has an edit to report
  timer,      \* those with exposeTimer pending
  starting,   \* start() calls awaiting connectAll
  reloading,  \* reload() calls awaiting it, named after their new build
  swapping,   \* reloadExpose calls awaiting it
  ending,     \* stop() calls awaiting the streams and the server to close
  listeners   \* open streams that agreed to the resource subscription

aggVars == <<made, status, conf, refs>>
buildVars == <<build, holder>>
hostVars == <<started, stopping, server, sockets>>
watchVars == <<watch, armed, changed, timer>>
opVars == <<starting, reloading, swapping, ending>>
vars == <<config, aggVars, buildVars, hostVars, watchVars, opVars, listeners>>

Swap == [next : Aggs, into : Aggs, by : Aggs]

(* The type invariant: builds, pending calls and watchers keep their types,
   and only a watcher set that is armed has an edit or a debounce pending.  *)
TypeOK ==
  /\ config \in 0..MaxEdits /\ made \in 0..(MaxBuilds + MaxEdits)
  /\ status \in [Aggs -> {"unborn", "connecting", "live", "closed"}]
  /\ conf \in [Aggs -> 0..MaxEdits]
  /\ refs \in [Aggs -> Nat]
  /\ build \in Aggs \cup {None} /\ holder \in [Aggs -> Aggs \cup {None}]
  /\ started \in BOOLEAN /\ stopping \in BOOLEAN
  /\ server \in Aggs \cup {None} /\ sockets \in SUBSET Aggs
  /\ watch \in Aggs \cup {None} /\ armed \in SUBSET Aggs
  /\ changed \in SUBSET armed /\ timer \in SUBSET armed
  /\ starting \in SUBSET Aggs /\ reloading \in SUBSET Aggs
  /\ swapping \in SUBSET Swap
  /\ ending \in 0..MaxStops
  /\ listeners \in SUBSET Listeners

Init ==
  /\ config = 0 /\ made = 0
  /\ status = [a \in Aggs |-> "unborn"]
  /\ conf = [a \in Aggs |-> 0]
  /\ refs = [a \in Aggs |-> 0]
  /\ build = None /\ holder = [a \in Aggs |-> None]
  /\ started = FALSE /\ stopping = FALSE
  /\ server = None /\ sockets = {}
  /\ watch = None /\ armed = {} /\ changed = {} /\ timer = {}
  /\ starting = {} /\ reloading = {} /\ swapping = {} /\ ending = 0
  /\ listeners = {}

-----------------------------------------------------------------------------
(* What the operations share.                                              *)

Idle == starting = {} /\ reloading = {} /\ ending = 0

Pending == {c \in Calls : \/ c = "start" /\ starting # {}
                          \/ c = "stop" /\ ending > 0
                          \/ c = "reload" /\ reloading # {}}

May(call) == call \in Calls /\ \A d \in Pending : <<call, d>> \in Overlapping

CanBuild == Cardinality({b \in Aggs : holder[b] # None}) < MaxBuilds

(* build.aggregator, or None: build may have been dropped                  *)
Current == IF build = None THEN None ELSE holder[build]

(* The subscriptions a new aggregator starts with.                         *)
Carried == IF Current = None THEN 0 ELSE refs[Current]

(* new Aggregator over the configuration on disk, and its connectAll.  One *)
(* that does not parse makes loadExposeStore throw, in buildFactory or in  *)
(* reloadExpose, before anything is assigned: start and reload reject with *)
(* nothing changed, which is no step.                                      *)
Construct(a, r) ==
  /\ config \notin Broken
  /\ a \in Aggs /\ a = made + 1 /\ made' = a
  /\ status' = [status EXCEPT ![a] = "connecting"]
  /\ conf' = [conf EXCEPT ![a] = config]
  /\ refs' = [refs EXCEPT ![a] = r]

(* The status after connectAll of a settled and closeAll ran on old        *)
Settled(a) == [status EXCEPT ![a] = IF @ = "closed" THEN @ ELSE "live"]
Closing(tab, old) == [x \in Aggs |-> IF x = old THEN "closed" ELSE tab[x]]

-----------------------------------------------------------------------------
(* The HTTP host.                                                          *)

(* start: build, then connectAll; a running host just reports its URL.  A  *)
(* build that reload made while the host was down is overwritten.          *)
Start ==
  /\ May("start") /\ ~started /\ CanBuild
  /\ \E a \in Aggs : /\ Construct(a, 0)
                     /\ build' = a
                     /\ holder' = [holder EXCEPT ![a] = a]
                     /\ starting' = starting \cup {a}
  /\ UNCHANGED <<config, hostVars, watchVars, reloading, swapping, ending, listeners>>

(* ... its listen() succeeds: the watchers are armed.  A numeric host (the *)
(* default) is bound before any other callback of the event loop runs, so  *)
(* the end of connectAll and onListening are one step.                     *)
StartBinds(s) ==
  /\ s \in starting
  /\ starting' = starting \ {s}
  /\ status' = Settled(s)
  /\ server' = s /\ sockets' = sockets \cup {s}
  /\ started' = TRUE /\ stopping' = FALSE
  /\ watch' = s /\ armed' = armed \cup {s}
  /\ UNCHANGED <<config, made, conf, refs, buildVars, changed, timer, reloading,
                 swapping, ending, listeners>>

(* Mistake: the children connectAll spawned are left to the failed start.  *)
StartFailsQuietly(s) ==
  /\ s \in starting
  /\ starting' = starting \ {s}
  /\ status' = Settled(s)
  /\ server' = None /\ build' = None
  /\ UNCHANGED <<config, made, conf, refs, holder, started, stopping, sockets,
                 watchVars, reloading, swapping, ending, listeners>>

(* ... or the port is taken: the half-built state is dropped               *)
StartFails(s) ==
  /\ s \in starting
  /\ starting' = starting \ {s}
  /\ status' = Closing(Settled(s), Current)
  /\ server' = None /\ build' = None
  /\ UNCHANGED <<config, made, conf, refs, holder, started, stopping, sockets,
                 watchVars, reloading, swapping, ending, listeners>>

(* stop on a host that is down closes whatever build there is              *)
StopIdle ==
  /\ May("stop") /\ ~started /\ server = None /\ build # None
  /\ status' = Closing(status, Current)
  /\ build' = None
  /\ UNCHANGED <<config, made, conf, refs, holder, hostVars, watchVars, opVars, listeners>>

(* Mistake: the watcher set is forgotten, not stopped.                     *)
ForgetWatchers == watch' = None /\ UNCHANGED <<armed, changed, timer>>

(* configWatchersStop: watchers closed, pending debounces cleared          *)
Disarm ==
  /\ armed' = armed \ {watch} /\ changed' = changed \ {watch} /\ timer' = timer \ {watch}
  /\ watch' = None

(* What the cleanups of all open streams leave of a refcount.              *)
Released(n) == IF n < Cardinality(listeners) THEN 0 ELSE n - Cardinality(listeners)

(* stop on a host that is up: the watchers and the streams go first        *)
Stop ==
  /\ May("stop") /\ (started \/ server # None) /\ ending < MaxStops
  /\ stopping' = TRUE
  /\ Disarm
  /\ ending' = ending + 1
  /\ listeners' = {}
  /\ refs' = IF Current = None THEN refs ELSE [refs EXCEPT ![Current] = Released(@)]
  /\ UNCHANGED <<config, made, status, conf, buildVars, started, server, sockets,
                 starting, reloading, swapping>>

(* ... then the server, then the aggregator                                *)
StopDone ==
  /\ ending > 0
  /\ ending' = ending - 1
  /\ sockets' = sockets \ {server} /\ server' = None
  /\ status' = Closing(status, Current) /\ build' = None
  /\ started' = FALSE /\ stopping' = FALSE
  /\ listeners' = {}
  /\ UNCHANGED <<config, made, conf, refs, holder, watchVars, starting, reloading,
                 swapping>>

(* Mistake: the live aggregator is closed before the next has connected.   *)
ReloadClosesFirst ==
  /\ May("reload") /\ CanBuild /\ config \notin Broken
  /\ made + 1 \in Aggs /\ made' = made + 1
  /\ status' = [Closing(status, Current) EXCEPT ![made + 1] = "connecting"]
  /\ conf' = [conf EXCEPT ![made + 1] = config]
  /\ refs' = [refs EXCEPT ![made + 1] = Carried]
  /\ holder' = [holder EXCEPT ![made + 1] = made + 1]
  /\ reloading' = reloading \cup {made + 1}
  /\ UNCHANGED <<config, build, hostVars, watchVars, starting, swapping, ending, listeners>>

(* reload: a new build beside the live one, if there is one: it does not   *)
(* ask whether the host is up ...                                          *)
Reload ==
  /\ May("reload") /\ CanBuild
  /\ \E a \in Aggs : /\ Construct(a, Carried)
                     /\ holder' = [holder EXCEPT ![a] = a]
                     /\ reloading' = reloading \cup {a}
  /\ UNCHANGED <<config, build, hostVars, watchVars, starting, swapping, ending, listeners>>

(* ... swapped in when it has connected, and the old aggregator closed     *)
ReloadDone(a) ==
  /\ a \in reloading
  /\ reloading' = reloading \ {a}
  /\ status' = Closing(Settled(a), Current)
  /\ build' = a
  /\ UNCHANGED <<config, made, conf, refs, holder, hostVars, watchVars, starting,
                 swapping, ending, listeners>>

-----------------------------------------------------------------------------
(* expose.json is edited by another process; watchers, debounce, reload.   *)

Edit ==
  /\ config < MaxEdits
  /\ EditsAnytime \/ armed # {}
  /\ config' = config + 1
  /\ changed' = armed
  /\ UNCHANGED <<aggVars, buildVars, hostVars, watch, armed, timer, opVars, listeners>>

(* fs.watch or the poll reports it: scheduleExpose                         *)
Notice(w) ==
  /\ w \in changed
  /\ changed' = changed \ {w}
  /\ timer' = timer \cup {w}
  /\ UNCHANGED <<config, aggVars, buildVars, hostVars, watch, armed, opVars, listeners>>

Busy(w) == \E op \in swapping : op.by = w       \* reloadingExpose

(* Mistake: a reload in flight swallows the one that is due.               *)
FiresInto(w) ==
  /\ w \in timer /\ build # None
  /\ timer' = timer \ {w}
  /\ IF Busy(w)
       THEN UNCHANGED <<made, status, conf, refs, swapping>>
       ELSE \E a \in Aggs : /\ Construct(a, Carried)
                            /\ swapping' = swapping \cup {[next |-> a, into |-> build, by |-> w]}
  /\ UNCHANGED <<config, buildVars, hostVars, watch, armed, changed, starting,
                 reloading, ending, listeners>>

(* The debounce ends.  A reload in flight re-arms it, which is no step     *)
(* here; the next aggregator is for the build of this moment.              *)
Fires(w) ==
  /\ w \in timer /\ ~Busy(w)
  /\ build # None
  /\ timer' = timer \ {w}
  /\ \E a \in Aggs : /\ Construct(a, Carried)
                     /\ swapping' = swapping \cup {[next |-> a, into |-> build, by |-> w]}
  /\ UNCHANGED <<config, buildVars, hostVars, watch, armed, changed, starting,
                 reloading, ending, listeners>>

(* ... unless there is no build, or expose.json does not parse: last good  *)
FiresInVain(w) ==
  /\ w \in timer /\ ~Busy(w)
  /\ build = None \/ config \in Broken
  /\ timer' = timer \ {w}
  /\ UNCHANGED <<config, aggVars, buildVars, hostVars, watch, armed, changed, opVars,
                 listeners>>

(* reloadExpose resumes: swap into the build it was given, close the old   *)
SwapDone(op) ==
  /\ op \in swapping
  /\ swapping' = swapping \ {op}
  /\ holder' = [holder EXCEPT ![op.into] = op.next]
  /\ status' = Closing(Settled(op.next), holder[op.into])
  /\ UNCHANGED <<config, made, conf, refs, build, hostVars, watchVars, starting,
                 reloading, ending, listeners>>

-----------------------------------------------------------------------------
(* Listen streams that agree to a resource subscription.                   *)

(* openListenStream -> subscribeResources                                  *)
Listen(l) ==
  /\ sockets # {} /\ Current # None
  /\ l \notin listeners /\ Cardinality(listeners) < ListenersMax
  /\ listeners' = listeners \cup {l}
  /\ refs' = [refs EXCEPT ![Current] = @ + 1]
  /\ UNCHANGED <<config, made, status, conf, buildVars, hostVars, watchVars, opVars>>

(* its cleanup -> releaseResources                                         *)
Unlisten(l) ==
  /\ l \in listeners
  /\ listeners' = listeners \ {l}
  /\ refs' = IF Current = None \/ Carried = 0 THEN refs
                                              ELSE [refs EXCEPT ![Current] = @ - 1]
  /\ UNCHANGED <<config, made, status, conf, buildVars, hostVars, watchVars, opVars>>

Watched(w) == Notice(w) \/ Fires(w) \/ FiresInVain(w)

Next ==
  \/ Start \/ StopIdle \/ Stop \/ StopDone \/ Reload \/ Edit
  \/ \E a \in Aggs : StartBinds(a) \/ StartFails(a) \/ ReloadDone(a) \/ Watched(a)
  \/ \E op \in swapping : SwapDone(op)
  \/ \E l \in Listeners : Listen(l) \/ Unlisten(l)

Spec == Init /\ [][Next]_vars

(* connectAll settles (UpstreamLifecycle: every connect does), sockets     *)
(* close, polls and timers fire.                                           *)
Fairness ==
  /\ WF_vars(StopDone)
  /\ \A a \in Aggs : /\ WF_vars(StartBinds(a) \/ StartFails(a))
                     /\ WF_vars(ReloadDone(a))
                     /\ WF_vars(Notice(a)) /\ WF_vars(Fires(a) \/ FiresInVain(a))
  /\ WF_vars(\E op \in swapping : SwapDone(op))

FairSpec == Spec /\ Fairness

-----------------------------------------------------------------------------
(* Properties.                                                             *)

Up == started /\ ~stopping /\ build # None
Open(a) == status[a] \in {"connecting", "live"}

(* An aggregator that was told to connect and not to close is one the host *)
(* can still reach: its build's, or the one of an operation in flight.     *)
(* Anything else keeps its children until the process dies.                *)
Held(a) == \/ a = Current
           \/ a \in starting \cup reloading
           \/ \E op \in swapping : op.next = a
Lost(a) == Open(a) /\ ~Held(a)

(* However starts, stops, reloads, edits and streams interleave, only two  *)
(* steps ever lose an aggregator: the end of a watcher's reload whose      *)
(* build is no longer the host's (reloadExpose), and a start() over the    *)
(* build that a reload() left on a host that is down.                      *)
TornDownSwap(a) == \E op \in swapping \ swapping' : op.next = a /\ op.into # build
StartOver(a) == ~started /\ a = Current /\ starting = {} /\ starting' # {}
LosesOnlyTheseTwo ==
  [][\A a \in Aggs : ~Lost(a) /\ Lost(a)' => TornDownSwap(a) \/ StartOver(a)]_vars

(* Swap before close: requests never meet an aggregator already closed,    *)
(* whichever reloads overlap and whoever stops the host (reload,           *)
(* reloadExpose, "there is never a window with no upstreams").             *)
ServesOpenAggregator == Up => Open(Current)

(* When the last stop() that is pending has ended, nothing is left of the  *)
(* host that was up: no socket, no watcher, no stream, and every aggregator *)
(* it held is closed, but one a watcher's reload has yet to swap in.       *)
StopLeavesNothing ==
  [][ending > 0 /\ ending' = 0 =>
       /\ sockets' = {} /\ armed' = {} /\ listeners' = {} /\ build' = None
       /\ \A a \in Aggs : Held(a) /\ Open(a)' => \E op \in swapping : op.next = a]_vars

(* http-transport.js:1500: without the refcounts carried over, "the first  *)
(* listener to close unsubscribed upstream and killed the channel for      *)
(* every other listener still holding that URI".  So only the end of the   *)
(* last stream takes the count of the aggregator that serves to nothing.   *)
OnlyLastUnsubscribes ==
  [][Up /\ Up' /\ Current' = Current /\ refs[Current] > 0 /\ refs'[Current] = 0 =>
       listeners' = {}]_vars

(* Whoever keeps the host up ends up served from the last expose.json that *)
(* parses.                                                                 *)
EditsReachHost == []<>(~Up \/ config \in Broken \/ conf[Current] = config)

(* server.js:2399: "a build torn down DURING the async connectAll above"   *)
(* makes the swap a "no-op": the aggregator made for it does not stay open.*)
TornDownSwapIsNoOp ==
  [][\A op \in swapping :
       op \notin swapping' /\ op.into # build => status'[op.next] = "closed"]_vars

-----------------------------------------------------------------------------
(* The inductive invariant, for an embedder that overlaps no calls but     *)
(* these.                                                                  *)
Serialized ==
  Overlapping \subseteq {<<"reload", "reload">>, <<"stop", "start">>, <<"stop", "stop">>}

(* Numbers are given once.                                                 *)
NameShape ==
  /\ \A a \in Aggs : status[a] = "unborn" <=> a > made
  /\ \A a \in starting \cup reloading : a <= made
  /\ \A op \in swapping : op.next <= made
  /\ \A b \in Aggs : holder[b] <= made /\ (b > made => holder[b] = None)
  /\ build # None => holder[build] # None /\ build <= made

(* No two builds hold the same aggregator, and none one still connecting   *)
(* for a reload.                                                           *)
HolderShape ==
  /\ \A b, c \in Aggs : holder[b] = holder[c] /\ holder[b] # None => b = c
  /\ \A op \in swapping : /\ holder[op.into] # None /\ status[op.next] = "connecting"
                           /\ op.into \notin starting \cup reloading
                           /\ \A b \in Aggs : holder[b] # op.next
  /\ \A op, oq \in swapping : op.next = oq.next => op = oq
  /\ \A a \in reloading : holder[a] = a /\ a # build /\ status[a] = "connecting"

(* One start at most, on a host that is down; a reload on one that is up   *)
(* or down and stays so; a stop that has begun on a host with no watchers. *)
CallShape ==
  /\ starting # {} => "start" \in Calls /\ ~started /\ ending = 0
  /\ \A s \in starting :
       /\ starting = {s}
       /\ \/ build = None /\ status[s] = "closed"
          \/ build = s /\ holder[s] = s /\ status[s] = "connecting"
  /\ reloading # {} => "reload" \in Calls /\ starting = {} /\ ending = 0
  /\ ending > 0 => "stop" \in Calls
  /\ stopping <=> started /\ ending > 0
  /\ sockets = IF started THEN {server} ELSE {}
  /\ server = None <=> ~started
  /\ armed = IF started /\ ~stopping THEN {watch} ELSE {}
  /\ watch = None <=> armed = {}
  /\ ~started \/ build = None => listeners = {}

(* The aggregator of the build is open, and the streams can be counted.    *)
OpenShape == (build # None => Open(Current)) /\ IsFiniteSet(listeners)

HostInv == TypeOK /\ NameShape /\ HolderShape /\ CallShape /\ OpenShape

(* What EditsReachHost rests on at every moment, if no reload() is called: *)
(* the host serves the last expose.json that parses, or the watchers still *)
(* have the edit to report, or the aggregator built from it is connecting. *)
Overdue(w) == w \in changed \cup timer
EditsNotMissed ==
  Up => \/ conf[Current] = config \/ config \in Broken
        \/ Overdue(watch)
        \/ \E op \in swapping : op.into = build /\ conf[op.next] = config

(* The one reload under way for the build that serves is its watcher's own,*)
(* and of what is on disk, or more is to come.                             *)
EditShape ==
  /\ \A s \in starting : conf[s] = config
  /\ \A op, oq \in swapping : op.by = oq.by => op = oq
  /\ Up => /\ \A op \in swapping : op.into = build =>
                  op.by = watch /\ (conf[op.next] = config \/ Overdue(watch))
           /\ \/ conf[Current] = config \/ config \in Broken \/ Overdue(watch)
              \/ \E op \in swapping : op.into = build

=============================================================================
